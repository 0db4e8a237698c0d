----------------------------- MODULE AlbumFilter -----------------------------
(***************************************************************************)
(* immich_album_filter_match() of album_filter.c, and the tests that       *)
(* immich_random_album_picture_set_filter() of random.c makes of a filter  *)
(* before it accepts it. A filter is a record [name, exclude, from_year,   *)
(* to_year], an album a record [name, asset_count, start_date, end_date].  *)
(* Strings are sequences of characters, the empty one stands for NULL too. *)
(* matches_any() takes one piece of a list after the other to the loop of  *)
(* glob_match(), which is that of GlobMatch.                               *)
(***************************************************************************)
EXTENDS Globs, Integers

CONSTANTS
  MAX_PATTERN,   (* size of the buffer a pattern is copied to              *)
  Spaces,        (* the characters isspace() accepts                       *)
  Digits,        (* [characters "0" to "9" -> 0..9]                        *)
  Cases          (* the pairs of a filter and an album to decide on        *)

ASSUME FilterAssumption ==
  /\ MAX_PATTERN \in Nat \ {0}
  /\ Spaces \subseteq Chars /\ "," \notin Spaces /\ "," \in Chars
  /\ DOMAIN Digits \subseteq Chars /\ Digits \in [DOMAIN Digits -> 0..9]
  /\ Cases \subseteq
       [name : Seq(Chars), exclude : Seq(Chars), from_year : Nat,
        to_year : Nat] \X
       [name : Seq(Chars), asset_count : Int, start_date : Seq(Chars),
        end_date : Seq(Chars)]

(* Mutant of has_patterns: takes any text for a pattern                    *)
not_empty(list) == list # <<>>

has_patterns(list) == \E i \in DOMAIN list : list[i] \notin Spaces \cup {","}

(* The position of the first character at or after i that is in S, or of   *)
(* the terminating NUL                                                     *)
Find(list, i, S) ==
  CHOOSE j \in i..Len(list) + 1 :
    /\ j <= Len(list) => list[j] \in S
    /\ \A h \in i..j - 1 : list[h] \notin S

(* The piece between begin and end, without the spaces around it           *)
Trimmed(list, begin, end) ==
  LET text  == {i \in begin..end - 1 : list[i] \notin Spaces}
      First == CHOOSE i \in text : \A j \in text : i <= j
      Final == CHOOSE i \in text : \A j \in text : j <= i
  IN  IF text = {} THEN <<>> ELSE SubSeq(list, First, Final)

Usable(piece) == piece # <<>> /\ Len(piece) < MAX_PATTERN

iso_year(iso) ==
  IF Len(iso) >= 4 /\ \A i \in 1..4 : iso[i] \in DOMAIN Digits
  THEN 1000 * Digits[iso[1]] + 100 * Digits[iso[2]] + 10 * Digits[iso[3]]
       + Digits[iso[4]]
  ELSE 0

(* Mutant of InRange: asks for the whole span to be in the range           *)
WithinRange(f, first, last) ==
  /\ f.from_year # 0 => first >= f.from_year
  /\ f.to_year # 0 => last <= f.to_year

InRange(f, first, last) ==
  /\ f.from_year # 0 => last >= f.from_year
  /\ f.to_year # 0 => first <= f.to_year

YearsPass(f, a) ==
  LET start == iso_year(a.start_date)
      end   == iso_year(a.end_date)
      first == IF start = 0 THEN end ELSE start
      last  == IF end = 0 THEN start ELSE end
  IN  \/ f.from_year = 0 /\ f.to_year = 0
      \/ first # 0 /\ InRange(f, first, last)

(* set_filter() does not reject the filter                                 *)
Accepted(f) ==
  /\ f.from_year <= 9999 /\ f.to_year <= 9999
  /\ f.from_year # 0 /\ f.to_year # 0 => f.from_year <= f.to_year

-------------------------------------------------------------------------------
VARIABLES
  filter, album,   \* the arguments of immich_album_filter_match()
  pc,              \* "called", "pieces" in the loop of matches_any(), "glob"
                   \* while that waits for glob_match(), "returned"
  arg,             \* "name" or "exclude": the list that matches_any() is given
  at,              \* where it reads that list next
  keep,            \* what the call returned
  pattern, name, pat, str, star, retry, answer  \* of glob_match()

globVars == <<pattern, name, pat, str, star, retry, answer>>
vars     == <<filter, album, pc, arg, at, keep, globVars>>

Glob == INSTANCE GlobMatch
          WITH Patterns <- {<<>>}, Names <- {c[2].name : c \in Cases}

List == filter[arg]

Search(list) == pc' = "pieces" /\ arg' = list /\ at' = 1 /\ UNCHANGED keep
Return(b)    == pc' = "returned" /\ keep' = b /\ UNCHANGED <<arg, at>>

Init ==
  /\ \E c \in Cases : filter = c[1] /\ album = c[2]
  /\ pc = "called" /\ arg = "name" /\ at = 1 /\ keep = FALSE
  /\ pattern = <<>> /\ name = <<>> /\ pat = 1 /\ str = 1
  /\ star = 0 /\ retry = 0 /\ answer = "none"

(* An album without assets never passes                                    *)
NoAssets ==
  /\ pc = "called" /\ album.asset_count <= 0
  /\ Return(FALSE)
  /\ UNCHANGED <<filter, album, globVars>>

(* No patterns in the first list: everything passes it                     *)
TestName ==
  /\ pc = "called" /\ album.asset_count > 0
  /\ Search(IF has_patterns(filter.name) THEN "name" ELSE "exclude")
  /\ UNCHANGED <<filter, album, globVars>>

(* Mutant of NextPiece: does not step over commas. It stays on the first   *)
(* one for ever.                                                           *)
NextPieceAtComma ==
  /\ pc = "pieces" /\ at <= Len(List)
  /\ LET end   == Find(List, at, {","})
         piece == Trimmed(List, at, end)
     IN  /\ at' = end
         /\ \/ Usable(piece) /\ pc' = "glob" /\ Glob!Call(piece, album.name)
            \/ ~Usable(piece) /\ UNCHANGED <<pc, globVars>>
  /\ UNCHANGED <<filter, album, arg, keep>>

(* A turn of the loop of matches_any(), up to the call of glob_match()      *)
NextPiece ==
  /\ pc = "pieces" /\ at <= Len(List)
  /\ LET begin == Find(List, at, Chars \ {","})
         end   == Find(List, begin, {","})
         piece == Trimmed(List, begin, end)
     IN  /\ at' = end
         /\ \/ Usable(piece) /\ pc' = "glob" /\ Glob!Call(piece, album.name)
            \/ ~Usable(piece) /\ UNCHANGED <<pc, globVars>>
  /\ UNCHANGED <<filter, album, arg, keep>>

GlobTurn ==
  /\ pc = "glob" /\ Glob!Turn
  /\ UNCHANGED <<filter, album, pc, arg, at, keep>>

(* The piece does not match: on with the next                              *)
Differs ==
  /\ pc = "glob" /\ answer = "differ"
  /\ pc' = "pieces"
  /\ UNCHANGED <<filter, album, arg, at, keep, globVars>>

(* One match is enough: to pass the first list, or to be dropped           *)
Matched ==
  /\ pc = "glob" /\ answer = "match"
  /\ IF arg = "name" THEN Search("exclude") ELSE Return(FALSE)
  /\ UNCHANGED <<filter, album, globVars>>

(* No piece has matched                                                    *)
EndOfList ==
  /\ pc = "pieces" /\ at > Len(List)
  /\ Return(arg = "exclude" /\ YearsPass(filter, album))
  /\ UNCHANGED <<filter, album, globVars>>

Done == pc = "returned" /\ UNCHANGED vars

Next ==
  \/ NoAssets \/ TestName \/ NextPiece \/ GlobTurn
  \/ Differs \/ Matched \/ EndOfList \/ Done

Spec == Init /\ [][Next]_vars

(* Nothing keeps the thread from going on                                  *)
FairSpec == Spec /\ WF_vars(Next)

-------------------------------------------------------------------------------
(* The pieces between commas, trimmed, without the empty ones               *)
PatternsOf(list) ==
  LET cut == {0, Len(list) + 1} \cup {i \in DOMAIN list : list[i] = ","}
      cutFrom(b) == CHOOSE e \in cut : b < e /\ \A d \in cut : b < d => e <= d
  IN  {Trimmed(list, b + 1, cutFrom(b)) : b \in cut \ {Len(list) + 1}} \ {<<>>}

(* A filter's names decide as documented, for any mixture of commas, blanks *)
(* and patterns: no patterns keep everything, otherwise one of them has to  *)
(* match, none of exclude may, and a pattern that does not fit the buffer   *)
(* matches nothing rather than something else. An album without assets      *)
(* never passes.                                                            *)
NamesDecide ==
  pc = "returned" /\ filter.from_year = 0 /\ filter.to_year = 0 =>
    LET OneOf(list) == \E p \in PatternsOf(list) :
                          Len(p) < MAX_PATTERN /\ Matches(p, album.name)
    IN  keep <=> /\ album.asset_count > 0
                 /\ PatternsOf(filter.name) = {} \/ OneOf(filter.name)
                 /\ ~OneOf(filter.exclude)

(* The years decide by overlap: an album that an accepted filter with a     *)
(* bound lets through has some year of its span, from one date to the other *)
(* or the one year that is known, inside the range; and where there are no  *)
(* names to look at, every such album with assets is let through. An album  *)
(* without dates never passes.                                              *)
YearsOverlap ==
  LET start == iso_year(album.start_date)
      end   == iso_year(album.end_date)
      known == {start, end} \ {0}
      overlap == \E k, l \in known : \E y \in k..l :
                    /\ filter.from_year = 0 \/ filter.from_year <= y
                    /\ filter.to_year = 0 \/ y <= filter.to_year
  IN  /\ pc = "returned" /\ Accepted(filter)
      /\ filter.from_year # 0 \/ filter.to_year # 0
      /\ start # 0 /\ end # 0 => start <= end
      => /\ keep => overlap
         /\ /\ overlap /\ album.asset_count > 0
            /\ PatternsOf(filter.name) = {} /\ PatternsOf(filter.exclude) = {}
            => keep

(* However the commas, blanks and stars lie, the call returns: no piece is  *)
(* read twice, and glob_match() always gets on.                             *)
Returns == <>(pc = "returned")
=============================================================================
