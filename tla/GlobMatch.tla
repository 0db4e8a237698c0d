------------------------------ MODULE GlobMatch ------------------------------
(***************************************************************************)
(* The loop of glob_match() of album_filter.c: one step per turn. The      *)
(* pointers into the two strings are positions, the terminating NUL is the *)
(* position after the last character, and NULL is 0.                       *)
(***************************************************************************)
EXTENDS Globs

CONSTANTS Patterns, Names   (* the strings to try                          *)

ASSUME InputsAssumption ==
  Patterns \subseteq Seq(Chars) /\ Names \subseteq Seq(Chars)

VARIABLES
  pattern, name,   \* the arguments
  pat, str,        \* where they are read next
  star, retry,     \* the last '*' met, and where str resumes if we backtrack
  answer           \* "none" until the function returns

vars == <<pattern, name, pat, str, star, retry, answer>>

AtEnd(p) == p = Len(pattern) + 1

Init ==
  /\ pattern \in Patterns /\ name \in Names
  /\ pat = 1 /\ str = 1 /\ star = 0 /\ retry = 0
  /\ answer = "none"

(* A call with other arguments, for those who make more than one           *)
Call(p, n) ==
  /\ pattern' = p /\ name' = n
  /\ pat' = 1 /\ str' = 1 /\ star' = 0 /\ retry' = 0
  /\ answer' = "none"

InLoop == answer = "none" /\ str <= Len(name)

\* The pattern's character is there and matches the name's
Literal == ~AtEnd(pat) /\ Same(pattern[pat], name[str])
Star    == ~AtEnd(pat) /\ pattern[pat] = "*"

Advance ==
  /\ InLoop /\ Literal
  /\ pat' = pat + 1 /\ str' = str + 1
  /\ UNCHANGED <<pattern, name, star, retry, answer>>

(* Mutant of MeetStar: the star takes a character at once                  *)
MeetStarTaking ==
  /\ InLoop /\ ~Literal /\ Star
  /\ star' = pat /\ pat' = pat + 1 /\ retry' = str + 1
  /\ UNCHANGED <<pattern, name, str, answer>>

MeetStar ==
  /\ InLoop /\ ~Literal /\ Star
  /\ star' = pat /\ pat' = pat + 1 /\ retry' = str
  /\ UNCHANGED <<pattern, name, str, answer>>

(* Mutant of Backtrack: resumes where the mismatch was                     *)
BacktrackTooFar ==
  /\ InLoop /\ ~Literal /\ ~Star /\ star # 0
  /\ pat' = star + 1 /\ str' = str + 1
  /\ UNCHANGED <<pattern, name, star, retry, answer>>

(* Mutant of Backtrack: tries the same place again                         *)
BacktrackInPlace ==
  /\ InLoop /\ ~Literal /\ ~Star /\ star # 0
  /\ pat' = star + 1 /\ str' = retry
  /\ UNCHANGED <<pattern, name, star, retry, answer>>

(* The last '*' absorbs one more character                                 *)
Backtrack ==
  /\ InLoop /\ ~Literal /\ ~Star /\ star # 0
  /\ retry' = retry + 1
  /\ pat' = star + 1 /\ str' = retry'
  /\ UNCHANGED <<pattern, name, star, answer>>

Mismatch ==
  /\ InLoop /\ ~Literal /\ ~Star /\ star = 0
  /\ answer' = "differ"
  /\ UNCHANGED <<pattern, name, pat, str, star, retry>>

(* The name is used up. Trailing stars may match nothing at all.           *)
SkipStar ==
  /\ answer = "none" /\ str > Len(name) /\ Star
  /\ pat' = pat + 1
  /\ UNCHANGED <<pattern, name, str, star, retry, answer>>

(* Mutant of Finish: does not look at what is left of the pattern          *)
FinishEarly ==
  /\ answer = "none" /\ str > Len(name) /\ ~Star
  /\ answer' = "match"
  /\ UNCHANGED <<pattern, name, pat, str, star, retry>>

Finish ==
  /\ answer = "none" /\ str > Len(name) /\ ~Star
  /\ answer' = IF AtEnd(pat) THEN "match" ELSE "differ"
  /\ UNCHANGED <<pattern, name, pat, str, star, retry>>

Returned == answer # "none" /\ UNCHANGED vars

Turn ==
  Advance \/ MeetStar \/ Backtrack \/ Mismatch \/ SkipStar \/ Finish

Next == Turn \/ Returned

Spec == Init /\ [][Next]_vars

-------------------------------------------------------------------------------
(* The pointers stay inside their strings, and the place to resume at is   *)
(* one that was reached already, behind the star that resumes there.       *)
InBounds ==
  /\ pattern \in Seq(Chars) /\ name \in Seq(Chars)
  /\ pat \in 1..Len(pattern) + 1 /\ str \in 1..Len(name) + 1
  /\ answer \in {"none", "match", "differ"}
  /\ \/ star = 0 /\ retry = 0
     \/ /\ star \in 1..pat - 1 /\ pattern[star] = "*"
        /\ retry \in 1..str

(* A name that is let through does match the pattern: every '*' and every  *)
(* other character of the pattern has its part of the name.                *)
Sound == answer = "match" => Matches(pattern, name)

(* A name that is turned down does not match, although only the last star  *)
(* is ever tried again. (Names that hold a '*' are another matter.)        *)
Complete == answer = "differ" => ~Matches(pattern, name)

(* The loops end: every turn meets a later star, or resumes later behind   *)
(* the same star, or goes on in the name without resuming, or only in the  *)
(* pattern.                                                                *)
Progress ==
  [][\/ answer' # "none"
     \/ star' > star
     \/ star' = star /\ retry' > retry
     \/ star' = star /\ retry' = retry /\ str' > str
     \/ star' = star /\ retry' = retry /\ str' = str /\ pat' > pat]_vars
==============================================================================
