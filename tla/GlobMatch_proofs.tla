--------------------------- MODULE GlobMatch_proofs ---------------------------
(***************************************************************************)
(* For every pattern and every name: the pointers of glob_match() stay in  *)
(* their strings, the loops end, and what it lets through does match. What *)
(* it turns down does not match, as long as no name holds a '*'.           *)
(***************************************************************************)
EXTENDS GlobMatch, TLAPS

(* What has been read of the pattern matches what has been read of the     *)
(* name; in front of the last star, it matches a part of what was read     *)
(* when that star was met.                                                 *)
PrefixInv ==
  /\ answer # "differ" =>
       /\ answer = "none" \/ pat = Len(pattern) + 1
       /\ answer = "none" \/ str = Len(name) + 1
       /\ MatchesUpTo(pattern, pat - 1, name, str - 1)
  /\ star # 0 =>
       \E m \in 0..retry - 1 : MatchesUpTo(pattern, star - 1, name, m)

-------------------------------------------------------------------------------
(* Nothing of a pattern matches nothing of a name.                         *)
LEMMA EmptyMatches ==
  ASSUME NEW p, NEW s
  PROVE  MatchesUpTo(p, 0, s, 0)
<1>1. [i \in 1..0 |-> 0] \in [1..0 -> 0..0]
  OBVIOUS
<1>2. \A i \in 1..0 : Aligned([j \in 1..0 |-> 0], p, s, i)
  OBVIOUS
<1>3. QED
  BY <1>1, <1>2 DEF MatchesUpTo

(* A match goes on over one more character of both.                        *)
LEMMA ExtendByCharacter ==
  ASSUME NEW p, NEW s, NEW n \in Nat, NEW m \in Nat,
         MatchesUpTo(p, n, s, m), Same(p[n + 1], s[m + 1])
  PROVE  MatchesUpTo(p, n + 1, s, m + 1)
<1>1. PICK f \in [1..n -> 0..m] :
        /\ \A i \in 1..n : Aligned(f, p, s, i)
        /\ m = IF n = 0 THEN 0 ELSE f[n]
  BY DEF MatchesUpTo
<1> DEFINE h == [i \in 1..n + 1 |-> IF i <= n THEN f[i] ELSE m + 1]
<1>2. h \in [1..n + 1 -> 0..m + 1] /\ h[n + 1] = m + 1
  OBVIOUS
<1>3. \A i \in 1..n + 1 : Before(h, i) = IF i <= n THEN Before(f, i) ELSE m
  BY <1>1 DEF Before
<1>4. \A i \in 1..n + 1 : Aligned(h, p, s, i)
  <2>1. ASSUME NEW i \in 1..n PROVE Aligned(h, p, s, i)
    BY <1>1, <1>3 DEF Aligned
  <2>2. Aligned(h, p, s, n + 1)
    BY <1>2, <1>3 DEF Aligned
  <2>3. QED
    BY <2>1, <2>2
<1>5. QED
  BY <1>2, <1>4 DEF MatchesUpTo

(* A match goes on over any number of stars, which take as much of the     *)
(* name as one likes.                                                      *)
LEMMA ExtendByStars ==
  ASSUME NEW p, NEW s, NEW n \in Nat, NEW m \in Nat,
         NEW q \in Nat, NEW l \in Nat, n <= q, m <= l, n = q => m = l,
         MatchesUpTo(p, n, s, m), \A i \in n + 1..q : p[i] = "*"
  PROVE  MatchesUpTo(p, q, s, l)
<1>1. PICK f \in [1..n -> 0..m] :
        /\ \A i \in 1..n : Aligned(f, p, s, i)
        /\ m = IF n = 0 THEN 0 ELSE f[n]
  BY DEF MatchesUpTo
<1> DEFINE h == [i \in 1..q |-> IF i <= n THEN f[i] ELSE l]
<1>2. h \in [1..q -> 0..l] /\ l = IF q = 0 THEN 0 ELSE h[q]
  BY <1>1
<1>3. \A i \in 1..q : Before(h, i) = IF i <= n THEN Before(f, i)
                                     ELSE IF i = n + 1 THEN m ELSE l
  BY <1>1 DEF Before
<1>4. \A i \in 1..q : Aligned(h, p, s, i)
  <2>1. ASSUME NEW i \in 1..n PROVE Aligned(h, p, s, i)
    <3>1. h[i] = f[i] /\ Before(h, i) = Before(f, i)
      BY <1>3
    <3>2. Aligned(f, p, s, i)
      BY <1>1
    <3>3. QED
      BY <3>1, <3>2 DEF Aligned
  <2>2. ASSUME NEW i \in n + 1..q PROVE Aligned(h, p, s, i)
    BY <1>3 DEF Aligned
  <2>3. QED
    BY <2>1, <2>2
<1>5. QED
  BY <1>2, <1>4 DEF MatchesUpTo

-------------------------------------------------------------------------------
(* No step reads or points outside the strings.                            *)
LEMMA BoundsStep ==
  ASSUME InBounds, [Next]_vars
  PROVE  InBounds'
<1> USE DEF InBounds, AtEnd, InLoop, Star
<1>1. CASE Advance
  BY <1>1 DEF Advance, Literal
<1>2. CASE MeetStar
  BY <1>2 DEF MeetStar
<1>3. CASE Backtrack
  <2>1. star \in 1..pat - 1 /\ pattern[star] = "*" /\ retry \in 1..str
    BY <1>3 DEF Backtrack
  <2>2. /\ pat' = star + 1 /\ retry' = retry + 1 /\ str' = retry + 1
        /\ UNCHANGED <<pattern, name, star, answer>>
    BY <1>3 DEF Backtrack
  <2>3. pat' \in 1..Len(pattern) + 1 /\ str' \in 1..Len(name) + 1
    BY <1>3, <2>1, <2>2 DEF Backtrack
  <2>4. star' \in 1..pat' - 1 /\ retry' \in 1..str'
    BY <2>1, <2>2
  <2>5. QED
    BY <2>1, <2>2, <2>3, <2>4
<1>4. CASE Mismatch
  BY <1>4 DEF Mismatch
<1>5. CASE SkipStar
  BY <1>5 DEF SkipStar
<1>6. CASE Finish
  BY <1>6 DEF Finish
<1>7. CASE Returned \/ UNCHANGED vars
  BY <1>7 DEF Returned, vars
<1>8. QED
  BY <1>1, <1>2, <1>3, <1>4, <1>5, <1>6, <1>7 DEF Next, Turn

(* glob_match() never reads outside the pattern or the name, and resumes   *)
(* only where it has been.                                                 *)
THEOREM BoundsCorrect == Spec => []InBounds
<1>1. Init => InBounds
  BY InputsAssumption DEF Init, InBounds, InputsAssumption
<1>2. QED
  BY <1>1, BoundsStep, PTL DEF Spec

(* Every turn of the loop makes progress, so the loop ends: there are only *)
(* so many stars, places to resume at and characters of the name.          *)
THEOREM ProgressCorrect == Spec => Progress
<1> DEFINE Onwards == \/ answer' # "none"
                      \/ star' > star
                      \/ star' = star /\ retry' > retry
                      \/ star' = star /\ retry' = retry /\ str' > str
                      \/ star' = star /\ retry' = retry /\ str' = str
                         /\ pat' > pat
<1>1. InBounds /\ [Next]_vars => [Onwards]_vars
  BY DEF InBounds, Next, Turn, Advance, MeetStar, Backtrack, Mismatch, SkipStar,
         Finish, Returned, InLoop
<1>2. QED
  BY <1>1, BoundsCorrect, PTL DEF Spec, Progress

-------------------------------------------------------------------------------
(* Every step keeps the read parts in agreement.                           *)
LEMMA PrefixStep ==
  ASSUME InBounds, PrefixInv, [Next]_vars
  PROVE  PrefixInv'
<1> USE DEF InBounds, PrefixInv, AtEnd, InLoop
<1>1. CASE Advance
  <2>1. MatchesUpTo(pattern, pat - 1 + 1, name, str - 1 + 1)
    BY <1>1, ExtendByCharacter DEF Advance, Literal
  <2>2. QED
    BY <1>1, <2>1 DEF Advance
<1>2. CASE MeetStar
  <2>1. MatchesUpTo(pattern, pat, name, str - 1)
    BY <1>2, ExtendByStars DEF MeetStar, Star
  <2>2. QED
    BY <1>2, <2>1 DEF MeetStar
<1>3. CASE Backtrack
  <2>1. PICK m \in 0..retry - 1 : MatchesUpTo(pattern, star - 1, name, m)
    BY <1>3 DEF Backtrack
  <2>2. star \in 1..pat - 1 /\ pattern[star] = "*" /\ retry \in 1..str
    BY <1>3 DEF Backtrack
  <2>3. MatchesUpTo(pattern, star, name, retry)
    BY <2>1, <2>2, ExtendByStars
  <2>4. /\ pat' = star + 1 /\ retry' = retry + 1 /\ str' = retry + 1
        /\ UNCHANGED <<pattern, name, star, answer>>
    BY <1>3 DEF Backtrack
  <2>5. pat' - 1 = star /\ str' - 1 = retry /\ m \in 0..retry' - 1
    BY <2>2, <2>4
  <2>6. answer = "none"
    BY <1>3 DEF Backtrack
  <2>7. QED
    BY <2>1, <2>3, <2>4, <2>5, <2>6
<1>4. CASE Mismatch
  BY <1>4 DEF Mismatch
<1>5. CASE SkipStar
  <2>1. MatchesUpTo(pattern, pat, name, str - 1)
    BY <1>5, ExtendByStars DEF SkipStar, Star
  <2>2. QED
    BY <1>5, <2>1 DEF SkipStar
<1>6. CASE Finish
  BY <1>6 DEF Finish
<1>7. CASE Returned \/ UNCHANGED vars
  BY <1>7 DEF Returned, vars
<1>8. QED
  BY <1>1, <1>2, <1>3, <1>4, <1>5, <1>6, <1>7 DEF Next, Turn

(* Whatever the pattern and the name, with a '*' in it or not, a name that *)
(* glob_match() lets through matches the pattern as documented.            *)
THEOREM SoundCorrect == Spec => []Sound
<1>1. Init => PrefixInv
  BY EmptyMatches DEF Init, PrefixInv
<1>2. InBounds /\ PrefixInv /\ [Next]_vars => PrefixInv'
  BY PrefixStep
<1>3. InBounds /\ PrefixInv => Sound
  BY DEF InBounds, PrefixInv, Sound, Matches
<1>4. QED
  BY <1>1, <1>2, <1>3, BoundsCorrect, PTL DEF Spec

-------------------------------------------------------------------------------
(* No name holds a '*', nor a character that tolower() makes one of        *)
NoStars == \A n \in Names : \A i \in 1..Len(n) : Lower[n[i]] # Lower["*"]

(* f aligns the whole pattern with the whole name                          *)
FullMatch(f) ==
  /\ f \in [1..Len(pattern) -> 0..Len(name)]
  /\ \A i \in 1..Len(pattern) : Aligned(f, pattern, name, i)
  /\ Len(name) = IF Len(pattern) = 0 THEN 0 ELSE f[Len(pattern)]

(* f gives what is read of the pattern no less of the name than was read   *)
(* for it, and the last star no less than it has absorbed: what was tried  *)
(* before, at this star and at those in front of it, rules out only what   *)
(* is no match. From the last star on, up to where the loop has got, there *)
(* are no others, so f puts the characters one behind the other.           *)
Beyond(f) ==
  /\ Before(f, pat) >= str - 1
  /\ star # 0 => f[star] >= retry - 1
  /\ str <= Len(name) =>
       Before(f, pat) = IF star = 0 THEN str - 1 ELSE f[star] + str - retry

BeyondInv ==
  /\ name \in Names
  /\ answer = "none" => \A f : FullMatch(f) => Beyond(f)
  /\ Complete

-------------------------------------------------------------------------------
(* An alignment goes on by one character where the pattern has no star,    *)
(* and by any number where it has one; behind the pattern it is through.   *)
LEMMA AlignmentGoesOn ==
  ASSUME InBounds, NEW f, FullMatch(f)
  PROVE  /\ Before(f, pat) \in 0..Len(name)
         /\ AtEnd(pat) => Before(f, pat) = Len(name)
         /\ ~AtEnd(pat) =>
              /\ f[pat] \in 0..Len(name) /\ Before(f, pat + 1) = f[pat]
              /\ Star => f[pat] >= Before(f, pat)
              /\ ~Star => /\ f[pat] = Before(f, pat) + 1
                          /\ Same(pattern[pat], name[f[pat]])
<1> USE DEF InBounds, FullMatch, AtEnd
<1>1. Before(f, pat) \in 0..Len(name)
  <2>1. pat # 1 => pat - 1 \in 1..Len(pattern)
    OBVIOUS
  <2>2. pat # 1 => f[pat - 1] \in 0..Len(name)
    BY <2>1
  <2>3. QED
    BY <2>2 DEF Before
<1>2. AtEnd(pat) => Before(f, pat) = Len(name)
  BY DEF Before
<1>3. ~AtEnd(pat) => pat \in 1..Len(pattern)
  OBVIOUS
<1>4. ASSUME pat \in 1..Len(pattern)
      PROVE  f[pat] \in 0..Len(name) /\ Before(f, pat + 1) = f[pat]
  BY <1>4 DEF Before
<1>5. ASSUME pat \in 1..Len(pattern)
      PROVE  /\ Star => f[pat] >= Before(f, pat)
             /\ ~Star => /\ f[pat] = Before(f, pat) + 1
                         /\ Same(pattern[pat], name[f[pat]])
  <2>1. Aligned(f, pattern, name, pat)
    BY <1>5
  <2>2. QED
    BY <2>1, <1>1, <1>4, <1>5 DEF Aligned, Star
<1>6. QED
  BY <1>1, <1>2, <1>3, <1>4, <1>5

(* Where the loop cannot go on, no alignment has exactly what was read of  *)
(* the name stand for what was read of the pattern.                        *)
LEMMA StuckIsBeyond ==
  ASSUME InBounds, InLoop, ~Literal, ~Star, NEW f, FullMatch(f)
  PROVE  Before(f, pat) # str - 1
<1> SUFFICES ASSUME Before(f, pat) = str - 1 PROVE FALSE
  OBVIOUS
<1>1. str \in 1..Len(name)
  BY DEF InBounds, InLoop
<1>2. CASE AtEnd(pat)
  BY <1>1, <1>2, AlignmentGoesOn
<1>3. CASE ~AtEnd(pat)
  <2>1. f[pat] = str
    BY <1>1, <1>3, AlignmentGoesOn
  <2>2. Same(pattern[pat], name[str])
    BY <2>1, <1>3, AlignmentGoesOn
  <2>3. QED
    BY <2>2, <1>3 DEF Literal
<1>4. QED
  BY <1>2, <1>3

(* Every step keeps all alignments of the two beyond what has been read,   *)
(* and turns a name down only where there are none.                        *)
LEMMA BeyondStep ==
  ASSUME NoStars, InBounds, BeyondInv, [Next]_vars
  PROVE  BeyondInv'
<1>1. InBounds'
  BY BoundsStep
<1>2. UNCHANGED <<pattern, name>> /\ name' \in Names
  BY DEF Next, Turn, Advance, MeetStar, Backtrack, Mismatch, SkipStar, Finish,
         Returned, vars, BeyondInv
<1>3. \A f : FullMatch(f)' <=> FullMatch(f)
  BY <1>2 DEF FullMatch
<1>4. ASSUME answer = "none", answer' = "none", NEW f, FullMatch(f), Next
      PROVE  Beyond(f)'
  <2>1. Beyond(f)
    BY <1>4 DEF BeyondInv
  <2> DEFINE b == Before(f, pat)
             t == f[star]
  <2>8. b \in Nat /\ (star # 0 => t \in Nat)
    <3>1. b \in Nat
      BY <1>4, AlignmentGoesOn
    <3>2. star # 0 => star \in 1..Len(pattern)
      BY DEF InBounds
    <3>3. QED
      BY <1>4, <3>1, <3>2 DEF FullMatch
  <2>9. /\ pat \in Nat /\ str \in Nat /\ star \in Nat /\ retry \in Nat
        /\ Len(name) \in Nat
    BY DEF InBounds
  <2>10. /\ b >= str - 1
         /\ star # 0 => t >= retry - 1
         /\ str <= Len(name) =>
              b = IF star = 0 THEN str - 1 ELSE t + str - retry
    BY <2>1 DEF Beyond
  <2>2. CASE Advance
    <3>1. ~Star
      BY <1>2, <2>2 DEF NoStars, Advance, InLoop, Literal, Star, Same, InBounds
    <3>2. f[pat] = Before(f, pat) + 1 /\ Before(f, pat + 1) = f[pat]
      BY <1>4, <2>2, <3>1, AlignmentGoesOn DEF Advance, Literal
    <3>3. /\ pat' = pat + 1 /\ str' = str + 1 /\ str <= Len(name)
          /\ UNCHANGED <<name, star, retry>>
      BY <2>2 DEF Advance, InLoop
    <3>4. Before(f, pat + 1) = b + 1
      BY <3>2
    <3>5. Before(f, pat') = b + 1 /\ f[star'] = t
      BY <3>3, <3>4
    <3> HIDE DEF b, t
    <3>6. /\ b + 1 >= str' - 1
          /\ star' # 0 => t >= retry' - 1
          /\ str' <= Len(name') =>
               b + 1 = IF star' = 0 THEN str' - 1 ELSE t + str' - retry'
      BY <2>8, <2>9, <2>10, <3>3
    <3>7. QED
      BY <3>5, <3>6, Zenon DEF Beyond
  <2>3. CASE MeetStar
    <3>1. f[pat] >= Before(f, pat) /\ Before(f, pat + 1) = f[pat]
      BY <1>4, <2>3, AlignmentGoesOn DEF MeetStar, Star
    <3>2. /\ pat' = pat + 1 /\ star' = pat /\ retry' = str /\ pat # 0
          /\ UNCHANGED <<name, str>>
      BY <2>3 DEF MeetStar, InBounds
    <3>3. f[pat] \in Nat
      BY <1>4, <2>3, AlignmentGoesOn DEF MeetStar, Star
    <3>4. QED
      BY <2>8, <2>9, <2>10, <3>1, <3>2, <3>3 DEF Beyond
  <2>4. CASE Backtrack
    <3>1. Before(f, pat) # str - 1
      BY <1>4, <2>4, StuckIsBeyond DEF Backtrack
    <3>2. f[star] >= retry
      BY <2>4, <2>8, <2>9, <2>10, <3>1 DEF Backtrack, InLoop
    <3>3. Before(f, star + 1) = f[star]
      <4>1. star # 0
        BY <2>4 DEF Backtrack
      <4>2. QED
        BY <2>9, <4>1 DEF Before
    <3>4. /\ pat' = star + 1 /\ retry' = retry + 1 /\ str' = retry + 1
          /\ UNCHANGED <<name, star>> /\ star # 0
      BY <2>4 DEF Backtrack
    <3>5. QED
      BY <2>8, <2>9, <3>2, <3>3, <3>4 DEF Beyond
  <2>5. CASE SkipStar
    <3>1. f[pat] >= Before(f, pat) /\ Before(f, pat + 1) = f[pat]
      BY <1>4, <2>5, AlignmentGoesOn DEF SkipStar, Star
    <3>2. /\ pat' = pat + 1 /\ str > Len(name)
          /\ UNCHANGED <<name, str, star, retry>>
      BY <2>5 DEF SkipStar
    <3>3. f[pat] \in Nat
      BY <1>4, <2>5, AlignmentGoesOn DEF SkipStar, Star
    <3>4. QED
      BY <2>8, <2>9, <2>10, <3>1, <3>2, <3>3 DEF Beyond
  <2>6. CASE Returned
    BY <1>4, <2>6 DEF Returned
  <2>7. QED
    BY <1>4, <2>2, <2>3, <2>4, <2>5, <2>6 DEF Next, Turn, Mismatch, Finish
<1>5. ASSUME answer = "none", answer' = "differ", NEW f, FullMatch(f), Next
      PROVE  FALSE
  <2>1. Beyond(f)
    BY <1>5 DEF BeyondInv
  <2>2. CASE Mismatch
    <3>1. Before(f, pat) # str - 1
      BY <1>5, <2>2, StuckIsBeyond DEF Mismatch
    <3>2. QED
      BY <2>1, <2>2, <3>1 DEF Beyond, Mismatch, InLoop
  <2>3. CASE Finish
    <3>1. ~AtEnd(pat) /\ ~Star
      BY <1>5, <2>3 DEF Finish
    <3>2. f[pat] = Before(f, pat) + 1 /\ f[pat] \in 0..Len(name)
      BY <1>5, <3>1, AlignmentGoesOn
    <3>3. Before(f, pat) \in Nat /\ Before(f, pat) >= Len(name)
      BY <1>5, <2>1, <2>3, AlignmentGoesOn DEF Beyond, Finish, InBounds
    <3>4. QED
      BY <3>2, <3>3
  <2>4. QED
    BY <1>5, <2>2, <2>3 DEF Next, Turn, Advance, MeetStar, Backtrack, SkipStar,
       Returned, InLoop
<1>6. answer = "none" /\ answer' = "differ" => ~Matches(pattern, name)
  BY <1>5 DEF Matches, MatchesUpTo, FullMatch, vars
<1>7. (answer = "none" => \A f : FullMatch(f) => Beyond(f))'
  <2>1. CASE answer = "none" /\ Next
    BY <1>3, <1>4, <2>1
  <2>2. CASE answer # "none" \/ UNCHANGED vars
    BY <2>2 DEF BeyondInv, Beyond, FullMatch, vars, Next, Turn, Advance, MeetStar,
       Backtrack, Mismatch, SkipStar, Finish, Returned, InLoop
  <2>3. QED
    BY <2>1, <2>2
<1>8. Complete'
  <2>1. CASE answer = "none" /\ Next
    BY <1>2, <1>6, <2>1 DEF Complete
  <2>2. CASE answer # "none" \/ UNCHANGED vars
    BY <1>2, <2>2 DEF BeyondInv, Complete, vars, Next, Turn, Advance, MeetStar,
       Backtrack, Mismatch, SkipStar, Finish, Returned, InLoop
  <2>3. QED
    BY <2>1, <2>2
<1>9. QED
  BY <1>2, <1>7, <1>8 DEF BeyondInv

(* A call starts with all three parts of the invariant.                    *)
LEMMA CallStarts ==
  ASSUME NEW p \in Seq(Chars), NEW n \in Seq(Chars), n \in Names, Call(p, n)
  PROVE  InBounds' /\ PrefixInv' /\ BeyondInv'
<1>1. InBounds'
  BY DEF Call, InBounds
<1>2. PrefixInv'
  <2>1. MatchesUpTo(p, 0, n, 0)
    BY EmptyMatches
  <2>2. QED
    BY <2>1 DEF Call, PrefixInv
<1>3. BeyondInv'
  <2>1. (\A f : FullMatch(f) => Beyond(f))'
    BY DEF Call, Beyond, Before
  <2>2. QED
    BY <2>1 DEF Call, BeyondInv, Complete
<1>4. QED
  BY <1>1, <1>2, <1>3

(* The loop answers as documented, unless a name holds a '*'.              *)
LEMMA AnswerIs ==
  ASSUME InBounds, PrefixInv, BeyondInv, answer # "none"
  PROVE  answer = "match" <=> Matches(pattern, name)
BY DEF InBounds, PrefixInv, BeyondInv, Complete, Matches

(* As long as album names hold no '*', a name that glob_match() turns down *)
(* does not match, for all patterns: it is enough to try the last star     *)
(* again. Together with Sound: the loop answers what immich.h documents.   *)
THEOREM CompleteCorrect == ASSUME NoStars PROVE Spec => []Complete
<1>1. Init => BeyondInv
  <2>1. ASSUME Init PROVE \A f : FullMatch(f) => Beyond(f)
    BY <2>1 DEF Init, Beyond, Before
  <2>2. QED
    BY <2>1 DEF Init, BeyondInv, Complete
<1>2. NoStars /\ InBounds /\ BeyondInv /\ [Next]_vars => BeyondInv'
  BY BeyondStep
<1>3. BeyondInv => Complete
  BY DEF BeyondInv
<1>4. QED
  BY NoStars, <1>1, <1>2, <1>3, BoundsCorrect, PTL DEF Spec
===============================================================================
