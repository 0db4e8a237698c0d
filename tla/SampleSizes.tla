----------------------------- MODULE SampleSizes -----------------------------
(***************************************************************************)
(* How many of an album's pictures the sampler shows: sample_size() of     *)
(* random.c. Kept apart because both the sampler (RandomAlbumPicture) and  *)
(* the drawing of one sample (SelectionSampling) are built on it.          *)
(***************************************************************************)
EXTENDS Integers

(* max = 0 is "no limit"; pct is in 1..100 once the constructor has        *)
(* replaced 0 by 100. size_t arithmetic on n * pct wraps only beyond 2^57  *)
(* pictures, so the integers are unbounded here.                           *)
Rounded(n, pct) == (n * pct + 50) \div 100

(* Mutant of sample_size: a small share of a small album is no picture     *)
sample_size_or_none(n, max, pct) ==
  LET k == IF pct < 100 THEN Rounded(n, pct) ELSE n
  IN  IF max > 0 /\ k > max THEN max ELSE k

sample_size(n, max, pct) ==
  LET scaled == IF pct < 100 THEN Rounded(n, pct) ELSE n
      k == IF pct < 100 /\ scaled = 0 /\ n > 0 THEN 1 ELSE scaled
  IN  IF max > 0 /\ k > max THEN max ELSE k
==============================================================================
