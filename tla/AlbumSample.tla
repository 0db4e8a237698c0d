----------------------------- MODULE AlbumSample -----------------------------
(***************************************************************************)
(* What sample_album() of random.c promises of one album: all or nothing.  *)
(* Either it hands over as many pictures as immich.h tells users of the    *)
(* two settings to expect, in the order of the album and all of them with  *)
(* usable IDs, or it fails and hands over none.                            *)
(***************************************************************************)
EXTENDS Integers, Sequences

CONSTANTS Sizes, max_pictures, percent

VARIABLES
  count,    \* pictures in the album
  invalid,  \* ...of those, the ones whose ID is not a UUID
  memory,   \* whether there is memory for the sample
  status,   \* "drawing", "done" or "failed"
  sample    \* the positions in the album of the pictures handed over

vars == <<count, invalid, memory, status, sample>>

(* s pictures come closest to the percentage of n, halves counted up       *)
Nearest(n, s) == 100 * s - 50 <= n * percent /\ n * percent < 100 * s + 50

(* The percentage, but at least one picture; and then the limit            *)
Share(n, s) == IF n > 0 /\ Nearest(n, 0) THEN s = 1 ELSE Nearest(n, s)
Size(n, s)  ==
  \E t \in 0..n :
    Share(n, t) /\ s = IF max_pictures \in 1..t THEN max_pictures ELSE t

(* In album order, no picture twice                                        *)
Increasing(s) == \A i, j \in DOMAIN s : i < j => s[i] < s[j]

Init ==
  /\ count \in Sizes /\ invalid \in SUBSET (1..count) /\ memory \in BOOLEAN
  /\ status = "drawing" /\ sample = <<>>

Draw ==
  /\ status = "drawing" /\ status' = "done"
  /\ \E s \in 0..count :
       Size(count, s) /\ sample' \in [1..s -> (1..count) \ invalid]
  /\ Increasing(sample')
  /\ UNCHANGED <<count, invalid, memory>>

(* Only an invalid ID or a lack of memory is a reason to fail, and neither *)
(* is met in an album without pictures                                     *)
GiveUp ==
  /\ status = "drawing" /\ status' = "failed"
  /\ invalid # {} \/ (count > 0 /\ ~memory)
  /\ UNCHANGED <<count, invalid, memory, sample>>

Next == Draw \/ GiveUp

Spec == Init /\ [][Next]_vars
==============================================================================
