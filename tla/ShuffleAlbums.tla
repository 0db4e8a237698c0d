--------------------------- MODULE ShuffleAlbums ---------------------------
(***************************************************************************)
(* shuffle_albums() of random.c: Fisher and Yates' shuffle, after which    *)
(* the album that was just shown gives up the first place. The array is    *)
(* numbered from 1 here, and so are the draws.                             *)
(***************************************************************************)
EXTENDS Naturals

(* swap_size()                                                             *)
swap(order, i, j) == [order EXCEPT ![i] = order[j], ![j] = order[i]]

(* Mutant of Draws: never leaves an album where it is                      *)
DrawsBelow(n) == {d \in [2..n -> 1..n] : \A i \in 2..n : d[i] < i}

(* The numbers random_below() may return in the turns i = n, ..., 2        *)
Draws(n) == {d \in [2..n -> 1..n] : \A i \in 2..n : d[i] <= i}

(* The array of n albums after the turns n, ..., i + 1                     *)
Mixed(order, n, d) ==
  LET after[i \in 1..n] ==
        IF i = n THEN order ELSE swap(after[i + 1], i + 1, d[i + 1])
  IN  after[1]

shuffle_albums(order, n, d, last) ==
  IF n < 2 THEN order
  ELSE LET mixed == Mixed(order, n, d)
       IN  IF mixed[1] = last THEN swap(mixed, 1, 2) ELSE mixed
==============================================================================
