------------------------ MODULE MCRandomAlbumPicture ------------------------
(* Small libraries and filters for the runs of RandomAlbumPicture.          *)
EXTENDS RandomAlbumPicture, TLC

CONSTANTS a1, a2, a3, fAll, fOne, fNone, fReversed

(* fOne passes only a1, fNone nothing; the years of fReversed are rejected  *)
MCFilters      == {fAll, fOne, fNone, fReversed}
MCValidFilters == MCFilters \ {fReversed}
AllOrOne       == {fAll, fOne}
MCPasses == [f \in Filters |-> IF f = fAll THEN Albums
                               ELSE IF f = fOne THEN {a1} ELSE {}]

Listing(withAssets, empty) ==
  [a \in withAssets \cup empty |-> IF a \in empty THEN 0 ELSE 2]

(* The library changes between two requests: an album appears or loses its  *)
(* pictures, or there is nothing at all                                     *)
ChangingLists == {Listing({a1, a2}, {}), Listing({a2}, {a1}), Listing({}, {})}

(* The library loses its pictures, and then its albums                      *)
DwindlingLists ==
  {Listing({a1, a2}, {}), Listing({}, {a1, a2}), Listing({}, {})}

AnyCounts == [a \in Albums |-> {0, 3}]

(* A library that stays as it is, all of it videos but for a1              *)
SteadyLists == {Listing(Albums, {})}
OneOfThree  == [a \in Albums |-> IF a = a1 THEN {3} ELSE {0}]

(* Threads of a kind do the same and are told apart by nothing              *)
ThreadSymmetry == Permutations(Getters) \cup Permutations(Setters)
==============================================================================
