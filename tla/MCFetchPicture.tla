---------------------------- MODULE MCFetchPicture ----------------------------
(* A short picture and a longer one                                         *)
EXTENDS FetchPicture, TLC

CONSTANTS p1, p2
MCPictures == {p1, p2}
MCLength == [p \in MCPictures |-> IF p = p1 THEN 1 ELSE 2]
InodeSymmetry == Permutations(Inodes)
===============================================================================
