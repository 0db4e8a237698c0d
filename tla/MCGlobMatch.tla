----------------------------- MODULE MCGlobMatch -----------------------------
(* Short patterns and names over a small alphabet with one letter that      *)
(* changes its case.                                                        *)
EXTENDS GlobMatch, SequencesExt

MCChars == {"a", "b", "B", "*", "?"}
MCLower == [c \in MCChars |-> IF c = "B" THEN "b" ELSE c]

ShortPatterns == BoundedSeq({"a", "b", "*", "?"}, 4)
ShortNames    == BoundedSeq({"a", "B"}, 4)
StarryNames   == BoundedSeq({"a", "*"}, 3)
==============================================================================
