-------------------------------- MODULE Globs --------------------------------
(***************************************************************************)
(* Strings are sequences of characters. Same is how glob_match() compares  *)
(* two of them. The rest is no code but what GlobMatch, which has its      *)
(* loop, is measured by: what it means that a pattern matches a name, as   *)
(* immich.h explains it to users of an album filter: against the whole     *)
(* name, case-insensitively, '*' for any run of characters and '?' for     *)
(* exactly one.                                                            *)
(***************************************************************************)
EXTENDS Naturals, Sequences

CONSTANTS
  Chars,   (* the characters, "*" and "?" among them                       *)
  Lower    (* [Chars -> Chars]: tolower()                                  *)

ASSUME CharsAssumption ==
  /\ {"*", "?"} \subseteq Chars
  /\ Lower \in [Chars -> Chars]

Same(c, d) == c = "?" \/ Lower[c] = Lower[d]

(* f says how many characters of str the first i of pat stand for          *)
Before(f, i) == IF i = 1 THEN 0 ELSE f[i - 1]

Aligned(f, pat, str, i) ==
  IF pat[i] = "*" THEN Before(f, i) <= f[i]
  ELSE /\ f[i] = Before(f, i) + 1
       /\ Same(pat[i], str[f[i]])

(* The first n characters of pat match the first m of str                  *)
MatchesUpTo(pat, n, str, m) ==
  \E f \in [1..n -> 0..m] :
    /\ \A i \in 1..n : Aligned(f, pat, str, i)
    /\ m = IF n = 0 THEN 0 ELSE f[n]

Matches(pat, str) == MatchesUpTo(pat, Len(pat), str, Len(str))
==============================================================================
