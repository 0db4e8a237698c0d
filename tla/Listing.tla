------------------------------ MODULE Listing ------------------------------
(***************************************************************************)
(* What immich.h promises of a call that fetches something: all of it, in  *)
(* the server's order and with every string in place, or nothing.          *)
(***************************************************************************)
EXTENDS Naturals, Sequences

VARIABLES
  calling,  \* a call is under way
  wanted,   \* the records the server has for it, numbered in its order
  status,   \* "none", or what the last call returned: "ok", "failed"
  result    \* the records the caller holds

vars == <<calling, wanted, status, result>>

(* s holds the records of S, each once, in the server's order              *)
InOrder(s, S) ==
  /\ \A i, j \in 1..Len(s) : i < j => s[i] < s[j]
  /\ {s[i] : i \in 1..Len(s)} = S

Init == /\ calling = FALSE /\ wanted = {}
        /\ status = "none" /\ result = <<>>

Call ==
  /\ ~calling /\ calling' = TRUE /\ wanted' \subseteq Nat
  /\ result = <<>> /\ result' = <<>> /\ status' = "none"

Return ==
  /\ calling /\ calling' = FALSE
  /\ \/ status' = "ok" /\ InOrder(result', wanted)
     \/ status' = "failed" /\ result' = <<>>
  /\ UNCHANGED wanted

Free ==
  /\ ~calling /\ result' = <<>>
  /\ UNCHANGED <<calling, wanted, status>>

Next == Call \/ Return \/ Free

Spec == Init /\ [][Next]_vars
==============================================================================
