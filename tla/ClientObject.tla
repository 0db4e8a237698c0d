---------------------------- MODULE ClientObject ----------------------------
(***************************************************************************)
(* immich.c: the clients that several threads make and free, and the       *)
(* libcurl they share, which counts its users. Allocations of the library  *)
(* itself may fail; libcurl's own for the lists of headers do not.         *)
(***************************************************************************)
EXTENDS Integers, FiniteSets

CONSTANTS
  Owners,   (* threads, each with a client of its own                      *)
  Faults    (* what may go wrong: "memory", "network"                      *)

ASSUME ClientAssumption ==
  IsFiniteSet(Owners) /\ Faults \subseteq {"memory", "network"}

VARIABLES
  curl_refs,  \* curl_global_init() less curl_global_cleanup()
  stage,      \* [owner -> how far immich_client_new() or _free() has come]
  fields,     \* [owner -> members of its struct immich_client not NULL]
  blocks      \* <<owner, name>>: what is allocated

clientVars == <<curl_refs, stage, fields, blocks>>

Stages == {"none", "calloc", "members", "headers", "broken", "ready",
           "free", "cleanup"}
Handles == {"curl", "base_url"}
Lists   == {"headers", "json_headers"}

Blocks(o, names) == {o} \X names
GoOn(o, s, t) == stage[o] = s /\ stage' = [stage EXCEPT ![o] = t]

ClientInit ==
  /\ curl_refs = 0 /\ blocks = {}
  /\ stage = [o \in Owners |-> "none"] /\ fields = [o \in Owners |-> {}]

(* immich_client_new() begins; if curl_global_init() fails nothing changes *)
InitCurl(o) ==
  /\ GoOn(o, "none", "calloc") /\ curl_refs' = curl_refs + 1
  /\ UNCHANGED <<fields, blocks>>

Calloc(o) ==
  /\ GoOn(o, "calloc", "members")
  /\ blocks' = blocks \cup Blocks(o, {"struct"})
  /\ UNCHANGED <<curl_refs, fields>>

CallocFails(o) ==
  /\ GoOn(o, "calloc", "cleanup") /\ "memory" \in Faults
  /\ UNCHANGED <<curl_refs, fields, blocks>>

(* The handle, the URL and the header are all tried before any is tested   *)
Members(o) ==
  \E got \in SUBSET (Handles \cup {"key_hdr"}) :
    LET all == Handles \cup {"key_hdr"} \subseteq got IN
    /\ GoOn(o, "members", IF all THEN "headers" ELSE "broken")
    /\ all \/ "memory" \in Faults
    /\ blocks' = blocks \cup Blocks(o, got)
    /\ fields' = [fields EXCEPT ![o] = got \cap Handles]
    /\ UNCHANGED curl_refs

Headers(o) ==
  /\ GoOn(o, "headers", "ready")
  /\ blocks' = (blocks \cup Blocks(o, Lists)) \ Blocks(o, {"key_hdr"})
  /\ fields' = [fields EXCEPT ![o] = @ \cup Lists]
  /\ UNCHANGED curl_refs

(* Mutant of Discard: cleans up after curl_global_init() as the branch of  *)
(* calloc() does, and so does immich_client_free()                         *)
DiscardTwice(o) ==
  /\ GoOn(o, "broken", "free") /\ curl_refs' = curl_refs - 1
  /\ blocks' = blocks \ Blocks(o, {"key_hdr"})
  /\ UNCHANGED fields

(* The failure path, which calls immich_client_free() on what there is     *)
Discard(o) ==
  /\ GoOn(o, "broken", "free")
  /\ blocks' = blocks \ Blocks(o, {"key_hdr"})
  /\ UNCHANGED <<curl_refs, fields>>

(* The owner calls immich_client_free()                                    *)
Free(o) == GoOn(o, "ready", "free") /\ UNCHANGED <<curl_refs, fields, blocks>>

Release(o) ==
  /\ GoOn(o, "free", "cleanup")
  /\ blocks' = blocks \ Blocks(o, fields[o] \cup {"struct"})
  /\ fields' = [fields EXCEPT ![o] = {}]
  /\ UNCHANGED curl_refs

CleanupCurl(o) ==
  /\ GoOn(o, "cleanup", "none") /\ curl_refs' = curl_refs - 1
  /\ UNCHANGED <<fields, blocks>>

ClientStep(o) ==
  \/ InitCurl(o) \/ Calloc(o) \/ CallocFails(o) \/ Members(o) \/ Headers(o)
  \/ Discard(o) \/ Free(o) \/ Release(o) \/ CleanupCurl(o)

(* libcurl stays up as long as any thread has a handle of it, and comes    *)
(* down with the last client, whichever of the allocations failed.         *)
CurlOutlivesClients ==
  /\ \A o \in Owners : <<o, "curl">> \in blocks => curl_refs > 0
  /\ (\A o \in Owners : stage[o] = "none") => curl_refs = 0
==============================================================================
