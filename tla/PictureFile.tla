----------------------------- MODULE PictureFile -----------------------------
(***************************************************************************)
(* What immich_fetch_picture_to_file() promises to whoever looks at the    *)
(* path it downloads to: the file there is replaced by a whole picture at  *)
(* one instant, or not at all.                                             *)
(***************************************************************************)
CONSTANTS Downloaders, Pictures, None

VARIABLES
  content,   \* the picture at the path, or None
  busy,      \* [downloader -> the picture it is downloading, or None]
  outcome    \* [downloader -> how its last call ended]

vars == <<content, busy, outcome>>

Init ==
  /\ content = None
  /\ busy = [d \in Downloaders |-> None]
  /\ outcome = [d \in Downloaders |-> "none"]

Begin(d, p) ==
  /\ busy[d] = None
  /\ busy' = [busy EXCEPT ![d] = p]
  /\ UNCHANGED <<content, outcome>>

Save(d) ==
  /\ busy[d] # None
  /\ content' = busy[d]
  /\ busy' = [busy EXCEPT ![d] = None]
  /\ outcome' = [outcome EXCEPT ![d] = "saved"]

(* It fails, or the process dies                                           *)
Abandon(d) ==
  /\ busy[d] # None
  /\ busy' = [busy EXCEPT ![d] = None]
  /\ \E o \in {"failed", "refused", "crashed"} :
       outcome' = [outcome EXCEPT ![d] = o]
  /\ UNCHANGED content

Next == \E d \in Downloaders :
          Save(d) \/ Abandon(d) \/ \E p \in Pictures : Begin(d, p)

Spec == Init /\ [][Next]_vars
==============================================================================
