----------------------------- MODULE FetchPicture -----------------------------
(***************************************************************************)
(* Downloading a picture (fetch.c, with perform() and fd_write_cb() of     *)
(* client.c): to a file, by way of "<path>.part", or to a sealed memfd.    *)
(*                                                                         *)
(* All downloaders use the same path and, as the library asks, a client    *)
(* each; they are processes of their own, so that one may die alone. A     *)
(* step is one system call. A body is a sequence of blocks, a block what   *)
(* one write() takes; the loop of fd_write_cb() and curl's calls of it     *)
(* make one sequence of writes. Signals interrupt a write without effect.  *)
(* Invalid arguments return before anything has happened.                  *)
(***************************************************************************)
EXTENDS Naturals, Sequences

CONSTANTS
  Downloaders, Pictures,
  Length,       (* [picture -> the blocks of its body]                     *)
  Inodes,       (* enough of them for every file that is linked or open    *)
  None,         (* no file                                                 *)
  Faults,       (* what may go wrong: "network", "disk"                    *)
  MaxCrashes    (* bound on the crashes                                    *)

ASSUME FetchAssumption ==
  /\ None \notin Inodes \cup Pictures
  /\ "partial" \notin Pictures \cup {None}
  /\ Length \in [Pictures -> Nat \ {0}]
  /\ Faults \subseteq {"network", "disk"} /\ MaxCrashes \in Nat

VARIABLES
  \* The file system: the two names, the contents of files, and the memfds
  \* that are sealed
  path, part, data, sealed,
  \* The downloaders: the call each is in, and what it owns
  pc,
  call,      \* [downloader -> its last call: the picture, the kind, the file
             \* it writes to and its offset there, and whether ret is 0]
  open,      \* [downloader -> the files its process has open]
  handed,    \* [downloader -> the call whose memfd the caller has, if any]
  outcome,   \* [downloader -> how its last download to a file ended]
  crashes

vars == <<path, part, data, sealed, pc, call, open, handed, outcome, crashes>>

Body(p) == [i \in 1..Length[p] |-> <<p, i>>]
Hole == <<"hole", 0>>

(* The contents s after a write of block b at offset o                     *)
Written(s, o, b) ==
  [i \in 1..(IF o < Len(s) THEN Len(s) ELSE o + 1) |->
     IF i = o + 1 THEN b ELSE IF i <= Len(s) THEN s[i] ELSE Hole]

Unused == {n \in Inodes : n # path /\ n # part
                          /\ \A d \in Downloaders : n \notin open[d]}

Goto(d, label) == pc' = [pc EXCEPT ![d] = label]

Ended(d, how) ==
  Goto(d, "idle") /\ outcome' = [outcome EXCEPT ![d] = how]

Init ==
  /\ path = None /\ part = None
  /\ data = [n \in Inodes |-> <<>>] /\ sealed = {}
  /\ pc = [d \in Downloaders |-> "idle"]
  /\ call \in [Downloaders -> [pic : Pictures, to : {"file"}, fd : {None},
                               off : {0}, ok : {TRUE}]]
  /\ open = [d \in Downloaders |-> {}]
  /\ handed = [d \in Downloaders |-> {}]
  /\ outcome = [d \in Downloaders |-> "none"] /\ crashes = 0

-------------------------------------------------------------------------------
(* A caller asks for picture p in a file, or in a memfd, one at a time     *)
Fetch(d, p, to) ==
  /\ pc[d] = "idle"
  /\ to = "memfd" => handed[d] = {}
  /\ call' = [call EXCEPT ![d] = [pic |-> p, to |-> to, fd |-> None,
                                  off |-> 0, ok |-> TRUE]]
  /\ Goto(d, IF to = "file" THEN "open" ELSE "create")
  /\ UNCHANGED <<path, part, data, sealed, open, handed, outcome, crashes>>

(* d has file n open for its call, empty                                   *)
Opened(d, n) ==
  /\ data' = [data EXCEPT ![n] = <<>>] /\ sealed' = sealed \ {n}
  /\ open' = [open EXCEPT ![d] = @ \cup {n}]
  /\ call' = [call EXCEPT ![d].fd = n]
  /\ Goto(d, "receive")

(* Mutant of OpenPart: an old file is opened as it is, without O_TRUNC     *)
OpenKeepsOld(d) ==
  /\ pc[d] = "open"
  /\ \/ /\ part # None
        /\ open' = [open EXCEPT ![d] = @ \cup {part}]
        /\ call' = [call EXCEPT ![d].fd = part]
        /\ Goto(d, "receive") /\ UNCHANGED <<data, sealed, part>>
     \/ /\ part = None
        /\ \E n \in Unused : Opened(d, n) /\ part' = n
  /\ UNCHANGED <<path, handed, outcome, crashes>>

(* open(tmp, O_CREAT | O_TRUNC) empties the file that has the name, if one *)
(* does, whoever else has it open                                          *)
OpenPart(d) ==
  /\ pc[d] = "open"
  /\ \E n \in IF part = None THEN Unused ELSE {part} :
       Opened(d, n) /\ part' = n
  /\ UNCHANGED <<path, handed, outcome, crashes>>

OpenFails(d) ==
  /\ pc[d] = "open" /\ "disk" \in Faults
  /\ Ended(d, "refused")
  /\ UNCHANGED <<path, part, data, sealed, call, open, handed, crashes>>

CreateMemfd(d) ==
  /\ pc[d] = "create"
  /\ \E n \in Unused : Opened(d, n)
  /\ UNCHANGED <<path, part, handed, outcome, crashes>>

CreateFails(d) ==
  /\ pc[d] = "create" /\ "disk" \in Faults
  /\ Goto(d, "idle")
  /\ UNCHANGED <<path, part, data, sealed, call, open, handed, outcome,
                 crashes>>

-------------------------------------------------------------------------------
(* immich_get_to_fd(): the body of a 2xx answer, block by block            *)
WriteBlock(d) ==
  LET c == call[d] IN
  /\ pc[d] = "receive" /\ c.off < Length[c.pic]
  /\ data' = [data EXCEPT ![c.fd] = Written(@, c.off, Body(c.pic)[c.off + 1])]
  /\ call' = [call EXCEPT ![d].off = @ + 1]
  /\ UNCHANGED <<path, part, sealed, pc, open, handed, outcome, crashes>>

Received(d) ==
  /\ pc[d] = "receive" /\ call[d].off = Length[call[d].pic]
  /\ Goto(d, IF call[d].to = "file" THEN "close" ELSE "seal")
  /\ UNCHANGED <<path, part, data, sealed, call, open, handed, outcome,
                 crashes>>

(* No connection, an error status, whose body is not written to fd, a      *)
(* transfer that breaks off, or a write that fails                         *)
ReceiveFails(d) ==
  /\ pc[d] = "receive" /\ Faults # {}
  /\ call' = [call EXCEPT ![d].ok = FALSE]
  /\ Goto(d, IF call[d].to = "file" THEN "close" ELSE "discard")
  /\ UNCHANGED <<path, part, data, sealed, open, handed, outcome, crashes>>

-------------------------------------------------------------------------------
(* The rest of immich_fetch_picture_to_file()                              *)

(* Mutant of ClosePart: the result of close() replaces the other one       *)
CloseForgives(d) ==
  /\ pc[d] = "close"
  /\ open' = [open EXCEPT ![d] = @ \ {call[d].fd}]
  /\ \/ Goto(d, "rename")
     \/ "disk" \in Faults /\ Goto(d, "unlink")
  /\ UNCHANGED <<path, part, data, sealed, call, handed, outcome, crashes>>

ClosePart(d) ==
  /\ pc[d] = "close"
  /\ open' = [open EXCEPT ![d] = @ \ {call[d].fd}]
  /\ \/ Goto(d, IF call[d].ok THEN "rename" ELSE "unlink")
     \/ "disk" \in Faults /\ Goto(d, "unlink")
  /\ UNCHANGED <<path, part, data, sealed, call, handed, outcome, crashes>>

RenamePart(d) ==
  /\ pc[d] = "rename" /\ part # None
  /\ path' = part /\ part' = None
  /\ Ended(d, "saved")
  /\ UNCHANGED <<data, sealed, call, open, handed, crashes>>

(* Mutant of RenameFails: returns at once                                  *)
RenameFailsLeavesPart(d) ==
  /\ pc[d] = "rename" /\ (part = None \/ "disk" \in Faults)
  /\ Ended(d, "failed")
  /\ UNCHANGED <<path, part, data, sealed, call, open, handed, crashes>>

(* Another downloader may have taken the file away                         *)
RenameFails(d) ==
  /\ pc[d] = "rename" /\ (part = None \/ "disk" \in Faults)
  /\ Goto(d, "unlink")
  /\ UNCHANGED <<path, part, data, sealed, call, open, handed, outcome,
                 crashes>>

UnlinkPart(d) ==
  /\ pc[d] = "unlink"
  /\ part' = None
  /\ Ended(d, "failed")
  /\ UNCHANGED <<path, data, sealed, call, open, handed, crashes>>

-------------------------------------------------------------------------------
(* The rest of immich_fetch_picture_to_fd()                                *)

Seal(d) ==
  /\ pc[d] = "seal"
  /\ sealed' = sealed \cup {call[d].fd} /\ Goto(d, "rewind")
  /\ UNCHANGED <<path, part, data, call, open, handed, outcome, crashes>>

(* Mutant of GiveUpMemfd: a failure to seal is only reported               *)
SealFailureIgnored(d) ==
  /\ pc[d] \in {"seal", "rewind"} /\ "disk" \in Faults
  /\ Goto(d, IF pc[d] = "seal" THEN "rewind" ELSE "discard")
  /\ UNCHANGED <<path, part, data, sealed, call, open, handed, outcome,
                 crashes>>

GiveUpMemfd(d) ==
  /\ pc[d] \in {"seal", "rewind"} /\ "disk" \in Faults
  /\ Goto(d, "discard")
  /\ UNCHANGED <<path, part, data, sealed, call, open, handed, outcome,
                 crashes>>

(* lseek(), and the descriptor is the caller's                             *)
HandOver(d) ==
  /\ pc[d] = "rewind"
  /\ call' = [call EXCEPT ![d].off = 0]
  /\ handed' = [handed EXCEPT ![d] = {call'[d]}]
  /\ Goto(d, "idle")
  /\ UNCHANGED <<path, part, data, sealed, open, outcome, crashes>>

(* Mutant of Discard: the fail: branch without close()                     *)
DiscardLeaks(d) ==
  /\ pc[d] = "discard"
  /\ Goto(d, "idle")
  /\ UNCHANGED <<path, part, data, sealed, call, open, handed, outcome,
                 crashes>>

Discard(d) ==
  /\ pc[d] = "discard"
  /\ open' = [open EXCEPT ![d] = @ \ {call[d].fd}] /\ Goto(d, "idle")
  /\ UNCHANGED <<path, part, data, sealed, call, handed, outcome, crashes>>

-------------------------------------------------------------------------------
(* The caller closes the memfd it was given                                *)
CallerCloses(d) ==
  /\ handed[d] # {}
  /\ open' = [open EXCEPT ![d] = @ \ {c.fd : c \in handed[d]}]
  /\ handed' = [handed EXCEPT ![d] = {}]
  /\ UNCHANGED <<path, part, data, sealed, pc, call, outcome, crashes>>

(* The process dies in the middle of a call, and is started again          *)
Crash(d) ==
  /\ pc[d] # "idle" /\ crashes < MaxCrashes
  /\ crashes' = crashes + 1
  /\ open' = [open EXCEPT ![d] = {}] /\ handed' = [handed EXCEPT ![d] = {}]
  /\ IF call[d].to = "file" THEN Ended(d, "crashed")
     ELSE Goto(d, "idle") /\ UNCHANGED outcome
  /\ UNCHANGED <<path, part, data, sealed, call>>

ToFile(d) ==
  \/ OpenPart(d) \/ OpenFails(d) \/ ClosePart(d) \/ RenamePart(d)
  \/ RenameFails(d) \/ UnlinkPart(d)

ToFd(d) ==
  \/ CreateMemfd(d) \/ CreateFails(d) \/ Seal(d) \/ GiveUpMemfd(d)
  \/ HandOver(d) \/ Discard(d)

Receive(d) == WriteBlock(d) \/ Received(d) \/ ReceiveFails(d)

Next == \E d \in Downloaders :
  \/ \E p \in Pictures, to \in {"file", "memfd"} : Fetch(d, p, to)
  \/ Receive(d) \/ ToFile(d) \/ ToFd(d) \/ CallerCloses(d) \/ Crash(d)

Spec == Init /\ [][Next]_vars

-------------------------------------------------------------------------------
(* The path never holds a part of a picture, nor a mixture of two. What a  *)
(* crash left in "<path>.part" does not get into the next picture.         *)
PathIsWhole == path # None => \E p \in Pictures : data[path] = Body(p)

(* The picture at the path, to whoever opens it                            *)
Shown ==
  IF path = None THEN None
  ELSE IF PathIsWhole THEN CHOOSE p \in Pictures : data[path] = Body(p)
  ELSE "partial"

(* A download replaces the picture at the path by the one it was asked for *)
(* when it returns 0, at one instant; a file that is shown is not written  *)
(* to, and a call that fails or dies leaves the path as it was.            *)
File == INSTANCE PictureFile WITH
  content <- Shown,
  busy <- [d \in Downloaders |->
             IF pc[d] # "idle" /\ call[d].to = "file" THEN call[d].pic
                                                      ELSE None]
ReplacesAtOnce == File!Spec

(* A call that fails after it began to download removes the partial file   *)
FailureRemovesPart ==
  \A d \in Downloaders :
    pc[d] = "idle" /\ outcome[d] = "failed" => part = None

(* A memfd is the caller's only when it holds the whole picture, can no    *)
(* longer change, and is at its beginning.                                 *)
HandedIsWhole ==
  \A d \in Downloaders : \A c \in handed[d] :
    c.fd \in sealed /\ data[c.fd] = Body(c.pic) /\ c.off = 0

(* Between calls a process has nothing open but the memfd it was given     *)
NothingLeftOpen ==
  \A d \in Downloaders :
    pc[d] = "idle" => open[d] = {c.fd : c \in handed[d]}
===============================================================================
