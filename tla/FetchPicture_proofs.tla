------------------------- MODULE FetchPicture_proofs -------------------------
(***************************************************************************)
(* Proofs about FetchPicture.                                              *)
(*                                                                         *)
(* What is said of memfds and descriptors holds for any number of          *)
(* downloaders. What is said of the path holds when they take turns to     *)
(* save to it (OneSaver): the run fetch_same_path shows that it does not   *)
(* hold otherwise. A process that dies ends its turn.                      *)
(***************************************************************************)
EXTENDS FetchPicture, TLAPS

Labels == {"idle", "open", "create", "receive", "close", "rename", "unlink",
           "seal", "rewind", "discard"}
Blocks == {Hole} \cup (Pictures \X Nat)
Calls == [pic : Pictures, to : {"file", "memfd"}, fd : Inodes \cup {None},
          off : Nat, ok : BOOLEAN]

TypeOK ==
  /\ path \in Inodes \cup {None} /\ part \in Inodes \cup {None}
  /\ data \in [Inodes -> Seq(Blocks)] /\ sealed \subseteq Inodes
  /\ pc \in [Downloaders -> Labels]
  /\ call \in [Downloaders -> Calls]
  /\ open \in [Downloaders -> SUBSET Inodes]
  /\ handed \in [Downloaders -> SUBSET Calls]
  /\ outcome \in [Downloaders ->
                    {"none", "saved", "failed", "refused", "crashed"}]
  /\ crashes \in Nat

-------------------------------------------------------------------------------
(* What a downloader has open, and what it is at                           *)

(* The file of its call is open                                            *)
Holding(d) == pc[d] \in {"receive", "close", "seal", "rewind", "discard"}

(* It is in a call that saves to the path                                  *)
Saving(d) == pc[d] # "idle" /\ call[d].to = "file"

(* They take turns to save to the path                                     *)
OneSaver == \A d, e \in Downloaders : Saving(d) /\ Saving(e) => d = e

HandedFds(d) == {c.fd : c \in handed[d]}

(* Its memfd, the one it fills                                             *)
Filling(d) == IF Holding(d) /\ call[d].to = "memfd" THEN {call[d].fd} ELSE {}

(* Its memfds: the one it fills, and the one its caller has                *)
Private(d) == HandedFds(d) \cup Filling(d)

(* The first k blocks of picture p                                         *)
FirstBlocks(p, k) == [i \in 1..k |-> <<p, i>>]

(* A label belongs to one kind of call, a call begins at the beginning,    *)
(* and a caller has one memfd at a time                                    *)
KindInv == \A d \in Downloaders :
  /\ pc[d] \in {"open", "close", "rename", "unlink"} => call[d].to = "file"
  /\ pc[d] \in {"create", "seal", "rewind", "discard"} => call[d].to = "memfd"
  /\ pc[d] \in {"open", "create"} => call[d].off = 0 /\ call[d].ok
  /\ pc[d] # "idle" /\ call[d].to = "memfd" => handed[d] = {}

(* Open are the file of the call and the memfd of the caller, which differ *)
OpenInv == \A d \in Downloaders :
  /\ Holding(d) => call[d].fd \in Inodes /\ call[d].fd \notin HandedFds(d)
  /\ open[d] = HandedFds(d) \cup (IF Holding(d) THEN {call[d].fd} ELSE {})

(* Nobody else can reach a memfd                                           *)
PrivateInv == \A d \in Downloaders : \A n \in Private(d) :
  /\ n # path /\ n # part
  /\ \A e \in Downloaders \ {d} : n \notin open[e]

(* What has been written to a memfd so far                                 *)
FillInv == \A d \in Downloaders : call[d].to = "memfd" =>
  /\ pc[d] = "receive" =>
       data[call[d].fd] = FirstBlocks(call[d].pic, call[d].off)
  /\ pc[d] \in {"seal", "rewind"} => data[call[d].fd] = Body(call[d].pic)
  /\ pc[d] = "rewind" => call[d].fd \in sealed

(* What has been written to "<path>.part" so far, by whose turn it is      *)
PartInv == \A d \in Downloaders : call[d].to = "file" =>
  /\ pc[d] \in {"receive", "close", "rename"}
       => part = call[d].fd /\ part # None
  /\ pc[d] = "receive" =>
       call[d].ok /\ data[call[d].fd] = FirstBlocks(call[d].pic, call[d].off)
  /\ pc[d] = "close" /\ call[d].ok => data[call[d].fd] = Body(call[d].pic)
  /\ pc[d] = "rename" => data[call[d].fd] = Body(call[d].pic)

(* The path has a file of its own, whole                                   *)
PathInv == path # None => path # part /\ PathIsWhole

(* For any number of downloaders                                           *)
FdInv == TypeOK /\ KindInv /\ OpenInv /\ PrivateInv /\ FillInv /\ HandedIsWhole

(* For downloaders that take turns                                         *)
TurnInv == FdInv /\ PartInv /\ PathInv

(* After a failure there is no partial file until the next one is opened   *)
LeftInv == \A d \in Downloaders :
  outcome[d] = "failed"
    /\ ~(pc[d] \in {"receive", "close", "rename", "unlink"}
         /\ call[d].to = "file")
  => part = None
-------------------------------------------------------------------------------
(* Lemmas about contents                                                   *)

(* A function on 1..n with blocks for values is a sequence of blocks       *)
LEMMA BlockSequence ==
  ASSUME NEW n \in Nat, NEW s, s = [i \in 1..n |-> s[i]],
         \A i \in 1..n : s[i] \in Blocks
  PROVE  s \in Seq(Blocks) /\ Len(s) = n
  <1>1. s \in [1..n -> Blocks]
    OBVIOUS
  <1> QED
    BY <1>1

(* A write leaves a sequence of blocks                                     *)
LEMMA WrittenType ==
  ASSUME NEW s \in Seq(Blocks), NEW o \in Nat, NEW b \in Blocks
  PROVE  Written(s, o, b) \in Seq(Blocks)
  <1> DEFINE n == IF o < Len(s) THEN Len(s) ELSE o + 1
  <1> DEFINE w == Written(s, o, b)
  <1>1. n \in Nat
    OBVIOUS
  <1>2. w = [i \in 1..n |->
               IF i = o + 1 THEN b ELSE IF i <= Len(s) THEN s[i] ELSE Hole]
    BY DEF Written
  <1>3. \A i \in 1..n : w[i] \in Blocks
    BY <1>2 DEF Blocks
  <1>4. w = [i \in 1..n |-> w[i]]
    BY <1>2
  <1> QED
    BY <1>1, <1>3, <1>4, BlockSequence

(* The first blocks of a picture are a sequence of as many blocks          *)
LEMMA FirstBlocksType ==
  ASSUME NEW p \in Pictures, NEW k \in Nat
  PROVE  FirstBlocks(p, k) \in Seq(Blocks) /\ Len(FirstBlocks(p, k)) = k
  <1>1. \A i \in 1..k : FirstBlocks(p, k)[i] \in Blocks
    BY DEF FirstBlocks, Blocks
  <1>2. FirstBlocks(p, k) = [i \in 1..k |-> FirstBlocks(p, k)[i]]
    BY DEF FirstBlocks
  <1> QED
    BY <1>1, <1>2, BlockSequence

(* Writing the next block where the last ended gives one block more        *)
LEMMA NextBlock ==
  ASSUME NEW p \in Pictures, NEW k \in Nat, k < Length[p]
  PROVE  Written(FirstBlocks(p, k), k, Body(p)[k + 1]) = FirstBlocks(p, k + 1)
  <1> DEFINE s == FirstBlocks(p, k)
  <1>1. Len(s) = k
    BY FirstBlocksType
  <1>2. Length[p] \in Nat
    BY FetchAssumption
  <1>3. Body(p)[k + 1] = <<p, k + 1>>
    BY <1>2 DEF Body
  <1>4. \A i \in 1..(k + 1) : i # k + 1 => s[i] = <<p, i>> /\ i <= k
    BY DEF FirstBlocks
  <1> HIDE DEF s
  <1>5. Written(s, k, Body(p)[k + 1])
          = [i \in 1..(k + 1) |-> IF i = k + 1 THEN <<p, k + 1>> ELSE <<p, i>>]
    BY <1>1, <1>3, <1>4 DEF Written
  <1> QED
    BY <1>5 DEF s, FirstBlocks

(* All the blocks are the body; of none there is nothing                   *)
LEMMA AllBlocks ==
  ASSUME NEW p \in Pictures
  PROVE  /\ FirstBlocks(p, Length[p]) = Body(p)
         /\ FirstBlocks(p, 0) = <<>>
  BY FetchAssumption DEF FirstBlocks, Body

(* No two pictures have the same body                                      *)
LEMMA BodiesDiffer ==
  ASSUME NEW p \in Pictures, NEW q \in Pictures, Body(p) = Body(q)
  PROVE  p = q
  <1>1. Body(p)[1] = <<p, 1>> /\ Body(q)[1] = <<q, 1>>
    BY FetchAssumption DEF Body
  <1> QED
    BY <1>1

-------------------------------------------------------------------------------
(* A step leaves every variable with its type                              *)

(* Changing a field of a call makes a call                                 *)
LEMMA CallFields ==
  ASSUME NEW c \in Calls
  PROVE  /\ c.pic \in Pictures /\ c.to \in {"file", "memfd"}
         /\ c.fd \in Inodes \cup {None} /\ c.off \in Nat /\ c.ok \in BOOLEAN
         /\ \A n \in Inodes : [c EXCEPT !.fd = n] \in Calls
         /\ \A k \in Nat : [c EXCEPT !.off = k] \in Calls
         /\ [c EXCEPT !.ok = FALSE] \in Calls
  BY DEF Calls

(* The types of the variables that every system call changes               *)
LEMMA GotoType ==
  ASSUME TypeOK, NEW d \in Downloaders, NEW label \in Labels, Goto(d, label)
  PROVE  pc' \in [Downloaders -> Labels]
  BY DEF TypeOK, Goto

(* Every step keeps the types                                              *)
LEMMA TypeStep ==
  ASSUME TypeOK, OpenInv, [Next]_vars
  PROVE  TypeOK'
  <1> USE FetchAssumption
  <1>1. CASE UNCHANGED vars
    BY <1>1 DEF vars, TypeOK
  <1>2. ASSUME NEW d \in Downloaders, NEW p \in Pictures,
               NEW to \in {"file", "memfd"}, Fetch(d, p, to)
        PROVE  TypeOK'
    <2> DEFINE c == [pic |-> p, to |-> to, fd |-> None, off |-> 0, ok |-> TRUE]
    <2>1. c \in Calls
      BY DEF Calls
    <2>2. call' = [call EXCEPT ![d] = c]
      BY <1>2 DEF Fetch
    <2> HIDE DEF c
    <2>3. pc' \in [Downloaders -> Labels]
      BY <1>2, GotoType DEF Fetch, Labels
    <2>4. call' \in [Downloaders -> Calls]
      BY <2>1, <2>2 DEF TypeOK
    <2> QED
      BY <1>2, <2>3, <2>4 DEF Fetch, TypeOK
  <1>3. ASSUME NEW d \in Downloaders, NEW n \in Inodes, Opened(d, n)
        PROVE  /\ data' \in [Inodes -> Seq(Blocks)] /\ sealed' \subseteq Inodes
               /\ pc' \in [Downloaders -> Labels]
               /\ call' \in [Downloaders -> Calls]
               /\ open' \in [Downloaders -> SUBSET Inodes]
    <2>1. pc' \in [Downloaders -> Labels]
      BY <1>3, GotoType DEF Opened, Labels
    <2>2. call' \in [Downloaders -> Calls]
      BY <1>3, CallFields DEF Opened, TypeOK
    <2>3. data' \in [Inodes -> Seq(Blocks)]
      <3>1. <<>> \in Seq(Blocks)
        OBVIOUS
      <3> QED
        BY <1>3, <3>1 DEF Opened, TypeOK
    <2> QED
      BY <1>3, <2>1, <2>2, <2>3 DEF Opened, TypeOK
  <1>4. ASSUME NEW d \in Downloaders, OpenPart(d) \/ CreateMemfd(d)
        PROVE  TypeOK'
    <2>1. CASE OpenPart(d)
      <3>1. PICK n \in Inodes : Opened(d, n) /\ part' = n
        BY <2>1 DEF OpenPart, Unused, TypeOK
      <3> QED
        BY <1>3, <2>1, <3>1 DEF OpenPart, TypeOK
    <2>2. CASE CreateMemfd(d)
      <3>1. PICK n \in Inodes : Opened(d, n)
        BY <2>2 DEF CreateMemfd, Unused
      <3> QED
        BY <1>3, <2>2, <3>1 DEF CreateMemfd, TypeOK
    <2> QED
      BY <1>4, <2>1, <2>2
  <1>5. ASSUME NEW d \in Downloaders, WriteBlock(d)
        PROVE  TypeOK'
    <2> DEFINE b == Body(call[d].pic)[call[d].off + 1]
    <2>1. call[d] \in Calls /\ call[d].off < Length[call[d].pic]
      BY <1>5 DEF WriteBlock, TypeOK
    <2>2. b \in Blocks /\ call[d].off + 1 \in Nat
      <3>1. call[d].pic \in Pictures /\ call[d].off \in Nat
        BY <2>1, CallFields
      <3>2. call[d].off + 1 \in 1..Length[call[d].pic]
        BY <2>1, <3>1
      <3> QED
        BY <3>1, <3>2 DEF Body, Blocks
    <2>3. \A n \in Inodes : Written(data[n], call[d].off, b) \in Seq(Blocks)
      BY <2>1, <2>2, WrittenType, CallFields DEF TypeOK
    <2>4. data' = [data EXCEPT ![call[d].fd] = Written(@, call[d].off, b)]
      BY <1>5 DEF WriteBlock
    <2> HIDE DEF b
    <2>5. data' \in [Inodes -> Seq(Blocks)]
      BY <2>3, <2>4 DEF TypeOK
    <2>6. call' \in [Downloaders -> Calls]
      BY <1>5, <2>1, <2>2, CallFields DEF WriteBlock, TypeOK
    <2> QED
      BY <1>5, <2>5, <2>6 DEF WriteBlock, TypeOK
  <1>6. ASSUME NEW d \in Downloaders, ReceiveFails(d)
        PROVE  TypeOK'
    <2>1. call' \in [Downloaders -> Calls]
      BY <1>6, CallFields DEF ReceiveFails, TypeOK
    <2>2. pc' \in [Downloaders -> Labels]
      BY <1>6, GotoType DEF ReceiveFails, Labels
    <2> QED
      BY <1>6, <2>1, <2>2 DEF ReceiveFails, TypeOK
  <1>7. ASSUME NEW d \in Downloaders,
               Received(d) \/ OpenFails(d) \/ ClosePart(d) \/ RenameFails(d)
               \/ CreateFails(d) \/ Seal(d) \/ GiveUpMemfd(d) \/ Discard(d)
               \/ RenamePart(d) \/ UnlinkPart(d) \/ Crash(d) \/ CallerCloses(d)
        PROVE  TypeOK'
    <2>1. pc' \in [Downloaders -> Labels]
      BY <1>7, GotoType DEF Received, OpenFails, ClosePart, RenameFails,
         CreateFails, Seal, GiveUpMemfd, Discard, RenamePart, UnlinkPart,
         Crash, Ended, Labels, CallerCloses, TypeOK
    <2>2. Seal(d) => call[d].fd \in Inodes
      BY DEF Seal, OpenInv, Holding
    <2>3. CASE Seal(d)
      BY <2>1, <2>2, <2>3 DEF TypeOK, Seal
    <2>4. CASE ClosePart(d) \/ Discard(d) \/ CallerCloses(d)
      <3>1. open' \in [Downloaders -> SUBSET Inodes]
        BY <2>4 DEF TypeOK, ClosePart, Discard, CallerCloses
      <3>2. handed' \in [Downloaders -> SUBSET Calls]
        BY <2>4 DEF TypeOK, ClosePart, Discard, CallerCloses
      <3> QED
        BY <2>1, <2>4, <3>1, <3>2 DEF TypeOK, ClosePart, Discard, CallerCloses
    <2>5. CASE Crash(d)
      <3>1. open' \in [Downloaders -> SUBSET Inodes]
        BY <2>5 DEF TypeOK, Crash
      <3>2. handed' \in [Downloaders -> SUBSET Calls]
        BY <2>5 DEF TypeOK, Crash
      <3>3. outcome' \in [Downloaders ->
                           {"none", "saved", "failed", "refused", "crashed"}]
        BY <2>5 DEF TypeOK, Crash, Ended
      <3>4. crashes' \in Nat
        BY <2>5 DEF TypeOK, Crash
      <3> QED
        BY <2>1, <2>5, <3>1, <3>2, <3>3, <3>4 DEF TypeOK, Crash
    <2>6. CASE RenamePart(d) \/ UnlinkPart(d)
      BY <2>1, <2>6 DEF TypeOK, RenamePart, UnlinkPart, Ended
    <2>7. CASE Received(d) \/ OpenFails(d) \/ RenameFails(d) \/ CreateFails(d)
               \/ GiveUpMemfd(d)
      BY <2>1, <2>7 DEF TypeOK, Received, OpenFails, RenameFails, CreateFails,
         GiveUpMemfd, Ended
    <2> QED
      BY <1>7, <2>3, <2>4, <2>5, <2>6, <2>7
  <1>8. ASSUME NEW d \in Downloaders, HandOver(d)
        PROVE  TypeOK'
    <2>1. call' \in [Downloaders -> Calls]
      BY <1>8, CallFields DEF HandOver, TypeOK
    <2>2. pc' \in [Downloaders -> Labels]
      BY <1>8, GotoType DEF HandOver, Labels
    <2> QED
      BY <1>8, <2>1, <2>2 DEF HandOver, TypeOK
  <1> QED
    BY <1>1, <1>2, <1>4, <1>5, <1>6, <1>7, <1>8
    DEF Next, Receive, ToFile, ToFd

-------------------------------------------------------------------------------
(* What a step of downloader d does                                        *)

Step(d) ==
  \/ \E p \in Pictures, to \in {"file", "memfd"} : Fetch(d, p, to)
  \/ Receive(d) \/ ToFile(d) \/ ToFd(d) \/ CallerCloses(d) \/ Crash(d)

(* It leaves alone what belongs to the others                              *)
LEMMA OthersAlone ==
  ASSUME TypeOK, NEW d \in Downloaders, Step(d),
         NEW e \in Downloaders, e # d
  PROVE  /\ pc'[e] = pc[e] /\ call'[e] = call[e] /\ open'[e] = open[e]
         /\ handed'[e] = handed[e] /\ outcome'[e] = outcome[e]
  <1> USE DEF TypeOK, Goto
  <1>1. CASE \E p \in Pictures, to \in {"file", "memfd"} : Fetch(d, p, to)
    BY <1>1 DEF Fetch
  <1>2. CASE Receive(d)
    BY <1>2 DEF Receive, WriteBlock, Received, ReceiveFails
  <1>3. CASE ToFile(d)
    <2>1. CASE OpenPart(d)
      BY <2>1 DEF OpenPart, Opened
    <2> QED
      BY <1>3, <2>1 DEF ToFile, Ended, OpenFails, ClosePart, RenamePart,
         RenameFails, UnlinkPart
  <1>4. CASE ToFd(d)
    <2>1. CASE CreateMemfd(d)
      BY <2>1 DEF CreateMemfd, Opened
    <2> QED
      BY <1>4, <2>1 DEF ToFd, CreateFails, Seal, GiveUpMemfd, HandOver, Discard
  <1>5. CASE CallerCloses(d) \/ Crash(d)
    BY <1>5 DEF CallerCloses, Crash, Ended
  <1> QED
    BY <1>1, <1>2, <1>3, <1>4, <1>5 DEF Step

(* Labels, beginnings and the caller's memfd: no step breaks KindInv       *)
LEMMA KindStep ==
  ASSUME TypeOK, KindInv, NEW d \in Downloaders, Step(d)
  PROVE  KindInv'
  <1> DEFINE K(e) ==
        /\ pc[e] \in {"open", "close", "rename", "unlink"}
             => call[e].to = "file"
        /\ pc[e] \in {"create", "seal", "rewind", "discard"}
             => call[e].to = "memfd"
        /\ pc[e] \in {"open", "create"} => call[e].off = 0 /\ call[e].ok
        /\ pc[e] # "idle" /\ call[e].to = "memfd" => handed[e] = {}
  <1>1. ASSUME NEW e \in Downloaders, e # d
        PROVE  K(e)'
    BY <1>1, OthersAlone DEF KindInv
  <1>2. K(d)'
    <2> USE DEF TypeOK, KindInv, Goto
    <2>1. call[d].to \in {"file", "memfd"} /\ call[d] \in Calls
      BY CallFields
    <2>2. CASE \E p \in Pictures, to \in {"file", "memfd"} : Fetch(d, p, to)
      BY <2>2 DEF Fetch
    <2>3. CASE Receive(d)
      BY <2>1, <2>3 DEF Receive, WriteBlock, Received, ReceiveFails, Calls
    <2>4. CASE ToFile(d)
      <3>1. CASE OpenPart(d)
        BY <2>1, <3>1 DEF OpenPart, Opened, Calls
      <3> QED
        BY <2>1, <2>4, <3>1 DEF ToFile, Ended, OpenFails, ClosePart, RenamePart,
           RenameFails, UnlinkPart
    <2>5. CASE ToFd(d)
      <3>1. CASE CreateMemfd(d)
        <4>1. PICK n \in Inodes : call' = [call EXCEPT ![d].fd = n]
                                  /\ Goto(d, "receive") /\ handed' = handed
          BY <3>1 DEF CreateMemfd, Opened, Unused
        <4> QED
          BY <2>1, <3>1, <4>1 DEF CreateMemfd, Calls
      <3>2. CASE HandOver(d)
        BY <3>2 DEF HandOver
      <3> QED
        BY <2>1, <2>5, <3>1, <3>2 DEF ToFd, CreateFails, Seal, GiveUpMemfd,
           Discard
    <2>6. CASE CallerCloses(d) \/ Crash(d)
      BY <2>1, <2>6 DEF CallerCloses, Crash, Ended
    <2> QED
      BY <2>2, <2>3, <2>4, <2>5, <2>6 DEF Step
  <1> QED
    BY <1>1, <1>2 DEF KindInv

(* A step keeps open what a process has open for its call and its caller   *)
LEMMA OpenStep ==
  ASSUME TypeOK, KindInv, OpenInv, PrivateInv, NEW d \in Downloaders, Step(d)
  PROVE  OpenInv'
  <1> DEFINE O(e) ==
        /\ Holding(e) => call[e].fd \in Inodes /\ call[e].fd \notin HandedFds(e)
        /\ open[e] = HandedFds(e) \cup (IF Holding(e) THEN {call[e].fd} ELSE {})
  <1>1. ASSUME NEW e \in Downloaders, e # d
        PROVE  O(e)'
    BY <1>1, OthersAlone DEF OpenInv, Holding, HandedFds
  <1>2. O(d)'
    <2> USE DEF TypeOK, Goto
    <2>1. O(d) /\ call[d] \in Calls
      BY DEF OpenInv
    <2>2. CASE \E p \in Pictures, to \in {"file", "memfd"} : Fetch(d, p, to)
      BY <2>1, <2>2 DEF Fetch, Holding, HandedFds
    <2>3. CASE Receive(d)
      BY <2>1, <2>3 DEF Receive, WriteBlock, Received, ReceiveFails, Calls,
         Holding, HandedFds
    <2>4. ASSUME NEW n \in Inodes, Opened(d, n), n \notin HandedFds(d),
                 ~ Holding(d), UNCHANGED handed
          PROVE  O(d)'
      <3>1. call'[d].fd = n /\ pc'[d] = "receive"
        BY <2>1, <2>4 DEF Opened, Calls
      <3>2. open'[d] = HandedFds(d) \cup {n}
        BY <2>1, <2>4 DEF Opened
      <3> QED
        BY <2>4, <3>1, <3>2 DEF Holding, HandedFds
    <2>5. CASE ToFile(d)
      <3>1. CASE OpenPart(d)
        <4>1. PICK n \in Unused \cup ({part} \ {None}) : Opened(d, n)
          BY <3>1 DEF OpenPart
        <4>2. n \in Inodes /\ n \notin HandedFds(d)
          BY <2>1, <4>1 DEF Unused, PrivateInv, Private
        <4> QED
          BY <2>4, <3>1, <4>1, <4>2 DEF OpenPart, Holding
      <3>2. CASE ClosePart(d)
        BY <2>1, <3>2 DEF ClosePart, Holding, HandedFds
      <3> QED
        BY <2>1, <2>5, <3>1, <3>2 DEF ToFile, Ended, OpenFails, RenamePart,
           RenameFails, UnlinkPart, Holding, HandedFds
    <2>6. CASE ToFd(d)
      <3>1. CASE CreateMemfd(d)
        <4>1. PICK n \in Unused : Opened(d, n)
          BY <3>1 DEF CreateMemfd
        <4>2. n \in Inodes /\ n \notin HandedFds(d)
          BY <2>1, <4>1 DEF Unused
        <4> QED
          BY <2>4, <3>1, <4>1, <4>2 DEF CreateMemfd, Holding
      <3>2. CASE HandOver(d)
        <4>1. handed[d] = {} /\ open[d] = {call[d].fd}
          BY <2>1, <3>2 DEF HandOver, KindInv, Holding, HandedFds
        <4>2. handed'[d] = {call'[d]} /\ call'[d].fd = call[d].fd
          BY <2>1, <3>2 DEF HandOver, Calls
        <4>3. HandedFds(d)' = {call[d].fd}
          BY <4>2 DEF HandedFds
        <4>4. open'[d] = open[d] /\ pc'[d] = "idle"
          BY <3>2 DEF HandOver
        <4> QED
          BY <4>1, <4>3, <4>4 DEF Holding
      <3>3. CASE Discard(d)
        BY <2>1, <3>3 DEF Discard, Holding, HandedFds
      <3> QED
        BY <2>1, <2>6, <3>1, <3>2, <3>3 DEF ToFd, CreateFails, Seal,
           GiveUpMemfd, Holding, HandedFds
    <2>7. CASE CallerCloses(d)
      BY <2>1, <2>7 DEF CallerCloses, Holding, HandedFds
    <2>8. CASE Crash(d)
      BY <2>8 DEF Crash, Ended, Holding, HandedFds
    <2> QED
      BY <2>2, <2>3, <2>5, <2>6, <2>7, <2>8 DEF Step
  <1> QED
    BY <1>1, <1>2 DEF OpenInv

(* What a step may put where: the file that had the partial name comes to  *)
(* the path; a file that nobody has comes to the partial name, or becomes  *)
(* a memfd; and what it writes to is one of these, or the file of its call *)
LEMMA StepBounds ==
  ASSUME TypeOK, KindInv, OpenInv, NEW d \in Downloaders, Step(d)
  PROVE  /\ path' \in {path, part} \ {None} \/ path' = path
         /\ part' \in {part, None} \cup Unused
         /\ open'[d] \subseteq open[d] \cup {part} \cup Unused
         /\ \A n \in Private(d)' :
              \/ n \in Private(d)
              \/ n \in Unused /\ UNCHANGED <<path, part>>
         /\ \A n \in Inodes :
              n \notin Unused /\ n # part /\ (Holding(d) => n # call[d].fd)
              => data'[n] = data[n] /\ (n \in sealed => n \in sealed')
  <1> DEFINE P == \A n \in Private(d)' :
                    \/ n \in Private(d)
                    \/ n \in Unused /\ UNCHANGED <<path, part>>
  <1> DEFINE W == \A n \in Inodes :
        n \notin Unused /\ n # part /\ (Holding(d) => n # call[d].fd)
        => data'[n] = data[n] /\ (n \in sealed => n \in sealed')
  <1> DEFINE B == /\ path' \in {path, part} \ {None} \/ path' = path
                  /\ part' \in {part, None} \cup Unused
                  /\ open'[d] \subseteq open[d] \cup {part} \cup Unused
  <1> USE DEF TypeOK, Goto
  <1>0. call[d] \in Calls
    OBVIOUS
  <1>1. CASE \E p \in Pictures, to \in {"file", "memfd"} : Fetch(d, p, to)
    <2>1. P
      BY <1>1 DEF Fetch, Private, Filling, Holding, HandedFds
    <2> QED
      BY <1>1, <2>1 DEF Fetch
  <1>2. CASE Receive(d)
    <2>1. P
      BY <1>0, <1>2 DEF Receive, WriteBlock, Received, ReceiveFails, Calls,
         Private, Filling, Holding, HandedFds
    <2>2. W
      BY <1>2 DEF Receive, WriteBlock, Received, ReceiveFails, Holding
    <2>3. B
      BY <1>2 DEF Receive, WriteBlock, Received, ReceiveFails
    <2> QED
      BY <2>1, <2>2, <2>3
  <1>3. CASE OpenPart(d)
    <2>1. PICK n \in Unused \cup ({part} \ {None}) : Opened(d, n) /\ part' = n
      BY <1>3 DEF OpenPart
    <2>2. P
      <3>1. call'[d].to = "file" /\ handed' = handed
        BY <1>0, <1>3, <2>1 DEF OpenPart, Opened, KindInv, Calls
      <3> QED
        BY <3>1 DEF Private, Filling, HandedFds
    <2>3. W
      BY <2>1 DEF Opened
    <2>4. B
      BY <1>3, <2>1 DEF OpenPart, Opened
    <2> QED
      BY <2>2, <2>3, <2>4
  <1>4. CASE CreateMemfd(d)
    <2>1. PICK n \in Unused : Opened(d, n)
      BY <1>4 DEF CreateMemfd
    <2>2. P
      <3>1. call'[d].fd = n /\ handed' = handed /\ UNCHANGED <<path, part>>
        BY <1>0, <1>4, <2>1 DEF CreateMemfd, Opened, Calls
      <3> QED
        BY <2>1, <3>1 DEF Private, Filling, HandedFds
    <2>3. W
      BY <2>1 DEF Opened
    <2>4. B
      BY <1>4, <2>1 DEF CreateMemfd, Opened
    <2> QED
      BY <2>2, <2>3, <2>4
  <1>5. CASE HandOver(d)
    <2>1. P
      <3>1. handed'[d] = {call'[d]} /\ call'[d].fd = call[d].fd
            /\ pc'[d] = "idle" /\ pc[d] = "rewind"
        BY <1>0, <1>5 DEF HandOver, Calls
      <3>2. call[d].to = "memfd"
        BY <3>1 DEF KindInv
      <3> QED
        BY <3>1, <3>2 DEF Private, Filling, Holding, HandedFds
    <2> QED
      BY <1>5, <2>1 DEF HandOver
  <1>6. CASE OpenFails(d) \/ ClosePart(d) \/ RenamePart(d) \/ RenameFails(d)
             \/ UnlinkPart(d)
    <2>1. P
      BY <1>6 DEF KindInv, OpenFails, ClosePart, RenamePart, RenameFails,
         UnlinkPart, Ended, Private, Filling, Holding, HandedFds
    <2> QED
      BY <1>6, <2>1 DEF OpenFails, ClosePart, RenamePart, RenameFails,
         UnlinkPart, Ended
  <1>7. CASE CreateFails(d) \/ Seal(d) \/ GiveUpMemfd(d) \/ Discard(d)
    <2>1. P
      BY <1>7 DEF CreateFails, Seal, GiveUpMemfd, Discard, Private, Filling,
         Holding, HandedFds
    <2> QED
      BY <1>7, <2>1 DEF CreateFails, Seal, GiveUpMemfd, Discard
  <1>8. CASE CallerCloses(d) \/ Crash(d)
    <2>1. P
      BY <1>8 DEF CallerCloses, Crash, Ended, Private, Filling, Holding,
         HandedFds
    <2> QED
      BY <1>8, <2>1 DEF CallerCloses, Crash, Ended
  <1> QED
    BY <1>1, <1>2, <1>3, <1>4, <1>5, <1>6, <1>7, <1>8
    DEF Step, ToFile, ToFd

(* A step lets nobody reach the memfd of another                           *)
LEMMA PrivateStep ==
  ASSUME TypeOK, KindInv, OpenInv, PrivateInv, NEW d \in Downloaders, Step(d)
  PROVE  PrivateInv'
  <1>1. \A e \in Downloaders :
          Private(e) \subseteq open[e] /\ open[e] \subseteq Inodes
    BY DEF OpenInv, Private, Filling, TypeOK
  <1>2. \A e \in Downloaders : \A n \in Private(e) :
          n \notin Unused /\ n \in Inodes /\ n # None
    BY <1>1, FetchAssumption DEF Unused
  <1>3. ASSUME NEW e \in Downloaders, NEW n \in Private(e)
        PROVE  n # path' /\ n # part'
    BY <1>2, <1>3, StepBounds DEF PrivateInv
  <1>4. ASSUME NEW e \in Downloaders \ {d}
        PROVE  open'[e] = open[e] /\ Private(e)' = Private(e)
    BY OthersAlone DEF Private, Filling, Holding, HandedFds
  <1>5. ASSUME NEW e \in Downloaders \ {d}, NEW n \in Private(e),
               NEW f \in Downloaders \ {e}
        PROVE  n \notin open'[f]
    <2>1. n \notin open[f] /\ n # part /\ n \notin Unused
      BY <1>2 DEF PrivateInv
    <2>2. CASE f = d
      BY <2>1, <2>2, StepBounds
    <2>3. CASE f # d
      BY <1>4, <2>1, <2>3
    <2> QED
      BY <2>2, <2>3
  <1>6. ASSUME NEW n \in Private(d)'
        PROVE  /\ n # path' /\ n # part'
               /\ \A f \in Downloaders \ {d} : n \notin open'[f]
    <2>1. CASE n \in Private(d)
      BY <1>3, <1>4, <2>1 DEF PrivateInv
    <2>2. CASE n \in Unused /\ UNCHANGED <<path, part>>
      BY <1>4, <2>2 DEF Unused
    <2> QED
      BY <2>1, <2>2, StepBounds
  <1>7. ASSUME NEW e \in Downloaders, NEW n \in Private(e)'
        PROVE  /\ n # path' /\ n # part'
               /\ \A f \in Downloaders \ {e} : n \notin open'[f]
    <2>1. CASE e = d
      BY <1>6, <1>7, <2>1
    <2>2. CASE e # d
      BY <1>3, <1>4, <1>5, <1>7, <2>2
    <2> QED
      BY <2>1, <2>2
  <1> QED
    BY <1>7 DEF PrivateInv

(* The memfds that a step of d does not write to: those of the others, and *)
(* the one its own caller has                                              *)
LEMMA MemfdsKept ==
  ASSUME TypeOK, KindInv, OpenInv, PrivateInv, NEW d \in Downloaders, Step(d),
         NEW e \in Downloaders, NEW n \in Private(e),
         e = d => n \in HandedFds(d)
  PROVE  data'[n] = data[n] /\ (n \in sealed => n \in sealed')
  <1>1. n \in open[e] /\ n \in Inodes
    BY DEF OpenInv, Private, Filling, TypeOK
  <1>2. n \notin Unused /\ n # part
    BY <1>1 DEF Unused, PrivateInv
  <1>3. Holding(d) => n # call[d].fd
    <2>1. CASE e = d
      BY <2>1 DEF OpenInv
    <2>2. CASE e # d
      <3>1. n \notin open[d]
        BY <2>2 DEF PrivateInv
      <3> QED
        BY <3>1 DEF OpenInv
    <2> QED
      BY <2>1, <2>2
  <1> QED
    BY <1>1, <1>2, <1>3, StepBounds

(* A step keeps the order in which a memfd is filled, sealed and handed on *)
LEMMA FillStep ==
  ASSUME TypeOK, KindInv, OpenInv, PrivateInv, FillInv,
         NEW d \in Downloaders, Step(d)
  PROVE  FillInv'
  <1> DEFINE F(e) == call[e].to = "memfd" =>
        /\ pc[e] = "receive" =>
             data[call[e].fd] = FirstBlocks(call[e].pic, call[e].off)
        /\ pc[e] \in {"seal", "rewind"} => data[call[e].fd] = Body(call[e].pic)
        /\ pc[e] = "rewind" => call[e].fd \in sealed
  <1>1. ASSUME NEW e \in Downloaders, e # d
        PROVE  F(e)'
    <2>1. pc'[e] = pc[e] /\ call'[e] = call[e]
      BY <1>1, OthersAlone
    <2>2. ASSUME call[e].to = "memfd", pc[e] \in {"receive", "seal", "rewind"}
          PROVE  /\ data'[call[e].fd] = data[call[e].fd]
                 /\ call[e].fd \in sealed => call[e].fd \in sealed'
      BY <1>1, <2>2, MemfdsKept DEF Private, Filling, Holding
    <2> QED
      BY <2>1, <2>2 DEF FillInv
  <1>2. F(d)'
    <2> USE DEF Goto
    <2>1. /\ F(d) /\ call[d] \in Calls /\ (Holding(d) => call[d].fd \in Inodes)
          /\ call \in [Downloaders -> Calls] /\ pc \in [Downloaders -> Labels]
          /\ data \in [Inodes -> Seq(Blocks)]
      BY DEF FillInv, OpenInv, TypeOK
    <2>2. CASE pc'[d] \notin {"receive", "seal", "rewind"}
      BY <2>2
    <2>3. CASE WriteBlock(d)
      <3> DEFINE p == call[d].pic
      <3> DEFINE k == call[d].off
      <3> DEFINE n == call[d].fd
      <3>1. /\ p \in Pictures /\ k \in Nat /\ k < Length[p] /\ n \in Inodes
            /\ pc'[d] = "receive" /\ pc[d] = "receive"
        BY <2>1, <2>3, CallFields DEF WriteBlock, Holding
      <3>2. call'[d].pic = p /\ call'[d].off = k + 1 /\ call'[d].fd = n
            /\ call'[d].to = call[d].to
        BY <2>1, <2>3 DEF WriteBlock, Calls
      <3>3. data'[n] = Written(data[n], k, Body(p)[k + 1])
        BY <2>1, <2>3, <3>1 DEF WriteBlock
      <3>4. CASE call[d].to = "memfd"
        BY <2>1, <3>1, <3>2, <3>3, <3>4, NextBlock
      <3> QED
        BY <3>2, <3>4
    <2>4. CASE Received(d)
      BY <2>1, <2>4, AllBlocks, CallFields DEF Received
    <2>5. CASE CreateMemfd(d)
      <3>1. PICK n \in Unused : Opened(d, n)
        BY <2>5 DEF CreateMemfd
      <3>2. data'[n] = <<>> /\ call'[d].fd = n /\ call'[d].pic = call[d].pic
            /\ call'[d].off = 0 /\ pc'[d] = "receive"
        BY <2>1, <2>5, <3>1 DEF CreateMemfd, Opened, Unused, Calls, KindInv
      <3> QED
        BY <2>1, <3>2, AllBlocks, CallFields
    <2>6. CASE OpenPart(d)
      <3>1. call'[d].to = "file"
        BY <2>1, <2>6 DEF OpenPart, Opened, Calls, KindInv
      <3> QED
        BY <3>1
    <2>7. CASE Seal(d)
      BY <2>1, <2>7 DEF Seal
    <2>8. CASE CallerCloses(d)
      BY <2>1, <2>8 DEF CallerCloses
    <2>9. CASE \/ \E p \in Pictures, to \in {"file", "memfd"} : Fetch(d, p, to)
               \/ ReceiveFails(d) \/ OpenFails(d) \/ ClosePart(d)
               \/ RenamePart(d) \/ RenameFails(d) \/ UnlinkPart(d)
               \/ CreateFails(d) \/ GiveUpMemfd(d) \/ HandOver(d)
               \/ Discard(d) \/ Crash(d)
      <3>1. pc'[d] \notin {"receive", "seal", "rewind"}
        BY <2>1, <2>9 DEF Fetch, ReceiveFails, OpenFails, ClosePart, RenamePart,
           RenameFails, UnlinkPart, CreateFails, GiveUpMemfd, HandOver,
           Discard, Crash, Ended
      <3> QED
        BY <2>2, <3>1
    <2> QED
      BY <2>3, <2>4, <2>5, <2>6, <2>7, <2>8, <2>9
      DEF Step, Receive, ToFile, ToFd
  <1> QED
    BY <1>1, <1>2 DEF FillInv

(* A step hands over whole pictures, and leaves those handed over alone    *)
LEMMA HandedStep ==
  ASSUME TypeOK, KindInv, OpenInv, PrivateInv, FillInv, HandedIsWhole,
         NEW d \in Downloaders, Step(d)
  PROVE  HandedIsWhole'
  <1>1. ASSUME NEW e \in Downloaders, NEW c \in handed[e]
        PROVE  c.fd \in sealed' /\ data'[c.fd] = Body(c.pic) /\ c.off = 0
    <2>1. c.fd \in HandedFds(e) /\ c.fd \in Private(e)
      BY DEF HandedFds, Private
    <2> QED
      BY <2>1, MemfdsKept DEF HandedIsWhole
  <1>2. ASSUME NEW c \in handed'[d], c \notin handed[d]
        PROVE  c.fd \in sealed' /\ data'[c.fd] = Body(c.pic) /\ c.off = 0
    <2>1. HandOver(d)
      BY <1>2 DEF Step, Receive, ToFile, ToFd, Fetch, WriteBlock, Received,
         ReceiveFails, OpenPart, OpenFails, ClosePart, RenamePart, RenameFails,
         UnlinkPart, CreateMemfd, CreateFails, Seal, GiveUpMemfd, Discard,
         CallerCloses, Crash, TypeOK
    <2>2. c = call'[d] /\ call' = [call EXCEPT ![d].off = 0]
          /\ UNCHANGED <<data, sealed>> /\ pc[d] = "rewind"
      BY <1>2, <2>1 DEF HandOver, TypeOK
    <2>3. c.fd = call[d].fd /\ c.pic = call[d].pic /\ c.off = 0
      BY <2>2 DEF TypeOK, Calls
    <2>4. call[d].to = "memfd"
      BY <2>2 DEF KindInv
    <2> QED
      BY <2>2, <2>3, <2>4 DEF FillInv
  <1>3. ASSUME NEW e \in Downloaders \ {d}
        PROVE  handed'[e] = handed[e]
    BY OthersAlone
  <1>4. ASSUME NEW e \in Downloaders, NEW c \in handed'[e]
        PROVE  c.fd \in sealed' /\ data'[c.fd] = Body(c.pic) /\ c.off = 0
    BY <1>1, <1>2, <1>3, <1>4
  <1> QED
    BY <1>4 DEF HandedIsWhole

-------------------------------------------------------------------------------
(* Memfds and descriptors, for any number of downloaders                   *)

(* FdInv is inductive: it holds at first, and no step breaks it            *)
LEMMA FdInit == Init => FdInv
  <1> SUFFICES ASSUME Init PROVE FdInv
    OBVIOUS
  <1>1. TypeOK
    <2>1. call \in [Downloaders -> Calls]
      <3>1. ASSUME NEW e \in Downloaders
            PROVE  call[e] \in Calls
        <4>1. PICK p \in Pictures : call[e] = [pic |-> p, to |-> "file",
                fd |-> None, off |-> 0, ok |-> TRUE]
          BY DEF Init
        <4> QED
          BY <4>1 DEF Calls
      <3> QED
        BY <3>1 DEF Init
    <2>2. <<>> \in Seq(Blocks)
      OBVIOUS
    <2> QED
      BY <2>1, <2>2, FetchAssumption DEF Init, TypeOK, Labels
  <1>2. \A d \in Downloaders :
          pc[d] = "idle" /\ call[d].to = "file" /\ handed[d] = {} /\ open[d] = {}
    BY DEF Init
  <1>3. KindInv /\ OpenInv /\ PrivateInv /\ FillInv /\ HandedIsWhole
    BY <1>2 DEF KindInv, OpenInv, PrivateInv, FillInv, HandedIsWhole, Holding,
       HandedFds, Private, Filling
  <1> QED
    BY <1>1, <1>3 DEF FdInv

(* A step of any downloader keeps what is true of all descriptors          *)
LEMMA FdStep ==
  ASSUME FdInv, [Next]_vars
  PROVE  FdInv'
  <1> USE DEF FdInv
  <1>1. CASE UNCHANGED vars
    BY <1>1 DEF vars, TypeOK, KindInv, OpenInv, PrivateInv, FillInv,
       HandedIsWhole, Holding, HandedFds, Private, Filling
  <1>2. CASE Next
    <2>1. PICK d \in Downloaders : Step(d)
      BY <1>2 DEF Next, Step
    <2> QED
      BY <2>1, TypeStep, KindStep, OpenStep, PrivateStep, FillStep, HandedStep
  <1> QED
    BY <1>1, <1>2

(* Which files are open, for whom, and what is in them, for any number of  *)
(* downloaders and without a word about turns                              *)
THEOREM FdInvariance == Spec => []FdInv
  BY FdInit, FdStep, PTL DEF Spec

(* A memfd is the caller's only when it holds the whole picture that was   *)
(* asked for, is sealed and is at its beginning (HandedIsWhole): for any   *)
(* number of processes, whatever fails and whoever dies                    *)
THEOREM HandedWhole == Spec => []HandedIsWhole
  BY FdInvariance, PTL DEF FdInv

(* Between calls a process has nothing open but the memfd it was given     *)
(* (NothingLeftOpen): no error path of fetch.c leaks a descriptor          *)
THEOREM NothingLeaks == Spec => []NothingLeftOpen
  <1>1. FdInv => NothingLeftOpen
    BY DEF FdInv, OpenInv, NothingLeftOpen, Holding, HandedFds
  <1> QED
    BY <1>1, FdInvariance, PTL

-------------------------------------------------------------------------------
(* The path, when the downloaders take turns to save to it                 *)

(* Nobody writes to the file at the path, and only rename() replaces it    *)
LEMMA PathKept ==
  ASSUME TurnInv, NEW d \in Downloaders, Step(d)
  PROVE  /\ path # None => data'[path] = data[path]
         /\ path' = path \/ RenamePart(d)
  <1> USE DEF TurnInv, FdInv
  <1>1. path' = path \/ RenamePart(d)
    BY DEF Step, Receive, ToFile, ToFd, Fetch, WriteBlock, Received,
       ReceiveFails, OpenPart, OpenFails, ClosePart, RenameFails, UnlinkPart,
       CreateMemfd, CreateFails, Seal, GiveUpMemfd, HandOver, Discard,
       CallerCloses, Crash
  <1>2. ASSUME path # None
        PROVE  data'[path] = data[path]
    <2>1. path \in Inodes /\ path \notin Unused /\ path # part
      BY <1>2 DEF TypeOK, Unused, PathInv
    <2>2. ASSUME Holding(d)
          PROVE  path # call[d].fd
      <3>1. CASE call[d].to = "memfd"
        BY <2>2, <3>1 DEF PrivateInv, Private, Filling
      <3>2. CASE call[d].to = "file"
        BY <2>1, <2>2, <3>2 DEF PartInv, KindInv, Holding
      <3> QED
        BY <3>1, <3>2, CallFields DEF TypeOK
    <2> QED
      BY <2>1, <2>2, StepBounds
  <1> QED
    BY <1>1, <1>2

(* A downloader leaves the partial file alone when it is not its turn      *)
LEMMA PartKept ==
  ASSUME FdInv, NEW d \in Downloaders, Step(d), ~ Saving(d), part # None
  PROVE  part' = part /\ data'[part] = data[part]
  <1> USE DEF FdInv, Saving
  <1>1. CASE WriteBlock(d)
    <2>1. call[d].to = "memfd"
      BY <1>1, CallFields DEF WriteBlock, TypeOK
    <2>2. part # call[d].fd
      BY <1>1, <2>1 DEF WriteBlock, PrivateInv, Private, Filling, Holding
    <2> QED
      BY <1>1, <2>2 DEF WriteBlock, TypeOK
  <1>2. CASE CreateMemfd(d)
    BY <1>2 DEF CreateMemfd, Opened, Unused, TypeOK
  <1>3. ~ OpenPart(d) /\ ~ OpenFails(d) /\ ~ ClosePart(d) /\ ~ RenamePart(d)
        /\ ~ RenameFails(d) /\ ~ UnlinkPart(d)
    BY DEF KindInv, OpenPart, OpenFails, ClosePart, RenamePart, RenameFails,
       UnlinkPart
  <1>4. CASE \/ \E p \in Pictures, to \in {"file", "memfd"} : Fetch(d, p, to)
             \/ Received(d) \/ ReceiveFails(d) \/ CreateFails(d) \/ Seal(d)
             \/ GiveUpMemfd(d) \/ HandOver(d) \/ Discard(d)
             \/ CallerCloses(d) \/ Crash(d)
    BY <1>4 DEF Fetch, Received, ReceiveFails, CreateFails, Seal, GiveUpMemfd,
       HandOver, Discard, CallerCloses, Crash
  <1> QED
    BY <1>1, <1>2, <1>3, <1>4 DEF Step, Receive, ToFile, ToFd

(* Whose turn it is has written to the partial file what was received      *)
LEMMA PartStep ==
  ASSUME TurnInv, OneSaver, NEW d \in Downloaders, Step(d)
  PROVE  PartInv'
  <1> DEFINE P(e) == call[e].to = "file" =>
        /\ pc[e] \in {"receive", "close", "rename"}
             => part = call[e].fd /\ part # None
        /\ pc[e] = "receive" => /\ call[e].ok
                                /\ data[call[e].fd]
                                     = FirstBlocks(call[e].pic, call[e].off)
        /\ pc[e] = "close" /\ call[e].ok => data[call[e].fd] = Body(call[e].pic)
        /\ pc[e] = "rename" => data[call[e].fd] = Body(call[e].pic)
  <1>0. /\ FdInv /\ PartInv
        /\ TypeOK /\ KindInv /\ call \in [Downloaders -> Calls]
        /\ pc \in [Downloaders -> Labels] /\ data \in [Inodes -> Seq(Blocks)]
    BY DEF TurnInv, FdInv, TypeOK
  <1>1. ASSUME NEW e \in Downloaders, e # d
        PROVE  P(e)'
    <2>1. pc'[e] = pc[e] /\ call'[e] = call[e]
      BY <1>0, <1>1, OthersAlone
    <2>2. ASSUME call[e].to = "file", pc[e] \in {"receive", "close", "rename"}
          PROVE  part' = part /\ data'[part] = data[part] /\ part = call[e].fd
      <3>1. ~ Saving(d)
        BY <1>1, <2>2 DEF OneSaver, Saving
      <3>2. part = call[e].fd /\ part # None
        BY <1>0, <2>2 DEF PartInv
      <3> QED
        BY <1>0, <3>1, <3>2, PartKept
    <2> QED
      BY <1>0, <2>1, <2>2 DEF PartInv
  <1>2. P(d)'
    <2> USE DEF Goto
    <2>1. P(d) /\ call[d] \in Calls
      BY <1>0 DEF PartInv
    <2>2. CASE pc'[d] \notin {"receive", "close", "rename"}
      BY <2>2
    <2>3. CASE OpenPart(d)
      <3>1. PICK n \in Unused \cup ({part} \ {None}) : Opened(d, n) /\ part' = n
        BY <2>3 DEF OpenPart
      <3>2. n \in Inodes /\ n # None
        BY <1>0, <3>1, FetchAssumption DEF Unused, TypeOK
      <3>3. data'[n] = <<>> /\ call'[d].fd = n /\ call'[d].pic = call[d].pic
            /\ call'[d].off = 0 /\ call'[d].ok /\ pc'[d] = "receive"
        BY <1>0, <2>1, <2>3, <3>1, <3>2 DEF OpenPart, Opened, Calls, KindInv
      <3> QED
        BY <2>1, <3>1, <3>2, <3>3, AllBlocks, CallFields
    <2>4. CASE CreateMemfd(d)
      <3>1. call'[d].to = "memfd"
        BY <1>0, <2>1, <2>4 DEF CreateMemfd, Opened, Calls, KindInv
      <3> QED
        BY <3>1
    <2>5. CASE WriteBlock(d)
      <3> DEFINE p == call[d].pic
      <3> DEFINE k == call[d].off
      <3> DEFINE n == call[d].fd
      <3>1. /\ p \in Pictures /\ k \in Nat /\ k < Length[p] /\ n \in Inodes
            /\ pc'[d] = "receive" /\ pc[d] = "receive" /\ part' = part
        BY <1>0, <2>1, <2>5, CallFields
        DEF WriteBlock, Holding, FdInv, OpenInv
      <3>2. call'[d].pic = p /\ call'[d].off = k + 1 /\ call'[d].fd = n
            /\ call'[d].to = call[d].to /\ call'[d].ok = call[d].ok
        BY <1>0, <2>1, <2>5 DEF WriteBlock, Calls
      <3>3. data'[n] = Written(data[n], k, Body(p)[k + 1])
        BY <1>0, <2>1, <2>5, <3>1 DEF WriteBlock
      <3>4. CASE call[d].to = "file"
        BY <2>1, <3>1, <3>2, <3>3, <3>4, NextBlock
      <3> QED
        BY <3>2, <3>4
    <2>6. CASE Received(d)
      BY <1>0, <2>1, <2>6, AllBlocks, CallFields DEF Received
    <2>7. CASE ReceiveFails(d)
      BY <1>0, <2>1, <2>7, CallFields DEF ReceiveFails, Calls
    <2>8. CASE ClosePart(d)
      BY <1>0, <2>1, <2>8 DEF ClosePart
    <2>9. CASE CallerCloses(d)
      BY <2>1, <2>9 DEF CallerCloses
    <2>10. CASE \/ \E p \in Pictures, to \in {"file", "memfd"} : Fetch(d, p, to)
                \/ OpenFails(d) \/ RenamePart(d) \/ RenameFails(d)
                \/ UnlinkPart(d) \/ CreateFails(d) \/ Seal(d)
                \/ GiveUpMemfd(d) \/ HandOver(d) \/ Discard(d) \/ Crash(d)
      <3>1. pc'[d] \notin {"receive", "close", "rename"}
        BY <1>0, <2>10 DEF Fetch, OpenFails, RenamePart, RenameFails,
           UnlinkPart, CreateFails, Seal, GiveUpMemfd, HandOver, Discard,
           Crash, Ended
      <3> QED
        BY <2>2, <3>1
    <2> QED
      BY <2>3, <2>4, <2>5, <2>6, <2>7, <2>8, <2>9, <2>10
      DEF Step, Receive, ToFile, ToFd
  <1> QED
    BY <1>1, <1>2 DEF PartInv

(* What is renamed is the file of the call, and whole                      *)
LEMMA Renamed ==
  ASSUME TurnInv, NEW d \in Downloaders, RenamePart(d)
  PROVE  /\ part # None /\ part = call[d].fd /\ call[d].pic \in Pictures
         /\ data[part] = Body(call[d].pic) /\ path' = part /\ data' = data
  <1>1. pc[d] = "rename" /\ part # None /\ path' = part /\ data' = data
    BY DEF RenamePart
  <1>2. call[d].to = "file"
    BY <1>1 DEF TurnInv, FdInv, KindInv
  <1>3. call[d].pic \in Pictures
    BY CallFields DEF TurnInv, FdInv, TypeOK
  <1> QED
    BY <1>1, <1>2, <1>3 DEF TurnInv, PartInv

(* What comes to the path is whole, and stays so                           *)
LEMMA PathStep ==
  ASSUME TurnInv, NEW d \in Downloaders, Step(d)
  PROVE  PathInv'
  <1>1. CASE RenamePart(d)
    <2>1. part = call[d].fd /\ data[part] = Body(call[d].pic)
          /\ call[d].pic \in Pictures
      BY <1>1, Renamed
    <2> QED
      BY <1>1, <2>1 DEF RenamePart, PathInv, PathIsWhole
  <1>2. CASE path' = path
    <2>1. path # None => path # part' /\ data'[path] = data[path]
      <3>1. path # None => path \notin Unused /\ path # part
        BY DEF Unused, TurnInv, PathInv
      <3>2. part' \in {part, None} \cup Unused
        BY StepBounds DEF TurnInv, FdInv
      <3> QED
        BY <3>1, <3>2, PathKept
    <2> QED
      BY <1>2, <2>1 DEF TurnInv, PathInv, PathIsWhole
  <1> QED
    BY <1>1, <1>2, PathKept

(* TurnInv is inductive as long as they take turns                         *)
LEMMA TurnStep ==
  ASSUME TurnInv, OneSaver, [Next]_vars
  PROVE  TurnInv'
  <1>1. FdInv'
    BY FdStep DEF TurnInv
  <1>2. CASE UNCHANGED vars
    BY <1>1, <1>2 DEF vars, TurnInv, PartInv, PathInv, PathIsWhole
  <1>3. CASE Next
    <2>1. PICK d \in Downloaders : Step(d)
      BY <1>3 DEF Next, Step
    <2> QED
      BY <1>1, <2>1, PartStep, PathStep DEF TurnInv
  <1> QED
    BY <1>2, <1>3

(* Who takes turns owns the partial file until it is renamed or removed    *)
THEOREM TurnInvariance == Spec /\ []OneSaver => []TurnInv
  <1>1. Init => TurnInv
    BY FdInit DEF Init, TurnInv, PartInv, PathInv
  <1> QED
    BY <1>1, TurnStep, PTL DEF Spec

(* The path never holds a part of a picture, nor a mixture of two          *)
(* (PathIsWhole), whatever fails and whoever dies in the middle, as long   *)
(* as the callers take turns to save to it                                 *)
THEOREM WholeInTurns == Spec /\ []OneSaver => []PathIsWhole
  <1>1. TurnInv => PathIsWhole
    BY DEF TurnInv, PathInv, PathIsWhole
  <1> QED
    BY <1>1, TurnInvariance, PTL

(* One downloader has nobody to take turns with                            *)
LEMMA OneDownloader ==
  ASSUME NEW d, Downloaders = {d}
  PROVE  OneSaver
  BY DEF OneSaver

(* One downloader of a path that succeeds, fails or dies leaves there a    *)
(* whole picture or none (PathIsWhole)                                     *)
THEOREM WholeAlone ==
  ASSUME NEW d, Downloaders = {d}
  PROVE  Spec => []PathIsWhole
  BY OneDownloader, WholeInTurns, PTL

(* A call of the only downloader that fails after it began to download has *)
(* removed the partial file (FailureRemovesPart)                           *)
THEOREM FailureCleansUp ==
  ASSUME NEW d, Downloaders = {d}
  PROVE  Spec => []FailureRemovesPart
  <1> DEFINE InPart == pc[d] \in {"receive", "close", "rename", "unlink"}
                       /\ call[d].to = "file"
  <1>1. Init => LeftInv
    BY DEF Init, LeftInv
  <1>2. ASSUME FdInv, LeftInv, [Next]_vars
        PROVE  LeftInv'
    <2> DEFINE L == outcome[d] = "failed" /\ ~ InPart => part = None
    <2>0. LeftInv <=> L
      BY DEF LeftInv
    <2>1. LeftInv' <=> L'
      BY DEF LeftInv
    <2>2. CASE UNCHANGED vars
      BY <1>2, <2>0, <2>1, <2>2 DEF vars
    <2>3. CASE Step(d)
      <3> USE DEF Goto
      <3> SUFFICES L'
        BY <2>1
      <3>1. /\ L /\ KindInv /\ call[d] \in Calls
            /\ call \in [Downloaders -> Calls]
            /\ pc \in [Downloaders -> Labels]
            /\ outcome \in [Downloaders ->
                 {"none", "saved", "failed", "refused", "crashed"}]
        BY <1>2, <2>0 DEF FdInv, TypeOK
      <3>2. CASE UnlinkPart(d)
        BY <3>2 DEF UnlinkPart
      <3>3. CASE OpenPart(d)
        BY <3>1, <3>3 DEF OpenPart, Opened, Calls, KindInv
      <3>4. CASE OpenFails(d) \/ RenamePart(d)
        BY <3>1, <3>4 DEF OpenFails, RenamePart, Ended
      <3>5. CASE \E p \in Pictures, to \in {"file", "memfd"} : Fetch(d, p, to)
        BY <3>1, <3>5 DEF Fetch
      <3>6. CASE Receive(d)
        BY <3>1, <3>6 DEF Receive, WriteBlock, Received, ReceiveFails, Calls
      <3>7. CASE ClosePart(d) \/ RenameFails(d)
        BY <3>1, <3>7 DEF ClosePart, RenameFails, KindInv
      <3>8. CASE CreateMemfd(d)
        BY <3>1, <3>8 DEF CreateMemfd, Opened, Calls, KindInv
      <3>9. CASE CreateFails(d) \/ Seal(d) \/ GiveUpMemfd(d) \/ HandOver(d)
                 \/ Discard(d)
        BY <3>1, <3>9 DEF CreateFails, Seal, GiveUpMemfd, HandOver, Discard,
           KindInv
      <3>10. CASE CallerCloses(d)
        BY <3>1, <3>10 DEF CallerCloses
      <3>11. CASE Crash(d)
        BY <3>1, <3>11 DEF Crash, Ended
      <3> QED
        BY <2>3, <3>2, <3>3, <3>4, <3>5, <3>6, <3>7, <3>8, <3>9, <3>10, <3>11
        DEF Step, ToFile, ToFd
    <2> QED
      BY <1>2, <2>2, <2>3 DEF Next, Step
  <1>3. LeftInv => FailureRemovesPart
    BY DEF LeftInv, FailureRemovesPart
  <1> QED
    BY <1>1, <1>2, <1>3, FdInvariance, PTL DEF Spec

-------------------------------------------------------------------------------
(* FetchPicture implements PictureFile                                     *)

(* The picture whose body the contents s are                               *)
PictureOf(s) == CHOOSE p \in Pictures : s = Body(p)

(* Who looks at a whole picture sees that picture                          *)
LEMMA WholeIsShown ==
  ASSUME NEW p \in Pictures
  PROVE  PictureOf(Body(p)) = p
  BY BodiesDiffer DEF PictureOf

(* What PictureFile takes the downloads to be that are under way           *)
Busy == [d \in Downloaders |->
           IF pc[d] # "idle" /\ call[d].to = "file" THEN call[d].pic ELSE None]

(* A step of d changes no other download                                   *)
LEMMA BusyStep ==
  ASSUME TypeOK, NEW d \in Downloaders, Step(d)
  PROVE  Busy' = [Busy EXCEPT ![d] =
                    IF pc'[d] # "idle" /\ call'[d].to = "file"
                    THEN call'[d].pic ELSE None]
  <1>1. \A e \in Downloaders \ {d} : pc'[e] = pc[e] /\ call'[e] = call[e]
    BY OthersAlone
  <1> QED
    BY <1>1 DEF Busy

(* What is shown at the path changes when a finished file is renamed, and  *)
(* then to the picture that was asked for                                  *)
LEMMA ShownStep ==
  ASSUME TurnInv, NEW d \in Downloaders, Step(d)
  PROVE  IF RenamePart(d) THEN Shown' = call[d].pic ELSE Shown' = Shown
  <1> DEFINE Whole(s) == \E p \in Pictures : s = Body(p)
  <1>0. /\ Shown = IF path = None THEN None
                   ELSE IF Whole(data[path]) THEN PictureOf(data[path])
                   ELSE "partial"
        /\ Shown' = IF path' = None THEN None
                    ELSE IF Whole(data'[path']) THEN PictureOf(data'[path'])
                    ELSE "partial"
    BY DEF Shown, PathIsWhole, PictureOf
  <1>1. CASE RenamePart(d)
    <2>1. part # None /\ data[part] = Body(call[d].pic)
          /\ call[d].pic \in Pictures
      BY <1>1, Renamed
    <2>2. path' = part /\ data' = data
      BY <1>1, Renamed
    <2> QED
      BY <1>0, <1>1, <2>1, <2>2, WholeIsShown
  <1>2. CASE ~ RenamePart(d)
    BY <1>0, <1>2, PathKept
  <1> QED
    BY <1>1, <1>2

(* A step of the downloaders is a step of PictureFile, or none             *)
LEMMA FileStep ==
  ASSUME TurnInv, NEW d \in Downloaders, Step(d)
  PROVE  \/ \E p \in Pictures : File!Begin(d, p)
         \/ File!Save(d) \/ File!Abandon(d)
         \/ UNCHANGED <<Shown, Busy, outcome>>
  <1> USE DEF Goto, File!Begin, File!Save, File!Abandon
  <1>0. /\ TypeOK /\ KindInv /\ call[d] \in Calls
        /\ call \in [Downloaders -> Calls] /\ pc \in [Downloaders -> Labels]
        /\ call[d].pic \in Pictures /\ call[d].pic # None
    <2>1. TypeOK /\ KindInv
      BY DEF TurnInv, FdInv
    <2>2. /\ call \in [Downloaders -> Calls] /\ pc \in [Downloaders -> Labels]
          /\ call[d] \in Calls
      BY <2>1 DEF TypeOK
    <2>3. call[d].pic \in Pictures
      BY <2>2, CallFields
    <2> QED
      BY <2>1, <2>2, <2>3, FetchAssumption
  <1>1. ASSUME \/ RenamePart(d) \/ OpenFails(d) \/ UnlinkPart(d)
               \/ Crash(d) /\ call[d].to = "file"
        PROVE  /\ Busy[d] = call[d].pic /\ Busy' = [Busy EXCEPT ![d] = None]
    BY <1>0, <1>1, BusyStep DEF KindInv, RenamePart, OpenFails, UnlinkPart,
       Crash, Ended, Busy
  <1>2. CASE RenamePart(d)
    <2>1. Shown' = call[d].pic
      BY <1>2, ShownStep
    <2> QED
      BY <1>0, <1>1, <1>2, <2>1 DEF RenamePart, Ended, Busy
  <1>3. CASE \/ OpenFails(d) \/ UnlinkPart(d)
             \/ Crash(d) /\ call[d].to = "file"
    <2>1. Shown' = Shown
      BY <1>3, ShownStep DEF OpenFails, UnlinkPart, Crash, RenamePart
    <2>2. \E o \in {"failed", "refused", "crashed"} :
            outcome' = [outcome EXCEPT ![d] = o]
      BY <1>3 DEF OpenFails, UnlinkPart, Crash, Ended
    <2> QED
      BY <1>0, <1>1, <1>3, <2>1, <2>2 DEF Busy
  <1>4. CASE \E p \in Pictures : Fetch(d, p, "file")
    <2>1. PICK p \in Pictures : Fetch(d, p, "file")
      BY <1>4
    <2>2. Shown' = Shown
      BY <2>1, ShownStep DEF Fetch, RenamePart
    <2>3. Busy[d] = None
      BY <2>1 DEF Fetch, Busy
    <2>4. Busy' = [Busy EXCEPT ![d] = p]
      BY <1>0, <2>1, BusyStep DEF Fetch
    <2> QED
      BY <2>1, <2>2, <2>3, <2>4 DEF Fetch, Busy
  <1>5. ASSUME ~ RenamePart(d), outcome' = outcome,
               IF pc'[d] # "idle" /\ call'[d].to = "file"
               THEN Busy[d] = call'[d].pic ELSE Busy[d] = None
        PROVE  UNCHANGED <<Shown, Busy, outcome>>
    BY <1>0, <1>5, ShownStep, BusyStep DEF Busy
  <1>6. CASE Receive(d)
    BY <1>0, <1>5, <1>6 DEF Receive, WriteBlock, Received, ReceiveFails, Calls,
       RenamePart, Busy
  <1>7. CASE OpenPart(d) \/ ClosePart(d) \/ RenameFails(d)
    BY <1>0, <1>5, <1>7 DEF OpenPart, Opened, ClosePart, RenameFails, Calls,
       RenamePart, Busy
  <1>8. CASE ToFd(d)
    BY <1>0, <1>5, <1>8 DEF ToFd, CreateMemfd, Opened, CreateFails, Seal,
       GiveUpMemfd, HandOver, Discard, KindInv, Calls, RenamePart, Busy
  <1>9. CASE \/ \E p \in Pictures : Fetch(d, p, "memfd")
             \/ Crash(d) /\ call[d].to # "file"
             \/ CallerCloses(d)
    BY <1>0, <1>5, <1>9 DEF Fetch, Crash, CallerCloses, RenamePart, Busy
  <1> HIDE DEF Goto, File!Begin, File!Save, File!Abandon
  <1>10. CASE Crash(d)
    BY <1>3, <1>9, <1>10
  <1>11. CASE ToFile(d)
    BY <1>2, <1>3, <1>7, <1>11 DEF ToFile
  <1>12. CASE \E p \in Pictures, to \in {"file", "memfd"} : Fetch(d, p, to)
    BY <1>4, <1>9, <1>12
  <1> QED
    BY <1>6, <1>8, <1>9, <1>10, <1>11, <1>12 DEF Step

(* A download replaces the picture at the path at one instant, when it     *)
(* returns 0, and one that fails or dies leaves it as it was               *)
(* (ReplacesAtOnce), as long as the callers take turns to save to it       *)
THEOREM ReplacesInTurns == Spec /\ []OneSaver => ReplacesAtOnce
  <1>1. Init => File!Init
    BY DEF Init, File!Init, Shown
  <1>2. ASSUME TurnInv, [Next]_vars
        PROVE  [File!Next]_File!vars
    <2>1. CASE UNCHANGED vars
      BY <2>1 DEF vars, File!vars, Shown, PathIsWhole
    <2>2. CASE Next
      <3>1. PICK d \in Downloaders : Step(d)
        BY <2>2 DEF Next, Step
      <3> QED
        BY <1>2, <3>1, FileStep DEF File!Next, File!vars, Busy
    <2> QED
      BY <1>2, <2>1, <2>2
  <1> QED
    BY <1>1, <1>2, TurnInvariance, PTL DEF Spec, ReplacesAtOnce, File!Spec

(* So it does for the only downloader of a path                            *)
THEOREM ReplacesAlone ==
  ASSUME NEW d, Downloaders = {d}
  PROVE  Spec => ReplacesAtOnce
  BY OneDownloader, ReplacesInTurns, PTL
===============================================================================
