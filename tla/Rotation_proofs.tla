--------------------------- MODULE Rotation_proofs ---------------------------
(***************************************************************************)
(* More theorems about the sampler: what the status says of the rotation,  *)
(* to the owner of r->lock and to those who read it without, and the       *)
(* rounds in which its albums are visited.                                 *)
(***************************************************************************)
EXTENDS RandomAlbumPicture_proofs

Rebuilding == {"rebuild", "store_kept", "store_selection"}

(* Outside rebuild_order() the status describes the rotation; before there *)
(* is a list it describes nothing                                          *)
VerdictInv ==
  /\ \A g \in Getters : pc[g] \in Rebuilding => have_albums
  /\ ~have_albums => selection.sel = "NONE_KNOWN"
  /\ \A g \in Getters :
       pc[g] = "store_selection" => n_kept.n = Cardinality(rotation)
  /\ have_albums /\ (\A g \in Getters : pc[g] \notin Rebuilding)
       => selection.sel = Verdict /\ n_kept.n = Cardinality(rotation)

(* The three stores come in one order, and what two of them say of one     *)
(* rotation agrees                                                         *)
StampInv ==
  /\ selection.rot <= n_kept.rot /\ n_kept.rot <= n_albums.rot
  /\ \A g \in Getters : pc[g] = "store_kept" =>
       n_kept.rot < n_albums.rot /\ Cardinality(rotation) <= n_albums.n
  /\ \A g \in Getters : pc[g] = "store_selection" =>
       n_kept.rot = n_albums.rot /\ n_kept.n = Cardinality(rotation)
  /\ n_kept.rot = n_albums.rot => n_kept.n <= n_albums.n
  /\ selection.rot = n_kept.rot => (selection.sel = "OK" <=> n_kept.n > 0)

(* What a reader has loaded so far is no newer than what it will load, and *)
(* agrees with it if it is of the same rotation                            *)
ReaderInv == \A r \in Readers : LET s == seen[r] IN
  /\ pc[r] \in {"read_total", "read_kept"} =>
       /\ s.sel.rot <= selection.rot
       /\ s.sel.rot = n_kept.rot => (s.sel.sel = "OK" <=> n_kept.n > 0)
  /\ pc[r] = "read_kept" =>
       /\ s.sel.rot <= s.total.rot /\ s.total.rot <= n_albums.rot
       /\ s.total.rot = n_albums.rot => s.total.n = n_albums.n
       /\ s.total.rot = n_kept.rot => n_kept.n <= s.total.n

StatusInv == StampInv /\ ReaderInv /\ StatusNotOlderThanVerdict

-------------------------------------------------------------------------------
(* Album a is still to come in the round                                   *)
ToCome(a) == \E i \in 1..Len(upcoming) : upcoming[i] = a

(* A round holds no album twice; visited are the albums of the rotation    *)
(* that are not to come any more, and none once the round is complete      *)
VisitInv ==
  /\ \A i, j \in 1..Len(upcoming) : upcoming[i] = upcoming[j] => i = j
  /\ upcoming # <<>> => Len(upcoming) < Cardinality(rotation)
  /\ \A a \in Albums :
       visits[a] = IF a \in rotation /\ upcoming # <<>> /\ ~ToCome(a)
                   THEN 1 ELSE 0

(* An album whose search may return no image                               *)
MayBeEmpty(a) == 0 \in PictureCounts[a]

AllMayBeEmpty == \A a \in rotation : MayBeEmpty(a)

(* The visits of the current round                                         *)
VisitsOfRound ==
  IF upcoming = <<>> THEN 0 ELSE Cardinality(rotation) - Len(upcoming)

(* What is known after c visits in a row that found no image: nothing as   *)
(* long as they all belong to the current round; later, that all visited   *)
(* albums of the round may be empty; and all of them before there can be   *)
(* twice as many such visits as there are albums                           *)
Known(c) ==
  \/ AllMayBeEmpty
  \/ c < VisitsOfRound
  \/ /\ c < Cardinality(rotation) + VisitsOfRound
     /\ \A a \in rotation : visits[a] > 0 => MayBeEmpty(a)

(* The visits without an image: those of this call, those of the last      *)
EmptyVisits(g) ==
  (IF misses = 0 THEN 0 ELSE Cardinality(rotation))
  + (IF pc[g] \in {"loop", "sampling"} THEN tries ELSE 0)

RetryOf(g) ==
  /\ pc[g] = "listing" => tries = 0
  /\ pc[g] # "mark_stale"
  /\ pc[g] \in Rebuilding /\ after_rebuild = "loop" => tries = 0
  /\ pc[g] \in {"loop", "sampling"} => tries <= Cardinality(rotation)
  /\ lock \in {None, g} /\ pc[g] \notin {"deliver", "sampling"}
       => Known(EmptyVisits(g))
  /\ pc[g] = "sampling" =>
       \/ ~MayBeEmpty(last_album_id)
       \/ tries < Cardinality(rotation) /\ Known(EmptyVisits(g) + 1)

RetryInv ==
  /\ misses = 2 => AllMayBeEmpty
  /\ \A g \in Getters : RetryOf(g)

-------------------------------------------------------------------------------
(* Only these five steps have to do with the rotation and its status; the  *)
(* others neither enter nor leave rebuild_order()                          *)
LEMMA OtherSteps ==
  ASSUME TypeInv, Next,
         \A g \in Getters : ~ CopyFilter(g) /\ ~ ListAlbums(g)
           /\ ~ RebuildOrder(g) /\ ~ StoreKept(g) /\ ~ StoreSelection(g)
  PROVE  /\ UNCHANGED <<statusVars, have_albums, albums, filter, rotation>>
         /\ \A g \in Getters :
              pc[g] \in Rebuilding \/ pc'[g] \in Rebuilding => pc'[g] = pc[g]
<1> DEFINE Same ==
      UNCHANGED <<statusVars, have_albums, albums, filter, rotation>>
<1> DEFINE Aside == \A g \in Getters :
      pc[g] \in Rebuilding \/ pc'[g] \in Rebuilding => pc'[g] = pc[g]
<1> USE DEF Rebuilding, Goto
<1>0. PcOK
  BY DEF TypeInv, TypeOK
<1>1. ASSUME NEW g \in Getters, GetCall(g) \/ LocalStep(g) \/ ListReply(g)
                                \/ SampleReply(g)
      PROVE  Same /\ Aside
  <2>1. CASE GetCall(g) \/ Enter(g) \/ TakeFilterLock(g)
    BY <1>0, <2>1 DEF GetCall, Enter, TakeFilterLock, samplerVars, listVars,
       orderVars, PcOK, Threads
  <2>2. CASE CopyFilterFails(g) \/ CheckSample(g) \/ UpdateAlbums(g)
    BY <1>0, <2>2 DEF CopyFilterFails, CheckSample, UpdateAlbums, samplerVars,
       listVars, orderVars, PcOK, Threads
  <2>3. CASE MarkStale(g) \/ ListAlbumsFails(g) \/ GiveUp(g) \/ Deliver(g)
    BY <1>0, <2>3 DEF MarkStale, ListAlbumsFails, GiveUp, Deliver, Fail,
       Succeed, samplerVars, listVars, orderVars, PcOK, Threads
  <2>4. CASE NextAlbum(g) \/ SampleAlbum(g) \/ SampleAlbumFails(g)
    <3>1. Same
      BY <2>4 DEF NextAlbum, SampleAlbum, SampleAlbumFails, listVars, orderVars
    <3>2. pc[g] \in {"loop", "sampling"}
          /\ \E label \in {"idle", "loop", "sampling", "deliver"} :
               Goto(g, label)
      BY <2>4 DEF NextAlbum, SampleAlbum, SampleAlbumFails, Fail
    <3>3. Aside
      BY <1>0, <3>2 DEF PcOK, Threads
    <3> QED
      BY <3>1, <3>3
  <2> QED
    BY <1>1, <2>1, <2>2, <2>3, <2>4 DEF LocalStep, ListReply, SampleReply
<1>2. ASSUME NEW t \in Setters \cup Readers,
             \/ t \in Setters /\ SetStep(t)
             \/ t \in Setters /\ \E f \in Filters : SetCall(t, f)
             \/ t \in Readers /\ ReadStep(t)
      PROVE  Same /\ Aside
  <2>1. Same
    BY <1>2 DEF SetStep, SetLock, StoreFilter, StoreFilterFails, Publish,
       SetCall, ReadStep, ReadSelection, ReadTotal, ReadKept, samplerVars,
       listVars, orderVars
  <2>2. /\ pc[t] \in {"idle", "set", "store_filter", "publish", "read_total",
                      "read_kept"}
        /\ \E label \in {"idle", "set", "store_filter", "publish",
                         "read_total", "read_kept"} : Goto(t, label)
    BY <1>2 DEF SetStep, SetLock, StoreFilter, StoreFilterFails, Publish,
       SetCall, ReadStep, ReadSelection, ReadTotal, ReadKept
  <2>3. Aside
    BY <1>0, <2>2 DEF PcOK, Threads
  <2> QED
    BY <2>1, <2>3
<1>3. CASE Refresh
  BY <1>3 DEF Refresh, samplerVars, listVars, orderVars
<1> QED
  BY <1>1, <1>2, <1>3 DEF Next

(* The rotation is empty when it has no albums: cardinalities tell         *)
LEMMA EmptyRotation ==
  ASSUME TypeInv
  PROVE  Cardinality(rotation) \in Nat
         /\ (Cardinality(rotation) > 0 <=> rotation # {})
<1>1. IsFiniteSet(rotation) /\ Cardinality(rotation) \in Nat
  BY FiniteAlbums DEF TypeInv, TypeOK, OrderOK
<1> QED
  BY <1>1, FS_EmptySet

(* Only one getter at a time is inside                                     *)
LEMMA OneInside ==
  ASSUME TypeInv, NEW g \in Getters, NEW h \in Getters,
         pc[g] \in Inside, pc[h] \in Inside
  PROVE  g = h
BY DEF TypeInv, LockInv

(* The verdict is of the rotation whenever a rebuild is over               *)
LEMMA VerdictStep ==
  ASSUME TypeInv, VerdictInv, Next
  PROVE  VerdictInv'
<1> USE DEF Goto
<1>0. PcOK /\ pc \in [Threads -> Labels] /\ Getters \subseteq Threads
  BY DEF TypeInv, TypeOK, PcOK, Threads
<1>1. ASSUME NEW g \in Getters, CopyFilter(g) PROVE VerdictInv'
  BY <1>0, <1>1 DEF CopyFilter, VerdictInv, Verdict, listVars, orderVars,
     statusVars, Rebuilding
<1>2. ASSUME NEW g \in Getters, ListAlbums(g) PROVE VerdictInv'
  BY <1>0, <1>2, OneInside DEF ListAlbums, VerdictInv, Verdict, orderVars,
     statusVars, Rebuilding, Inside
<1>3. ASSUME NEW g \in Getters, RebuildOrder(g) PROVE VerdictInv'
  BY <1>0, <1>3, OneInside DEF RebuildOrder, VerdictInv, Verdict, listVars,
     Rebuilding, Inside
<1>4. ASSUME NEW g \in Getters, StoreKept(g) PROVE VerdictInv'
  BY <1>0, <1>4, OneInside DEF StoreKept, VerdictInv, Verdict, samplerVars,
     listVars, orderVars, Rebuilding, Inside
<1>5. ASSUME NEW g \in Getters, StoreSelection(g) PROVE VerdictInv'
  BY <1>0, <1>5, OneInside DEF StoreSelection, VerdictInv, Verdict,
     samplerVars, listVars, orderVars, Rebuilding, Inside, TypeInv, TypeOK,
     LocalOK
<1>6. CASE \A g \in Getters : ~ CopyFilter(g) /\ ~ ListAlbums(g)
             /\ ~ RebuildOrder(g) /\ ~ StoreKept(g) /\ ~ StoreSelection(g)
  <2>1. UNCHANGED <<statusVars, have_albums, albums, filter, rotation>>
    BY <1>6, OtherSteps
  <2>2. \A g \in Getters :
          pc[g] \in Rebuilding \/ pc'[g] \in Rebuilding => pc'[g] = pc[g]
    BY <1>6, OtherSteps
  <2> QED
    BY <2>1, <2>2 DEF VerdictInv, Verdict, statusVars, Rebuilding
<1> QED
  BY <1>1, <1>2, <1>3, <1>4, <1>5, <1>6

(* The verdict of status says why there is nothing to show, or that there  *)
(* is something, and never blames the filter for a library without         *)
(* pictures (VerdictMatchesRotation): for any threads, lists and filters,  *)
(* and whatever fails                                                      *)
THEOREM VerdictCorrect == Spec => []VerdictMatchesRotation
<1>1. Init => VerdictInv
  BY DEF Init, VerdictInv, Rebuilding, Threads
<1>2. TypeInv /\ VerdictInv /\ [Next]_vars => VerdictInv'
  <2>1. VerdictInv /\ UNCHANGED vars => VerdictInv'
    BY DEF vars, samplerVars, statusVars, listVars, orderVars, VerdictInv,
       Verdict
  <2> QED
    BY <2>1, VerdictStep
<1>3. TypeInv /\ RotationInv /\ VerdictInv => VerdictMatchesRotation
  <2> SUFFICES ASSUME TypeInv, RotationInv, VerdictInv
               PROVE  VerdictMatchesRotation
    OBVIOUS
  <2>1. ~ have_albums => selection.sel = "NONE_KNOWN"
    BY DEF VerdictInv
  <2>2. ASSUME have_albums, \A g \in Getters : pc[g] \notin Rebuilding
        PROVE  /\ selection.sel = "OK" <=> n_kept.n > 0
               /\ selection.sel = "NONE_MATCH_FILTER" =>
                    \E a \in DOMAIN albums :
                       albums[a] > 0 /\ a \notin Passes[filter.f]
               /\ selection.sel = "NONE_WITH_PICTURES" =>
                    \A a \in DOMAIN albums : albums[a] <= 0
               /\ selection.sel # "NONE_KNOWN"
    <3>1. selection.sel = Verdict /\ n_kept.n = Cardinality(rotation)
      BY <2>2 DEF VerdictInv
    <3>2. \A a \in DOMAIN albums : albums[a] \in Int
      BY DEF TypeInv, TypeOK, ListOK, AlbumList
    <3>3. rotation = {} =>
            \A a \in DOMAIN albums : albums[a] > 0 => a \notin Passes[filter.f]
      BY <2>2 DEF RotationInv, RotationIsCurrent, Rebuilding
    <3> QED
      BY <3>1, <3>2, <3>3, EmptyRotation DEF Verdict
  <2> QED
    BY <2>1, <2>2 DEF VerdictMatchesRotation, Rebuilding
<1> QED
  BY <1>1, <1>2, <1>3, TypeInvariant, RotationInvariant, PTL DEF Spec

-------------------------------------------------------------------------------
(* The status, to those who read it while it is being stored               *)

(* The numbers in the status and in what readers have loaded are naturals  *)
LEMMA StatusTypes ==
  ASSUME TypeInv
  PROVE  /\ selection.rot \in Nat /\ n_kept.rot \in Nat /\ n_albums.rot \in Nat
         /\ n_kept.n \in Nat /\ n_albums.n \in Nat
         /\ Cardinality(rotation) \in Nat
         /\ \A r \in Readers :
              /\ seen[r].sel.rot \in Nat
              /\ seen[r].total.rot \in Nat /\ seen[r].total.n \in Nat
              /\ seen[r].kept.rot \in Nat /\ seen[r].kept.n \in Nat
BY EmptyRotation
DEF TypeInv, TypeOK, StatusOK, CallerOK, Verdicts, Counts

(* What rebuild_order() stores keeps the status in order                   *)
LEMMA StampStep ==
  ASSUME TypeInv, StampInv, Next
  PROVE  StampInv'
<1> USE DEF Goto
<1>0. PcOK /\ pc \in [Threads -> Labels] /\ Getters \subseteq Threads
  BY DEF TypeInv, TypeOK, PcOK, Threads
<1>1. ASSUME NEW g \in Getters, CopyFilter(g) PROVE StampInv'
  BY <1>0, <1>1 DEF CopyFilter, StampInv, orderVars, statusVars
<1>2. ASSUME NEW g \in Getters, ListAlbums(g) PROVE StampInv'
  BY <1>0, <1>2 DEF ListAlbums, StampInv, orderVars, statusVars
<1>3. ASSUME NEW g \in Getters, RebuildOrder(g) PROVE StampInv'
  <2>1. /\ n_albums'.rot = n_albums.rot + 1
        /\ n_albums'.n = Cardinality(DOMAIN albums)
        /\ rotation' = Kept /\ UNCHANGED <<selection, n_kept>>
        /\ pc' = [pc EXCEPT ![g] = "store_kept"]
    BY <1>3 DEF RebuildOrder
  <2>2. Cardinality(Kept) <= Cardinality(DOMAIN albums)
    <3>1. IsFiniteSet(DOMAIN albums)
      BY FiniteAlbums DEF TypeInv, TypeOK, ListOK, AlbumList
    <3> QED
      BY <3>1, FS_Subset DEF Kept
  <2>3. \A h \in Getters : pc'[h] # "store_selection"
    BY <1>0, <1>3, <2>1, OneInside DEF RebuildOrder, Inside
  <2> QED
    BY <2>1, <2>2, <2>3, StatusTypes DEF StampInv
<1>4. ASSUME NEW g \in Getters, StoreKept(g) PROVE StampInv'
  <2>1. /\ n_kept'.rot = n_albums.rot /\ n_kept'.n = Cardinality(rotation)
        /\ UNCHANGED <<selection, n_albums, rotation>>
        /\ pc[g] = "store_kept" /\ pc' = [pc EXCEPT ![g] = "store_selection"]
    BY <1>4 DEF StoreKept, samplerVars, orderVars
  <2>2. \A h \in Getters : pc'[h] # "store_kept"
    BY <1>0, <2>1, OneInside DEF Inside
  <2>3. n_kept.rot < n_albums.rot /\ Cardinality(rotation) <= n_albums.n
    BY <2>1 DEF StampInv
  <2> QED
    BY <1>0, <2>1, <2>2, <2>3, StatusTypes DEF StampInv
<1>5. ASSUME NEW g \in Getters, StoreSelection(g) PROVE StampInv'
  <2>1. /\ selection'.rot = n_albums.rot /\ selection'.sel = Verdict
        /\ UNCHANGED <<n_albums, n_kept, rotation>>
        /\ pc[g] = "store_selection" /\ pc' = [pc EXCEPT ![g] = after_rebuild]
    BY <1>5 DEF StoreSelection, samplerVars, orderVars
  <2>2. \A h \in Getters : pc'[h] \notin {"store_kept", "store_selection"}
    BY <1>0, <2>1, OneInside DEF Inside, TypeInv, TypeOK, LocalOK
  <2>3. n_kept.rot = n_albums.rot /\ n_kept.n = Cardinality(rotation)
    BY <2>1 DEF StampInv
  <2>4. Verdict = "OK" <=> Cardinality(rotation) > 0
    BY EmptyRotation DEF Verdict
  <2> QED
    BY <1>0, <2>1, <2>2, <2>3, <2>4, StatusTypes DEF StampInv
<1>6. CASE \A g \in Getters : ~ CopyFilter(g) /\ ~ ListAlbums(g)
             /\ ~ RebuildOrder(g) /\ ~ StoreKept(g) /\ ~ StoreSelection(g)
  <2>1. UNCHANGED <<statusVars, have_albums, albums, filter, rotation>>
    BY <1>6, OtherSteps
  <2>2. \A g \in Getters :
          pc[g] \in Rebuilding \/ pc'[g] \in Rebuilding => pc'[g] = pc[g]
    BY <1>6, OtherSteps
  <2> QED
    BY <2>1, <2>2 DEF StampInv, statusVars, Rebuilding
<1> QED
  BY <1>1, <1>2, <1>3, <1>4, <1>5, <1>6

(* Nobody else touches what a reader has loaded, or where it is            *)
LEMMA ReadersApart ==
  ASSUME TypeInv, Next, \A r \in Readers : ~ ReadStep(r)
  PROVE  /\ seen' = seen
         /\ \A r \in Readers :
              pc[r] \in {"read_total", "read_kept"}
                \/ pc'[r] \in {"read_total", "read_kept"} => pc'[r] = pc[r]
<1> DEFINE Other == Labels \ {"read_total", "read_kept"}
<1> USE DEF Goto
<1>0. PcOK /\ pc \in [Threads -> Labels]
  BY DEF TypeInv, TypeOK, PcOK
<1>1. ASSUME NEW t \in Threads, pc[t] \in Other, NEW label \in Other,
             Goto(t, label)
      PROVE  \A r \in Readers :
               pc[r] \in {"read_total", "read_kept"}
                 \/ pc'[r] \in {"read_total", "read_kept"} => pc'[r] = pc[r]
  BY <1>0, <1>1 DEF Threads
<1>2. ASSUME NEW g \in Getters, GetCall(g) \/ LocalStep(g) \/ ListReply(g)
                                \/ SampleReply(g)
      PROVE  seen' = seen /\ pc[g] \in Other
             /\ \E label \in Other : Goto(g, label)
  <2>1. after_rebuild \in Other
    BY DEF TypeInv, TypeOK, LocalOK, Labels
  <2>2. CASE GetCall(g) \/ ListReply(g) \/ SampleReply(g)
    BY <2>2 DEF GetCall, ListReply, ListAlbums, ListAlbumsFails, SampleReply,
       SampleAlbum, SampleAlbumFails, Fail, callerVars, Labels
  <2>3. CASE LocalStep(g)
    BY <2>1, <2>3 DEF LocalStep, Enter, TakeFilterLock, CopyFilter,
       CopyFilterFails, RebuildOrder, StoreKept, StoreSelection, CheckSample,
       UpdateAlbums, MarkStale, NextAlbum, GiveUp, Deliver, Fail, Succeed,
       callerVars, Labels
  <2> QED
    BY <1>2, <2>2, <2>3
<1>3. ASSUME NEW s \in Setters, SetStep(s) \/ \E f \in Filters : SetCall(s, f)
      PROVE  seen' = seen /\ pc[s] \in Other
             /\ \E label \in Other : Goto(s, label)
  BY <1>3 DEF SetStep, SetLock, StoreFilter, StoreFilterFails, Publish,
     SetCall, callerVars, Labels
<1>4. CASE Refresh
  BY <1>4 DEF Refresh, callerVars
<1> QED
  BY <1>1, <1>2, <1>3, <1>4 DEF Next, Threads

(* Whatever is stored between the loads of a reader, they agree            *)
LEMMA ReaderStep ==
  ASSUME TypeInv, StampInv, ReaderInv, Next
  PROVE  ReaderInv'
<1> USE DEF Goto
<1>0. /\ PcOK /\ pc \in [Threads -> Labels] /\ Readers \subseteq Threads
      /\ seen \in [Readers -> [sel : Verdicts, total : Counts, kept : Counts]]
  BY DEF TypeInv, TypeOK, PcOK, Threads, CallerOK
<1>1. ASSUME NEW r \in Readers, ReadStep(r)
      PROVE  ReaderInv'
  <2>1. UNCHANGED <<selection, n_albums, n_kept>>
    BY <1>1 DEF ReadStep, ReadSelection, ReadTotal, ReadKept, statusVars
  <2>2. ASSUME NEW q \in Readers, q # r
        PROVE  pc'[q] = pc[q] /\ seen'[q] = seen[q]
    BY <1>0, <1>1, <2>2 DEF ReadStep, ReadSelection, ReadTotal, ReadKept
  <2>3. CASE ReadSelection(r)
    <3>1. pc'[r] = "read_total" /\ seen'[r].sel = selection
      BY <1>0, <2>3 DEF ReadSelection
    <3> QED
      BY <2>1, <2>2, <3>1, StatusTypes DEF ReaderInv, StampInv
  <2>4. CASE ReadTotal(r)
    <3>1. /\ pc[r] = "read_total" /\ pc'[r] = "read_kept"
          /\ seen'[r].total = n_albums /\ seen'[r].sel = seen[r].sel
      BY <1>0, <2>4 DEF ReadTotal
    <3> QED
      BY <2>1, <2>2, <3>1, StatusTypes DEF ReaderInv, StampInv
  <2>5. CASE ReadKept(r)
    <3>1. pc'[r] = "idle"
      BY <1>0, <2>5 DEF ReadKept
    <3> QED
      BY <2>1, <2>2, <3>1 DEF ReaderInv
  <2> QED
    BY <1>1, <2>3, <2>4, <2>5 DEF ReadStep
<1>2. ASSUME \A r \in Readers : ~ ReadStep(r)
      PROVE  ReaderInv'
  <2>1. /\ seen' = seen
        /\ \A r \in Readers :
             pc'[r] \in {"read_total", "read_kept"} => pc'[r] = pc[r]
    BY <1>2, ReadersApart
  <2>2. CASE UNCHANGED <<selection, n_albums, n_kept>>
    BY <2>1, <2>2 DEF ReaderInv
  <2>3. ASSUME NEW g \in Getters, RebuildOrder(g) PROVE ReaderInv'
    <3>1. n_albums'.rot = n_albums.rot + 1 /\ UNCHANGED <<selection, n_kept>>
      BY <2>3 DEF RebuildOrder
    <3> QED
      BY <2>1, <3>1, StatusTypes DEF ReaderInv
  <2>4. ASSUME NEW g \in Getters, StoreKept(g) PROVE ReaderInv'
    <3>1. /\ n_kept'.rot = n_albums.rot /\ n_kept'.n = Cardinality(rotation)
          /\ UNCHANGED <<selection, n_albums>>
          /\ n_kept.rot < n_albums.rot /\ Cardinality(rotation) <= n_albums.n
      BY <2>4 DEF StoreKept, StampInv
    <3> QED
      BY <2>1, <3>1, StatusTypes DEF ReaderInv, StampInv
  <2>5. ASSUME NEW g \in Getters, StoreSelection(g) PROVE ReaderInv'
    <3>1. selection'.rot = n_albums.rot /\ UNCHANGED <<n_albums, n_kept>>
      BY <2>5 DEF StoreSelection
    <3> QED
      BY <2>1, <3>1, StatusTypes DEF ReaderInv, StampInv
  <2>6. CASE \A g \in Getters : ~ RebuildOrder(g) /\ ~ StoreKept(g)
                                /\ ~ StoreSelection(g)
    <3>1. CASE \E g \in Getters : CopyFilter(g) \/ ListAlbums(g)
      BY <2>2, <3>1 DEF CopyFilter, ListAlbums, statusVars
    <3>2. CASE \A g \in Getters : ~ CopyFilter(g) /\ ~ ListAlbums(g)
      BY <2>2, <2>6, <3>2, OtherSteps DEF statusVars
    <3> QED
      BY <3>1, <3>2
  <2> QED
    BY <2>3, <2>4, <2>5, <2>6
<1> QED
  BY <1>1, <1>2

(* Three loads that are complete stay as they are                          *)
LEMMA LoadedStep ==
  ASSUME TypeInv, StampInv, ReaderInv, StatusNotOlderThanVerdict, Next
  PROVE  StatusNotOlderThanVerdict'
<1> DEFINE Loading == {"read_total", "read_kept"}
<1> DEFINE Agree(s) ==
      /\ s.total.rot >= s.sel.rot /\ s.kept.rot >= s.sel.rot
      /\ s.sel.rot > 0 /\ s.sel.rot = s.total.rot /\ s.sel.rot = s.kept.rot =>
           /\ s.kept.n <= s.total.n
           /\ s.sel.sel = "OK" <=> s.kept.n > 0
<1> USE DEF Goto
<1>0. /\ pc \in [Threads -> Labels] /\ Readers \subseteq Threads
      /\ seen \in [Readers -> [sel : Verdicts, total : Counts, kept : Counts]]
  BY DEF TypeInv, TypeOK, PcOK, Threads, CallerOK
<1>1. \A r \in Readers : pc[r] \notin Loading => Agree(seen[r])
  BY DEF StatusNotOlderThanVerdict
<1>2. ASSUME NEW r \in Readers, pc'[r] \notin Loading
      PROVE  Agree(seen'[r])
  <2>1. CASE \A q \in Readers : ~ ReadStep(q)
    BY <1>1, <1>2, <2>1, ReadersApart
  <2>2. ASSUME NEW q \in Readers, ReadStep(q), q # r
        PROVE  pc'[r] = pc[r] /\ seen'[r] = seen[r]
    BY <1>0, <2>2 DEF ReadStep, ReadSelection, ReadTotal, ReadKept
  <2>3. CASE ReadStep(r)
    <3>1. ReadKept(r)
      BY <1>0, <1>2, <2>3 DEF ReadStep, ReadSelection, ReadTotal
    <3>2. /\ seen'[r].kept = n_kept /\ seen'[r].sel = seen[r].sel
          /\ seen'[r].total = seen[r].total /\ pc[r] = "read_kept"
      BY <1>0, <3>1 DEF ReadKept
    <3> QED
      BY <3>2, StatusTypes DEF ReaderInv, StampInv
  <2> QED
    BY <1>1, <1>2, <2>1, <2>2, <2>3
<1> HIDE DEF Agree
<1>3. \A r \in Readers : pc'[r] \notin Loading => Agree(seen'[r])
  BY <1>2
<1> QED
  BY <1>3 DEF StatusNotOlderThanVerdict, Agree

(* A reader of the status, who takes no lock, is never told a verdict with *)
(* counts from before it, and three loads that met one rotation agree      *)
(* (StatusNotOlderThanVerdict): because the three are stored in the        *)
(* opposite order                                                          *)
THEOREM StatusCorrect == Spec => []StatusNotOlderThanVerdict
<1>1. Init => StatusInv
  BY DEF Init, StatusInv, StampInv, ReaderInv, StatusNotOlderThanVerdict,
     Threads
<1>2. TypeInv /\ StatusInv /\ [Next]_vars => StatusInv'
  <2>1. StatusInv /\ UNCHANGED vars => StatusInv'
    BY DEF vars, samplerVars, statusVars, orderVars, callerVars, StatusInv,
       StampInv, ReaderInv, StatusNotOlderThanVerdict
  <2> QED
    BY <2>1, StampStep, ReaderStep, LoadedStep DEF StatusInv
<1>3. StatusInv => StatusNotOlderThanVerdict
  BY DEF StatusInv
<1> QED
  BY <1>1, <1>2, <1>3, TypeInvariant, PTL DEF Spec

-------------------------------------------------------------------------------
(* The rounds                                                              *)

(* Album a is one of sequence s                                            *)
In(a, s) == \E i \in 1..Len(s) : s[i] = a

(* What next_album() is about to go on with: the rest of the round, or a   *)
(* new round. Its albums are those that have not been visited.             *)
LEMMA RoundAhead ==
  ASSUME TypeInv, VisitInv, Cardinality(rotation) > 0,
         NEW round \in IF upcoming = <<>> THEN Shuffles ELSE {upcoming}
  PROVE  /\ round \in Seq(rotation) /\ round # <<>>
         /\ Len(round) <= Cardinality(rotation)
         /\ VisitsOfRound = Cardinality(rotation) - Len(round)
         /\ \A i, j \in 1..Len(round) : round[i] = round[j] => i = j
         /\ \A a \in Albums :
              visits[a] = IF a \in rotation /\ ~ In(a, round) THEN 1 ELSE 0
<1>1. IsFiniteSet(rotation) /\ Cardinality(rotation) \in Nat
  BY FiniteAlbums DEF TypeInv, TypeOK, OrderOK
<1>2. CASE upcoming = <<>>
  <2>1. round \in Seq(rotation) /\ Len(round) = Cardinality(rotation)
    BY <1>1, <1>2, ShufflesAreSequences
  <2>2. \A i, j \in 1..Len(round) : round[i] = round[j] => i = j
    BY <1>2, <2>1 DEF Shuffles, Bijection, Injection, IsInjective
  <2>3. \A a \in rotation : In(a, round)
    BY <1>2, <2>1 DEF Shuffles, Bijection, Surjection, In
  <2>4. \A a \in Albums : visits[a] = 0
    BY <1>2 DEF VisitInv
  <2> QED
    BY <1>1, <1>2, <2>1, <2>2, <2>3, <2>4 DEF VisitsOfRound
<1>3. CASE upcoming # <<>>
  <2>1. round = upcoming /\ upcoming \in Seq(rotation)
    BY <1>3 DEF TypeInv, TypeOK, OrderOK
  <2>2. Len(upcoming) \in Nat /\ Len(upcoming) < Cardinality(rotation)
    BY <1>3 DEF VisitInv, TypeInv, TypeOK, OrderOK
  <2> QED
    BY <1>1, <1>3, <2>1, <2>2 DEF VisitInv, VisitsOfRound, In, ToCome
<1> QED
  BY <1>2, <1>3

(* One album further the rest of the round is one album shorter            *)
LEMMA RoundTail ==
  ASSUME NEW S, NEW s \in Seq(S), s # <<>>,
         \A i, j \in 1..Len(s) : s[i] = s[j] => i = j
  PROVE  /\ Tail(s) \in Seq(S) /\ Len(Tail(s)) = Len(s) - 1
         /\ Head(s) \in S /\ In(Head(s), s)
         /\ \A i, j \in 1..Len(Tail(s)) : Tail(s)[i] = Tail(s)[j] => i = j
         /\ \A a : In(a, Tail(s)) <=> In(a, s) /\ a # Head(s)
         /\ Tail(s) # <<>> => \E a \in S : In(a, Tail(s))
<1>1. /\ Tail(s) \in Seq(S) /\ Len(Tail(s)) = Len(s) - 1 /\ Len(s) \in Nat
      /\ Len(s) > 0 /\ Head(s) = s[1] /\ s[1] \in S
      /\ \A i \in 1..Len(Tail(s)) : Tail(s)[i] = s[i + 1]
  OBVIOUS
<1>2. \A i, j \in 1..Len(Tail(s)) : Tail(s)[i] = Tail(s)[j] => i = j
  BY <1>1
<1>3. ASSUME NEW a
      PROVE  In(a, Tail(s)) <=> In(a, s) /\ a # Head(s)
  <2>1. ASSUME In(a, Tail(s)) PROVE In(a, s) /\ a # Head(s)
    <3>1. PICK i \in 1..Len(Tail(s)) : s[i + 1] = a
      BY <1>1, <2>1 DEF In
    <3>2. i + 1 \in 1..Len(s) /\ i + 1 # 1 /\ 1 \in 1..Len(s)
      BY <1>1
    <3> QED
      BY <1>1, <3>1, <3>2 DEF In
  <2>2. ASSUME In(a, s), a # Head(s) PROVE In(a, Tail(s))
    <3>1. PICK i \in 1..Len(s) : s[i] = a
      BY <2>2 DEF In
    <3>2. i - 1 \in 1..Len(Tail(s)) /\ (i - 1) + 1 = i
      BY <1>1, <2>2, <3>1
    <3> QED
      BY <1>1, <3>1, <3>2 DEF In
  <2> QED
    BY <2>1, <2>2
<1>4. ASSUME Tail(s) # <<>>
      PROVE  \E a \in S : In(a, Tail(s))
  <2>1. 1 \in 1..Len(Tail(s)) /\ Tail(s)[1] \in S
    BY <1>1, <1>4
  <2> QED
    BY <2>1 DEF In
<1> QED
  BY <1>1, <1>2, <1>3, <1>4 DEF In

(* Visiting the first album ahead counts once, and the last album of the   *)
(* rotation completes the round                                            *)
LEMMA VisitHead ==
  ASSUME TypeInv, VisitInv, Cardinality(rotation) > 0,
         NEW round \in IF upcoming = <<>> THEN Shuffles ELSE {upcoming},
         NEW b \in Albums
  PROVE  Visited(Head(round))[b] =
           IF b \in rotation /\ Tail(round) # <<>> /\ ~ In(b, Tail(round))
           THEN 1 ELSE 0
<1> DEFINE a == Head(round)
           t == Tail(round)
           v == [visits EXCEPT ![a] = @ + 1]
<1>1. /\ round \in Seq(rotation) /\ round # <<>>
      /\ \A i, j \in 1..Len(round) : round[i] = round[j] => i = j
      /\ \A c \in Albums :
           visits[c] = IF c \in rotation /\ ~ In(c, round) THEN 1 ELSE 0
  BY RoundAhead
<1>2. /\ a \in rotation /\ In(a, round)
      /\ \A c : In(c, t) <=> In(c, round) /\ c # a
      /\ t # <<>> => \E c \in rotation : In(c, t)
  BY <1>1, RoundTail
<1>3. rotation \subseteq Albums /\ visits \in [Albums -> Nat]
  BY DEF TypeInv, TypeOK, OrderOK
<1>4. \A c \in Albums : v[c] = IF c \in rotation /\ ~ In(c, t) THEN 1 ELSE 0
  BY <1>1, <1>2, <1>3
<1>5. t = <<>> => \A c : ~ In(c, t)
  <2>1. Len(<<>>) = 0
    OBVIOUS
  <2>2. \A i \in 1..0 : FALSE
    OBVIOUS
  <2> QED
    BY <2>1, <2>2 DEF In
<1>6. (\A c \in rotation : v[c] > 0) <=> t = <<>>
  BY <1>2, <1>3, <1>4, <1>5
<1>7. Visited(a) = IF \A c \in rotation : v[c] > 0
                   THEN [c \in Albums |-> IF c \in rotation THEN v[c] - 1
                                                            ELSE v[c]]
                   ELSE v
  BY DEF Visited
<1> HIDE DEF v, a, t
<1>8. CASE t = <<>>
  <2>1. Visited(a)[b] = IF b \in rotation THEN v[b] - 1 ELSE v[b]
    BY <1>6, <1>7, <1>8
  <2> QED
    BY <1>4, <1>5, <1>8, <2>1 DEF a, t
<1>9. CASE t # <<>>
  BY <1>4, <1>6, <1>7, <1>9 DEF a, t
<1> QED
  BY <1>8, <1>9

(* Only these two steps have to do with the round                          *)
LEMMA RoundKept ==
  ASSUME TypeInv, Next, \A g \in Getters : ~ RebuildOrder(g) /\ ~ NextAlbum(g)
  PROVE  UNCHANGED <<rotation, upcoming, visits>>
<1>1. ASSUME NEW g \in Getters, GetCall(g) \/ LocalStep(g) \/ ListReply(g)
                                \/ SampleReply(g)
      PROVE  UNCHANGED orderVars
  BY <1>1 DEF GetCall, ListReply, ListAlbums, ListAlbumsFails, SampleReply,
     SampleAlbum, SampleAlbumFails, LocalStep, Enter, TakeFilterLock,
     CopyFilter, CopyFilterFails, StoreKept, StoreSelection, CheckSample,
     UpdateAlbums, MarkStale, GiveUp, Deliver, samplerVars
<1>2. ASSUME \/ \E s \in Setters : SetStep(s) \/ \E f \in Filters : SetCall(s, f)
             \/ \E r \in Readers : ReadStep(r)
             \/ Refresh
      PROVE  UNCHANGED orderVars
  BY <1>2 DEF SetStep, SetLock, StoreFilter, StoreFilterFails, Publish,
     SetCall, ReadStep, ReadSelection, ReadTotal, ReadKept, Refresh, samplerVars
<1> QED
  BY <1>1, <1>2 DEF Next, orderVars

(* A rebuild begins a round, next_album() goes on with it; nothing else    *)
(* touches it                                                              *)
LEMMA VisitStep ==
  ASSUME TypeInv, VisitInv, Next
  PROVE  VisitInv'
<1>1. ASSUME NEW g \in Getters, RebuildOrder(g) PROVE VisitInv'
  <2>1. /\ upcoming' = <<>> /\ rotation' = Kept
        /\ visits' = [a \in Albums |-> 0]
    BY <1>1 DEF RebuildOrder
  <2>2. Cardinality(Kept) \in Nat
    BY FiniteAlbums DEF Kept, TypeInv, TypeOK, ListOK, AlbumList
  <2> QED
    BY <2>1, <2>2 DEF VisitInv, ToCome
<1>2. ASSUME NEW g \in Getters, NextAlbum(g) PROVE VisitInv'
  <2>1. Cardinality(rotation) > 0 /\ Cardinality(rotation) \in Nat
    BY <1>2, EmptyRotation DEF NextAlbum, TypeInv, TypeOK, LocalOK
  <2>2. PICK round \in IF upcoming = <<>> THEN Shuffles ELSE {upcoming} :
          /\ upcoming' = Tail(round) /\ visits' = Visited(Head(round))
          /\ rotation' = rotation
    BY <1>2 DEF NextAlbum
  <2>3. /\ round \in Seq(rotation) /\ round # <<>>
        /\ Len(round) <= Cardinality(rotation)
        /\ \A i, j \in 1..Len(round) : round[i] = round[j] => i = j
    BY <2>1, RoundAhead
  <2>4. /\ \A i, j \in 1..Len(Tail(round)) :
             Tail(round)[i] = Tail(round)[j] => i = j
        /\ Len(Tail(round)) = Len(round) - 1 /\ Len(round) \in Nat
    BY <2>3, RoundTail
  <2>5. \A b \in Albums : visits'[b] =
           IF b \in rotation /\ upcoming' # <<>> /\ ~ In(b, upcoming')
           THEN 1 ELSE 0
    BY <2>1, <2>2, VisitHead
  <2> QED
    BY <2>1, <2>2, <2>3, <2>4, <2>5 DEF VisitInv, ToCome, In
<1>3. CASE \A g \in Getters : ~ RebuildOrder(g) /\ ~ NextAlbum(g)
  BY <1>3, RoundKept DEF VisitInv, ToCome
<1> QED
  BY <1>1, <1>2, <1>3

(* The rounds hold no album twice, and count their visits                  *)
THEOREM VisitInvariant == Spec => []VisitInv
<1>1. Init => VisitInv
  <2>1. Cardinality({}) = 0
    BY FS_EmptySet
  <2> QED
    BY <2>1 DEF Init, VisitInv, ToCome
<1>2. TypeInv /\ VisitInv /\ [Next]_vars => VisitInv'
  <2>1. VisitInv /\ UNCHANGED vars => VisitInv'
    BY DEF vars, samplerVars, orderVars, VisitInv, ToCome
  <2> QED
    BY <2>1, VisitStep
<1> QED
  BY <1>1, <1>2, TypeInvariant, PTL DEF Spec

(* Every album of the rotation is visited once before any is visited again *)
(* (VisitedOnceBeforeRepeat): the swaps of shuffle_albums() lose none, and *)
(* a round goes on where the last call left it                             *)
THEOREM VisitsCorrect == Spec => []VisitedOnceBeforeRepeat
<1>1. VisitInv => VisitedOnceBeforeRepeat
  BY DEF VisitInv, VisitedOnceBeforeRepeat
<1> QED
  BY <1>1, VisitInvariant, PTL

-------------------------------------------------------------------------------
(* Asking again                                                            *)

(* Nothing need be known before the first visit                            *)
LEMMA KnownAtFirst ==
  ASSUME TypeInv, VisitInv
  PROVE  Known(0)
<1>1. CASE rotation = {}
  BY <1>1 DEF Known, AllMayBeEmpty
<1>2. CASE rotation # {} /\ upcoming = <<>>
  <2>1. \A a \in rotation : visits[a] = 0
    BY <1>2 DEF VisitInv, TypeInv, TypeOK, OrderOK
  <2> QED
    BY <1>2, <2>1, EmptyRotation DEF Known, VisitsOfRound
<1>3. CASE upcoming # <<>>
  <2>1. Len(upcoming) \in Nat /\ Len(upcoming) < Cardinality(rotation)
    BY <1>3 DEF VisitInv, TypeInv, TypeOK, OrderOK
  <2> QED
    BY <1>3, <2>1, EmptyRotation DEF Known, VisitsOfRound
<1> QED
  BY <1>1, <1>2, <1>3

(* Twice as many visits as albums must have met every one of them          *)
LEMMA KnownAtLast ==
  ASSUME TypeInv, Known(Cardinality(rotation) + Cardinality(rotation))
  PROVE  AllMayBeEmpty
<1>1. Cardinality(rotation) \in Nat /\ Len(upcoming) \in Nat
  BY EmptyRotation DEF TypeInv, TypeOK, OrderOK
<1>2. VisitsOfRound <= Cardinality(rotation) /\ VisitsOfRound \in Int
  BY <1>1 DEF VisitsOfRound
<1>3. CASE Cardinality(rotation) = 0
  BY <1>3, EmptyRotation DEF AllMayBeEmpty
<1>4. CASE Cardinality(rotation) > 0
  BY <1>1, <1>2, <1>4 DEF Known
<1> QED
  BY <1>1, <1>3, <1>4

(* One more visit without an image                                         *)
LEMMA KnownNext ==
  ASSUME TypeInv, VisitInv, Cardinality(rotation) > 0, NEW c \in Nat, Known(c),
         NEW round \in IF upcoming = <<>> THEN Shuffles ELSE {upcoming},
         upcoming' = Tail(round), visits' = Visited(Head(round)),
         rotation' = rotation, MayBeEmpty(Head(round))
  PROVE  Known(c + 1)'
<1> DEFINE n == Cardinality(rotation)
           w == VisitsOfRound
           t == Tail(round)
<1>1. /\ round \in Seq(rotation) /\ round # <<>> /\ w = n - Len(round)
      /\ \A i, j \in 1..Len(round) : round[i] = round[j] => i = j
      /\ \A a \in Albums :
           visits[a] = IF a \in rotation /\ ~ In(a, round) THEN 1 ELSE 0
  BY RoundAhead
<1>2. /\ Len(t) = Len(round) - 1 /\ Len(round) \in Nat
      /\ \A a : In(a, t) <=> In(a, round) /\ a # Head(round)
  BY <1>1, RoundTail
<1>3. n \in Nat /\ n > 0 /\ rotation \subseteq Albums
  BY EmptyRotation DEF TypeInv, TypeOK, OrderOK
<1>4. VisitsOfRound' = IF t = <<>> THEN 0 ELSE w + 1
  BY <1>1, <1>2, <1>3 DEF VisitsOfRound
<1>5. t = <<>> => w = n - 1 /\ \A a : ~ In(a, t)
  <2>1. Len(<<>>) = 0
    OBVIOUS
  <2>2. \A i \in 1..0 : FALSE
    OBVIOUS
  <2>3. t = <<>> => \A a : ~ In(a, t)
    BY <2>1, <2>2 DEF In
  <2> HIDE DEF t, w, n
  <2>4. t = <<>> => Len(round) = 1
    <3>1. t = <<>> => Len(t) = 0
      BY <2>1, Zenon
    <3> QED
      BY <1>2, <3>1
  <2> QED
    BY <1>1, <2>3, <2>4
<1>6. \A b \in rotation :
        visits'[b] = IF t # <<>> /\ ~ In(b, t) THEN 1 ELSE 0
  BY <1>3, VisitHead
<1>7. Cardinality(rotation') = n /\ (AllMayBeEmpty => AllMayBeEmpty')
  BY DEF AllMayBeEmpty, MayBeEmpty
<1>8. CASE AllMayBeEmpty
  BY <1>7, <1>8 DEF Known
<1>9. CASE c < w
  <2>1. CASE t = <<>>
    <3>1. c + 1 < n + VisitsOfRound'
      BY <1>3, <1>4, <1>5, <1>9, <2>1
    <3>2. \A b \in rotation' : visits'[b] = 0
      BY <1>6, <2>1
    <3> QED
      BY <1>7, <3>1, <3>2 DEF Known
  <2>2. CASE t # <<>>
    <3>1. VisitsOfRound' = w + 1
      BY <1>4, <2>2
    <3>2. w \in Int
      BY <1>1, <1>2, <1>3
    <3>3. c + 1 < VisitsOfRound'
      BY <1>9, <3>1, <3>2
    <3> QED
      BY <3>3 DEF Known
  <2> QED
    BY <2>1, <2>2
<1>10. CASE c < n + w /\ \A a \in rotation : visits[a] > 0 => MayBeEmpty(a)
  <2>1. \A b \in rotation : ~ In(b, t) => MayBeEmpty(b)
    BY <1>1, <1>2, <1>3, <1>10
  <2>2. CASE t = <<>>
    BY <1>5, <2>1, <2>2 DEF Known, AllMayBeEmpty, MayBeEmpty
  <2>3. CASE t # <<>>
    <3>1. c + 1 < n + VisitsOfRound'
      <4>1. VisitsOfRound' = w + 1
        BY <1>4, <2>3
      <4>2. w \in Int /\ c < n + w
        BY <1>1, <1>2, <1>3, <1>10
      <4> HIDE DEF n, w, t
      <4> QED
        BY <1>3, <4>1, <4>2
    <3>2. \A b \in rotation' : visits'[b] > 0 => MayBeEmpty(b)'
      BY <1>6, <2>1 DEF MayBeEmpty
    <3> QED
      BY <1>7, <3>1, <3>2 DEF Known
  <2> QED
    BY <2>2, <2>3
<1> QED
  BY <1>8, <1>9, <1>10 DEF Known

(* The steps between which a count of visits is kept                       *)
Counting == Rebuilding \cup {"listing", "mark_stale", "loop", "sampling",
                             "deliver"}

retryVars == <<misses, tries, after_rebuild, rotation, upcoming, visits,
               last_album_id>>

(* A step that has to do with neither changes nothing that is known        *)
LEMMA RetryKept ==
  ASSUME RetryInv, UNCHANGED retryVars, lock' = lock \/ lock = None,
         \A g \in Getters : pc[g] \in Counting \/ pc'[g] \in Counting
                              => pc'[g] = pc[g]
  PROVE  RetryInv'
<1>1. ASSUME NEW g \in Getters
      PROVE  EmptyVisits(g)' = EmptyVisits(g)
  BY DEF EmptyVisits, retryVars, Counting
<1>2. ASSUME NEW c
      PROVE  Known(c)' <=> Known(c)
  BY DEF Known, retryVars, AllMayBeEmpty, MayBeEmpty, VisitsOfRound
<1>3. \A g \in Getters :
        /\ Known(EmptyVisits(g))' <=> Known(EmptyVisits(g))
        /\ Known(EmptyVisits(g) + 1)' <=> Known(EmptyVisits(g) + 1)
  BY <1>1, <1>2
<1> QED
  BY <1>3 DEF RetryInv, RetryOf, retryVars, Counting, Rebuilding,
     AllMayBeEmpty, MayBeEmpty

(* A step of the owner of r->lock concerns no other getter                 *)
LEMMA RetryInside ==
  ASSUME TypeInv, RetryInv, NEW g \in Getters, pc[g] \in Inside, lock' = lock,
         NEW label \in Inside, Goto(g, label),
         misses' = 2 => AllMayBeEmpty', RetryOf(g)'
  PROVE  RetryInv'
<1>1. lock = g /\ g # None /\ pc \in [Threads -> Labels]
      /\ Getters \subseteq Threads
  BY ConstantsAssumption
  DEF ConstantsAssumption, TypeInv, TypeOK, PcOK, LockInv, Threads
<1>2. ASSUME NEW h \in Getters, h # g
      PROVE  RetryOf(h)'
  <2>1. pc'[h] = pc[h] /\ pc[h] \notin Inside
    BY <1>1, <1>2, OneInside DEF Goto
  <2>2. lock' \notin {None, h}
    BY <1>1, <1>2
  <2> QED
    BY <2>1, <2>2 DEF RetryOf, Inside, Rebuilding
<1> QED
  BY <1>2 DEF RetryInv

(* When the call returns the count is that of the failed calls alone       *)
LEMMA RetryLeaves ==
  ASSUME TypeInv, NEW g \in Getters, pc[g] \in Inside, Goto(g, "idle"),
         Cardinality(rotation)' \in Nat, misses' = 2 => AllMayBeEmpty',
         Known(IF misses = 0 THEN 0 ELSE Cardinality(rotation))'
  PROVE  RetryInv'
<1>1. ASSUME NEW h \in Getters
      PROVE  RetryOf(h)'
  <2>1. pc'[h] \notin Inside
    <3>1. pc \in [Threads -> Labels] /\ Getters \subseteq Threads
      BY DEF TypeInv, TypeOK, PcOK, Threads
    <3> QED
      BY <3>1, OneInside DEF Goto, Inside
  <2>2. Cardinality(rotation)' + 0 = Cardinality(rotation)' /\ 0 + 0 = 0
    OBVIOUS
  <2> QED
    BY <2>1, <2>2 DEF RetryOf, Inside, Rebuilding, EmptyVisits
<1> QED
  BY <1>1 DEF RetryInv

(* If every request is answered, and every answer is well-formed, a step   *)
(* keeps the account of what the visits without an image have shown        *)
LEMMA RetryStep ==
  ASSUME Faults = {}, InvalidIds = {}, TypeInv, VisitInv, RetryInv, Next
  PROVE  RetryInv'
<1> USE DEF Goto
<1>0. /\ pc \in [Threads -> Labels] /\ Getters \subseteq Threads
      /\ Setters \subseteq Threads /\ Readers \subseteq Threads
      /\ Cardinality(rotation) \in Nat /\ tries \in Nat /\ misses \in 0..2
      /\ \A g \in Getters : RetryOf(g)
  BY EmptyRotation
  DEF TypeInv, TypeOK, PcOK, LocalOK, WarnOK, Threads, RetryInv
<1>1. ASSUME NEW g \in Getters,
             GetCall(g) \/ Enter(g) \/ TakeFilterLock(g) \/ CopyFilterFails(g)
      PROVE  RetryInv'
  <2>1. UNCHANGED retryVars /\ (lock' = lock \/ lock = None)
    BY <1>1 DEF GetCall, Enter, TakeFilterLock, CopyFilterFails, retryVars,
       samplerVars, orderVars, localVars, warnVars
  <2>2. /\ pc[g] \in {"idle", "enter", "take_filter", "copy_filter"}
        /\ \E label \in {"enter", "take_filter", "copy_filter", "check"} :
             Goto(g, label)
    BY <1>1 DEF GetCall, Enter, TakeFilterLock, CopyFilterFails
  <2> QED
    BY <1>0, <2>1, <2>2, RetryKept DEF Counting, Rebuilding
<1>2. ASSUME NEW t \in Setters \cup Readers,
             \/ t \in Setters /\ SetStep(t)
             \/ t \in Setters /\ \E f \in Filters : SetCall(t, f)
             \/ t \in Readers /\ ReadStep(t)
      PROVE  RetryInv'
  <2>1. UNCHANGED retryVars /\ lock' = lock
    BY <1>2 DEF SetStep, SetLock, StoreFilter, StoreFilterFails, Publish,
       SetCall, ReadStep, ReadSelection, ReadTotal, ReadKept, retryVars,
       samplerVars, orderVars, localVars, warnVars
  <2>2. /\ pc[t] \in {"idle", "set", "store_filter", "publish", "read_total",
                      "read_kept"}
        /\ \E label \in {"idle", "set", "store_filter", "publish",
                         "read_total", "read_kept"} : Goto(t, label)
    BY <1>2 DEF SetStep, SetLock, StoreFilter, StoreFilterFails, Publish,
       SetCall, ReadStep, ReadSelection, ReadTotal, ReadKept
  <2> QED
    BY <1>0, <2>1, <2>2, RetryKept DEF Counting, Rebuilding
<1>3. CASE Refresh
  <2>1. UNCHANGED <<retryVars, lock, pc>>
    BY <1>3 DEF Refresh, retryVars, samplerVars, orderVars, localVars, warnVars
  <2> QED
    BY <2>1, RetryKept
<1>4. ASSUME NEW g \in Getters,
             CopyFilter(g) \/ StoreKept(g) \/ StoreSelection(g)
             \/ CheckSample(g) \/ UpdateAlbums(g) \/ ListAlbums(g)
      PROVE  RetryInv'
  <2>1. UNCHANGED <<misses, rotation, upcoming, visits, last_album_id, lock>>
    BY <1>4 DEF CopyFilter, StoreKept, StoreSelection, CheckSample,
       UpdateAlbums, ListAlbums, samplerVars, orderVars, warnVars
  <2>2. pc[g] \in Inside \ {"sampling", "deliver", "loop"}
    BY <1>4 DEF CopyFilter, StoreKept, StoreSelection, CheckSample,
       UpdateAlbums, ListAlbums, Inside
  <2>3. PICK label \in Inside : Goto(g, label)
    BY <1>0, <1>4 DEF CopyFilter, StoreKept, StoreSelection, CheckSample,
       UpdateAlbums, ListAlbums, Inside, TypeInv, TypeOK, LocalOK
  <2>4. pc'[g] = label
    BY <1>0, <2>3
  <2>5. /\ label \notin {"mark_stale", "sampling"}
        /\ label = "listing" => tries' = 0
        /\ label \in Rebuilding /\ after_rebuild' = "loop" => tries' = 0
        /\ label = "loop" => tries' = 0
    BY <1>0, <1>4, <2>4
    DEF CopyFilter, StoreKept, StoreSelection, CheckSample, UpdateAlbums,
        ListAlbums, RetryOf, Rebuilding, samplerVars, localVars, TypeInv,
        TypeOK, LocalOK
  <2>6. EmptyVisits(g)' = EmptyVisits(g)
    BY <1>0, <2>1, <2>2, <2>4, <2>5 DEF EmptyVisits
  <2>7. Known(EmptyVisits(g))' <=> Known(EmptyVisits(g))
    BY <2>1, <2>6 DEF Known, AllMayBeEmpty, MayBeEmpty, VisitsOfRound
  <2>8. lock = g
    BY <2>2 DEF TypeInv, LockInv
  <2>9. RetryOf(g)'
    BY <1>0, <2>1, <2>2, <2>4, <2>5, <2>7, <2>8 DEF RetryOf
  <2> QED
    BY <2>1, <2>2, <2>3, <2>9, RetryInside
    DEF RetryInv, AllMayBeEmpty, MayBeEmpty
<1>5. ASSUME NEW g \in Getters, RebuildOrder(g) PROVE RetryInv'
  <2>1. /\ pc[g] = "rebuild" /\ Goto(g, "store_kept") /\ misses' = 0
        /\ rotation' = Kept /\ upcoming' = <<>>
        /\ visits' = [a \in Albums |-> 0]
        /\ UNCHANGED <<lock, tries, after_rebuild>>
    BY <1>5 DEF RebuildOrder, localVars
  <2>2. Kept \subseteq Albums
    BY DEF Kept, TypeInv, TypeOK, ListOK, AlbumList
  <2>3. Cardinality(rotation') \in Nat
        /\ (rotation' # {} => Cardinality(rotation') > 0)
    BY <2>1, <2>2, FiniteAlbums, FS_EmptySet
  <2>4. VisitsOfRound' = 0 /\ \A a \in rotation' : visits'[a] = 0
    BY <2>1, <2>2 DEF VisitsOfRound
  <2>5. Known(0)'
    BY <2>3, <2>4 DEF Known, AllMayBeEmpty
  <2>6. pc'[g] = "store_kept"
    BY <1>0, <2>1
  <2>7. EmptyVisits(g)' = 0
    BY <2>1, <2>6 DEF EmptyVisits
  <2>8. RetryOf(g)'
    BY <1>0, <2>1, <2>5, <2>6, <2>7 DEF RetryOf, Rebuilding
  <2>9. misses' # 2
    BY <2>1
  <2> QED
    BY <2>1, <2>8, <2>9, RetryInside DEF Inside
<1>6. ASSUME NEW g \in Getters,
             ListAlbumsFails(g) \/ SampleAlbumFails(g) \/ MarkStale(g)
      PROVE  RetryInv'
  BY <1>0, <1>6 DEF ListAlbumsFails, SampleAlbumFails, MarkStale, RetryOf
<1>7. ASSUME NEW g \in Getters, NextAlbum(g) PROVE RetryInv'
  <2>1. /\ pc[g] = "loop" /\ tries < Cardinality(rotation)
        /\ rotation' = rotation /\ tries' = tries
        /\ after_rebuild' = after_rebuild
    BY <1>7 DEF NextAlbum, localVars
  <2>2. Cardinality(rotation) > 0
    BY <1>0, <2>1
  <2>3. PICK round \in IF upcoming = <<>> THEN Shuffles ELSE {upcoming} :
          /\ upcoming' = Tail(round) /\ visits' = Visited(Head(round))
          /\ last_album_id' = Head(round) /\ Goto(g, "sampling")
          /\ UNCHANGED <<lock, misses>>
    BY <1>7 DEF NextAlbum
  <2>4. pc'[g] = "sampling" /\ lock = g
    BY <1>0, <2>1, <2>3 DEF TypeInv, LockInv, Inside
  <2>5. EmptyVisits(g) \in Nat /\ EmptyVisits(g)' = EmptyVisits(g)
    BY <1>0, <2>1, <2>3, <2>4 DEF EmptyVisits
  <2>6. Known(EmptyVisits(g))
    BY <1>0, <2>1, <2>4 DEF RetryOf
  <2>7. PICK c \in Nat : c = EmptyVisits(g) /\ c = EmptyVisits(g)' /\ Known(c)
    BY <2>5, <2>6
  <2>8. MayBeEmpty(Head(round)) => Known(c + 1)'
    BY <2>1, <2>2, <2>3, <2>7, KnownNext
  <2>9. MayBeEmpty(last_album_id)' => Known(EmptyVisits(g) + 1)'
    BY <2>3, <2>7, <2>8 DEF MayBeEmpty
  <2>10. RetryOf(g)'
    BY <1>0, <2>1, <2>4, <2>9 DEF RetryOf, Rebuilding
  <2>11. misses' = 2 => AllMayBeEmpty'
    BY <2>1, <2>3 DEF RetryInv, AllMayBeEmpty, MayBeEmpty
  <2> QED
    BY <2>1, <2>3, <2>10, <2>11, RetryInside DEF Inside
<1>8. ASSUME NEW g \in Getters, SampleAlbum(g) PROVE RetryInv'
  <2>1. /\ pc[g] = "sampling"
        /\ UNCHANGED <<rotation, upcoming, visits, last_album_id, misses, lock,
                       after_rebuild>>
    BY <1>8 DEF SampleAlbum, orderVars
  <2>2. lock = g /\ last_album_id \in Albums
    BY <2>1 DEF TypeInv, LockInv, ReadyInv, TypeOK, OrderOK, Inside
  <2>3. PICK n \in PictureCounts[last_album_id] :
          \/ /\ sample_size(n, max_pictures, percent) = 0
             /\ tries' = tries + 1 /\ Goto(g, "loop")
          \/ Goto(g, "deliver")
    BY <1>8 DEF SampleAlbum
  <2>4. n \in Nat /\ max_pictures \in Nat /\ percent \in 1..100
    BY <2>2, ConstantsAssumption DEF ConstantsAssumption
  <2>5. misses' = 2 => AllMayBeEmpty'
    BY <2>1 DEF RetryInv, AllMayBeEmpty, MayBeEmpty
  <2>6. CASE sample_size(n, max_pictures, percent) = 0
             /\ tries' = tries + 1 /\ Goto(g, "loop")
    <3>1. n = 0
      <4>1. n > 0 => sample_size(n, max_pictures, percent) > 0
        BY <2>4, SampleSizeBounds
      <4> QED
        BY <2>4, <2>6, <4>1
    <3>2. /\ tries < Cardinality(rotation) /\ Known(EmptyVisits(g) + 1)
      BY <1>0, <2>1, <2>3, <3>1 DEF RetryOf, MayBeEmpty
    <3>3. pc'[g] = "loop"
      BY <1>0, <2>6
    <3>4. EmptyVisits(g)' = EmptyVisits(g) + 1
      BY <1>0, <2>1, <2>6, <3>3 DEF EmptyVisits
    <3>5. Known(EmptyVisits(g))'
      BY <2>1, <3>2, <3>4 DEF Known, AllMayBeEmpty, MayBeEmpty, VisitsOfRound
    <3>6. RetryOf(g)'
      BY <1>0, <2>1, <2>6, <3>2, <3>3, <3>5 DEF RetryOf, Rebuilding
    <3> QED
      BY <2>1, <2>5, <2>6, <3>6, RetryInside DEF Inside
  <2>7. CASE Goto(g, "deliver")
    <3>1. RetryOf(g)'
      BY <1>0, <2>7 DEF RetryOf, Rebuilding
    <3> QED
      BY <2>1, <2>5, <2>7, <3>1, RetryInside DEF Inside
  <2> QED
    BY <2>3, <2>6, <2>7
<1>9. ASSUME NEW g \in Getters, GiveUp(g) PROVE RetryInv'
  <2>1. /\ pc[g] = "loop" /\ tries >= Cardinality(rotation) /\ Goto(g, "idle")
        /\ misses' = IF misses < 2 THEN misses + 1 ELSE 2
        /\ UNCHANGED <<rotation, upcoming, visits>>
    BY <1>9 DEF GiveUp, Fail, orderVars
  <2>2. lock = g
    BY <2>1 DEF TypeInv, LockInv, Inside
  <2>3. tries = Cardinality(rotation) /\ Known(EmptyVisits(g))
    BY <1>0, <2>1, <2>2 DEF RetryOf
  <2>4. AllMayBeEmpty => AllMayBeEmpty'
    BY <2>1 DEF AllMayBeEmpty, MayBeEmpty
  <2>5. misses # 0 => AllMayBeEmpty
    <3>1. CASE misses = 1
      <4>1. EmptyVisits(g) = Cardinality(rotation) + Cardinality(rotation)
        BY <2>1, <2>3, <3>1 DEF EmptyVisits
      <4> QED
        BY <2>3, <4>1, KnownAtLast
    <3> QED
      BY <1>0, <3>1 DEF RetryInv
  <2>6. misses = 0 => Known(Cardinality(rotation))
    BY <1>0, <2>1, <2>3 DEF EmptyVisits
  <2>7. misses' = 0 => FALSE
    BY <1>0, <2>1
  <2>8. Known(Cardinality(rotation))'
    BY <2>1, <2>4, <2>5, <2>6
    DEF Known, AllMayBeEmpty, MayBeEmpty, VisitsOfRound
  <2>9. misses' = 2 => AllMayBeEmpty'
    BY <1>0, <2>1, <2>4, <2>5
  <2>10. Known(IF misses = 0 THEN 0 ELSE Cardinality(rotation))'
    BY <2>7, <2>8
  <2> QED
    BY <1>0, <2>1, <2>9, <2>10, RetryLeaves DEF Inside
<1>10. ASSUME NEW g \in Getters, Deliver(g) PROVE RetryInv'
  <2>1. /\ pc[g] = "deliver" /\ Goto(g, "idle") /\ misses' = 0
        /\ UNCHANGED <<rotation, upcoming, visits>>
    BY <1>10 DEF Deliver, Succeed, orderVars
  <2>2. Known(0)'
    BY <2>1, KnownAtFirst DEF Known, AllMayBeEmpty, MayBeEmpty, VisitsOfRound
  <2>3. Known(IF misses = 0 THEN 0 ELSE Cardinality(rotation))'
    BY <2>1, <2>2
  <2>4. misses' # 2 /\ Cardinality(rotation)' \in Nat
    BY <1>0, <2>1
  <2> QED
    BY <2>1, <2>3, <2>4, RetryLeaves DEF Inside
<1> QED
  BY <1>1, <1>2, <1>3, <1>4, <1>5, <1>6, <1>7, <1>8, <1>9, <1>10
  DEF Next, LocalStep, ListReply, SampleReply

(* While the server answers, asking again is enough (RetrySuffices): one   *)
(* call that fails may have met an album twice, two in a row have met all  *)
(* of them.                                                                *)
THEOREM RetryCorrect ==
  ASSUME Faults = {}, InvalidIds = {}
  PROVE  Spec => []RetrySuffices
<1>1. Init => RetryInv
  <2>1. SUFFICES ASSUME Init PROVE RetryInv
    OBVIOUS
  <2>2. /\ pc = [t \in Threads |-> "idle"] /\ misses = 0 /\ rotation = {}
        /\ Getters \subseteq Threads
    BY <2>1 DEF Init, Threads
  <2>3. \A c : Known(c)
    BY <2>2 DEF Known, AllMayBeEmpty
  <2> QED
    BY <2>2, <2>3 DEF RetryInv, RetryOf, Rebuilding
<1>2. TypeInv /\ VisitInv /\ RetryInv /\ [Next]_vars => RetryInv'
  <2>1. RetryInv /\ UNCHANGED vars => RetryInv'
    <3>1. UNCHANGED vars => UNCHANGED <<retryVars, lock, pc>>
      BY DEF vars, samplerVars, orderVars, localVars, warnVars, retryVars
    <3> QED
      BY <3>1, RetryKept
  <2> QED
    BY <2>1, RetryStep
<1>3. RetryInv => RetrySuffices
  BY DEF RetryInv, RetrySuffices, AllMayBeEmpty, MayBeEmpty
<1> QED
  BY <1>1, <1>2, <1>3, TypeInvariant, VisitInvariant, PTL DEF Spec

-------------------------------------------------------------------------------
(* The arrays that the turns of the shuffle leave, one for each            *)
Turn(a, order, n, d, i) ==
  IF i = n THEN order ELSE swap(a[i + 1], i + 1, d[i + 1])
Turns(a, order, n, d) == \A i \in 1..n : a[i] = Turn(a, order, n, d, i)

(* Every choice of draws has its arrays,                                   *)
LEMMA TurnsExist ==
  ASSUME NEW n \in Nat, n > 0, NEW order, NEW d
  PROVE  \E a : Turns(a, order, n, d)
<1> DEFINE Some(m, a) == \A i \in m..n : a[i] = Turn(a, order, n, d, i)
           S == {m \in 1..n : \E a : Some(m, a)}
<1>1. n \in S
  <2> DEFINE a == [i \in {n} |-> order]
  <2>1. a[n] = Turn(a, order, n, d, n)
    BY DEF Turn
  <2>2. Some(n, a)
    BY <2>1
  <2>3. QED
    BY <2>2
<1>2. ASSUME NEW m \in 1..n, m # n, m + 1 \in S PROVE m \in S
  <2>1. PICK a : Some(m + 1, a)
    BY <1>2
  <2> DEFINE b == [i \in m..n |-> IF i = m THEN Turn(a, order, n, d, m) ELSE a[i]]
  <2>2. \A i \in m + 1..n : b[i] = a[i]
    OBVIOUS
  <2>3. b[m] = Turn(a, order, n, d, m)
    OBVIOUS
  <2> HIDE DEF b
  <2>4. ASSUME NEW i \in m..n PROVE b[i] = Turn(b, order, n, d, i)
    <3>1. i # n => b[i + 1] = a[i + 1]
      BY <2>2
    <3>2. Turn(b, order, n, d, i) = Turn(a, order, n, d, i)
      BY <3>1 DEF Turn
    <3>3. CASE i = m
      BY <2>3, <3>2, <3>3
    <3>4. CASE i \in m + 1..n
      BY <2>1, <2>2, <3>2, <3>4
    <3>5. QED
      BY <3>3, <3>4
  <2>5. Some(m, b)
    BY <2>4
  <2>6. QED
    BY <2>5
<1> HIDE DEF S
<1>3. 1 \in S
  BY <1>1, <1>2, DownInduction
<1>4. PICK a : Some(1, a)
  BY <1>3 DEF S
<1>5. QED
  BY <1>4 DEF Turns

(* and two choices with the same draws above m have the same down to m.    *)
LEMMA TurnsAgree ==
  ASSUME NEW n \in Nat, NEW order, NEW d, NEW e, NEW a, NEW b,
         Turns(a, order, n, d), Turns(b, order, n, e),
         NEW m \in 1..n, \A x \in m + 1..n : d[x] = e[x]
  PROVE  \A i \in m..n : a[i] = b[i]
<1> DEFINE S == {i \in m..n : a[i] = b[i]}
<1>1. n \in S
  BY DEF Turns, Turn
<1>2. ASSUME NEW i \in m..n, i # n, i + 1 \in S PROVE i \in S
  <2>1. a[i + 1] = b[i + 1] /\ d[i + 1] = e[i + 1]
    BY <1>2
  <2>2. QED
    BY <1>2, <2>1 DEF Turns, Turn
<1> HIDE DEF S
<1>3. m..n \subseteq S
  BY <1>1, <1>2, DownInduction
<1>4. QED
  BY <1>3 DEF S

(* The last one is what the shuffle leaves.                                *)
LEMMA MixedIsLast ==
  ASSUME NEW n \in Nat, n > 0, NEW order, NEW d, NEW a, Turns(a, order, n, d)
  PROVE  Mixed(order, n, d) = a[1]
<1> DEFINE f == [i \in 1..n |-> a[i]]
           after == CHOOSE g : g = [i \in 1..n |->
                      IF i = n THEN order ELSE swap(g[i + 1], i + 1, d[i + 1])]
<1>1. Mixed(order, n, d) = after[1]
  BY DEF Mixed
<1>2. f = [i \in 1..n |-> IF i = n THEN order ELSE swap(f[i + 1], i + 1, d[i + 1])]
  BY DEF Turns, Turn
<1>3. after = [i \in 1..n |->
                 IF i = n THEN order ELSE swap(after[i + 1], i + 1, d[i + 1])]
  BY <1>2, Zenon
<1> HIDE DEF after
<1>4. Turns(after, order, n, d)
  BY <1>3 DEF Turns, Turn
<1>5. QED
  BY <1>1, <1>4, TurnsAgree

(* An order holds every album in one place, and only there.                *)
LEMMA OrderIs ==
  ASSUME NEW n \in Nat, NEW R, NEW p \in Bijection(1..n, R)
  PROVE  /\ p \in [1..n -> R]
         /\ \A x, y \in 1..n : p[x] = p[y] => x = y
         /\ \A t \in R : \E x \in 1..n : p[x] = t
<1>1. p \in [1..n -> R] /\ \A x, y \in 1..n : p[x] = p[y] => x = y
  BY DEF Bijection, Injection, IsInjective
<1>2. \A t \in R : \E x \in 1..n : p[x] = t
  BY DEF Bijection, Surjection
<1>3. QED
  BY <1>1, <1>2

(* A swap of two places leaves an order of the same albums.                *)
LEMMA SwapIsOrder ==
  ASSUME NEW n \in Nat, NEW R, NEW p \in Bijection(1..n, R),
         NEW i \in 1..n, NEW j \in 1..n
  PROVE  swap(p, i, j) \in Bijection(1..n, R)
<1> DEFINE s == swap(p, i, j)
<1>1. p \in [1..n -> R] /\ (\A x, y \in 1..n : p[x] = p[y] => x = y)
      /\ \A t \in R : \E x \in 1..n : p[x] = t
  BY OrderIs
<1>2. s \in [1..n -> R]
  BY <1>1 DEF swap
<1>3. \A x \in 1..n : s[x] = IF x = j THEN p[i] ELSE IF x = i THEN p[j] ELSE p[x]
  BY <1>1 DEF swap
<1> HIDE DEF s
<1>4. \A x, y \in 1..n : s[x] = s[y] => x = y
  BY <1>1, <1>3
<1>5. ASSUME NEW t \in R PROVE \E x \in 1..n : s[x] = t
  <2>1. PICK x \in 1..n : p[x] = t
    BY <1>1
  <2>2. s[IF x = i THEN j ELSE IF x = j THEN i ELSE x] = t
    BY <1>3, <2>1
  <2>3. QED
    BY <2>2
<1>6. s \in Bijection(1..n, R)
  BY <1>2, <1>4, <1>5 DEF Bijection, Injection, Surjection, IsInjective
<1>7. QED
  BY <1>6 DEF s

(* Each turn leaves an order,                                              *)
LEMMA TurnsAreOrders ==
  ASSUME NEW n \in Nat, NEW R, NEW order \in Bijection(1..n, R),
         NEW d \in Draws(n), NEW a, Turns(a, order, n, d)
  PROVE  \A i \in 1..n : a[i] \in Bijection(1..n, R)
<1> DEFINE S == {i \in 1..n : a[i] \in Bijection(1..n, R)}
<1>1. n > 0 => n \in S
  BY DEF Turns, Turn
<1>2. ASSUME NEW i \in 1..n, i # n, i + 1 \in S PROVE i \in S
  <2>1. d[i + 1] \in 1..n /\ i + 1 \in 1..n
    BY <1>2 DEF Draws
  <2>2. a[i] = swap(a[i + 1], i + 1, d[i + 1])
    BY <1>2 DEF Turns, Turn
  <2>3. a[i] \in Bijection(1..n, R)
    BY <1>2, <2>1, <2>2, SwapIsOrder
  <2>4. QED
    BY <2>3
<1> HIDE DEF S
<1>3. n > 0 => 1..n \subseteq S
  BY <1>1, <1>2, DownInduction
<1>4. QED
  BY <1>3 DEF S

(* and the turn of place m settles it: the turns after it draw below m.    *)
LEMMA TurnSettles ==
  ASSUME NEW n \in Nat, NEW R, NEW order \in Bijection(1..n, R),
         NEW d \in Draws(n), NEW a, Turns(a, order, n, d),
         NEW m \in 2..n, NEW i \in 1..m - 1
  PROVE  a[i][m] = a[m][d[m]]
<1> DEFINE S == {x \in 1..m - 1 : a[x][m] = a[m][d[m]]}
<1>1. ASSUME NEW x \in 1..m - 1
      PROVE  a[x][m] = IF x + 1 = m THEN a[m][d[m]] ELSE a[x + 1][m]
  <2>1. x + 1 \in 2..n /\ d[x + 1] \in 1..n /\ d[x + 1] <= x + 1
    BY DEF Draws
  <2>2. a[x] = swap(a[x + 1], x + 1, d[x + 1])
    BY DEF Turns, Turn
  <2>3. a[x + 1] \in Bijection(1..n, R)
    BY <2>1, TurnsAreOrders
  <2>4. x + 1 \in 1..n /\ m \in 1..n
    OBVIOUS
  <2> DEFINE j == x + 1  t == d[x + 1]
  <2>5. j \in 1..n /\ t \in 1..n /\ t <= j /\ m >= j
        /\ a[x] = swap(a[j], j, t) /\ a[j] \in Bijection(1..n, R)
    BY <2>1, <2>2, <2>3, <2>4
  <2> HIDE DEF j, t
  <2>6. a[j] \in [1..n -> R]
    BY <2>5, OrderIs
  <2>7. a[x][m] = IF m = t THEN a[j][j] ELSE IF m = j THEN a[j][t] ELSE a[j][m]
    BY <2>4, <2>5, <2>6 DEF swap
  <2>8. a[x][m] = IF m = j THEN a[m][t] ELSE a[j][m]
    BY <2>5, <2>7
  <2>9. QED
    BY <2>8 DEF j, t
<1>2. m - 1 \in S
  BY <1>1
<1>3. ASSUME NEW x \in 1..m - 1, x # m - 1, x + 1 \in S PROVE x \in S
  BY <1>1, <1>3
<1> HIDE DEF S
<1>4. m - 1 \in Nat
  OBVIOUS
<1>5. 1..m - 1 \subseteq S
  BY <1>2, <1>3, <1>4, DownInduction
<1>6. QED
  BY <1>5 DEF S

(* Two choices that leave one order are one choice.                        *)
LEMMA TurnsDiffer ==
  ASSUME NEW n \in Nat, n > 0, NEW R, NEW order \in Bijection(1..n, R),
         NEW d \in Draws(n), NEW a, Turns(a, order, n, d),
         NEW e \in Draws(n), NEW b, Turns(b, order, n, e), a[1] = b[1]
  PROVE  d = e
<1> DEFINE S == {i \in 1..n : \A x \in i + 1..n : d[x] = e[x]}
<1>1. n \in S
  OBVIOUS
<1>2. ASSUME NEW i \in 1..n, i # n, i + 1 \in S PROVE i \in S
  <2> DEFINE m == i + 1
  <2>1. m \in 2..n /\ m \in 1..n /\ 1 \in 1..m - 1
        /\ (\A x \in m + 1..n : d[x] = e[x]) /\ d[m] \in 1..n /\ e[m] \in 1..n
    BY <1>2 DEF Draws
  <2>2. \A x \in i + 1..n : x = m \/ x \in m + 1..n
    OBVIOUS
  <2> HIDE DEF m
  <2>3. (\A x \in m..n : a[x] = b[x]) /\ m \in m..n
    BY <2>1, TurnsAgree
  <2>4. a[1][m] = a[m][d[m]] /\ b[1][m] = b[m][e[m]]
    BY <2>1, TurnSettles
  <2>5. a[m] \in Bijection(1..n, R)
    BY <2>1, TurnsAreOrders
  <2>6. a[m][d[m]] = a[m][e[m]]
    BY <2>3, <2>4
  <2>7. \A x, y \in 1..n : a[m][x] = a[m][y] => x = y
    BY <2>5, OrderIs
  <2>8. d[m] = e[m]
    BY <2>1, <2>6, <2>7
  <2>9. QED
    BY <2>1, <2>2, <2>8
<1> HIDE DEF S
<1>3. 1..n \subseteq S
  BY <1>1, <1>2, DownInduction
<1>4. 1 \in S
  BY <1>3
<1>5. QED
  BY <1>4 DEF S, Draws

(* Every order can be left: place after place is drawn where it is found.  *)
LEMMA TurnsReach ==
  ASSUME NEW n \in Nat, n > 0, NEW R, NEW order \in Bijection(1..n, R),
         NEW p \in Bijection(1..n, R)
  PROVE  \E d \in Draws(n) : \E a : Turns(a, order, n, d) /\ a[1] = p
<1> DEFINE Leaves(d, a, i) == /\ Turns(a, order, n, d)
                              /\ \A x \in i + 1..n : a[1][x] = p[x]
           S == {i \in 1..n : \E d \in Draws(n) : \E a : Leaves(d, a, i)}
<1>1. n \in S
  <2> DEFINE d == [x \in 2..n |-> x]
  <2>1. d \in Draws(n)
    BY DEF Draws
  <2>2. PICK a : Turns(a, order, n, d)
    BY TurnsExist
  <2>3. Leaves(d, a, n)
    BY <2>2
  <2>4. QED
    BY <2>1, <2>3
<1>2. ASSUME NEW i \in 1..n, i # n, i + 1 \in S PROVE i \in S
  <2> DEFINE m == i + 1
  <2>0. PICK d \in Draws(n) : \E a : Leaves(d, a, m)
    BY <1>2
  <2>1. m \in 2..n /\ m \in 1..n /\ 1 \in 1..m - 1
    BY <1>2
  <2>2. PICK a : Leaves(d, a, m)
    BY <2>0
  <2>3. a[m] \in Bijection(1..n, R)
    BY <2>1, <2>2, TurnsAreOrders
  <2>4. PICK q \in 1..n : a[m][q] = p[m]
    <3> DEFINE f == a[m]
    <3>1. f \in Bijection(1..n, R)
      BY <2>3
    <3> HIDE DEF f
    <3>2. \A t \in R : \E x \in 1..n : f[x] = t
      BY <3>1, OrderIs
    <3>3. p[m] \in R
      BY <2>1, OrderIs
    <3>4. QED
      BY <3>2, <3>3 DEF f
  <2>5. q <= m
    <3>1. SUFFICES ASSUME q > m PROVE FALSE
      BY <2>1
    <3>2. q \in 2..n /\ m \in 1..q - 1 /\ 1 \in 1..q - 1
      BY <2>1, <3>1
    <3>3. a[m][q] = a[q][d[q]] /\ a[1][q] = a[q][d[q]]
      BY <2>2, <3>2, TurnSettles
    <3>4. a[1][q] = p[q]
      BY <2>2, <3>1, <2>1
    <3>5. p[q] = p[m]
      BY <2>4, <3>3, <3>4
    <3>6. \A x, y \in 1..n : p[x] = p[y] => x = y
      BY OrderIs
    <3>7. QED
      BY <2>1, <3>1, <3>5, <3>6
  <2> DEFINE e == [d EXCEPT ![m] = q]
  <2>6. e \in Draws(n) /\ e[m] = q /\ \A x \in m + 1..n : e[x] = d[x]
    BY <2>1, <2>5 DEF Draws
  <2> HIDE DEF e
  <2>7. PICK b : Turns(b, order, n, e)
    BY TurnsExist
  <2>8. \A x \in m..n : b[x] = a[x]
    BY <2>1, <2>2, <2>6, <2>7, TurnsAgree
  <2>9. ASSUME NEW x \in m..n PROVE b[1][x] = p[x]
    <3>1. x \in 2..n /\ 1 \in 1..x - 1
      BY <2>1
    <3>2. b[1][x] = b[x][e[x]] /\ a[1][x] = a[x][d[x]]
      BY <2>2, <2>6, <2>7, <3>1, TurnSettles
    <3>3. b[1][x] = a[x][e[x]]
      BY <2>8, <3>2
    <3>4. CASE x = m
      BY <2>4, <2>6, <3>3, <3>4
    <3>5. CASE x \in m + 1..n
      BY <2>2, <2>6, <3>2, <3>3, <3>5
    <3>6. QED
      BY <2>1, <3>4, <3>5
  <2>10. Leaves(e, b, i)
    BY <2>7, <2>9
  <2>11. QED
    BY <2>6, <2>10
<1> HIDE DEF S
<1>3. 1..n \subseteq S
  BY <1>1, <1>2, DownInduction
<1>4. PICK d \in Draws(n) : \E a : Leaves(d, a, 1)
  <2>1. 1 \in S
    BY <1>3
  <2>2. QED
    BY <2>1 DEF S
<1>5. PICK a : Leaves(d, a, 1)
  BY <1>4
<1>6. a[1] \in Bijection(1..n, R)
  BY <1>5, TurnsAreOrders
<1>7. \A x \in 2..n : a[1][x] = p[x]
  BY <1>5
<1>8. a[1][1] = p[1]
  <2>1. 1 \in 1..n
    OBVIOUS
  <2>2. PICK q \in 1..n : a[1][q] = p[1]
    <3> DEFINE f == a[1]
    <3>1. f \in Bijection(1..n, R)
      BY <1>6
    <3> HIDE DEF f
    <3>2. \A t \in R : \E x \in 1..n : f[x] = t
      BY <3>1, OrderIs
    <3>3. p[1] \in R
      BY <2>1, OrderIs
    <3>4. QED
      BY <3>2, <3>3 DEF f
  <2>3. CASE q = 1
    BY <2>2, <2>3
  <2>4. CASE q \in 2..n
    <3>1. p[q] = p[1]
      BY <1>7, <2>2, <2>4
    <3>2. q = 1
      BY <2>1, <3>1, OrderIs
    <3>3. QED
      BY <2>4, <3>2
  <2>5. QED
    BY <2>3, <2>4
<1>9. a[1] = p
  <2>1. a[1] \in [1..n -> R] /\ p \in [1..n -> R]
    BY <1>6, OrderIs
  <2>2. \A x \in 1..n : a[1][x] = p[x]
    BY <1>7, <1>8
  <2>3. QED
    BY <2>1, <2>2
<1>10. QED
  BY <1>5, <1>9

(* Every order of the albums is left by exactly one choice of draws.       *)
LEMMA MixedOnce ==
  ASSUME NEW n \in Nat, n > 0, NEW R, NEW order \in Bijection(1..n, R)
  PROVE  /\ \A d \in Draws(n) : Mixed(order, n, d) \in Bijection(1..n, R)
         /\ \A p \in Bijection(1..n, R) :
              \E c \in Draws(n) :
                \A d \in Draws(n) : Mixed(order, n, d) = p <=> d = c
<1>1. ASSUME NEW d \in Draws(n)
      PROVE  \E a : /\ Turns(a, order, n, d) /\ Mixed(order, n, d) = a[1]
                    /\ a[1] \in Bijection(1..n, R)
  <2>1. PICK a : Turns(a, order, n, d)
    BY TurnsExist
  <2>2. QED
    BY <2>1, MixedIsLast, TurnsAreOrders
<1>2. ASSUME NEW p \in Bijection(1..n, R)
      PROVE  \E c \in Draws(n) :
               \A d \in Draws(n) : Mixed(order, n, d) = p <=> d = c
  <2>1. PICK c \in Draws(n) : \E a : Turns(a, order, n, c) /\ a[1] = p
    BY TurnsReach
  <2>2. PICK a : Turns(a, order, n, c) /\ a[1] = p
    BY <2>1
  <2>3. Mixed(order, n, c) = p
    BY <2>2, MixedIsLast
  <2>4. ASSUME NEW d \in Draws(n), Mixed(order, n, d) = p PROVE d = c
    BY <1>1, <2>2, <2>4, TurnsDiffer
  <2>5. QED
    BY <2>3, <2>4
<1>3. QED
  BY <1>1, <1>2

(* A second swap undoes the first.                                         *)
LEMMA SwapTwice ==
  ASSUME NEW n \in Nat, n > 1, NEW R, NEW p \in [1..n -> R]
  PROVE  swap(swap(p, 1, 2), 1, 2) = p
<1> DEFINE s == swap(p, 1, 2)
<1>1. 1 \in 1..n /\ 2 \in 1..n
  OBVIOUS
<1>2. s \in [1..n -> R] /\ s[1] = p[2] /\ s[2] = p[1]
      /\ \A x \in 1..n : x # 1 /\ x # 2 => s[x] = p[x]
  BY <1>1 DEF swap
<1> HIDE DEF s
<1>3. swap(s, 1, 2) \in [1..n -> R]
      /\ \A x \in 1..n : swap(s, 1, 2)[x] = p[x]
  BY <1>1, <1>2 DEF swap
<1>4. swap(s, 1, 2) = p
  BY <1>3
<1>5. QED
  BY <1>4 DEF s

(* With two albums or more the shuffle leaves p, which does not begin with *)
(* the album just shown, by the draws that mix p; and, if that album is    *)
(* second in p, by those that mix p with the first two places swapped.     *)
LEMMA ShuffledTo ==
  ASSUME NEW n \in Nat, n > 1, NEW R, NEW order \in Bijection(1..n, R), NEW last,
         NEW p \in Bijection(1..n, R), p[1] # last
  PROVE  \E c, e \in Draws(n) :
           /\ c # e
           /\ {d \in Draws(n) : shuffle_albums(order, n, d, last) = p}
                = IF p[2] = last THEN {c, e} ELSE {c}
<1> DEFINE r == swap(p, 1, 2)
           left(d) == shuffle_albums(order, n, d, last)
<1>1. r \in Bijection(1..n, R)
  BY SwapIsOrder
<1>2. p \in [1..n -> R] /\ r[1] = p[2] /\ p[1] # p[2]
  <2>1. p \in [1..n -> R]
    BY OrderIs
  <2>2. 1 \in 1..n /\ 2 \in 1..n
    OBVIOUS
  <2>3. p[1] # p[2]
    BY <2>2, OrderIs
  <2>4. QED
    BY <2>1, <2>2, <2>3 DEF swap
<1>3. PICK c \in Draws(n) :
        \A d \in Draws(n) : Mixed(order, n, d) = p <=> d = c
  BY MixedOnce
<1>4. PICK e \in Draws(n) :
        \A d \in Draws(n) : Mixed(order, n, d) = r <=> d = e
  BY <1>1, MixedOnce
<1>5. ASSUME NEW d \in Draws(n)
      PROVE  left(d) = p <=> d = c \/ (p[2] = last /\ d = e)
  <2> DEFINE q == Mixed(order, n, d)
  <2>1. q \in Bijection(1..n, R)
    BY MixedOnce
  <2>2. q \in [1..n -> R]
    BY <2>1, OrderIs
  <2>3. left(d) = IF q[1] = last THEN swap(q, 1, 2) ELSE q
    BY DEF shuffle_albums
  <2>4. (q = p <=> d = c) /\ (q = r <=> d = e)
    BY <1>3, <1>4
  <2> HIDE DEF q, left
  <2>5. swap(q, 1, 2) = p <=> q = r
    <3>1. swap(r, 1, 2) = p
      BY <1>2, SwapTwice
    <3>2. q = swap(swap(q, 1, 2), 1, 2)
      BY <2>2, SwapTwice
    <3>3. QED
      BY <3>1, <3>2
  <2> HIDE DEF r
  <2>6. CASE q[1] = last
    BY <1>2, <2>3, <2>4, <2>5, <2>6
  <2>7. CASE q[1] # last
    <3>1. left(d) = q
      BY <2>3, <2>7
    <3>2. d = e => p[2] # last
      BY <1>2, <2>4, <2>7
    <3>3. QED
      BY <2>4, <3>1, <3>2
  <2>8. QED
    BY <2>6, <2>7
<1>6. c # e
  BY <1>2, <1>3, <1>4
<1> HIDE DEF r
<1>7. CASE p[2] = last
  BY <1>5, <1>6, <1>7
<1>8. CASE p[2] # last
  BY <1>5, <1>6, <1>8
<1>9. QED
  BY <1>7, <1>8

(* With one album or none there is one choice and one order.               *)
LEMMA NothingToShuffle ==
  ASSUME NEW n \in Nat, n < 2, NEW R, NEW order \in Bijection(1..n, R)
  PROVE  /\ \E c : Draws(n) = {c}
         /\ Bijection(1..n, R) = {order}
<1>1. \A x \in 1..n : x = 1
  OBVIOUS
<1>2. 2..n = {}
  OBVIOUS
<1>3. Draws(n) = {[x \in 2..n |-> 1]}
  BY <1>2 DEF Draws
<1>4. ASSUME NEW p \in Bijection(1..n, R) PROVE p = order
  <2>1. p \in [1..n -> R] /\ order \in [1..n -> R]
    BY OrderIs
  <2>2. ASSUME NEW x \in 1..n PROVE p[x] = order[x]
    <3>1. p[x] \in R
      BY <2>1
    <3>2. \A t \in R : \E y \in 1..n : order[y] = t
      BY OrderIs
    <3>3. PICK y \in 1..n : order[y] = p[x]
      BY <3>1, <3>2
    <3>4. QED
      BY <1>1, <3>3
  <2>3. QED
    BY <2>1, <2>2
<1>5. QED
  BY <1>3, <1>4

(* What each choice of draws leaves, and the orders that may be left       *)
ShuffledBy(order, n, last) == [d \in Draws(n) |-> shuffle_albums(order, n, d, last)]
RoundsAfter(R, n, last) == {p \in Bijection(1..n, R) : n > 1 => p[1] # last}

(* The shuffle of the albums of R after an album last was shown is fair.   *)
LEMMA Fair ==
  ASSUME NEW n \in Nat, NEW R, NEW order \in Bijection(1..n, R), NEW last
  PROVE  /\ Range(ShuffledBy(order, n, last)) = RoundsAfter(R, n, last)
         /\ \A p \in RoundsAfter(R, n, last) :
              Cardinality({d \in Draws(n) : ShuffledBy(order, n, last)[d] = p}) =
                IF n > 1 /\ p[2] = last THEN 2 ELSE 1
<1> DEFINE left == ShuffledBy(order, n, last)
           P == RoundsAfter(R, n, last)
<1>1. left = [d \in Draws(n) |-> shuffle_albums(order, n, d, last)]
  BY DEF ShuffledBy
<1>2. P = {p \in Bijection(1..n, R) : n > 1 => p[1] # last}
  BY DEF RoundsAfter
<1> HIDE DEF left, P
<1>3. SUFFICES /\ Range(left) = P
               /\ \A p \in P : Cardinality({d \in Draws(n) : left[d] = p}) =
                                  IF n > 1 /\ p[2] = last THEN 2 ELSE 1
  BY DEF left, P
<1>4. Range(left) = {left[d] : d \in Draws(n)}
  BY <1>1 DEF Range
<1>5. CASE n < 2
  <2>1. PICK c : Draws(n) = {c}
    BY <1>5, NothingToShuffle
  <2>2. P = {order}
    BY <1>2, <1>5, NothingToShuffle
  <2>3. left[c] = order
    BY <1>1, <1>5, <2>1 DEF shuffle_albums
  <2>4. {d \in Draws(n) : left[d] = order} = {c}
    BY <2>1, <2>3
  <2>5. Cardinality({c}) = 1
    BY FS_Singleton
  <2>6. Range(left) = P
    BY <1>4, <2>1, <2>2, <2>3
  <2>7. ASSUME NEW p \in P
        PROVE  Cardinality({d \in Draws(n) : left[d] = p}) =
                 IF n > 1 /\ p[2] = last THEN 2 ELSE 1
    <3>1. p = order
      BY <2>2
    <3>2. Cardinality({d \in Draws(n) : left[d] = p}) = 1
      BY <2>4, <2>5, <3>1
    <3>3. QED
      BY <1>5, <3>2
  <2>8. QED
    BY <2>6, <2>7
<1>6. CASE n > 1
  <2>1. ASSUME NEW p \in P
        PROVE  /\ p \in Range(left)
               /\ Cardinality({d \in Draws(n) : left[d] = p}) =
                     IF p[2] = last THEN 2 ELSE 1
    <3>1. PICK c, e \in Draws(n) :
            /\ c # e
            /\ {d \in Draws(n) : shuffle_albums(order, n, d, last) = p}
                 = IF p[2] = last THEN {c, e} ELSE {c}
      <4>1. p \in Bijection(1..n, R) /\ p[1] # last
        BY <1>2, <1>6
      <4>2. QED
        BY <1>6, <4>1, ShuffledTo, Z3
    <3>2. {d \in Draws(n) : left[d] = p} = IF p[2] = last THEN {c, e} ELSE {c}
      BY <1>1, <3>1
    <3>3. left[c] = p
      BY <3>2
    <3>4. IsFiniteSet({c}) /\ Cardinality({c}) = 1
      BY FS_Singleton
    <3>5. {c, e} = {c} \cup {e} /\ e \notin {c}
      BY <3>1
    <3>6. Cardinality({c} \cup {e}) =
            IF e \in {c} THEN Cardinality({c}) ELSE Cardinality({c}) + 1
      BY <3>4, FS_AddElement, Zenon
    <3>7. Cardinality({c, e}) = 2
      <4>1. Cardinality({c, e}) = Cardinality({c}) + 1
        BY <3>5, <3>6, Zenon
      <4>2. QED
        BY <3>4, <4>1
    <3>8. QED
      BY <1>4, <3>2, <3>3, <3>4, <3>7
  <2>2. ASSUME NEW d \in Draws(n) PROVE left[d] \in P
    <3> DEFINE q == Mixed(order, n, d)
    <3>1. q \in Bijection(1..n, R)
      BY <1>6, MixedOnce
    <3>2. q \in [1..n -> R]
      BY <3>1, OrderIs
    <3>3. left[d] = IF q[1] = last THEN swap(q, 1, 2) ELSE q
      BY <1>1, <1>6 DEF shuffle_albums
    <3> HIDE DEF q
    <3>4. 1 \in 1..n /\ 2 \in 1..n
      BY <1>6
    <3>5. q[1] # q[2]
      <4>1. \A x, y \in 1..n : q[x] = q[y] => x = y
        BY <3>1, OrderIs
      <4>2. QED
        BY <3>4, <4>1
    <3>6. swap(q, 1, 2) \in Bijection(1..n, R)
      BY <3>1, <3>4, SwapIsOrder
    <3>7. swap(q, 1, 2)[1] = q[2]
      BY <3>2, <3>4 DEF swap
    <3>8. QED
      BY <1>2, <3>1, <3>3, <3>5, <3>6, <3>7
  <2>3. QED
    BY <1>4, <1>6, <2>1, <2>2
<1>7. QED
  BY <1>5, <1>6

(* The shuffle is fair (ShuffleIsFair): whatever the order that a rebuild  *)
(* left the albums in, every order that may begin a round is left by one   *)
(* choice of the draws, and the ones with the album just shown second by   *)
(* two.                                                                    *)
THEOREM ShuffleCorrect == Spec => []ShuffleIsFair
<1>1. TypeInv => ShuffleIsFair
  <2>1. SUFFICES ASSUME TypeInv PROVE ShuffleIsFair
    OBVIOUS
  <2> DEFINE n == Cardinality(rotation)
             left(order) == ShuffledBy(order, n, last_album_id)
  <2>2. n \in Nat
    BY <2>1, FiniteAlbums DEF TypeInv, TypeOK, OrderOK
  <2> HIDE DEF n
  <2>3. ASSUME NEW order \in Bijection(1..n, rotation)
        PROVE  /\ Range(left(order)) = RoundsAfter(rotation, n, last_album_id)
               /\ \A p \in RoundsAfter(rotation, n, last_album_id) :
                    Cardinality({d \in Draws(n) : left(order)[d] = p}) =
                      IF n > 1 /\ p[2] = last_album_id THEN 2 ELSE 1
    BY <2>2, Fair, Z3
  <2> QED
    BY <2>3, Zenon DEF ShuffleIsFair, Shuffles, ShuffledBy, RoundsAfter, n
<1> QED
  BY <1>1, TypeInvariant, PTL
===============================================================================
