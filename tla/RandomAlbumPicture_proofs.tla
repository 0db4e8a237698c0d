---------------------- MODULE RandomAlbumPicture_proofs ----------------------
(***************************************************************************)
(* Theorems about the sampler, for any threads, albums, filters and bounds.*)
(* The inductive invariant is a conjunction: types, who may hold r->lock,  *)
(* and one part for each of the promises.                                  *)
(***************************************************************************)
EXTENDS RandomAlbumPicture, Numbers_proofs, FiniteSetTheorems,
        SequenceTheorems, TLAPS

(* The labels of a get that has entered r->lock                            *)
Inside == {"take_filter", "copy_filter", "rebuild", "store_kept",
           "store_selection", "check", "update", "listing", "mark_stale",
           "loop", "sampling", "deliver"}

(* Only the owner of r->lock is inside; what it is about to use is there   *)
LockInv == \A g \in Getters : pc[g] \in Inside => lock = g

ReadyInv ==
  \A g \in Getters :
    /\ pc[g] = "deliver" => sample_pos < sample_len
    /\ pc[g] = "sampling" => last_album_id \in rotation

TypeInv == TypeOK /\ LockInv /\ ReadyInv

(* Without a list there is nothing to rebuild, so a filter may come into   *)
(* force without a rebuild                                                 *)
RotationInv == RotationIsCurrent /\ (~have_albums => DOMAIN albums = {})

(* A list on its way was requested after every refresh that cleared stale  *)
RefreshInv ==
  /\ RefreshNotLost
  /\ \A g \in Getters : pc[g] = "listing" => stale \/ requested = refreshes

(* The newest filter that set_filter has returned for is in force, or the  *)
(* flag says that it is not, or a thread is about to copy it. Who has gone *)
(* past that point inside the lock has it.                                 *)
FreshInv ==
  /\ committed <= pending_filter.ver
  /\ \A s \in Setters : pc[s] = "publish" => arg[s].ver <= pending_filter.ver
  /\ \A g \in Getters : floor[g] <= committed
  /\ \/ filter.ver >= committed \/ filter_changed
     \/ \E g \in Getters : pc[g] \in {"take_filter", "copy_filter"}
  /\ \A g \in Getters :
       pc[g] \in Inside \ {"take_filter", "copy_filter"}
         => filter.ver >= floor[g]

-------------------------------------------------------------------------------
(* A shuffle is a sequence of all albums of the rotation.                  *)
LEMMA ShufflesAreSequences ==
  ASSUME IsFiniteSet(rotation), NEW p \in Shuffles
  PROVE  /\ p \in Seq(rotation) /\ Len(p) = Cardinality(rotation)
         /\ Cardinality(rotation) \in Nat
<1>1. Cardinality(rotation) \in Nat
  BY FS_CardinalityType
<1>2. p \in [1..Cardinality(rotation) -> rotation]
  BY DEF Shuffles, Bijection, Injection
<1>3. QED
  BY <1>1, <1>2

(* The album list, the rotation and every set of albums is finite.         *)
LEMMA FiniteAlbums ==
  ASSUME NEW S, S \subseteq Albums
  PROVE  IsFiniteSet(S) /\ Cardinality(S) \in Nat
BY ConstantsAssumption, FS_Subset, FS_CardinalityType DEF ConstantsAssumption

(* What next_album() takes from the round is an album of the rotation, and *)
(* what it leaves is a round.                                              *)
LEMMA NextOfRound ==
  ASSUME TypeInv, ~(Cardinality(rotation) = 0),
         NEW round \in IF upcoming = <<>> THEN Shuffles ELSE {upcoming}
  PROVE  Head(round) \in rotation /\ Tail(round) \in Seq(rotation)
<1>1. IsFiniteSet(rotation) /\ Cardinality(rotation) \in Nat
  BY FiniteAlbums DEF TypeInv, TypeOK, OrderOK
<1>2. round \in Seq(rotation) /\ round # <<>>
  <2>1. CASE upcoming = <<>>
    BY <2>1, <1>1, ShufflesAreSequences
  <2>2. CASE upcoming # <<>>
    BY <2>2 DEF TypeInv, TypeOK, OrderOK
  <2>3. QED
    BY <2>1, <2>2
<1>3. QED
  BY <1>2, HeadTailProperties

(* A turn of next_album() leaves the round inside the rotation, and either *)
(* names the album to ask for or returns with the lock released.           *)
LEMMA NextAlbumTakes ==
  ASSUME TypeInv, NEW g \in Getters, NextAlbum(g)
  PROVE  /\ upcoming' \in Seq(rotation) /\ visits' \in [Albums -> Nat]
         /\ \/ /\ last_album_id' \in rotation
               /\ Goto(g, "sampling") /\ UNCHANGED <<lock, misses>>
            \/ Fail(g) /\ UNCHANGED last_album_id
<1>1. ~(Cardinality(rotation) = 0)
  BY FiniteAlbums DEF NextAlbum, TypeInv, TypeOK, OrderOK, LocalOK
<1>2. PICK round \in IF upcoming = <<>> THEN Shuffles ELSE {upcoming} :
        /\ upcoming' = Tail(round) /\ visits' = Visited(Head(round))
        /\ \/ /\ last_album_id' = Head(round)
              /\ Goto(g, "sampling") /\ UNCHANGED <<lock, misses>>
           \/ Fail(g) /\ UNCHANGED last_album_id
  BY DEF NextAlbum
<1>3. Head(round) \in rotation /\ Tail(round) \in Seq(rotation)
  BY <1>1, NextOfRound
<1>4. Visited(Head(round)) \in [Albums -> Nat]
  BY <1>3 DEF Visited, TypeInv, TypeOK, OrderOK
<1>5. QED
  BY <1>2, <1>3, <1>4

(* A step that leaves a group of variables alone leaves their types alone. *)
LEMMA TypesKept ==
  /\ CallerOK /\ UNCHANGED callerVars => CallerOK'
  /\ FilterOK /\ UNCHANGED filterVars => FilterOK'
  /\ StatusOK /\ UNCHANGED statusVars => StatusOK'
  /\ StaleOK /\ UNCHANGED staleVars => StaleOK'
  /\ ListOK /\ UNCHANGED listVars => ListOK'
  /\ OrderOK /\ UNCHANGED orderVars => OrderOK'
  /\ SampleOK /\ UNCHANGED sampleVars => SampleOK'
  /\ LocalOK /\ UNCHANGED localVars => LocalOK'
  /\ WarnOK /\ UNCHANGED warnVars => WarnOK'
  /\ OwnerOK /\ UNCHANGED <<lock, filter>> => OwnerOK'
<1> USE DEF callerVars, filterVars, statusVars, staleVars, listVars,
        orderVars, sampleVars, localVars, warnVars
<1>1. CallerOK /\ UNCHANGED callerVars => CallerOK'
  BY DEF CallerOK
<1>2. FilterOK /\ UNCHANGED filterVars => FilterOK'
  BY DEF FilterOK
<1>3. StatusOK /\ UNCHANGED statusVars => StatusOK'
  BY DEF StatusOK
<1>4. StaleOK /\ UNCHANGED staleVars => StaleOK'
  BY DEF StaleOK
<1>5. ListOK /\ UNCHANGED listVars => ListOK'
  BY DEF ListOK
<1>6. OrderOK /\ UNCHANGED orderVars => OrderOK'
  BY DEF OrderOK
<1>7. SampleOK /\ UNCHANGED sampleVars => SampleOK'
  BY DEF SampleOK
<1>8. LocalOK /\ UNCHANGED localVars => LocalOK'
  BY DEF LocalOK
<1>9. WarnOK /\ UNCHANGED warnVars => WarnOK'
  BY DEF WarnOK
<1>10. OwnerOK /\ UNCHANGED <<lock, filter>> => OwnerOK'
  BY DEF OwnerOK
<1>11. QED
  BY <1>1, <1>2, <1>3, <1>4, <1>5, <1>6, <1>7, <1>8, <1>9, <1>10

(* A thread goes to a label.                                               *)
LEMMA PcKept ==
  ASSUME PcOK, NEW t \in Threads, NEW label \in Labels, Goto(t, label)
  PROVE  PcOK'
BY DEF PcOK, Goto

(* Every step of the sampler preserves the types.                          *)
LEMMA TypeStep ==
  ASSUME TypeInv, Next
  PROVE  TypeOK'
<1> USE DEF TypeInv, TypeOK
<1>1. ASSUME NEW g \in Getters, GetCall(g) PROVE TypeOK'
  <2>1. PcOK'
    BY <1>1, PcKept DEF GetCall, Threads, Labels
  <2>2. CallerOK'
    BY <1>1 DEF GetCall, CallerOK, FilterOK
  <2>3. QED
    BY <1>1, <2>1, <2>2, TypesKept DEF GetCall, samplerVars
<1>2. ASSUME NEW g \in Getters, Enter(g) PROVE TypeOK'
  <2>1. PcOK'
    BY <1>2, PcKept DEF Enter, Threads, Labels
  <2>2. FilterOK'
    BY <1>2 DEF Enter, FilterOK, filterVars
  <2>3. OwnerOK'
    BY <1>2 DEF Enter, OwnerOK
  <2>4. QED
    BY <1>2, <2>1, <2>2, <2>3, TypesKept DEF Enter, samplerVars
<1>3. ASSUME NEW g \in Getters, TakeFilterLock(g) PROVE TypeOK'
  <2>1. PcOK'
    BY <1>3, PcKept DEF TakeFilterLock, Threads, Labels
  <2>2. FilterOK'
    BY <1>3 DEF TakeFilterLock, FilterOK, Threads
  <2>3. QED
    BY <1>3, <2>1, <2>2, TypesKept DEF TakeFilterLock, samplerVars
<1>4. ASSUME NEW g \in Getters, CopyFilter(g) PROVE TypeOK'
  <2>1. PcOK'
    BY <1>4, PcKept DEF CopyFilter, Threads, Labels
  <2>2. FilterOK'
    BY <1>4 DEF CopyFilter, FilterOK, filterVars
  <2>3. OwnerOK'
    BY <1>4 DEF CopyFilter, OwnerOK, FilterOK
  <2>4. SampleOK'
    BY <1>4 DEF CopyFilter, SampleOK, sampleVars
  <2>5. LocalOK'
    BY <1>4 DEF CopyFilter, LocalOK, localVars
  <2>6. QED
    BY <1>4, <2>1, <2>2, <2>3, <2>4, <2>5, TypesKept DEF CopyFilter, samplerVars
<1>5. ASSUME NEW g \in Getters, CopyFilterFails(g) PROVE TypeOK'
  <2>1. PcOK'
    BY <1>5, PcKept DEF CopyFilterFails, Threads, Labels
  <2>2. FilterOK'
    BY <1>5 DEF CopyFilterFails, FilterOK, filterVars
  <2>3. QED
    BY <1>5, <2>1, <2>2, TypesKept DEF CopyFilterFails, samplerVars
<1>6. ASSUME NEW g \in Getters, RebuildOrder(g) PROVE TypeOK'
  <2>1. PcOK'
    BY <1>6, PcKept DEF RebuildOrder, Threads, Labels
  <2>2. OrderOK'
    BY <1>6, EmptySeq DEF RebuildOrder, OrderOK, ListOK, AlbumList, Kept
  <2>3. WarnOK'
    <3>1. warned_empty' = FALSE
      BY <1>6 DEF RebuildOrder
    <3>2. misses' = 0
      BY <1>6 DEF RebuildOrder
    <3>3. misses' \in 0..2
      BY <3>2
    <3>4. QED
      BY <3>1, <3>3 DEF WarnOK
  <2>4. StatusOK'
    BY <1>6, FiniteAlbums
    DEF RebuildOrder, StatusOK, Counts, ListOK, AlbumList
  <2>5. QED
    BY <1>6, <2>1, <2>2, <2>3, <2>4, TypesKept DEF RebuildOrder, samplerVars
<1>7. ASSUME NEW g \in Getters, StoreKept(g) PROVE TypeOK'
  <2>1. PcOK'
    BY <1>7, PcKept DEF StoreKept, Threads, Labels
  <2>2. StatusOK'
    BY <1>7, FiniteAlbums DEF StoreKept, StatusOK, Counts, OrderOK
  <2>3. QED
    BY <1>7, <2>1, <2>2, TypesKept DEF StoreKept, samplerVars
<1>8. ASSUME NEW g \in Getters, StoreSelection(g) PROVE TypeOK'
  <2>1. PcOK'
    BY <1>8, PcKept DEF StoreSelection, LocalOK, Threads, Labels
  <2>2. StatusOK'
    BY <1>8 DEF StoreSelection, StatusOK, Counts, Verdicts, Verdict
  <2>3. QED
    BY <1>8, <2>1, <2>2, TypesKept DEF StoreSelection, samplerVars
<1>9. ASSUME NEW g \in Getters, CheckSample(g) PROVE TypeOK'
  <2>1. PcOK'
    BY <1>9, PcKept DEF CheckSample, Threads, Labels
  <2>2. QED
    BY <1>9, <2>1, TypesKept DEF CheckSample, samplerVars
<1>10. ASSUME NEW g \in Getters, UpdateAlbums(g) PROVE TypeOK'
  <2>1. PcOK'
    BY <1>10, PcKept DEF UpdateAlbums, Threads, Labels
  <2>2. StaleOK'
    BY <1>10 DEF UpdateAlbums, StaleOK, staleVars
  <2>3. LocalOK'
    BY <1>10 DEF UpdateAlbums, LocalOK, localVars
  <2>4. ListOK'
    BY <1>10 DEF UpdateAlbums, ListOK, StaleOK
  <2>5. QED
    BY <1>10, <2>1, <2>2, <2>3, <2>4, TypesKept DEF UpdateAlbums, samplerVars
<1>11. ASSUME NEW g \in Getters, ListAlbums(g) PROVE TypeOK'
  <2>1. PcOK'
    BY <1>11, PcKept DEF ListAlbums, Threads, Labels
  <2>2. ListOK'
    BY <1>11, ConstantsAssumption DEF ListAlbums, ListOK, ConstantsAssumption
  <2>3. LocalOK'
    BY <1>11 DEF ListAlbums, LocalOK, localVars
  <2>4. QED
    BY <1>11, <2>1, <2>2, <2>3, TypesKept DEF ListAlbums, samplerVars
<1>12. ASSUME NEW g \in Getters, ListAlbumsFails(g) PROVE TypeOK'
  <2>1. PcOK'
    BY <1>12, PcKept DEF ListAlbumsFails, Threads, Labels
  <2>2. QED
    BY <1>12, <2>1, TypesKept DEF ListAlbumsFails, samplerVars
<1>13. ASSUME NEW g \in Getters, MarkStale(g) PROVE TypeOK'
  <2>1. PcOK'
    BY <1>13, PcKept DEF MarkStale, Fail, Threads, Labels
  <2>2. StaleOK'
    BY <1>13 DEF MarkStale, StaleOK, staleVars
  <2>3. OwnerOK'
    BY <1>13 DEF MarkStale, Fail, OwnerOK
  <2>4. WarnOK'
    BY <1>13 DEF MarkStale, Fail, WarnOK, warnVars
  <2>5. QED
    BY <1>13, <2>1, <2>2, <2>3, <2>4, TypesKept DEF MarkStale, samplerVars
<1>14. ASSUME NEW g \in Getters, NextAlbum(g) PROVE TypeOK'
  <2>1. PcOK'
    BY <1>14, NextAlbumTakes, PcKept DEF Fail, Threads, Labels
  <2>2. OrderOK'
    BY <1>14, NextAlbumTakes DEF NextAlbum, OrderOK
  <2>3. OwnerOK' /\ WarnOK'
    BY <1>14, NextAlbumTakes DEF NextAlbum, OwnerOK, WarnOK, Fail
  <2>4. QED
    BY <1>14, <2>1, <2>2, <2>3, TypesKept DEF NextAlbum, samplerVars
<1>15. ASSUME NEW g \in Getters, SampleAlbum(g) PROVE TypeOK'
  <2>1. last_album_id \in Albums
    BY <1>15 DEF SampleAlbum, ReadyInv, OrderOK
  <2>2. PICK n \in PictureCounts[last_album_id] :
          /\ sample_len' = sample_size(n, max_pictures, percent)
          /\ sample_pos' = 0
          /\ \/ /\ tries' = tries + 1 /\ Goto(g, "loop")
                /\ UNCHANGED <<sample_album, warned_empty>>
             \/ /\ sample_album' = last_album_id /\ warned_empty' = FALSE
                /\ Goto(g, "deliver") /\ UNCHANGED tries
    BY <1>15 DEF SampleAlbum
  <2>3. sample_size(n, max_pictures, percent) \in Nat
    <3>1. n \in Nat /\ max_pictures \in Nat /\ percent \in 1..100
      BY <2>1, ConstantsAssumption DEF ConstantsAssumption
    <3>2. sample_size(n, max_pictures, percent) \in 0..n
      BY <3>1, SampleSizeBounds
    <3>3. QED
      BY <3>1, <3>2
  <2>4. PcOK'
    BY <2>2, PcKept DEF Threads, Labels
  <2>5. SampleOK'
    BY <2>1, <2>2, <2>3 DEF SampleOK
  <2>6. LocalOK'
    <3>1. UNCHANGED after_rebuild
      BY <1>15 DEF SampleAlbum
    <3>2. QED
      BY <2>2, <3>1 DEF LocalOK
  <2>7. WarnOK'
    <3>1. UNCHANGED misses
      BY <1>15 DEF SampleAlbum
    <3>2. QED
      BY <2>2, <3>1 DEF WarnOK
  <2>8. QED
    BY <1>15, <2>4, <2>5, <2>6, <2>7, TypesKept DEF SampleAlbum, samplerVars
<1>16. ASSUME NEW g \in Getters, SampleAlbumFails(g) PROVE TypeOK'
  <2>1. PcOK'
    BY <1>16, PcKept DEF SampleAlbumFails, Fail, Threads, Labels
  <2>2. OwnerOK'
    BY <1>16 DEF SampleAlbumFails, Fail, OwnerOK
  <2>3. WarnOK'
    BY <1>16 DEF SampleAlbumFails, Fail, WarnOK, warnVars
  <2>4. QED
    BY <1>16, <2>1, <2>2, <2>3, TypesKept DEF SampleAlbumFails, samplerVars
<1>17. ASSUME NEW g \in Getters, GiveUp(g) PROVE TypeOK'
  <2>1. PcOK'
    BY <1>17, PcKept DEF GiveUp, Fail, Threads, Labels
  <2>2. OwnerOK'
    BY <1>17 DEF GiveUp, Fail, OwnerOK
  <2>3. WarnOK'
    BY <1>17 DEF GiveUp, Fail, WarnOK, warnVars
  <2>4. QED
    BY <1>17, <2>1, <2>2, <2>3, TypesKept DEF GiveUp, samplerVars
<1>18. ASSUME NEW g \in Getters, Deliver(g) PROVE TypeOK'
  <2>1. PcOK'
    BY <1>18, PcKept DEF Deliver, Succeed, Threads, Labels
  <2>2. OwnerOK'
    BY <1>18 DEF Deliver, Succeed, OwnerOK
  <2>3. WarnOK'
    BY <1>18 DEF Deliver, Succeed, WarnOK, warnVars
  <2>4. SampleOK'
    BY <1>18 DEF Deliver, SampleOK, ReadyInv
  <2>5. QED
    BY <1>18, <2>1, <2>2, <2>3, <2>4, TypesKept DEF Deliver, samplerVars
<1>19. ASSUME NEW s \in Setters, NEW f \in Filters, SetCall(s, f) PROVE TypeOK'
  <2>1. PcOK'
    BY <1>19, PcKept DEF SetCall, Threads, Labels
  <2>2. CallerOK'
    BY <1>19 DEF SetCall, CallerOK, StampedFilters
  <2>3. QED
    BY <1>19, <2>1, <2>2, TypesKept DEF SetCall, samplerVars
<1>20. ASSUME NEW s \in Setters, SetLock(s) PROVE TypeOK'
  <2>1. PcOK'
    BY <1>20, PcKept DEF SetLock, Threads, Labels
  <2>2. FilterOK'
    BY <1>20 DEF SetLock, FilterOK, Threads
  <2>3. QED
    BY <1>20, <2>1, <2>2, TypesKept DEF SetLock, samplerVars
<1>21. ASSUME NEW s \in Setters, StoreFilter(s) PROVE TypeOK'
  <2>1. PcOK'
    BY <1>21, PcKept DEF StoreFilter, Threads, Labels
  <2>2. FilterOK'
    BY <1>21 DEF StoreFilter, FilterOK, CallerOK, StampedFilters
  <2>3. CallerOK'
    BY <1>21 DEF StoreFilter, FilterOK, CallerOK, StampedFilters
  <2>4. QED
    BY <1>21, <2>1, <2>2, <2>3, TypesKept DEF StoreFilter, samplerVars
<1>22. ASSUME NEW s \in Setters, StoreFilterFails(s) PROVE TypeOK'
  <2>1. PcOK'
    BY <1>22, PcKept DEF StoreFilterFails, Threads, Labels
  <2>2. FilterOK'
    BY <1>22 DEF StoreFilterFails, FilterOK, filterVars
  <2>3. QED
    BY <1>22, <2>1, <2>2, TypesKept DEF StoreFilterFails, samplerVars
<1>23. ASSUME NEW s \in Setters, Publish(s) PROVE TypeOK'
  <2>1. PcOK'
    BY <1>23, PcKept DEF Publish, Threads, Labels
  <2>2. FilterOK'
    BY <1>23 DEF Publish, FilterOK, CallerOK, StampedFilters
  <2>3. QED
    BY <1>23, <2>1, <2>2, TypesKept DEF Publish, samplerVars
<1>24. ASSUME NEW r \in Readers, ReadSelection(r) PROVE TypeOK'
  <2>1. PcOK'
    BY <1>24, PcKept DEF ReadSelection, Threads, Labels
  <2>2. CallerOK'
    BY <1>24 DEF ReadSelection, CallerOK, StatusOK
  <2>3. QED
    BY <1>24, <2>1, <2>2, TypesKept DEF ReadSelection, samplerVars
<1>25. ASSUME NEW r \in Readers, ReadTotal(r) PROVE TypeOK'
  <2>1. PcOK'
    BY <1>25, PcKept DEF ReadTotal, Threads, Labels
  <2>2. CallerOK'
    BY <1>25 DEF ReadTotal, CallerOK, StatusOK
  <2>3. QED
    BY <1>25, <2>1, <2>2, TypesKept DEF ReadTotal, samplerVars
<1>26. ASSUME NEW r \in Readers, ReadKept(r) PROVE TypeOK'
  <2>1. PcOK'
    BY <1>26, PcKept DEF ReadKept, Threads, Labels
  <2>2. CallerOK'
    BY <1>26 DEF ReadKept, CallerOK, StatusOK
  <2>3. QED
    BY <1>26, <2>1, <2>2, TypesKept DEF ReadKept, samplerVars
<1>27. ASSUME Refresh PROVE TypeOK'
  <2>1. PcOK' /\ StaleOK'
    BY <1>27 DEF Refresh, PcOK, StaleOK
  <2>2. QED
    BY <1>27, <2>1, TypesKept DEF Refresh, samplerVars
<1>28. QED
  BY <1>1, <1>2, <1>3, <1>4, <1>5, <1>6, <1>7, <1>8, <1>9, <1>10, <1>11, <1>12, <1>13, <1>14, <1>15, <1>16, <1>17, <1>18, <1>19, <1>20, <1>21, <1>22, <1>23, <1>24, <1>25, <1>26, <1>27
  DEF Next, LocalStep, ListReply, SampleReply, SetStep, ReadStep

(* Nobody comes in before the owner of r->lock has gone out.               *)
LEMMA LockStep ==
  ASSUME TypeInv, Next
  PROVE  LockInv'
<1> USE ConstantsAssumption
    DEF ConstantsAssumption, Threads, TypeInv, TypeOK, PcOK, LockInv, Inside,
      LocalOK, samplerVars, Goto
<1>1. ASSUME NEW g \in Getters, GetCall(g) PROVE LockInv'
  BY <1>1 DEF GetCall
<1>2. ASSUME NEW g \in Getters, Enter(g) PROVE LockInv'
  BY <1>2 DEF Enter
<1>3. ASSUME NEW g \in Getters, TakeFilterLock(g) PROVE LockInv'
  BY <1>3 DEF TakeFilterLock
<1>4. ASSUME NEW g \in Getters, CopyFilter(g) PROVE LockInv'
  BY <1>4 DEF CopyFilter
<1>5. ASSUME NEW g \in Getters, CopyFilterFails(g) PROVE LockInv'
  BY <1>5 DEF CopyFilterFails
<1>6. ASSUME NEW g \in Getters, RebuildOrder(g) PROVE LockInv'
  BY <1>6 DEF RebuildOrder
<1>7. ASSUME NEW g \in Getters, StoreKept(g) PROVE LockInv'
  BY <1>7 DEF StoreKept
<1>8. ASSUME NEW g \in Getters, StoreSelection(g) PROVE LockInv'
  BY <1>8 DEF StoreSelection
<1>9. ASSUME NEW g \in Getters, CheckSample(g) PROVE LockInv'
  BY <1>9 DEF CheckSample
<1>10. ASSUME NEW g \in Getters, UpdateAlbums(g) PROVE LockInv'
  BY <1>10 DEF UpdateAlbums
<1>11. ASSUME NEW g \in Getters, ListAlbums(g) PROVE LockInv'
  BY <1>11 DEF ListAlbums
<1>12. ASSUME NEW g \in Getters, ListAlbumsFails(g) PROVE LockInv'
  BY <1>12 DEF ListAlbumsFails
<1>13. ASSUME NEW g \in Getters, MarkStale(g) PROVE LockInv'
  BY <1>13 DEF MarkStale, Fail
<1>14. ASSUME NEW g \in Getters, NextAlbum(g) PROVE LockInv'
  BY <1>14 DEF NextAlbum, Fail
<1>15. ASSUME NEW g \in Getters, SampleAlbum(g) PROVE LockInv'
  BY <1>15 DEF SampleAlbum
<1>16. ASSUME NEW g \in Getters, SampleAlbumFails(g) PROVE LockInv'
  BY <1>16 DEF SampleAlbumFails, Fail
<1>17. ASSUME NEW g \in Getters, GiveUp(g) PROVE LockInv'
  BY <1>17 DEF GiveUp, Fail
<1>18. ASSUME NEW g \in Getters, Deliver(g) PROVE LockInv'
  BY <1>18 DEF Deliver, Succeed
<1>19. ASSUME NEW s \in Setters, NEW f \in Filters, SetCall(s, f) PROVE LockInv'
  BY <1>19 DEF SetCall
<1>20. ASSUME NEW s \in Setters, SetLock(s) PROVE LockInv'
  BY <1>20 DEF SetLock
<1>21. ASSUME NEW s \in Setters, StoreFilter(s) PROVE LockInv'
  BY <1>21 DEF StoreFilter
<1>22. ASSUME NEW s \in Setters, StoreFilterFails(s) PROVE LockInv'
  BY <1>22 DEF StoreFilterFails
<1>23. ASSUME NEW s \in Setters, Publish(s) PROVE LockInv'
  BY <1>23 DEF Publish
<1>24. ASSUME NEW r \in Readers, ReadSelection(r) PROVE LockInv'
  BY <1>24 DEF ReadSelection
<1>25. ASSUME NEW r \in Readers, ReadTotal(r) PROVE LockInv'
  BY <1>25 DEF ReadTotal
<1>26. ASSUME NEW r \in Readers, ReadKept(r) PROVE LockInv'
  BY <1>26 DEF ReadKept
<1>27. ASSUME Refresh PROVE LockInv'
  BY <1>27 DEF Refresh
<1>28. QED
  BY <1>1, <1>2, <1>3, <1>4, <1>5, <1>6, <1>7, <1>8, <1>9, <1>10, <1>11, <1>12, <1>13, <1>14, <1>15, <1>16, <1>17, <1>18, <1>19, <1>20, <1>21, <1>22, <1>23, <1>24, <1>25, <1>26, <1>27
  DEF Next, LocalStep, ListReply, SampleReply, SetStep, ReadStep

(* What the owner is about to use stays there until it is used.            *)
LEMMA ReadyStep ==
  ASSUME TypeInv, Next
  PROVE  ReadyInv'
<1> USE ConstantsAssumption
    DEF ConstantsAssumption, Threads, TypeInv, TypeOK, PcOK, LockInv, Inside,
      ReadyInv, SampleOK, LocalOK, orderVars, sampleVars, samplerVars, Goto
<1>1. ASSUME NEW g \in Getters, GetCall(g) PROVE ReadyInv'
  BY <1>1 DEF GetCall
<1>2. ASSUME NEW g \in Getters, Enter(g) PROVE ReadyInv'
  BY <1>2 DEF Enter
<1>3. ASSUME NEW g \in Getters, TakeFilterLock(g) PROVE ReadyInv'
  BY <1>3 DEF TakeFilterLock
<1>4. ASSUME NEW g \in Getters, CopyFilter(g) PROVE ReadyInv'
  BY <1>4 DEF CopyFilter
<1>5. ASSUME NEW g \in Getters, CopyFilterFails(g) PROVE ReadyInv'
  BY <1>5 DEF CopyFilterFails
<1>6. ASSUME NEW g \in Getters, RebuildOrder(g) PROVE ReadyInv'
  BY <1>6 DEF RebuildOrder
<1>7. ASSUME NEW g \in Getters, StoreKept(g) PROVE ReadyInv'
  BY <1>7 DEF StoreKept
<1>8. ASSUME NEW g \in Getters, StoreSelection(g) PROVE ReadyInv'
  BY <1>8 DEF StoreSelection
<1>9. ASSUME NEW g \in Getters, CheckSample(g) PROVE ReadyInv'
  BY <1>9 DEF CheckSample
<1>10. ASSUME NEW g \in Getters, UpdateAlbums(g) PROVE ReadyInv'
  BY <1>10 DEF UpdateAlbums
<1>11. ASSUME NEW g \in Getters, ListAlbums(g) PROVE ReadyInv'
  BY <1>11 DEF ListAlbums
<1>12. ASSUME NEW g \in Getters, ListAlbumsFails(g) PROVE ReadyInv'
  BY <1>12 DEF ListAlbumsFails
<1>13. ASSUME NEW g \in Getters, MarkStale(g) PROVE ReadyInv'
  BY <1>13 DEF MarkStale, Fail
<1>14. ASSUME NEW g \in Getters, NextAlbum(g) PROVE ReadyInv'
  <2>1. pc[g] = "loop" /\ UNCHANGED <<rotation, sampleVars>>
    BY <1>14 DEF NextAlbum
  <2>2. \/ last_album_id' \in rotation /\ Goto(g, "sampling")
        \/ Goto(g, "idle") /\ UNCHANGED last_album_id
    BY <1>14, NextAlbumTakes DEF Fail
  <2>3. QED
    BY <2>1, <2>2
<1>15. ASSUME NEW g \in Getters, SampleAlbum(g) PROVE ReadyInv'
  BY <1>15 DEF SampleAlbum
<1>16. ASSUME NEW g \in Getters, SampleAlbumFails(g) PROVE ReadyInv'
  BY <1>16 DEF SampleAlbumFails, Fail
<1>17. ASSUME NEW g \in Getters, GiveUp(g) PROVE ReadyInv'
  BY <1>17 DEF GiveUp, Fail
<1>18. ASSUME NEW g \in Getters, Deliver(g) PROVE ReadyInv'
  BY <1>18 DEF Deliver, Succeed
<1>19. ASSUME NEW s \in Setters, NEW f \in Filters, SetCall(s, f) PROVE ReadyInv'
  BY <1>19 DEF SetCall
<1>20. ASSUME NEW s \in Setters, SetLock(s) PROVE ReadyInv'
  BY <1>20 DEF SetLock
<1>21. ASSUME NEW s \in Setters, StoreFilter(s) PROVE ReadyInv'
  BY <1>21 DEF StoreFilter
<1>22. ASSUME NEW s \in Setters, StoreFilterFails(s) PROVE ReadyInv'
  BY <1>22 DEF StoreFilterFails
<1>23. ASSUME NEW s \in Setters, Publish(s) PROVE ReadyInv'
  BY <1>23 DEF Publish
<1>24. ASSUME NEW r \in Readers, ReadSelection(r) PROVE ReadyInv'
  BY <1>24 DEF ReadSelection
<1>25. ASSUME NEW r \in Readers, ReadTotal(r) PROVE ReadyInv'
  BY <1>25 DEF ReadTotal
<1>26. ASSUME NEW r \in Readers, ReadKept(r) PROVE ReadyInv'
  BY <1>26 DEF ReadKept
<1>27. ASSUME Refresh PROVE ReadyInv'
  BY <1>27 DEF Refresh
<1>28. QED
  BY <1>1, <1>2, <1>3, <1>4, <1>5, <1>6, <1>7, <1>8, <1>9, <1>10, <1>11, <1>12, <1>13, <1>14, <1>15, <1>16, <1>17, <1>18, <1>19, <1>20, <1>21, <1>22, <1>23, <1>24, <1>25, <1>26, <1>27
  DEF Next, LocalStep, ListReply, SampleReply, SetStep, ReadStep

(* The rotation is rebuilt before anything else looks at it.               *)
LEMMA RotationStep ==
  ASSUME TypeInv, RotationInv, Next
  PROVE  RotationInv'
<1> USE ConstantsAssumption
    DEF ConstantsAssumption, Threads, TypeInv, TypeOK, PcOK, LockInv, Inside,
      RotationInv, RotationIsCurrent, LocalOK, ListOK, listVars, orderVars, samplerVars, Goto
<1>1. ASSUME NEW g \in Getters, GetCall(g) PROVE RotationInv'
  BY <1>1 DEF GetCall
<1>2. ASSUME NEW g \in Getters, Enter(g) PROVE RotationInv'
  BY <1>2 DEF Enter
<1>3. ASSUME NEW g \in Getters, TakeFilterLock(g) PROVE RotationInv'
  BY <1>3 DEF TakeFilterLock
<1>4. ASSUME NEW g \in Getters, CopyFilter(g) PROVE RotationInv'
  BY <1>4 DEF CopyFilter
<1>5. ASSUME NEW g \in Getters, CopyFilterFails(g) PROVE RotationInv'
  BY <1>5 DEF CopyFilterFails
<1>6. ASSUME NEW g \in Getters, RebuildOrder(g) PROVE RotationInv'
  BY <1>6 DEF RebuildOrder, Kept, Matches
<1>7. ASSUME NEW g \in Getters, StoreKept(g) PROVE RotationInv'
  BY <1>7 DEF StoreKept
<1>8. ASSUME NEW g \in Getters, StoreSelection(g) PROVE RotationInv'
  BY <1>8 DEF StoreSelection
<1>9. ASSUME NEW g \in Getters, CheckSample(g) PROVE RotationInv'
  BY <1>9 DEF CheckSample
<1>10. ASSUME NEW g \in Getters, UpdateAlbums(g) PROVE RotationInv'
  BY <1>10 DEF UpdateAlbums
<1>11. ASSUME NEW g \in Getters, ListAlbums(g) PROVE RotationInv'
  BY <1>11 DEF ListAlbums
<1>12. ASSUME NEW g \in Getters, ListAlbumsFails(g) PROVE RotationInv'
  BY <1>12 DEF ListAlbumsFails
<1>13. ASSUME NEW g \in Getters, MarkStale(g) PROVE RotationInv'
  BY <1>13 DEF MarkStale, Fail
<1>14. ASSUME NEW g \in Getters, NextAlbum(g) PROVE RotationInv'
  BY <1>14 DEF NextAlbum, Fail
<1>15. ASSUME NEW g \in Getters, SampleAlbum(g) PROVE RotationInv'
  BY <1>15 DEF SampleAlbum
<1>16. ASSUME NEW g \in Getters, SampleAlbumFails(g) PROVE RotationInv'
  BY <1>16 DEF SampleAlbumFails, Fail
<1>17. ASSUME NEW g \in Getters, GiveUp(g) PROVE RotationInv'
  BY <1>17 DEF GiveUp, Fail
<1>18. ASSUME NEW g \in Getters, Deliver(g) PROVE RotationInv'
  BY <1>18 DEF Deliver, Succeed
<1>19. ASSUME NEW s \in Setters, NEW f \in Filters, SetCall(s, f) PROVE RotationInv'
  BY <1>19 DEF SetCall
<1>20. ASSUME NEW s \in Setters, SetLock(s) PROVE RotationInv'
  BY <1>20 DEF SetLock
<1>21. ASSUME NEW s \in Setters, StoreFilter(s) PROVE RotationInv'
  BY <1>21 DEF StoreFilter
<1>22. ASSUME NEW s \in Setters, StoreFilterFails(s) PROVE RotationInv'
  BY <1>22 DEF StoreFilterFails
<1>23. ASSUME NEW s \in Setters, Publish(s) PROVE RotationInv'
  BY <1>23 DEF Publish
<1>24. ASSUME NEW r \in Readers, ReadSelection(r) PROVE RotationInv'
  BY <1>24 DEF ReadSelection
<1>25. ASSUME NEW r \in Readers, ReadTotal(r) PROVE RotationInv'
  BY <1>25 DEF ReadTotal
<1>26. ASSUME NEW r \in Readers, ReadKept(r) PROVE RotationInv'
  BY <1>26 DEF ReadKept
<1>27. ASSUME Refresh PROVE RotationInv'
  BY <1>27 DEF Refresh
<1>28. QED
  BY <1>1, <1>2, <1>3, <1>4, <1>5, <1>6, <1>7, <1>8, <1>9, <1>10, <1>11, <1>12, <1>13, <1>14, <1>15, <1>16, <1>17, <1>18, <1>19, <1>20, <1>21, <1>22, <1>23, <1>24, <1>25, <1>26, <1>27
  DEF Next, LocalStep, ListReply, SampleReply, SetStep, ReadStep

(* A sample is drawn from the rotation in force, and dropped with it.      *)
LEMMA SampleStep ==
  ASSUME TypeInv, RotationInv, SampleFromAllowedAlbum, Next
  PROVE  SampleFromAllowedAlbum'
<1> USE ConstantsAssumption
    DEF ConstantsAssumption, Threads, TypeInv, TypeOK, PcOK, LockInv, Inside,
      SampleFromAllowedAlbum, SampleOK, sampleVars, samplerVars, Goto
<1>1. ASSUME NEW g \in Getters, GetCall(g) PROVE SampleFromAllowedAlbum'
  BY <1>1 DEF GetCall
<1>2. ASSUME NEW g \in Getters, Enter(g) PROVE SampleFromAllowedAlbum'
  BY <1>2 DEF Enter
<1>3. ASSUME NEW g \in Getters, TakeFilterLock(g) PROVE SampleFromAllowedAlbum'
  BY <1>3 DEF TakeFilterLock
<1>4. ASSUME NEW g \in Getters, CopyFilter(g) PROVE SampleFromAllowedAlbum'
  BY <1>4 DEF CopyFilter
<1>5. ASSUME NEW g \in Getters, CopyFilterFails(g) PROVE SampleFromAllowedAlbum'
  BY <1>5 DEF CopyFilterFails
<1>6. ASSUME NEW g \in Getters, RebuildOrder(g) PROVE SampleFromAllowedAlbum'
  BY <1>6 DEF RebuildOrder
<1>7. ASSUME NEW g \in Getters, StoreKept(g) PROVE SampleFromAllowedAlbum'
  BY <1>7 DEF StoreKept
<1>8. ASSUME NEW g \in Getters, StoreSelection(g) PROVE SampleFromAllowedAlbum'
  BY <1>8 DEF StoreSelection
<1>9. ASSUME NEW g \in Getters, CheckSample(g) PROVE SampleFromAllowedAlbum'
  BY <1>9 DEF CheckSample
<1>10. ASSUME NEW g \in Getters, UpdateAlbums(g) PROVE SampleFromAllowedAlbum'
  BY <1>10 DEF UpdateAlbums
<1>11. ASSUME NEW g \in Getters, ListAlbums(g) PROVE SampleFromAllowedAlbum'
  BY <1>11 DEF ListAlbums
<1>12. ASSUME NEW g \in Getters, ListAlbumsFails(g) PROVE SampleFromAllowedAlbum'
  BY <1>12 DEF ListAlbumsFails
<1>13. ASSUME NEW g \in Getters, MarkStale(g) PROVE SampleFromAllowedAlbum'
  BY <1>13 DEF MarkStale, Fail
<1>14. ASSUME NEW g \in Getters, NextAlbum(g) PROVE SampleFromAllowedAlbum'
  BY <1>14 DEF NextAlbum, Fail
<1>15. ASSUME NEW g \in Getters, SampleAlbum(g) PROVE SampleFromAllowedAlbum'
  BY <1>15 DEF SampleAlbum, ReadyInv, RotationInv, RotationIsCurrent
<1>16. ASSUME NEW g \in Getters, SampleAlbumFails(g) PROVE SampleFromAllowedAlbum'
  BY <1>16 DEF SampleAlbumFails, Fail
<1>17. ASSUME NEW g \in Getters, GiveUp(g) PROVE SampleFromAllowedAlbum'
  BY <1>17 DEF GiveUp, Fail
<1>18. ASSUME NEW g \in Getters, Deliver(g) PROVE SampleFromAllowedAlbum'
  BY <1>18 DEF Deliver, Succeed
<1>19. ASSUME NEW s \in Setters, NEW f \in Filters, SetCall(s, f) PROVE SampleFromAllowedAlbum'
  BY <1>19 DEF SetCall
<1>20. ASSUME NEW s \in Setters, SetLock(s) PROVE SampleFromAllowedAlbum'
  BY <1>20 DEF SetLock
<1>21. ASSUME NEW s \in Setters, StoreFilter(s) PROVE SampleFromAllowedAlbum'
  BY <1>21 DEF StoreFilter
<1>22. ASSUME NEW s \in Setters, StoreFilterFails(s) PROVE SampleFromAllowedAlbum'
  BY <1>22 DEF StoreFilterFails
<1>23. ASSUME NEW s \in Setters, Publish(s) PROVE SampleFromAllowedAlbum'
  BY <1>23 DEF Publish
<1>24. ASSUME NEW r \in Readers, ReadSelection(r) PROVE SampleFromAllowedAlbum'
  BY <1>24 DEF ReadSelection
<1>25. ASSUME NEW r \in Readers, ReadTotal(r) PROVE SampleFromAllowedAlbum'
  BY <1>25 DEF ReadTotal
<1>26. ASSUME NEW r \in Readers, ReadKept(r) PROVE SampleFromAllowedAlbum'
  BY <1>26 DEF ReadKept
<1>27. ASSUME Refresh PROVE SampleFromAllowedAlbum'
  BY <1>27 DEF Refresh
<1>28. QED
  BY <1>1, <1>2, <1>3, <1>4, <1>5, <1>6, <1>7, <1>8, <1>9, <1>10, <1>11, <1>12, <1>13, <1>14, <1>15, <1>16, <1>17, <1>18, <1>19, <1>20, <1>21, <1>22, <1>23, <1>24, <1>25, <1>26, <1>27
  DEF Next, LocalStep, ListReply, SampleReply, SetStep, ReadStep

(* The flag is cleared before the request is sent.                         *)
LEMMA RefreshStep ==
  ASSUME TypeInv, RefreshInv, Next
  PROVE  RefreshInv'
<1> USE ConstantsAssumption
    DEF ConstantsAssumption, Threads, TypeInv, TypeOK, PcOK, LockInv, Inside,
      RefreshInv, RefreshNotLost, LocalOK, ListOK, StaleOK, staleVars, listVars, samplerVars, Goto
<1>1. ASSUME NEW g \in Getters, GetCall(g) PROVE RefreshInv'
  BY <1>1 DEF GetCall
<1>2. ASSUME NEW g \in Getters, Enter(g) PROVE RefreshInv'
  BY <1>2 DEF Enter
<1>3. ASSUME NEW g \in Getters, TakeFilterLock(g) PROVE RefreshInv'
  BY <1>3 DEF TakeFilterLock
<1>4. ASSUME NEW g \in Getters, CopyFilter(g) PROVE RefreshInv'
  BY <1>4 DEF CopyFilter
<1>5. ASSUME NEW g \in Getters, CopyFilterFails(g) PROVE RefreshInv'
  BY <1>5 DEF CopyFilterFails
<1>6. ASSUME NEW g \in Getters, RebuildOrder(g) PROVE RefreshInv'
  BY <1>6 DEF RebuildOrder
<1>7. ASSUME NEW g \in Getters, StoreKept(g) PROVE RefreshInv'
  BY <1>7 DEF StoreKept
<1>8. ASSUME NEW g \in Getters, StoreSelection(g) PROVE RefreshInv'
  BY <1>8 DEF StoreSelection
<1>9. ASSUME NEW g \in Getters, CheckSample(g) PROVE RefreshInv'
  BY <1>9 DEF CheckSample
<1>10. ASSUME NEW g \in Getters, UpdateAlbums(g) PROVE RefreshInv'
  BY <1>10 DEF UpdateAlbums
<1>11. ASSUME NEW g \in Getters, ListAlbums(g) PROVE RefreshInv'
  BY <1>11 DEF ListAlbums
<1>12. ASSUME NEW g \in Getters, ListAlbumsFails(g) PROVE RefreshInv'
  BY <1>12 DEF ListAlbumsFails
<1>13. ASSUME NEW g \in Getters, MarkStale(g) PROVE RefreshInv'
  BY <1>13 DEF MarkStale, Fail
<1>14. ASSUME NEW g \in Getters, NextAlbum(g) PROVE RefreshInv'
  BY <1>14 DEF NextAlbum, Fail
<1>15. ASSUME NEW g \in Getters, SampleAlbum(g) PROVE RefreshInv'
  BY <1>15 DEF SampleAlbum
<1>16. ASSUME NEW g \in Getters, SampleAlbumFails(g) PROVE RefreshInv'
  BY <1>16 DEF SampleAlbumFails, Fail
<1>17. ASSUME NEW g \in Getters, GiveUp(g) PROVE RefreshInv'
  BY <1>17 DEF GiveUp, Fail
<1>18. ASSUME NEW g \in Getters, Deliver(g) PROVE RefreshInv'
  BY <1>18 DEF Deliver, Succeed
<1>19. ASSUME NEW s \in Setters, NEW f \in Filters, SetCall(s, f) PROVE RefreshInv'
  BY <1>19 DEF SetCall
<1>20. ASSUME NEW s \in Setters, SetLock(s) PROVE RefreshInv'
  BY <1>20 DEF SetLock
<1>21. ASSUME NEW s \in Setters, StoreFilter(s) PROVE RefreshInv'
  BY <1>21 DEF StoreFilter
<1>22. ASSUME NEW s \in Setters, StoreFilterFails(s) PROVE RefreshInv'
  BY <1>22 DEF StoreFilterFails
<1>23. ASSUME NEW s \in Setters, Publish(s) PROVE RefreshInv'
  BY <1>23 DEF Publish
<1>24. ASSUME NEW r \in Readers, ReadSelection(r) PROVE RefreshInv'
  BY <1>24 DEF ReadSelection
<1>25. ASSUME NEW r \in Readers, ReadTotal(r) PROVE RefreshInv'
  BY <1>25 DEF ReadTotal
<1>26. ASSUME NEW r \in Readers, ReadKept(r) PROVE RefreshInv'
  BY <1>26 DEF ReadKept
<1>27. ASSUME Refresh PROVE RefreshInv'
  BY <1>27 DEF Refresh
<1>28. QED
  BY <1>1, <1>2, <1>3, <1>4, <1>5, <1>6, <1>7, <1>8, <1>9, <1>10, <1>11, <1>12, <1>13, <1>14, <1>15, <1>16, <1>17, <1>18, <1>19, <1>20, <1>21, <1>22, <1>23, <1>24, <1>25, <1>26, <1>27
  DEF Next, LocalStep, ListReply, SampleReply, SetStep, ReadStep

(* The flag is cleared before the filter is copied, and set after it is    *)
(* stored.                                                                 *)
LEMMA FreshStep ==
  ASSUME TypeInv, FreshInv, Next, "memory" \notin Faults
  PROVE  FreshInv'
<1> USE ConstantsAssumption
    DEF ConstantsAssumption, Threads, TypeInv, TypeOK, PcOK, LockInv, Inside,
      FreshInv, LocalOK, FilterOK, CallerOK, OwnerOK, StampedFilters, callerVars, filterVars, samplerVars, Goto
<1>1. ASSUME NEW g \in Getters, GetCall(g) PROVE FreshInv'
  BY <1>1 DEF GetCall
<1>2. ASSUME NEW g \in Getters, Enter(g) PROVE FreshInv'
  BY <1>2 DEF Enter
<1>3. ASSUME NEW g \in Getters, TakeFilterLock(g) PROVE FreshInv'
  BY <1>3 DEF TakeFilterLock
<1>4. ASSUME NEW g \in Getters, CopyFilter(g) PROVE FreshInv'
  BY <1>4 DEF CopyFilter
<1>5. ASSUME NEW g \in Getters, CopyFilterFails(g) PROVE FreshInv'
  BY <1>5 DEF CopyFilterFails
<1>6. ASSUME NEW g \in Getters, RebuildOrder(g) PROVE FreshInv'
  BY <1>6 DEF RebuildOrder
<1>7. ASSUME NEW g \in Getters, StoreKept(g) PROVE FreshInv'
  BY <1>7 DEF StoreKept
<1>8. ASSUME NEW g \in Getters, StoreSelection(g) PROVE FreshInv'
  BY <1>8 DEF StoreSelection
<1>9. ASSUME NEW g \in Getters, CheckSample(g) PROVE FreshInv'
  BY <1>9 DEF CheckSample
<1>10. ASSUME NEW g \in Getters, UpdateAlbums(g) PROVE FreshInv'
  BY <1>10 DEF UpdateAlbums
<1>11. ASSUME NEW g \in Getters, ListAlbums(g) PROVE FreshInv'
  BY <1>11 DEF ListAlbums
<1>12. ASSUME NEW g \in Getters, ListAlbumsFails(g) PROVE FreshInv'
  BY <1>12 DEF ListAlbumsFails
<1>13. ASSUME NEW g \in Getters, MarkStale(g) PROVE FreshInv'
  BY <1>13 DEF MarkStale, Fail
<1>14. ASSUME NEW g \in Getters, NextAlbum(g) PROVE FreshInv'
  <2>1. /\ pc[g] = "loop"
        /\ Goto(g, "sampling") \/ Goto(g, "idle")
        /\ UNCHANGED <<arg, floor, committed, pending_filter, filter_changed,
                       filter>>
    BY <1>14 DEF NextAlbum, Fail, callerVars, filterVars
  <2>2. QED
    BY <2>1
<1>15. ASSUME NEW g \in Getters, SampleAlbum(g) PROVE FreshInv'
  BY <1>15 DEF SampleAlbum
<1>16. ASSUME NEW g \in Getters, SampleAlbumFails(g) PROVE FreshInv'
  BY <1>16 DEF SampleAlbumFails, Fail
<1>17. ASSUME NEW g \in Getters, GiveUp(g) PROVE FreshInv'
  BY <1>17 DEF GiveUp, Fail
<1>18. ASSUME NEW g \in Getters, Deliver(g) PROVE FreshInv'
  BY <1>18 DEF Deliver, Succeed
<1>19. ASSUME NEW s \in Setters, NEW f \in Filters, SetCall(s, f) PROVE FreshInv'
  BY <1>19 DEF SetCall
<1>20. ASSUME NEW s \in Setters, SetLock(s) PROVE FreshInv'
  BY <1>20 DEF SetLock
<1>21. ASSUME NEW s \in Setters, StoreFilter(s) PROVE FreshInv'
  BY <1>21 DEF StoreFilter
<1>22. ASSUME NEW s \in Setters, StoreFilterFails(s) PROVE FreshInv'
  BY <1>22 DEF StoreFilterFails
<1>23. ASSUME NEW s \in Setters, Publish(s) PROVE FreshInv'
  BY <1>23 DEF Publish
<1>24. ASSUME NEW r \in Readers, ReadSelection(r) PROVE FreshInv'
  BY <1>24 DEF ReadSelection
<1>25. ASSUME NEW r \in Readers, ReadTotal(r) PROVE FreshInv'
  BY <1>25 DEF ReadTotal
<1>26. ASSUME NEW r \in Readers, ReadKept(r) PROVE FreshInv'
  BY <1>26 DEF ReadKept
<1>27. ASSUME Refresh PROVE FreshInv'
  BY <1>27 DEF Refresh
<1>28. QED
  BY <1>1, <1>2, <1>3, <1>4, <1>5, <1>6, <1>7, <1>8, <1>9, <1>10, <1>11, <1>12, <1>13, <1>14, <1>15, <1>16, <1>17, <1>18, <1>19, <1>20, <1>21, <1>22, <1>23, <1>24, <1>25, <1>26, <1>27
  DEF Next, LocalStep, ListReply, SampleReply, SetStep, ReadStep

-------------------------------------------------------------------------------
(* The sampler starts with the types and with nobody inside.               *)
LEMMA TypeInit ==
  ASSUME Init
  PROVE  TypeInv
<1>1. PcOK /\ LockInv /\ ReadyInv
  BY DEF Init, PcOK, Labels, Threads, LockInv, ReadyInv, Inside
<1>2. FilterOK /\ OwnerOK /\ CallerOK /\ StatusOK
  BY ConstantsAssumption
  DEF Init, FilterOK, OwnerOK, CallerOK, StatusOK, ConstantsAssumption,
      StampedFilters, Counts, Verdicts
<1>3. StaleOK /\ SampleOK /\ LocalOK /\ WarnOK
  <2>1. StaleOK /\ LocalOK
    BY DEF Init, StaleOK, LocalOK
  <2>2. SampleOK
    BY DEF Init, SampleOK
  <2>3. WarnOK
    <3>1. misses \in 0..2
      BY DEF Init
    <3>2. QED
      BY <3>1 DEF Init, WarnOK
  <2>4. QED
    BY <2>1, <2>2, <2>3
<1>4. ListOK
  BY DEF Init, ListOK, AlbumList
<1>5. OrderOK
  BY EmptySeq DEF Init, OrderOK
<1>6. QED
  BY <1>1, <1>2, <1>3, <1>4, <1>5 DEF TypeInv, TypeOK

(* Doing nothing preserves everything.                                     *)
LEMMA Stutter ==
  ASSUME UNCHANGED vars
  PROVE  /\ TypeInv => TypeInv'
         /\ RotationInv => RotationInv'
         /\ SampleFromAllowedAlbum => SampleFromAllowedAlbum'
         /\ RefreshInv => RefreshInv'
         /\ FreshInv => FreshInv'
<1> USE DEF vars, callerVars, filterVars, statusVars, staleVars, listVars,
        orderVars, sampleVars, localVars, warnVars, samplerVars
<1>1. TypeInv => TypeInv'
  BY DEF TypeInv, TypeOK, PcOK, CallerOK, FilterOK, StatusOK, StaleOK, OwnerOK,
         ListOK, OrderOK, SampleOK, LocalOK, WarnOK, LockInv, ReadyInv
<1>2. RotationInv => RotationInv'
  BY DEF RotationInv, RotationIsCurrent
<1>3. SampleFromAllowedAlbum => SampleFromAllowedAlbum'
  BY DEF SampleFromAllowedAlbum
<1>4. RefreshInv => RefreshInv'
  BY DEF RefreshInv, RefreshNotLost
<1>5. FreshInv => FreshInv'
  BY DEF FreshInv
<1>6. QED
  BY <1>1, <1>2, <1>3, <1>4, <1>5

(* The types, one owner of r->lock at a time, and a sample and an album    *)
(* that are there when the owner gets to them.                             *)
THEOREM TypeInvariant == Spec => []TypeInv
<1>1. Init => TypeInv
  BY TypeInit
<1>2. TypeInv /\ [Next]_vars => TypeInv'
  BY TypeStep, LockStep, ReadyStep, Stutter DEF TypeInv
<1>3. QED
  BY <1>1, <1>2, PTL DEF Spec

(* Every variable has its type in every reachable state: above all, the    *)
(* sample is never read past its end.                                      *)
THEOREM TypeCorrect == Spec => []TypeOK
<1>1. TypeInv => TypeOK
  BY DEF TypeInv
<1>2. QED
  BY <1>1, TypeInvariant, PTL

(* Whenever no rebuild is under way the rotation is exactly the albums of  *)
(* the cached list that have pictures and pass the filter in force.        *)
THEOREM RotationInvariant == Spec => []RotationInv
<1>1. Init => RotationInv
  BY DEF Init, RotationInv, RotationIsCurrent
<1>2. TypeInv /\ RotationInv /\ [Next]_vars => RotationInv'
  BY RotationStep, Stutter
<1>3. QED
  BY <1>1, <1>2, TypeInvariant, PTL DEF Spec

(* No index of order[] outlives the list or the filter it was made for.    *)
THEOREM RotationCorrect == Spec => []RotationIsCurrent
<1>1. RotationInv => RotationIsCurrent
  BY DEF RotationInv
<1>2. QED
  BY <1>1, RotationInvariant, PTL

(* No picture is left in the sample that the filter in force excludes.     *)
THEOREM SampleCorrect == Spec => []SampleFromAllowedAlbum
<1>1. Init => SampleFromAllowedAlbum
  BY DEF Init, SampleFromAllowedAlbum
<1>2. /\ TypeInv /\ RotationInv /\ SampleFromAllowedAlbum /\ [Next]_vars
      => SampleFromAllowedAlbum'
  BY SampleStep, Stutter
<1>3. QED
  BY <1>1, <1>2, TypeInvariant, RotationInvariant, PTL DEF Spec

(* No refresh is lost, however it falls between the flag, the request, its *)
(* failure and the new list.                                               *)
THEOREM RefreshCorrect == Spec => []RefreshNotLost
<1>1. Init => RefreshInv
  BY DEF Init, RefreshInv, RefreshNotLost
<1>2. TypeInv /\ RefreshInv /\ [Next]_vars => RefreshInv'
  BY RefreshStep, Stutter
<1>3. RefreshInv => RefreshNotLost
  BY DEF RefreshInv
<1>4. QED
  BY <1>1, <1>2, <1>3, TypeInvariant, PTL DEF Spec

(* While memory lasts, a get that begins after set_filter has returned     *)
(* picks its picture under that filter or a newer one.                     *)
THEOREM FilterCorrect ==
  ASSUME "memory" \notin Faults
  PROVE  Spec => []FilterInForceIsFresh
<1>1. Init => FreshInv
  BY DEF Init, FreshInv, Inside
<1>2. TypeInv /\ FreshInv /\ [Next]_vars => FreshInv'
  BY FreshStep, Stutter
<1>3. FreshInv => FilterInForceIsFresh
  BY DEF FreshInv, FilterInForceIsFresh, Inside
<1>4. QED
  BY <1>1, <1>2, <1>3, TypeInvariant, PTL DEF Spec

-------------------------------------------------------------------------------
(* The sampler implements AlbumShow.                                       *)

(* Where another album is being chosen                                     *)
Choosing == Inside \ {"take_filter", "copy_filter", "check", "deliver"}

(* It is chosen only when the sample has been used up or dropped           *)
UsedUp == \A g \in Getters : pc[g] \in Choosing => sample_pos = sample_len

(* No step leads to another album while pictures of the last are left.     *)
LEMMA UsedUpStep ==
  ASSUME TypeInv, UsedUp, Next
  PROVE  UsedUp'
<1> USE ConstantsAssumption
    DEF ConstantsAssumption, Threads, TypeInv, TypeOK, PcOK, LockInv, Inside,
      Choosing, UsedUp, SampleOK, LocalOK, sampleVars, samplerVars, localVars,
      Goto
<1>1. ASSUME NEW g \in Getters, GetCall(g) PROVE UsedUp'
  BY <1>1 DEF GetCall
<1>2. ASSUME NEW g \in Getters, Enter(g) PROVE UsedUp'
  BY <1>2 DEF Enter
<1>3. ASSUME NEW g \in Getters, TakeFilterLock(g) PROVE UsedUp'
  BY <1>3 DEF TakeFilterLock
<1>4. ASSUME NEW g \in Getters, CopyFilter(g) PROVE UsedUp'
  BY <1>4 DEF CopyFilter
<1>5. ASSUME NEW g \in Getters, CopyFilterFails(g) PROVE UsedUp'
  BY <1>5 DEF CopyFilterFails
<1>6. ASSUME NEW g \in Getters, RebuildOrder(g) PROVE UsedUp'
  BY <1>6 DEF RebuildOrder
<1>7. ASSUME NEW g \in Getters, StoreKept(g) PROVE UsedUp'
  BY <1>7 DEF StoreKept
<1>8. ASSUME NEW g \in Getters, StoreSelection(g) PROVE UsedUp'
  BY <1>8 DEF StoreSelection
<1>9. ASSUME NEW g \in Getters, CheckSample(g) PROVE UsedUp'
  BY <1>9 DEF CheckSample
<1>10. ASSUME NEW g \in Getters, UpdateAlbums(g) PROVE UsedUp'
  BY <1>10 DEF UpdateAlbums
<1>11. ASSUME NEW g \in Getters, ListAlbums(g) PROVE UsedUp'
  BY <1>11 DEF ListAlbums
<1>12. ASSUME NEW g \in Getters, ListAlbumsFails(g) PROVE UsedUp'
  BY <1>12 DEF ListAlbumsFails
<1>13. ASSUME NEW g \in Getters, MarkStale(g) PROVE UsedUp'
  BY <1>13 DEF MarkStale, Fail
<1>14. ASSUME NEW g \in Getters, NextAlbum(g) PROVE UsedUp'
  BY <1>14 DEF NextAlbum, Fail
<1>15. ASSUME NEW g \in Getters, SampleAlbum(g) PROVE UsedUp'
  BY <1>15 DEF SampleAlbum
<1>16. ASSUME NEW g \in Getters, SampleAlbumFails(g) PROVE UsedUp'
  BY <1>16 DEF SampleAlbumFails, Fail
<1>17. ASSUME NEW g \in Getters, GiveUp(g) PROVE UsedUp'
  BY <1>17 DEF GiveUp, Fail
<1>18. ASSUME NEW g \in Getters, Deliver(g) PROVE UsedUp'
  BY <1>18 DEF Deliver, Succeed
<1>19. ASSUME NEW s \in Setters, NEW f \in Filters, SetCall(s, f) PROVE UsedUp'
  BY <1>19 DEF SetCall
<1>20. ASSUME NEW s \in Setters, SetLock(s) PROVE UsedUp'
  BY <1>20 DEF SetLock
<1>21. ASSUME NEW s \in Setters, StoreFilter(s) PROVE UsedUp'
  BY <1>21 DEF StoreFilter
<1>22. ASSUME NEW s \in Setters, StoreFilterFails(s) PROVE UsedUp'
  BY <1>22 DEF StoreFilterFails
<1>23. ASSUME NEW s \in Setters, Publish(s) PROVE UsedUp'
  BY <1>23 DEF Publish
<1>24. ASSUME NEW r \in Readers, ReadSelection(r) PROVE UsedUp'
  BY <1>24 DEF ReadSelection
<1>25. ASSUME NEW r \in Readers, ReadTotal(r) PROVE UsedUp'
  BY <1>25 DEF ReadTotal
<1>26. ASSUME NEW r \in Readers, ReadKept(r) PROVE UsedUp'
  BY <1>26 DEF ReadKept
<1>27. ASSUME Refresh PROVE UsedUp'
  BY <1>27 DEF Refresh
<1>28. QED
  BY <1>1, <1>2, <1>3, <1>4, <1>5, <1>6, <1>7, <1>8, <1>9, <1>10, <1>11, <1>12, <1>13, <1>14, <1>15, <1>16, <1>17, <1>18, <1>19, <1>20, <1>21, <1>22, <1>23, <1>24, <1>25, <1>26, <1>27
  DEF Next, LocalStep, ListReply, SampleReply, SetStep, ReadStep

(* The labels by which AlbumShow follows a thread                          *)
Copying == {"take_filter", "copy_filter"}
Followed == Copying \cup {"deliver", "publish"}

(* Nobody else is inside r->lock.                                          *)
LEMMA AloneInside ==
  ASSUME TypeInv, NEW g \in Getters, pc[g] \in Inside
  PROVE  /\ lock = g
         /\ \A h \in Getters : pc[h] \in Inside => h = g
BY DEF TypeInv, LockInv

(* What a move from one label to another changes of what AlbumShow sees.   *)
LEMMA MoveShows ==
  ASSUME TypeInv, NEW t \in Threads, NEW label, Goto(t, label)
  PROVE  /\ pc[t] # "publish" /\ label # "publish" => Stored' = Stored
         /\ pc[t] # "deliver" /\ label # "deliver" => Taking' = Taking
         /\ (pc[t] \in Copying <=> label \in Copying) => Adopting' = Adopting
<1>1. /\ pc' = [pc EXCEPT ![t] = label] /\ t \in DOMAIN pc
      /\ Getters \subseteq DOMAIN pc /\ Setters \subseteq DOMAIN pc
  BY DEF Goto, TypeInv, TypeOK, PcOK, Threads
<1>2. \A u \in DOMAIN pc : pc'[u] = IF u = t THEN label ELSE pc[u]
  BY <1>1
<1>3. Adopting <=> \E g \in Getters : pc[g] \in Copying
  BY DEF Adopting, Copying
<1>4. Adopting' <=> \E g \in Getters : pc'[g] \in Copying
  BY DEF Adopting, Copying
<1>5. (pc[t] \in Copying <=> label \in Copying) => Adopting' = Adopting
  <2>1. ASSUME pc[t] \in Copying <=> label \in Copying
        PROVE  Adopting' <=> Adopting
    BY <1>1, <1>2, <1>3, <1>4, <2>1
  <2>2. Adopting \in BOOLEAN /\ Adopting' \in BOOLEAN
    BY DEF Adopting
  <2>3. QED
    BY <2>1, <2>2
<1>6. QED
  BY <1>1, <1>2, <1>5 DEF Stored, Taking

(* A step that moves a thread past none of these labels shows nothing.     *)
LEMMA QuietStep ==
  ASSUME TypeInv, NEW t \in Threads, NEW label, Goto(t, label),
         pc[t] \notin Followed, label \notin Followed,
         UNCHANGED <<pending_filter, filter, filter_changed, Left>>,
         Left = 0 \/ UNCHANGED sample_album
  PROVE  UNCHANGED Show!vars
<1>1. UNCHANGED <<Stored, Taking, Adopting>>
  BY MoveShows DEF Followed, Copying
<1>2. QED
  BY <1>1 DEF Show!vars, Show!showing, Announced

(* A step of the sampler is one of the AlbumShow or shows nothing.         *)
LEMMA ShowStep ==
  ASSUME TypeInv, UsedUp, SampleFromAllowedAlbum, SampleFromAllowedAlbum', Next
  PROVE  [Show!Next]_(Show!vars)
<1> DEFINE Shows == [Show!Next]_(Show!vars)
           Frame == UNCHANGED <<pending_filter, filter, filter_changed,
                                sampleVars>>
<1>a. ASSUME NEW t \in Threads, NEW label, Goto(t, label), pc[t] \notin Followed,
             label \notin Followed, Frame
      PROVE  Shows
  BY <1>a, QuietStep DEF Left, sampleVars
<1> HIDE DEF Shows
<1>d. ASSUME NEW g \in Getters, pc[g] \in Inside, pc[g] # "deliver",
             Goto(g, "deliver")
      PROVE  Taking = {} /\ Taking' = {g}
  <2>1. \A h \in Getters : pc[h] \in Inside => h = g
    BY <1>d, AloneInside
  <2>2. \A h \in Getters : pc'[h] = IF h = g THEN "deliver" ELSE pc[h]
    BY <1>d DEF Goto, TypeInv, TypeOK, PcOK, Threads
  <2>3. QED
    BY <1>d, <2>1, <2>2 DEF Taking, Inside
<1>1. ASSUME NEW g \in Getters, GetCall(g) PROVE Shows
  BY <1>a, <1>1 DEF GetCall, filterVars, samplerVars, Followed, Copying, Threads
<1>2. ASSUME NEW g \in Getters, Enter(g) PROVE Shows
  <2>1. /\ pc[g] = "enter" /\ lock = None /\ filter_changed' = FALSE
        /\ Goto(g, IF filter_changed THEN "take_filter" ELSE "check")
        /\ UNCHANGED <<pending_filter, filter, sampleVars>>
    BY <1>2 DEF Enter
  <2>2. CASE ~filter_changed
    <3>1. Frame /\ Goto(g, "check")
      BY <2>1, <2>2 DEF TypeInv, TypeOK, FilterOK
    <3>2. QED
      BY <1>a, <2>1, <3>1 DEF Followed, Copying, Threads
  <2>3. CASE filter_changed
    <3>1. Goto(g, "take_filter")
      BY <2>1, <2>3
    <3>2. ~Adopting
      BY <2>1, ConstantsAssumption DEF Adopting, TypeInv, LockInv, Inside,
         ConstantsAssumption, Threads
    <3>3. Adopting'
      BY <3>1 DEF Adopting, Goto, TypeInv, TypeOK, PcOK, Threads
    <3>4. Taking' = Taking /\ Stored' = Stored
      BY <2>1, <3>1, MoveShows DEF Threads
    <3>5. Announced' = Announced
      BY <2>1, <2>3, <3>2, <3>3 DEF Announced
    <3>6. UNCHANGED Show!vars
      BY <2>1, <3>4, <3>5 DEF Show!vars, Show!showing, Left, sampleVars
    <3>7. QED
      BY <3>6 DEF Shows
  <2>4. QED
    BY <2>2, <2>3
<1>3. ASSUME NEW g \in Getters, TakeFilterLock(g) PROVE Shows
  <2>1. /\ pc[g] = "take_filter" /\ Goto(g, "copy_filter") /\ Frame
    BY <1>3 DEF TakeFilterLock, samplerVars
  <2>2. UNCHANGED <<Stored, Taking, Adopting>>
    BY <2>1, MoveShows DEF Copying, Threads
  <2>3. UNCHANGED Show!vars
    BY <2>1, <2>2 DEF Show!vars, Show!showing, Left, sampleVars, Announced
  <2>4. QED
    BY <2>3 DEF Shows
<1>c. ASSUME NEW g \in Getters, NEW label, pc[g] = "copy_filter",
             Goto(g, label), label \notin Followed
      PROVE  /\ Adopting /\ ~Adopting' /\ Taking = {} /\ Taking' = {}
             /\ Stored' = Stored
  <2>1. Adopting
    BY <1>c DEF Adopting
  <2>2. \A h \in Getters : pc[h] \in Inside => h = g
    BY <1>c, AloneInside DEF Inside
  <2>3. \A h \in Getters : pc'[h] = IF h = g THEN label ELSE pc[h]
    BY <1>c DEF Goto, TypeInv, TypeOK, PcOK, Threads
  <2>4. ~Adopting'
    BY <1>c, <2>2, <2>3 DEF Adopting, Inside, Followed, Copying
  <2>5. Taking = {} /\ Taking' = {}
    BY <1>c, <2>2, <2>3 DEF Taking, Inside, Followed, Copying
  <2>6. Stored' = Stored
    BY <1>c, MoveShows DEF Followed, Threads
  <2>7. QED
    BY <2>1, <2>4, <2>5, <2>6
<1>4. ASSUME NEW g \in Getters, CopyFilter(g) PROVE Shows
  <2>1. /\ pc[g] = "copy_filter" /\ filter' = pending_filter
        /\ sample_pos' = sample_len
        /\ Goto(g, IF have_albums THEN "rebuild" ELSE "check")
        /\ UNCHANGED <<filter_changed, pending_filter, sample_len>>
    BY <1>4 DEF CopyFilter
  <2>2. /\ Adopting /\ ~Adopting' /\ Taking = {} /\ Taking' = {}
        /\ Stored' = Stored
    BY <1>c, <2>1 DEF Followed, Copying
  <2>3. Announced > 0 /\ Announced' = Announced - 1
    BY <2>1, <2>2 DEF Announced
  <2>4. Left' = 0
    BY <2>1 DEF Left, TypeInv, TypeOK, SampleOK
  <2>5. Show!Adopt
    BY <2>1, <2>2, <2>3, <2>4 DEF Show!Adopt
  <2>6. QED
    BY <2>5 DEF Shows, Show!Next
<1>5. ASSUME NEW g \in Getters, CopyFilterFails(g) PROVE Shows
  <2>1. /\ pc[g] = "copy_filter" /\ "memory" \in Faults /\ Goto(g, "check")
        /\ UNCHANGED <<filter_changed, pending_filter, filter, sampleVars>>
    BY <1>5 DEF CopyFilterFails, samplerVars
  <2>2. /\ Adopting /\ ~Adopting' /\ Taking' = Taking
        /\ Stored' = Stored
    BY <1>c, <2>1 DEF Followed, Copying
  <2>3. Announced > 0 /\ Announced' = Announced - 1
    BY <2>1, <2>2 DEF Announced
  <2>4. Show!Drop
    BY <2>1, <2>2, <2>3 DEF Show!Drop, Show!showing, Left, sampleVars
  <2>5. QED
    BY <2>4 DEF Shows, Show!Next
<1>6. ASSUME NEW g \in Getters, RebuildOrder(g) PROVE Shows
  BY <1>a, <1>6 DEF RebuildOrder, filterVars, samplerVars, Followed, Copying, Threads
<1>7. ASSUME NEW g \in Getters, StoreKept(g) PROVE Shows
  BY <1>a, <1>7 DEF StoreKept, filterVars, samplerVars, Followed, Copying, Threads
<1>8. ASSUME NEW g \in Getters, StoreSelection(g) PROVE Shows
  BY <1>a, <1>8 DEF StoreSelection, TypeInv, TypeOK, LocalOK, filterVars, samplerVars, Followed, Copying, Threads
<1>9. ASSUME NEW g \in Getters, CheckSample(g) PROVE Shows
  <2>1. /\ pc[g] = "check" /\ Frame
        /\ Goto(g, IF sample_pos = sample_len THEN "update" ELSE "deliver")
    BY <1>9 DEF CheckSample, filterVars, samplerVars
  <2>2. CASE sample_pos = sample_len
    BY <1>a, <2>1, <2>2 DEF Followed, Copying, Threads
  <2>3. CASE sample_pos # sample_len
    <3>1. Goto(g, "deliver")
      BY <2>1, <2>3
    <3>2. Taking = {} /\ Taking' = {g}
      BY <1>d, <2>1, <3>1 DEF Inside
    <3>3. Stored' = Stored /\ Adopting' = Adopting
      BY <2>1, <3>1, MoveShows DEF Copying, Threads
    <3>4. Left > 0
      BY <2>3 DEF Left, TypeInv, TypeOK, SampleOK
    <3>5. Show!Take(g)
      BY <2>1, <3>2, <3>3, <3>4 DEF Show!Take, Left, sampleVars, Announced
    <3>6. QED
      BY <3>5 DEF Shows, Show!Next
  <2>4. QED
    BY <2>2, <2>3
<1>10. ASSUME NEW g \in Getters, UpdateAlbums(g) PROVE Shows
  BY <1>a, <1>10 DEF UpdateAlbums, filterVars, samplerVars, Followed, Copying, Threads
<1>11. ASSUME NEW g \in Getters, ListAlbums(g) PROVE Shows
  BY <1>a, <1>11 DEF ListAlbums, filterVars, samplerVars, Followed, Copying, Threads
<1>12. ASSUME NEW g \in Getters, ListAlbumsFails(g) PROVE Shows
  BY <1>a, <1>12 DEF ListAlbumsFails, filterVars, samplerVars, Followed, Copying, Threads
<1>13. ASSUME NEW g \in Getters, MarkStale(g) PROVE Shows
  BY <1>a, <1>13 DEF MarkStale, Fail, filterVars, samplerVars, Followed, Copying, Threads
<1>14. ASSUME NEW g \in Getters, NextAlbum(g) PROVE Shows
  BY <1>a, <1>14 DEF NextAlbum, Fail, filterVars, samplerVars, Followed, Copying, Threads
<1>15. ASSUME NEW g \in Getters, SampleAlbum(g) PROVE Shows
  <2>1. PICK n \in PictureCounts[last_album_id] :
          LET k == sample_size(n, max_pictures, percent) IN
          /\ sample_len' = k /\ sample_pos' = 0
          /\ \/ k = 0 /\ Goto(g, "loop") /\ UNCHANGED sample_album
             \/ k > 0 /\ Goto(g, "deliver") /\ sample_album' = last_album_id
    BY <1>15 DEF SampleAlbum
  <2>2. n \in Nat /\ max_pictures \in Nat /\ percent \in 1..100
    BY <1>15, ConstantsAssumption
    DEF SampleAlbum, ConstantsAssumption, TypeInv, TypeOK, OrderOK, ReadyInv
  <2>3. /\ sample_len' \in Nat
        /\ max_pictures > 0 => sample_len' <= max_pictures
    <3>1. /\ sample_size(n, max_pictures, percent) \in 0..n
          /\ max_pictures > 0
               => sample_size(n, max_pictures, percent) <= max_pictures
      BY <2>2, SampleSizeBounds
    <3>2. QED
      BY <2>1, <2>2, <3>1
  <2>4. /\ pc[g] = "sampling"
        /\ UNCHANGED <<pending_filter, filter, filter_changed>>
    BY <1>15 DEF SampleAlbum, filterVars
  <2>5. sample_pos = sample_len /\ sample_len \in Nat
    BY <1>15 DEF SampleAlbum, UsedUp, Choosing, Inside, TypeInv, TypeOK, SampleOK
  <2>6. Left = 0 /\ Left' = sample_len'
    BY <2>1, <2>3, <2>5 DEF Left
  <2>7. CASE sample_len' = 0 /\ Goto(g, "loop") /\ UNCHANGED sample_album
    <3>1. UNCHANGED Show!vars
      BY <2>4, <2>6, <2>7, QuietStep DEF Followed, Copying, Threads
    <3>2. QED
      BY <3>1 DEF Shows
  <2>8. CASE sample_len' > 0 /\ Goto(g, "deliver")
    <3>1. sample_album' \in Passes[filter.f]
      BY <2>1, <2>3, <2>4, <2>8 DEF SampleFromAllowedAlbum
    <3>2. Taking = {} /\ Taking' = {g}
      BY <1>d, <2>4, <2>8 DEF Inside
    <3>3. Stored' = Stored /\ Adopting' = Adopting
      BY <2>4, <2>8, MoveShows DEF Copying, Threads
    <3>4. Show!Pick(g)
      BY <2>3, <2>4, <2>6, <2>8, <3>1, <3>2, <3>3 DEF Show!Pick, Announced
    <3>5. QED
      BY <3>4 DEF Shows, Show!Next
  <2>9. QED
    BY <2>1, <2>7, <2>8
<1>16. ASSUME NEW g \in Getters, SampleAlbumFails(g) PROVE Shows
  BY <1>a, <1>16 DEF SampleAlbumFails, Fail, filterVars, samplerVars, Followed, Copying, Threads
<1>17. ASSUME NEW g \in Getters, GiveUp(g) PROVE Shows
  BY <1>a, <1>17 DEF GiveUp, Fail, filterVars, samplerVars, Followed, Copying, Threads
<1>18. ASSUME NEW g \in Getters, Deliver(g) PROVE Shows
  <2>1. /\ pc[g] = "deliver" /\ Goto(g, "idle")
        /\ sample_pos' = sample_pos + 1
        /\ UNCHANGED <<pending_filter, filter, filter_changed, sample_album,
                       sample_len>>
    BY <1>18 DEF Deliver, Succeed, filterVars
  <2>2. Left' = Left - 1
    BY <2>1 DEF Left, TypeInv, TypeOK, SampleOK
  <2>3. Left # 0
    BY <2>1 DEF Left, TypeInv, TypeOK, SampleOK, ReadyInv
  <2>4. \A h \in Getters : pc[h] \in Inside => h = g
    BY <2>1, AloneInside DEF Inside
  <2>5. \A h \in Getters : pc'[h] = IF h = g THEN "idle" ELSE pc[h]
    BY <2>1 DEF Goto, TypeInv, TypeOK, PcOK, Threads
  <2>6. Taking = {g} /\ Taking' = {}
    BY <2>1, <2>4, <2>5 DEF Taking, Inside
  <2>7. Stored' = Stored /\ Adopting' = Adopting
    BY <2>1, MoveShows DEF Copying, Threads
  <2>8. Show!Show(g)
    BY <2>1, <2>2, <2>3, <2>6, <2>7 DEF Show!Show, Announced
  <2>9. QED
    BY <2>8 DEF Shows, Show!Next
<1>19. ASSUME NEW s \in Setters, NEW f \in Filters, SetCall(s, f) PROVE Shows
  BY <1>a, <1>19 DEF SetCall, filterVars, samplerVars, Followed, Copying, Threads
<1>20. ASSUME NEW s \in Setters, SetLock(s) PROVE Shows
  BY <1>a, <1>20 DEF SetLock, filterVars, samplerVars, Followed, Copying, Threads
<1>21. ASSUME NEW s \in Setters, StoreFilter(s) PROVE Shows
  <2>1. /\ pc[s] = "store_filter" /\ Goto(s, "publish")
        /\ pending_filter'.f = arg[s].f
        /\ UNCHANGED <<filter, filter_changed, sampleVars>>
    BY <1>21 DEF StoreFilter, samplerVars
  <2>2. pending_filter'.f \in Filters
    BY <2>1, ConstantsAssumption
    DEF ConstantsAssumption, TypeInv, TypeOK, CallerOK, StampedFilters
  <2>3. Taking' = Taking /\ Adopting' = Adopting
    BY <2>1, MoveShows DEF Copying, Threads
  <2>4. s \notin Stored /\ Stored' = Stored \cup {s}
    BY <2>1 DEF Stored, Goto, TypeInv, TypeOK, PcOK, Threads
  <2>5. Show!Want(s)
    BY <2>1, <2>2, <2>3, <2>4
    DEF Show!Want, Show!showing, Left, sampleVars, Announced
  <2>6. QED
    BY <2>5 DEF Shows, Show!Next
<1>22. ASSUME NEW s \in Setters, StoreFilterFails(s) PROVE Shows
  BY <1>a, <1>22 DEF StoreFilterFails, filterVars, samplerVars, Followed, Copying, Threads
<1>23. ASSUME NEW s \in Setters, Publish(s) PROVE Shows
  <2>1. /\ pc[s] = "publish" /\ Goto(s, "idle") /\ filter_changed' = TRUE
        /\ UNCHANGED <<filter, pending_filter, sampleVars>>
    BY <1>23 DEF Publish, samplerVars
  <2>2. Taking' = Taking /\ Adopting' = Adopting
    BY <2>1, MoveShows DEF Copying, Threads
  <2>3. s \in Stored /\ Stored' = Stored \ {s}
    BY <2>1 DEF Stored, Goto, TypeInv, TypeOK, PcOK, Threads
  <2>4. \/ Announced' = Announced + 1
        \/ Announced > 0 /\ Announced' = Announced
    BY <2>1, <2>2 DEF Announced
  <2>5. Show!Announce(s)
    BY <2>1, <2>2, <2>3, <2>4 DEF Show!Announce, Show!showing, Left, sampleVars
  <2>6. QED
    BY <2>3, <2>5 DEF Shows, Show!Next, Stored
<1>24. ASSUME NEW r \in Readers, ReadSelection(r) PROVE Shows
  BY <1>a, <1>24 DEF ReadSelection, filterVars, samplerVars, Followed, Copying, Threads
<1>25. ASSUME NEW r \in Readers, ReadTotal(r) PROVE Shows
  BY <1>a, <1>25 DEF ReadTotal, filterVars, samplerVars, Followed, Copying, Threads
<1>26. ASSUME NEW r \in Readers, ReadKept(r) PROVE Shows
  BY <1>a, <1>26 DEF ReadKept, filterVars, samplerVars, Followed, Copying, Threads
<1>27. ASSUME Refresh PROVE Shows
  <2>1. UNCHANGED Show!vars
    BY <1>27 DEF Refresh, filterVars, samplerVars, sampleVars, Show!vars,
       Show!showing, Left, Taking, Stored, Announced, Adopting
  <2>2. QED
    BY <2>1 DEF Shows
<1>28. QED
  BY <1>1, <1>2, <1>3, <1>4, <1>5, <1>6, <1>7, <1>8, <1>9, <1>10, <1>11, <1>12, <1>13, <1>14, <1>15, <1>16, <1>17, <1>18, <1>19, <1>20, <1>21, <1>22, <1>23, <1>24, <1>25, <1>26, <1>27
  DEF Shows, Next, LocalStep, ListReply, SampleReply, SetStep, ReadStep

(* Callers of the sampler see the AlbumShow: whatever is refreshed, fails  *)
(* or runs in between, an album is shown to its last picture unless a      *)
(* filter was announced since the last adoption, no picture of it goes to  *)
(* two callers, and the next album passes the filter in force.             *)
THEOREM ShowCorrect == Spec => ShowsAlbumByAlbum
<1>1. Init => UsedUp /\ Show!Init
  BY DEF Init, UsedUp, Show!Init, Left, Taking, Stored, Adopting, Announced,
     Threads
<1>2. TypeInv /\ UsedUp /\ [Next]_vars => UsedUp'
  <2>1. UNCHANGED vars /\ UsedUp => UsedUp'
    BY DEF vars, samplerVars, sampleVars, UsedUp
  <2>2. QED
    BY <2>1, UsedUpStep
<1>3. /\ TypeInv /\ UsedUp /\ SampleFromAllowedAlbum
      /\ SampleFromAllowedAlbum' /\ [Next]_vars
      => [Show!Next]_(Show!vars)
  <2>1. UNCHANGED vars => UNCHANGED Show!vars
    BY DEF vars, samplerVars, sampleVars, filterVars, Show!vars, Show!showing,
       Left, Taking, Stored, Adopting, Announced
  <2>2. QED
    BY <2>1, ShowStep
<1>4. QED
  BY <1>1, <1>2, <1>3, TypeInvariant, SampleCorrect, PTL
  DEF Spec, ShowsAlbumByAlbum, Show!Spec
===============================================================================
