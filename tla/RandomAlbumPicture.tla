-------------------------- MODULE RandomAlbumPicture --------------------------
(***************************************************************************)
(* The album-by-album sampler of random.c: one                             *)
(* struct immich_random_album_picture shared by threads that               *)
(*   - take pictures        (immich_get_random_album_picture),             *)
(*   - set filters          (immich_random_album_picture_set_filter),      *)
(*   - mark the list stale  (immich_random_album_picture_refresh),         *)
(*   - read the status      (immich_random_album_picture_status).          *)
(*                                                                         *)
(* A step runs from one access of shared state to the next. What a getter  *)
(* does between two such accesses happens under r->lock, where no other    *)
(* thread can see it. A request is two steps, so that anything may happen  *)
(* while the server is thinking. Atomics are the C11 defaults, sequentially*)
(* consistent.                                                             *)
(***************************************************************************)
EXTENDS Naturals, Sequences, FiniteSets, Functions, SampleSizes,
        ShuffleAlbums

CONSTANTS
  Getters, Setters, Readers,  (* the threads that make each kind of call   *)
  None,                       (* no thread, no album                       *)
  Albums,                     (* album IDs the server may ever return      *)
  InvalidIds,                 (* ...of those, the ones that are not UUIDs  *)
  ServerLists,                (* what GET /albums may answer: functions    *)
                              (* from the listed albums to assetCount      *)
  PictureCounts,              (* [album -> the numbers of images a search  *)
                              (* of the album may return]                  *)
  Filters, NoFilter,          (* arguments of set_filter, NULL among them  *)
  ValidFilters,               (* ...the ones whose years are accepted      *)
  Passes,                     (* [filter -> albums whose name and dates    *)
                              (* pass it]                                  *)
  max_pictures, percent,      (* arguments of the constructor              *)
  Faults,                     (* what may go wrong, see ASSUME             *)
  MaxSets, MaxRefreshes       (* bounds on the calls of the two setters    *)

Threads == Getters \cup Setters \cup Readers

(* A list of albums: the assetCount of each album in it, which is whatever  *)
(* number the server sent                                                  *)
AlbumList(l) == DOMAIN l \subseteq Albums /\ l \in [DOMAIN l -> Int]

ASSUME ConstantsAssumption ==
  /\ None \notin Threads \cup Albums
  /\ IsFiniteSet(Albums) /\ InvalidIds \subseteq Albums
  /\ \A l \in ServerLists : AlbumList(l)
  /\ PictureCounts \in [Albums -> SUBSET Nat]
  /\ NoFilter \in ValidFilters /\ ValidFilters \subseteq Filters
  /\ Passes \in [Filters -> SUBSET Albums] /\ Passes[NoFilter] = Albums
  /\ max_pictures \in Nat /\ percent \in 1..100
  /\ Faults \subseteq {"network", "memory", "id_format"}
  /\ MaxSets \in Nat /\ MaxRefreshes \in Nat

VARIABLES
  \* Shared atomics
  stale, filter_changed, selection, n_albums, n_kept,
  \* The filter waiting to be picked up, and its mutex (its owner, or None)
  filter_lock, pending_filter,
  \* r->lock (its owner, or None) and the fields it protects. The array
  \* order[0..order_len) is the set rotation, order[order_pos..) the
  \* sequence upcoming. sample_album is the album of the last sample that
  \* was not empty.
  lock, filter, warned_empty, have_albums, albums, rotation, upcoming,
  last_album_id, sample_album, sample_len, sample_pos,
  \* Program counters and locals: tries and after_rebuild belong to the
  \* thread that holds lock
  pc, tries, after_rebuild, arg, seen,
  \* History, read by no guard except the bounds. A filter carries the number
  \* of the set_filter call that stored it, a status atomic the number of the
  \* rotation it describes.
  committed,   \* the newest set_filter call that has returned 0
  floor,       \* [getter -> committed when its call began]
  refreshes,   \* calls of refresh so far
  requested,   \* refreshes when the last request for the list was sent
  listed,      \* refreshes when the request for the current list was sent
  visits,      \* [album -> its visits since the rotation was built, less the
               \* complete rounds]
  misses       \* consecutive failed picks from this rotation, at most 2

callerVars == <<arg, seen, floor>>
filterVars == <<filter_changed, filter_lock, pending_filter, committed>>
statusVars == <<selection, n_albums, n_kept>>
staleVars  == <<stale, refreshes>>
listVars   == <<have_albums, albums, requested, listed>>
orderVars  == <<rotation, upcoming, last_album_id, visits>>
sampleVars == <<sample_album, sample_len, sample_pos>>
localVars  == <<tries, after_rebuild>>
warnVars   == <<warned_empty, misses>>

\* What only the owner of r->lock touches
samplerVars == <<listVars, orderVars, sampleVars, localVars, warnVars, lock,
                 filter>>

vars == <<pc, callerVars, filterVars, statusVars, staleVars, samplerVars>>

-------------------------------------------------------------------------------
Goto(t, label) == pc' = [pc EXCEPT ![t] = label]

(* The two ways out of a get: both release r->lock. misses counts the      *)
(* failures in a row.                                                      *)
Succeed(g) == lock' = None /\ Goto(g, "idle") /\ misses' = 0

(* Mutant of Fail: an early return that forgets to unlock                  *)
FailLocked(g) == lock' = lock /\ Goto(g, "idle")
                 /\ misses' = IF misses < 2 THEN misses + 1 ELSE 2

Fail(g) ==       lock' = None /\ Goto(g, "idle")
                 /\ misses' = IF misses < 2 THEN misses + 1 ELSE 2

(* Mutant of Matches: without the test of asset_count                      *)
MatchesEmpty(a) == a \in Passes[filter.f]

(* immich_album_filter_match() on an entry of the cached list              *)
Matches(a) == albums[a] > 0 /\ a \in Passes[filter.f]
Kept == {a \in DOMAIN albums : Matches(a)}

(* Mutant of Verdict: counts the albums, not the albums with assets        *)
VerdictByCount ==
  IF rotation # {} THEN "OK"
  ELSE IF DOMAIN albums = {} THEN "NONE_WITH_PICTURES"
  ELSE "NONE_MATCH_FILTER"

Verdict ==
  IF rotation # {} THEN "OK"
  ELSE IF \A a \in DOMAIN albums : albums[a] <= 0 THEN "NONE_WITH_PICTURES"
  ELSE "NONE_MATCH_FILTER"

(* Mutant of Shuffles: draws each place without a swap                     *)
ShufflesWithRepeats ==
  {p \in [1..Cardinality(rotation) -> rotation] :
      Cardinality(rotation) > 1 => p[1] # last_album_id}

(* What shuffle_albums() may leave in order: any order of the rotation     *)
(* that does not begin with last_album_id, unless there is nothing else.   *)
Shuffles ==
  {p \in Bijection(1..Cardinality(rotation), rotation) :
      Cardinality(rotation) > 1 => p[1] # last_album_id}

-------------------------------------------------------------------------------
(* immich_random_album_picture_new(), with 1 <= percent <= 100             *)
Init ==
  /\ stale = TRUE /\ filter_changed = FALSE
  /\ selection = [sel |-> "NONE_KNOWN", rot |-> 0]
  /\ n_albums = [n |-> 0, rot |-> 0] /\ n_kept = [n |-> 0, rot |-> 0]
  /\ filter_lock = None /\ lock = None
  /\ pending_filter = [f |-> NoFilter, ver |-> 0]
  /\ filter = [f |-> NoFilter, ver |-> 0]
  /\ warned_empty = FALSE /\ have_albums = FALSE
  /\ albums = [a \in {} |-> 0] /\ rotation = {} /\ upcoming = <<>>
  /\ last_album_id = None /\ sample_album = None
  /\ sample_len = 0 /\ sample_pos = 0
  /\ pc = [t \in Threads |-> "idle"]
  /\ tries = 0 /\ after_rebuild = "check"
  /\ arg = [s \in Setters |-> [f |-> NoFilter, ver |-> 0]]
  /\ seen = [r \in Readers |-> [sel |-> selection, total |-> n_albums,
                                kept |-> n_kept]]
  /\ committed = 0 /\ floor = [g \in Getters |-> 0]
  /\ refreshes = 0 /\ requested = 0 /\ listed = 0
  /\ visits = [a \in Albums |-> 0] /\ misses = 0

-------------------------------------------------------------------------------
(* immich_get_random_album_picture()                                       *)

GetCall(g) ==
  /\ pc[g] = "idle"
  /\ Goto(g, "enter") /\ floor' = [floor EXCEPT ![g] = committed]
  /\ UNCHANGED <<filterVars, statusVars, staleVars, samplerVars, arg, seen>>

(* Mutant of Enter: consumes the flag and leaves the sample to be used up  *)
EnterLeavesSample(g) ==
  /\ pc[g] = "enter" /\ lock = None
  /\ lock' = g /\ filter_changed' = FALSE
  /\ Goto(g, IF filter_changed /\ sample_pos = sample_len THEN "take_filter"
                                                         ELSE "check")
  /\ UNCHANGED <<callerVars, statusVars, staleVars, listVars, orderVars,
                 sampleVars, localVars, warnVars, filter_lock, pending_filter,
                 committed, filter>>

(* Mutant of Enter: loads the flag and does not clear it                   *)
EnterKeepsFlag(g) ==
  /\ pc[g] = "enter" /\ lock = None
  /\ lock' = g
  /\ Goto(g, IF filter_changed THEN "take_filter" ELSE "check")
  /\ UNCHANGED <<callerVars, statusVars, staleVars, listVars, orderVars,
                 sampleVars, localVars, warnVars, filterVars, filter>>

(* Takes r->lock and, as nobody can tell the two apart, exchanges          *)
(* filter_changed in the same step.                                        *)
Enter(g) ==
  /\ pc[g] = "enter" /\ lock = None
  /\ lock' = g /\ filter_changed' = FALSE
  /\ Goto(g, IF filter_changed THEN "take_filter" ELSE "check")
  /\ UNCHANGED <<callerVars, statusVars, staleVars, listVars, orderVars,
                 sampleVars, localVars, warnVars, filter_lock, pending_filter,
                 committed, filter>>

TakeFilterLock(g) ==
  /\ pc[g] = "take_filter" /\ filter_lock = None
  /\ filter_lock' = g /\ Goto(g, "copy_filter")
  /\ UNCHANGED <<callerVars, statusVars, staleVars, samplerVars,
                 filter_changed, pending_filter, committed>>

(* Mutant of CopyFilter: the sample drawn under the old filter stays       *)
CopyFilterKeepsSample(g) ==
  /\ pc[g] = "copy_filter"
  /\ filter' = pending_filter /\ filter_lock' = None
  /\ after_rebuild' = "check"
  /\ Goto(g, IF have_albums THEN "rebuild" ELSE "check")
  /\ UNCHANGED <<callerVars, statusVars, staleVars, listVars, orderVars,
                 sampleVars, warnVars, filter_changed, pending_filter,
                 committed, tries, lock>>

(* The rest of apply_pending_filter(): the copy, the unlock, and dropping  *)
(* what is left of the sample.                                             *)
CopyFilter(g) ==
  /\ pc[g] = "copy_filter"
  /\ filter' = pending_filter /\ filter_lock' = None
  /\ sample_pos' = sample_len
  /\ after_rebuild' = "check"
  /\ Goto(g, IF have_albums THEN "rebuild" ELSE "check")
  /\ UNCHANGED <<callerVars, statusVars, staleVars, listVars, orderVars,
                 warnVars, filter_changed, pending_filter, committed,
                 sample_album, sample_len, tries, lock>>

(* filter_strings_set() runs out of memory: the old filter stays in force  *)
CopyFilterFails(g) ==
  /\ pc[g] = "copy_filter" /\ "memory" \in Faults
  /\ filter_lock' = None /\ Goto(g, "check")
  /\ UNCHANGED <<callerVars, statusVars, staleVars, samplerVars,
                 filter_changed, pending_filter, committed>>

(* rebuild_order(), up to its first atomic store. The other two are steps  *)
(* of their own, since readers of the status do not take r->lock.          *)
RebuildOrder(g) ==
  /\ pc[g] = "rebuild"
  /\ rotation' = Kept /\ upcoming' = <<>>
  /\ warned_empty' = FALSE /\ misses' = 0
  /\ visits' = [a \in Albums |-> 0]
  /\ n_albums' = [n |-> Cardinality(DOMAIN albums), rot |-> n_albums.rot + 1]
  /\ Goto(g, "store_kept")
  /\ UNCHANGED <<callerVars, filterVars, staleVars, listVars, sampleVars,
                 localVars, selection, n_kept, last_album_id, lock, filter>>

StoreKept(g) ==
  /\ pc[g] = "store_kept"
  /\ n_kept' = [n |-> Cardinality(rotation), rot |-> n_albums.rot]
  /\ Goto(g, "store_selection")
  /\ UNCHANGED <<callerVars, filterVars, staleVars, samplerVars, selection,
                 n_albums>>

StoreSelection(g) ==
  /\ pc[g] = "store_selection"
  /\ selection' = [sel |-> Verdict, rot |-> n_albums.rot]
  /\ Goto(g, after_rebuild)
  /\ UNCHANGED <<callerVars, filterVars, staleVars, samplerVars, n_albums,
                 n_kept>>

(* Mutant of CheckSample: does not look whether any picture is left        *)
CheckNothing(g) ==
  /\ pc[g] = "check"
  /\ Goto(g, IF sample_len = 0 THEN "update" ELSE "deliver")
  /\ UNCHANGED <<callerVars, filterVars, statusVars, staleVars, samplerVars>>

(* Mutant of CheckSample: a refresh also drops what is left of the sample  *)
CheckDropsStale(g) ==
  /\ pc[g] = "check"
  /\ Goto(g, IF sample_pos = sample_len \/ stale THEN "update" ELSE "deliver")
  /\ sample_pos' = IF stale THEN sample_len ELSE sample_pos
  /\ UNCHANGED <<callerVars, filterVars, statusVars, staleVars, listVars,
                 orderVars, localVars, warnVars, sample_album, sample_len, lock,
                 filter>>

(* Is there a picture left in the sample?                                  *)
CheckSample(g) ==
  /\ pc[g] = "check"
  /\ Goto(g, IF sample_pos = sample_len THEN "update" ELSE "deliver")
  /\ UNCHANGED <<callerVars, filterVars, statusVars, staleVars, samplerVars>>

-------------------------------------------------------------------------------
(* update_albums()                                                         *)

(* Mutant of UpdateAlbums: the count of tries survives the call            *)
UpdateKeepsTries(g) ==
  /\ pc[g] = "update"
  /\ stale' = FALSE
  /\ IF stale THEN Goto(g, "listing") /\ requested' = refreshes
              ELSE Goto(g, "loop") /\ UNCHANGED requested
  /\ UNCHANGED <<callerVars, filterVars, statusVars, orderVars, sampleVars,
                 warnVars, localVars, have_albums, albums, listed, refreshes,
                 lock, filter>>

UpdateAlbums(g) ==
  /\ pc[g] = "update"
  /\ stale' = FALSE /\ tries' = 0
  /\ IF stale THEN Goto(g, "listing") /\ requested' = refreshes
              ELSE Goto(g, "loop") /\ UNCHANGED requested
  /\ UNCHANGED <<callerVars, filterVars, statusVars, orderVars, sampleVars,
                 warnVars, have_albums, albums, listed, after_rebuild,
                 refreshes, lock, filter>>

(* Mutant of ListAlbums: clears stale once the list has come               *)
ListClearsStale(g) ==
  /\ pc[g] = "listing"
  /\ \E l \in ServerLists : albums' = l
  /\ have_albums' = TRUE /\ listed' = requested /\ stale' = FALSE
  /\ after_rebuild' = "loop" /\ Goto(g, "rebuild")
  /\ UNCHANGED <<callerVars, filterVars, statusVars, refreshes, orderVars,
                 sampleVars, warnVars, requested, tries, lock, filter>>

ListAlbums(g) ==
  /\ pc[g] = "listing"
  /\ \E l \in ServerLists : albums' = l
  /\ have_albums' = TRUE /\ listed' = requested
  /\ after_rebuild' = "loop" /\ Goto(g, "rebuild")
  /\ UNCHANGED <<callerVars, filterVars, statusVars, staleVars, orderVars,
                 sampleVars, warnVars, requested, tries, lock, filter>>

ListAlbumsFails(g) ==
  /\ pc[g] = "listing" /\ Faults \cap {"network", "memory"} # {}
  /\ Goto(g, "mark_stale")
  /\ UNCHANGED <<callerVars, filterVars, statusVars, staleVars, samplerVars>>

(* Mutant of MarkStale: keeps the old list and forgets to ask again        *)
MarkNothing(g) ==
  /\ pc[g] = "mark_stale"
  /\ \/ have_albums /\ Goto(g, "loop") /\ UNCHANGED <<lock, misses>>
     \/ ~have_albums /\ Fail(g)
  /\ UNCHANGED <<callerVars, filterVars, statusVars, listVars, orderVars,
                 sampleVars, localVars, staleVars, warned_empty, filter>>

(* The fail: branch; only a sampler that never had a list gives up here    *)
MarkStale(g) ==
  /\ pc[g] = "mark_stale"
  /\ stale' = TRUE
  /\ \/ have_albums /\ Goto(g, "loop") /\ UNCHANGED <<lock, misses>>
     \/ ~have_albums /\ Fail(g)
  /\ UNCHANGED <<callerVars, filterVars, statusVars, listVars, orderVars,
                 sampleVars, localVars, refreshes, warned_empty, filter>>

-------------------------------------------------------------------------------
(* next_album(): one turn of its loop up to the request for the pictures   *)

(* Counts a visit; a complete round over the rotation counts for nothing   *)
Visited(a) ==
  LET v == [visits EXCEPT ![a] = @ + 1]
  IN  IF \A b \in rotation : v[b] > 0
      THEN [b \in Albums |-> IF b \in rotation THEN v[b] - 1 ELSE v[b]]
      ELSE v

NextAlbum(g) ==
  /\ pc[g] = "loop" /\ tries < Cardinality(rotation)
  /\ \E round \in IF upcoming = <<>> THEN Shuffles ELSE {upcoming} :
       /\ upcoming' = Tail(round)
       /\ visits' = Visited(Head(round))
       /\ \/ /\ Head(round) \notin InvalidIds
             /\ last_album_id' = Head(round)
             /\ Goto(g, "sampling") /\ UNCHANGED <<lock, misses>>
          \/ /\ Head(round) \in InvalidIds
             /\ Fail(g) /\ UNCHANGED last_album_id
  /\ UNCHANGED <<callerVars, filterVars, statusVars, staleVars, listVars,
                 sampleVars, localVars, rotation, warned_empty, filter>>

(* sample_album(), and the end of the loop's turn. An album of videos has  *)
(* assets but no images: its sample is empty and the loop goes on.         *)
SampleAlbum(g) ==
  /\ pc[g] = "sampling"
  /\ \E n \in PictureCounts[last_album_id] :
       LET k == sample_size(n, max_pictures, percent) IN
       /\ sample_len' = k /\ sample_pos' = 0
       /\ \/ /\ k = 0
             /\ tries' = tries + 1 /\ Goto(g, "loop")
             /\ UNCHANGED <<sample_album, warned_empty>>
          \/ /\ k > 0
             /\ sample_album' = last_album_id /\ warned_empty' = FALSE
             /\ Goto(g, "deliver") /\ UNCHANGED tries
  /\ UNCHANGED <<callerVars, filterVars, statusVars, staleVars, listVars,
                 orderVars, after_rebuild, misses, lock, filter>>

(* No answer, no memory, or a picture whose ID is not a UUID: the old,     *)
(* used up sample stays                                                    *)
SampleAlbumFails(g) ==
  /\ pc[g] = "sampling" /\ Faults # {}
  /\ Fail(g)
  /\ UNCHANGED <<callerVars, filterVars, statusVars, staleVars, listVars,
                 orderVars, sampleVars, localVars, warned_empty, filter>>

(* The loop has run out of tries                                           *)
GiveUp(g) ==
  /\ pc[g] = "loop" /\ tries >= Cardinality(rotation)
  /\ warned_empty' = TRUE
  /\ Fail(g)
  /\ UNCHANGED <<callerVars, filterVars, statusVars, staleVars, listVars,
                 orderVars, sampleVars, localVars, filter>>

Deliver(g) ==
  /\ pc[g] = "deliver"
  /\ sample_pos' = sample_pos + 1
  /\ Succeed(g)
  /\ UNCHANGED <<callerVars, filterVars, statusVars, staleVars, listVars,
                 orderVars, localVars, sample_album, sample_len, warned_empty,
                 filter>>

-------------------------------------------------------------------------------
(* immich_random_album_picture_refresh()                                   *)
Refresh ==
  /\ refreshes < MaxRefreshes
  /\ stale' = TRUE /\ refreshes' = refreshes + 1
  /\ UNCHANGED <<callerVars, filterVars, statusVars, samplerVars, pc>>

(* immich_random_album_picture_set_filter(). A filter whose years are      *)
(* rejected leaves no trace, so only the others are followed.              *)
SetCall(s, f) ==
  /\ pc[s] = "idle" /\ pending_filter.ver < MaxSets
  /\ f \in ValidFilters
  /\ arg' = [arg EXCEPT ![s] = [f |-> f, ver |-> 0]] /\ Goto(s, "set")
  /\ UNCHANGED <<filterVars, statusVars, staleVars, samplerVars, seen, floor>>

(* Mutant of SetLock: the pending filter guarded by r->lock                *)
SetLockBoth(s) ==
  /\ pc[s] = "set" /\ filter_lock = None /\ lock = None
  /\ filter_lock' = s /\ Goto(s, "store_filter")
  /\ UNCHANGED <<callerVars, statusVars, staleVars, samplerVars,
                 filter_changed, pending_filter, committed>>

SetLock(s) ==
  /\ pc[s] = "set" /\ filter_lock = None
  /\ filter_lock' = s /\ Goto(s, "store_filter")
  /\ UNCHANGED <<callerVars, statusVars, staleVars, samplerVars,
                 filter_changed, pending_filter, committed>>

StoreFilter(s) ==
  /\ pc[s] = "store_filter"
  /\ pending_filter' = [f |-> arg[s].f, ver |-> pending_filter.ver + 1]
  /\ arg' = [arg EXCEPT ![s] = pending_filter']
  /\ filter_lock' = None /\ Goto(s, "publish")
  /\ UNCHANGED <<statusVars, staleVars, samplerVars, seen, floor,
                 filter_changed, committed>>

StoreFilterFails(s) ==
  /\ pc[s] = "store_filter" /\ "memory" \in Faults
  /\ filter_lock' = None /\ Goto(s, "idle")
  /\ UNCHANGED <<callerVars, statusVars, staleVars, samplerVars,
                 filter_changed, pending_filter, committed>>

Publish(s) ==
  /\ pc[s] = "publish"
  /\ filter_changed' = TRUE /\ Goto(s, "idle")
  /\ committed' = IF arg[s].ver > committed THEN arg[s].ver ELSE committed
  /\ UNCHANGED <<callerVars, statusVars, staleVars, samplerVars, filter_lock,
                 pending_filter>>

(* immich_random_album_picture_status(): three loads, the verdict first    *)
ReadSelection(r) ==
  /\ pc[r] = "idle"
  /\ seen' = [seen EXCEPT ![r].sel = selection] /\ Goto(r, "read_total")
  /\ UNCHANGED <<filterVars, statusVars, staleVars, samplerVars, arg, floor>>

ReadTotal(r) ==
  /\ pc[r] = "read_total"
  /\ seen' = [seen EXCEPT ![r].total = n_albums] /\ Goto(r, "read_kept")
  /\ UNCHANGED <<filterVars, statusVars, staleVars, samplerVars, arg, floor>>

(* Mutant of ReadKept: the verdict is loaded after the counts              *)
ReadVerdictLast(r) ==
  /\ pc[r] = "read_kept"
  /\ seen' = [seen EXCEPT ![r].kept = n_kept, ![r].sel = selection]
  /\ Goto(r, "idle")
  /\ UNCHANGED <<filterVars, statusVars, staleVars, samplerVars, arg, floor>>

ReadKept(r) ==
  /\ pc[r] = "read_kept"
  /\ seen' = [seen EXCEPT ![r].kept = n_kept] /\ Goto(r, "idle")
  /\ UNCHANGED <<filterVars, statusVars, staleVars, samplerVars, arg, floor>>

-------------------------------------------------------------------------------
(* The steps of a call of get that need nobody's answer, and the two that  *)
(* end a request                                                           *)
LocalStep(g) ==
  \/ Enter(g) \/ TakeFilterLock(g) \/ CopyFilter(g) \/ CopyFilterFails(g)
  \/ RebuildOrder(g) \/ StoreKept(g) \/ StoreSelection(g) \/ CheckSample(g)
  \/ UpdateAlbums(g) \/ MarkStale(g) \/ NextAlbum(g) \/ GiveUp(g)
  \/ Deliver(g)

ListReply(g)   == ListAlbums(g) \/ ListAlbumsFails(g)
SampleReply(g) == SampleAlbum(g) \/ SampleAlbumFails(g)

SetStep(s) ==
  SetLock(s) \/ StoreFilter(s) \/ StoreFilterFails(s) \/ Publish(s)

ReadStep(r) == ReadSelection(r) \/ ReadTotal(r) \/ ReadKept(r)

Next ==
  \/ \E g \in Getters :
        GetCall(g) \/ LocalStep(g) \/ ListReply(g) \/ SampleReply(g)
  \/ \E s \in Setters : SetStep(s) \/ \E f \in Filters : SetCall(s, f)
  \/ \E r \in Readers : ReadStep(r)
  \/ Refresh

Spec == Init /\ [][Next]_vars

(* The steps inside the library are taken: threads are scheduled, and the  *)
(* mutexes are free again after a bounded number of steps of their owner.  *)
(* Nothing is assumed of the server.                                       *)
LocalFairness ==
  /\ \A g \in Getters : WF_vars(LocalStep(g))
  /\ \A s \in Setters : WF_vars(SetStep(s))

(* A slideshow: it keeps asking for pictures. Every request ends, since    *)
(* perform() gives up on connections and on transfers that stall, and a    *)
(* server that is asked again and again does answer again and again.       *)
Slideshow ==
  \A g \in Getters :
    /\ WF_vars(GetCall(g)) /\ WF_vars(ListReply(g)) /\ WF_vars(SampleReply(g))
    /\ SF_vars(ListAlbums(g)) /\ SF_vars(SampleAlbum(g))

LocalSpec     == Spec /\ LocalFairness
SlideshowSpec == LocalSpec /\ Slideshow

-------------------------------------------------------------------------------
Labels == {"idle", "enter", "take_filter", "copy_filter", "rebuild",
           "store_kept", "store_selection", "check", "update", "listing",
           "mark_stale", "loop", "sampling", "deliver", "set", "store_filter",
           "publish", "read_total", "read_kept"}

StampedFilters == [f : ValidFilters, ver : Nat]
Counts   == [n : Nat, rot : Nat]
Verdicts == [sel : {"OK", "NONE_KNOWN", "NONE_WITH_PICTURES",
                    "NONE_MATCH_FILTER"}, rot : Nat]

PcOK     == pc \in [Threads -> Labels]
CallerOK == /\ arg \in [Setters -> StampedFilters]
            /\ seen \in [Readers ->
                            [sel : Verdicts, total : Counts, kept : Counts]]
            /\ floor \in [Getters -> Nat]
FilterOK == /\ filter_changed \in BOOLEAN
            /\ filter_lock \in Threads \cup {None}
            /\ pending_filter \in StampedFilters /\ committed \in Nat
StatusOK == selection \in Verdicts /\ n_albums \in Counts /\ n_kept \in Counts
StaleOK  == stale \in BOOLEAN /\ refreshes \in Nat
OwnerOK  == lock \in Getters \cup {None} /\ filter \in StampedFilters
ListOK   == /\ have_albums \in BOOLEAN /\ AlbumList(albums)
            /\ requested \in Nat /\ listed \in Nat
OrderOK  == /\ rotation \subseteq Albums /\ upcoming \in Seq(rotation)
            /\ last_album_id \in Albums \cup {None}
            /\ visits \in [Albums -> Nat]
SampleOK == /\ sample_album \in Albums \cup {None}
            /\ sample_len \in Nat /\ sample_pos \in 0..sample_len
LocalOK  == tries \in Nat /\ after_rebuild \in {"check", "loop"}
WarnOK   == warned_empty \in BOOLEAN /\ misses \in 0..2

(* Every variable has its type; a filter in force or pending is one that   *)
(* set_filter accepts, the round is a part of the rotation, and the sample *)
(* is never read past its end.                                             *)
TypeOK ==
  /\ PcOK /\ CallerOK /\ FilterOK /\ StatusOK /\ StaleOK /\ OwnerOK
  /\ ListOK /\ OrderOK /\ SampleOK /\ LocalOK /\ WarnOK

(* A get that begins after set_filter has returned 0 hands out its picture *)
(* under that filter or a newer one, whatever the other threads do between *)
(* the flag, the mutex and the copy. (Not when memory runs out.)           *)
FilterInForceIsFresh ==
  \A g \in Getters : pc[g] = "deliver" => filter.ver >= floor[g]

(* What is left of the sample comes from an album that the filter in force *)
(* lets through, even if the filter changed while the album was shown.     *)
SampleFromAllowedAlbum ==
  sample_pos < sample_len => sample_album \in Passes[filter.f]

(* Seen from its callers the sampler is the AlbumShow: no list that comes, *)
(* refresh, request that fails or thread in between cuts an album short,   *)
(* changes it, adds to it or shares a picture with another; only a filter  *)
(* that was announced since the last adoption ends it early. An            *)
(* announcement is due while the flag is up, and while a getter that has   *)
(* taken the flag has not copied the filter.                               *)
Left      == sample_len - sample_pos
Taking    == {g \in Getters : pc[g] = "deliver"}
Stored    == {s \in Setters : pc[s] = "publish"}
Adopting  == \E g \in Getters : pc[g] \in {"take_filter", "copy_filter"}
Announced == (IF filter_changed THEN 1 ELSE 0) + (IF Adopting THEN 1 ELSE 0)
Show == INSTANCE AlbumShow
          WITH wanted <- pending_filter.f, inForce <- filter.f, left <- Left,
               album <- IF Left = 0 THEN None ELSE sample_album,
               NoMemory <- "memory" \in Faults,
               taking <- Taking, stored <- Stored, due <- Announced
ShowsAlbumByAlbum == Show!Spec

(* Outside rebuild_order(), the rotation holds exactly the albums of the   *)
(* cached list that have pictures and pass the filter in force: no index   *)
(* of order[] refers to a list that was replaced or to an old filter.      *)
RotationIsCurrent ==
  (\A g \in Getters : pc[g] # "rebuild") =>
     /\ rotation \subseteq DOMAIN albums
     /\ \A a \in DOMAIN albums :
          a \in rotation <=> albums[a] > 0 /\ a \in Passes[filter.f]

(* A refresh is never lost, not even one that comes while the list is on   *)
(* its way or while the request for it fails: either the list is still     *)
(* marked stale, or it was requested after the last refresh.               *)
RefreshNotLost ==
  ~stale /\ (\A g \in Getters : pc[g] \notin {"listing", "mark_stale"})
    => have_albums /\ listed = refreshes

(* The verdict of the last rotation says why it is empty, and never blames *)
(* the filter for a library without pictures.                              *)
VerdictMatchesRotation ==
  /\ ~have_albums => selection.sel = "NONE_KNOWN"
  /\ have_albums /\ (\A g \in Getters :
        pc[g] \notin {"rebuild", "store_kept", "store_selection"}) =>
       /\ selection.sel = "OK" <=> n_kept.n > 0
       /\ selection.sel = "NONE_MATCH_FILTER" =>
            \E a \in DOMAIN albums : albums[a] > 0 /\ a \notin Passes[filter.f]
       /\ selection.sel = "NONE_WITH_PICTURES" =>
            \A a \in DOMAIN albums : albums[a] <= 0
       /\ selection.sel # "NONE_KNOWN"

(* A caller of status that is told a rotation's verdict is not given       *)
(* counts from before that rotation, and three loads that did meet the     *)
(* same rotation agree with each other.                                    *)
StatusNotOlderThanVerdict ==
  \A r \in Readers : pc[r] \notin {"read_total", "read_kept"} =>
    LET s == seen[r] IN
    /\ s.total.rot >= s.sel.rot /\ s.kept.rot >= s.sel.rot
    /\ s.sel.rot > 0 /\ s.sel.rot = s.total.rot /\ s.sel.rot = s.kept.rot =>
         /\ s.kept.n <= s.total.n
         /\ s.sel.sel = "OK" <=> s.kept.n > 0

(* Every album of the rotation is visited once before any is visited again *)
VisitedOnceBeforeRepeat == \A a \in Albums : visits[a] <= 1

(* shuffle_albums() may leave every order that Shuffles allows, no other,  *)
(* and each by as many draws as any other - but twice as many if the album *)
(* just shown is second in it, where it also comes from the first place.   *)
ShuffleIsFair ==
  LET n == Cardinality(rotation) IN
  upcoming = <<>> /\ (\E g \in Getters : pc[g] = "loop") =>
    \A order \in Bijection(1..n, rotation) :
      LET left == [d \in Draws(n) |->
                     shuffle_albums(order, n, d, last_album_id)]
      IN  /\ Range(left) = Shuffles
          /\ \A p \in Shuffles :
               Cardinality({d \in Draws(n) : left[d] = p}) =
                 IF n > 1 /\ p[2] = last_album_id THEN 2 ELSE 1

(* While the server answers, asking again is enough: two failed picks in a *)
(* row from one rotation mean that none of its albums has images.          *)
RetrySuffices ==
  misses = 2 => \A a \in rotation : 0 \in PictureCounts[a]

(* next_album() gives up only if no album of the rotation has any picture. *)
(* The comment on its loop and the message it prints say so; it does not   *)
(* hold, since the tries of one call may meet an album twice.              *)
GivesUpOnlyWithoutPictures ==
  [][\A g \in Getters :
       GiveUp(g) => \A a \in rotation : 0 \in PictureCounts[a]]_vars

(* set_filter never waits for the server: its call returns even if no      *)
(* request of a getter is ever answered.                                   *)
SetFilterReturns ==
  \A s \in Setters : pc[s] = "set" ~> pc[s] = "idle"

(* Every call of get returns, and every refresh is followed by a list that *)
(* was requested after it, although the request may fail time and again.   *)
GetReturns == \A g \in Getters : pc[g] = "enter" ~> pc[g] = "idle"

RefreshTakesEffect ==
  \A n \in 1..MaxRefreshes : refreshes >= n ~> listed >= n
===============================================================================
