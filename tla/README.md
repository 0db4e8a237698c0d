# libimmich-random in TLA+

libimmich-random is a C library for slideshows: it picks a random sample of the
pictures of a random album of an [Immich](https://immich.app) server, then of
another album, and downloads pictures. This directory holds its specification:
modules written from the C code, TLC configurations that check them on small
instances, and proofs that TLAPS checks for every instance.

Paths below are relative to the repository (`random.c`) or to this directory
(`RandomAlbumPicture.tla`).

## 1. The system

| Component | Code | State | Operations | Module |
|---|---|---|---|---|
| Sampler | `random.c` | the cached album list, the rotation and the round, the sample, the filter in force and the one waiting, the status, two mutexes, five atomics | get, set_filter, refresh, status | `RandomAlbumPicture`, `ShuffleAlbums`, `AlbumShow` |
| Sampling of one album | `random.c` 78-95, 319-389 | the walk over the album, the sample | sample_album | `SampleSizes`, `RandomBelow`, `AlbumSample`, `SelectionSampling` |
| Album filter | `album_filter.c` | within a call: the place in a list, the pointers of `glob_match` | immich_album_filter_match | `Globs`, `GlobMatch`, `AlbumFilter` |
| Listing and metadata | `browse.c` | the result being built, the reply, the request with its paging cursor | list_albums, list_album_pictures, get_picture_metadata, the frees | `Listing`, `Browse` |
| Client object | `immich.c` | a handle, a URL and two header lists per client; libcurl's count of users | client_new, client_free | `ClientObject` |
| Downloading | `fetch.c`, parts of `client.c` | `<path>`, `<path>.part`, memfds, descriptors | fetch_picture_to_file, fetch_picture_to_fd | `PictureFile`, `FetchPicture` |
| HTTP client | `client.c` | one curl handle | perform, request_json and their callbacks | as far as downloads and listings need it |
| Example, tests, build | `example/`, `test/`, `Makefile` | - | - | not modelled |

How they meet: the sampler calls the listing functions, and through them the
client, while it holds `r->lock`; it calls the filter on every album of its
cached list when it rebuilds the rotation; every request goes through a client,
and all clients of a process share libcurl; downloads are made by the caller of
the sampler with the ID it was given. `refresh`, `set_filter` and `status` may
be called from any thread at any time, even during a get. The only things they
share with a get are atomics (`stale`, `filter_changed`, `selection`,
`n_albums`, `n_kept`) and `pending_filter` under `filter_lock`.

What is hard, and what makes each part correct:

* **Sampler.** A get holds `r->lock` across network requests; a refresh or a new
  filter may come at any moment in between, from threads that must not wait. So:
  no refresh is lost, no filter that was accepted is lost or overtaken, the
  indices in `order[]` never refer to a list or a filter that was replaced, no
  picture of an excluded album is shown, readers of the status are not told a
  verdict with older counts, setters never wait for the server, every call
  returns. Over many calls: each album once per round, and a pick that fails
  only if there is nothing to pick.
* **Sampling of one album.** As many pictures as the header says, at least one,
  each set of that many equally likely, in the album's order; all or nothing if an ID
  turns out unusable or memory runs out.
* **Filter.** The backtracking loop decides what the header says a pattern means,
  inside its strings, in finitely many steps. Lists of patterns are split by two
  functions that have to agree, and every list is read to its end. Years overlap, with either end missing.
* **Listing and metadata.** All or nothing, in order and each record once, over
  any number of pages. A result is half built for most of a call, some pointers
  set and others not, and every failure has to release exactly what is there. The
  cursor of one reply travels in the next request and changes owners on the way.
* **Client object.** libcurl has to outlive every handle, although threads come and
  go and a constructor may fail at any of its allocations.
* **Downloading.** The path shows whole pictures only, whatever fails and wherever
  the process dies; failures clean up; a memfd is sealed and whole before anyone
  has it.

`PROJECT.json` lists the hazards one by one with their lines and the properties
that watch them.

## 2. Modules

    ShuffleAlbums --+
    SampleSizes ----+--> RandomAlbumPicture --> MCRandomAlbumPicture
                    |      |   \--> RandomAlbumPicture_proofs --> Rotation_proofs
                    |      \=(implements)=> AlbumShow
                    +--> SelectionSampling =(implements)=> AlbumSample
    RandomBelow ----+      \--> SelectionSampling_proofs
    Globs --> GlobMatch --> MCGlobMatch, GlobMatch_proofs
          \       \=(calls)=> AlbumFilter, AlbumFilter_proofs
           \--> AlbumFilter --> MCAlbumFilter, AlbumFilter_proofs
    ClientObject --> Browse =(implements)=> Listing
                       \--> Browse_proofs
    FetchPicture =(implements)=> PictureFile
       \--> MCFetchPicture, FetchPicture_proofs

`Numbers_proofs` holds what several proofs need of natural numbers, induction
above all, and the bounds of `SampleSizes`; the proofs about the sampler, the
sampling and the filter extend it.

### RandomAlbumPicture: the sampler

Threads are divided by what they call: getters, setters, readers of the status;
`refresh` is one atomic store and needs no program counter. A step goes from one
access of shared state to the next. Steps that only touch what `r->lock`
protects are joined to a neighbour, since nobody can see between them; every
access of an atomic and every acquisition and release of a mutex is visible. A
request is two steps, sending (the step before) and the answer (`ListAlbums` or
`ListAlbumsFails`, `SampleAlbum` or `SampleAlbumFails`), so that anything may
happen in between.

| Code | Model |
|---|---|
| `pthread_mutex_lock(&r->lock)`, exchange of `filter_changed` | `Enter` |
| `apply_pending_filter` | `TakeFilterLock`, `CopyFilter` / `CopyFilterFails` |
| `rebuild_order` | `RebuildOrder`, `StoreKept`, `StoreSelection`: one per atomic store |
| `update_albums` | `UpdateAlbums` (exchange of `stale`), `ListAlbums` / `ListAlbumsFails`, `MarkStale` |
| `next_album`, `shuffle_albums` | `NextAlbum`, `GiveUp` |
| `sample_album` | `SampleAlbum` / `SampleAlbumFails` |
| return of a picture | `Deliver` |
| `..._refresh` | `Refresh` |
| `..._set_filter` | `SetCall`, `SetLock`, `StoreFilter` / `StoreFilterFails`, `Publish` |
| `..._status` | `ReadSelection`, `ReadTotal`, `ReadKept` |

Data are abstracted as follows. `order[0..order_len)` is the set `rotation`;
`order[order_pos..)` is the sequence `upcoming`, and a shuffle chooses any order
that does not begin with `last_album_id`; that `shuffle_albums()` of `ShuffleAlbums`,
swap by swap, can leave each of these and no other is the invariant
`ShuffleIsFair`. A filter is a model value, and the
constant `Passes` says which albums pass it: what the filter really computes is
the business of `AlbumFilter`. An album of the list is its ID and its asset
count. The pictures of an album are their number; which of them are taken is
the business of `SelectionSampling`. A filter with rejected years returns before
it changes anything and is not followed further.

History variables and stamps, which no guard reads except the bounds: a filter
carries the number of the call that stored it, a status atomic the number of
the rotation it was stored for; `floor` remembers what had been committed when
a get began; `requested` and `listed` count refreshes; `visits` counts the
visits of the current round; `misses` counts failures in a row.

`AlbumShow` is what the callers see: a getter takes a picture of the album that is
shown, or the first of another album that passes the filter in force, and has it
before the next getter takes one; an album is shown to its last picture. Only the
adoption of a filter ends an album early, and there is one adoption at most for each
announcement, the store to `filter_changed` by a setter (`random.c` 238, 479). A
refresh cannot end an album, nor a request that fails, nor another thread. The
refinement (`ShowsAlbumByAlbum`) maps the filter waiting to `wanted`, the setters
between their store and their announcement to `stored`, the getter about to deliver to
`taking`, the sample's remainder to `left`, and a used up sample to no album. `due`, the
announcements that no adoption has answered, are the flag while it is up and the getter
that has taken the flag and not copied the filter.

### SelectionSampling, AlbumSample, SampleSizes, RandomBelow

`SelectionSampling` is the loop of Knuth's Algorithm S with `random_below()` as a
choice, any set of unusable IDs and a `malloc()` that fails or not (`memory`). The history
variables `num`/`den` are the probability of the draws made so far, counted in
the words of the generator that lead there. splitmix64 is taken for a source of
uniform words; that the rejection in `random_below()` makes uniform draws of them
is part of the model (`RandomBelow`, words of any width). `AlbumSample` is the promise, and
`KeepsPromise` states that the loop implements it with `r->sample` as the
abstract sample. `AlbumSample` knows nothing of `sample_size()`: it says by inequalities
what the header documents, the percentage rounded to the nearest number, at least one
picture, then the cap.

### Globs, GlobMatch, AlbumFilter

`Globs` is the documented meaning (`immich.h` 53-60) of a pattern that matches a name:
there is an alignment of the one with the other. Only `Same`, the comparison of two
characters, is the code's. `GlobMatch` is the loop with its two
pointers and the place to resume at, and then the loop over trailing stars
(`SkipStar`). `AlbumFilter` is a call of `immich_album_filter_match()` with one `filter`
and one `album`, chosen from the constant `Cases`. A piece of a list is a step, and a
piece that may match is handed to the loop of `GlobMatch` (an instance of it, `Glob`)
and waits for its answer; where the names hold `*` that answer is the loop's, not the
documented one.

| Code | Model |
|---|---|
| `asset_count <= 0` | `NoAssets` |
| `has_patterns(f->name)` | `TestName` |
| a turn of `matches_any`, up to the call of `glob_match` | `NextPiece` |
| `glob_match` | `GlobTurn` |
| its answer | `Differs`, `Matched` |
| end of a list, the years | `EndOfList` |

`PatternsOf`, `NamesDecide` and `YearsOverlap` restate `immich.h`: the pieces between
commas, and the overlap of two spans of years, year by year.

### Browse, Listing, ClientObject

`Browse` has the three calls of `browse.c` as one machine, since they have one
shape: request, array, copies, release.

| Code | Model |
|---|---|
| the calls | `list_albums`, `list_album_pictures`, `get_picture_metadata` |
| `immich_get_json`, `immich_post_json` | `Reply`, `RequestFails` |
| the tests of the reply's type | `Unexpected` |
| `calloc`, `realloc` of the array | `Grow`, `GrowFails` |
| the strings of an album or a picture | `CopyRecord` |
| the strings of the metadata, `collect_people` | `CopyStrings`, `CopyFace`, `CopyFaceFails` |
| end of `append_page` | `EndOfPage` |
| `json_object_put(resp)`, the loop's condition | `Put` |
| `json_object_put(req)`, release of a failed result | `Return` |
| the `..._free` functions | `FreeResult` |

`heap` is what the call and its result have allocated, `out` what freeing the
result would free, `refs` the references to each cursor. Of a record's strings the
model knows which were copied, not what they say. `ClientObject` has the steps of
`immich_client_new()` and `_free()` between two calls of libcurl; `Browse` extends
it, so that calls are made through a client while others come and go.
`Listing` is the promise: all the server has, or nothing. It is what the sampler
builds on: `ListAlbums` and `SampleAlbum` of `RandomAlbumPicture` take a listing for
one answer that comes whole or not at all, which `AllOrNothing` entitles them to.

### FetchPicture, PictureFile

`FetchPicture` has a step per system call of `fetch.c` and per `write()` of
`fd_write_cb()`; inodes are apart from names, so that a file may be renamed,
emptied or unlinked while others have it open. A process may die between any
two calls and is started again. `PictureFile` is what somebody who looks at the
path should see: the picture there is replaced at one instant or not at all.

## 3. Runs

| Run | Instance | Question |
|---|---|---|
| `sampler_safety` | 2 getters, 1 setter, 2 albums, lists that change, a filter and a refresh, requests fail | types; no filter or refresh lost; rotation and sample current; implements `AlbumShow` |
| `sampler_status` | 1 getter, 1 setter, 1 reader, every fault, an album with a bad ID, a library that empties | the status explains the rotation and is never older than its verdict |
| `sampler_rotation` | 1 getter, 2 setters, 2 calls of set_filter, 3 albums, 2 of them videos only, any number of rounds; the server may never answer | each album once per round; asking twice suffices; the shuffle is fair; setters racing each other lose no filter; implements `AlbumShow`; `SetFilterReturns` |
| `sampler_liveness` | 1 getter, 1 setter, requests that fail for a while | calls return, refreshes take effect |
| `giving_up` | 3 albums, 1 with pictures | violation, see below |
| `browse` | 2 threads with a client each, one of which makes calls; up to 4 records, pages of 2, 2 strings; every allocation and request may fail | nothing leaked or freed twice; all or nothing; the cursor; libcurl; calls return; implements `Listing` |
| `selection_sampling` | albums of 0-8 pictures, 45 %, at most 3, with and without memory; words of ten values | the sample's size, order, likelihood; the promise |
| `glob_match` | patterns and names of up to 4 characters | bounds, both directions of the answer, progress |
| `glob_star_in_name` | names that hold `*` | violation, see below |
| `album_filter` | lists of up to 4 characters, 4 names without `*`, 9 years, 7 dates | the decision is the documented one, and there is one |
| `fetch_picture` | 1 process, pictures of 1 and 2 blocks, every fault, 2 crashes | whole pictures, cleaning up, sealing; implements `PictureFile` |
| `fetch_same_path` | 2 processes, 1 path, no faults | violation, see below |

Why the bounds are enough. In `sampler_safety` one setter, one filter and one
refresh meet two getters that take over from each other; the hazards are about one change
that falls into a get, and a second getter that finds what the first left. One call of set_filter
cannot fall between another getter's exchange of the flag and its copy;
`sampler_rotation` has two setters for that, and for the races among setters, and checks
`FilterInForceIsFresh` and `ShowsAlbumByAlbum` again. Counters
grow only with `MaxSets` and `MaxRefreshes` (and rotations with them), so the
state spaces are finite without a constraint; gets are unbounded. Three albums
let a round start, be interrupted by the end of a call and be reshuffled, and give
the shuffle the case where the last album is drawn first and gives way. In
`browse`, four records in pages of at most two make up to three pages, pages
that are not full and an album whose last page is full; a second owner is enough to
take libcurl away from the first; with two strings either of them may be the
one that is missing. In `selection_sampling` the share of a single picture rounds to none and is raised
to one, that of eight is over the cap, and 9 is no multiple of most of the numbers drawn
from, so that the rejection matters. For
`glob_match`, four characters allow two stars with literals between and behind
them, which is where backtracking to the last star only could go wrong. In
`album_filter` the buffer holds two characters, so that a pattern may fit, just
fit and not fit. In `fetch_picture` the leftover of a crash may be shorter or
longer than the next picture, and three inodes are all that one process can
have linked or open.

`RetrySuffices` is checked for libraries whose IDs are all valid: an album with an
ID of another form fails every pick that meets it.

### Fairness

`LocalFairness` (used by `SetFilterReturns`): threads inside the library are
scheduled. Nothing at all is assumed of the server there, so the run shows that a
setter returns even if a get never does.

`Slideshow` adds that the caller keeps asking, that every request ends, and that
a server that is asked again and again answers properly again and again. A
request ends because `perform()` sets a connection timeout of 10 s and gives up
on transfers that are slower than a byte per second for 30 s (`client.c`
100-104). `Browse` assumes the same of its requests: a call that was made takes its next
step. `FairSpec` of `AlbumFilter` (used by `Returns`) assumes no more than that the
thread goes on, in a call that waits for nobody. `ListingEnds` further relies on the server, whose cursors lead on as long as
anything is left of the album, and on an album that stays as it is while it is
being paged through; nothing in the code guards against a cursor that leads in a circle.
The liveness of gets is checked with one getter: POSIX mutexes are not fair,
and with several getters one of them may wait for ever while the others take
turns, which the code does not exclude.

## 4. What the violations show

* `giving_up`: `next_album()` counts tries per call, but the round goes on across
  calls. A call that starts in the middle of a round reshuffles when the round
  ends, may meet a video-only album for the second time, runs out of tries
  and reports "No album has any pictures" although one has. The comment at
  `random.c:397` says that each album is tried at most once. The damage is
  bounded: `RetrySuffices` shows that the next call finds the album, as long as the
  rotation stays the same and the server answers.
* `glob_star_in_name`: the test for equal characters comes before the test for
  `*`. A `*` in the pattern that stands where the name has one too is consumed as
  a literal: the pattern `*` does not match the name `**`, although `immich.h:56`
  says that it matches any run of characters. In the other direction there is no
  such flaw: `SoundCorrect` is proved for all names.
* `fetch_same_path`: the partial file has one name per path. Two downloads to one
  path empty each other's file, and one of them may be renamed in that state,
  against `immich.h:167` ("path never holds a partial picture").

Smaller observations, which no run states: `immich.h:276` allows the counts to lag
the verdict, while `random.c:486` rules that out (and `StatusNotOlderThanVerdict`
confirms it); "the album that was just shown" in the comment of `shuffle_albums()`
is the album last *visited*, which may have been one of videos; the answer
"the server has albums, none has pictures" is also given for a server without
albums; a refresh or a new filter starts a new round, so "every album once before
any repeats" is true of a round, not across them. A filter whose copy runs out
of memory is dropped for good, although `set_filter` returned 0 for it; the code
says so and `FilterInForceIsFresh` excepts that case. A getter that has taken one
setter's flag may copy the filter of a second setter that has not published yet: that
filter is adopted twice, and the album drawn under it in between is cut short, although no
other filter came (`AlbumShow!Adopt` allows it, once for each publication).

## 5. Proofs

TLAPS checks these for all constants that satisfy the named assumptions:

| Theorem | States | For all... |
|---|---|---|
| `RandomAlbumPicture_proofs!TypeCorrect` | `[]TypeOK` | threads, albums, lists, filters, bounds |
| `...!RotationCorrect` | `[]RotationIsCurrent` | the same |
| `...!SampleCorrect` | `[]SampleFromAllowedAlbum` | the same |
| `...!RefreshCorrect` | `[]RefreshNotLost` | the same |
| `...!FilterCorrect` | `[]FilterInForceIsFresh` | the same, if memory does not run out |
| `...!ShowCorrect` | `ShowsAlbumByAlbum`: the sampler implements `AlbumShow` | the same |
| `Rotation_proofs!VerdictCorrect` | `[]VerdictMatchesRotation` | the same |
| `...!StatusCorrect` | `[]StatusNotOlderThanVerdict` | the same, any number of readers |
| `...!VisitsCorrect` | `[]VisitedOnceBeforeRepeat` | the same |
| `...!RetryCorrect` | `[]RetrySuffices` | the same, if requests are answered and IDs usable |
| `...!ShuffleCorrect` | `[]ShuffleIsFair` | numbers of albums, orders of a rebuild |
| `Numbers_proofs!SampleSizeBounds` | `sample_size` is in 0..n, positive if n is, at most the cap | albums, percentages, caps |
| `SelectionSampling_proofs!DrawsEquallyLikely` | the accepted words that give one number are mapped one to one to those that give any other | widths of a word |
| `...!SelectionCorrect` | `[]SelectionInvariant` | albums, settings, unusable IDs |
| `...!LikelyCorrect` | `[]SubsetsEquallyLikely` | the same, widths of a word |
| `...!PromiseKept` | `KeepsPromise`: the loop implements `AlbumSample`, the documented size included | albums, settings, unusable IDs |
| `GlobMatch_proofs!BoundsCorrect` | `[]InBounds` | alphabets, patterns, names |
| `...!ProgressCorrect` | `Progress` | the same |
| `...!SoundCorrect` | `[]Sound` | the same |
| `...!CompleteCorrect` | `[]Complete` | the same, if no name holds `*` |
| `AlbumFilter_proofs!NamesCorrect` | `[]NamesDecide` | alphabets, lists, names, sizes of the buffer, if no name holds `*` |
| `...!YearsCorrect` | `[]YearsOverlap` | bounds, dates, lists, names |
| `Browse_proofs!BrowseTypes` | `[]TypeOK` | clients, albums, sizes of pages, numbers of strings |
| `...!LeakFree` | `[]NothingLeaks` | the same |
| `...!CursorCorrect` | `[]CursorOutlivesItsPage` | the same |
| `...!CurlCorrect` | `[]CurlOutlivesClients` | the same |
| `...!ListingCorrect` | `AllOrNothing`: the calls implement `Listing` | the same |
| `FetchPicture_proofs!HandedWhole` | `[]HandedIsWhole` | processes, pictures, faults, crashes |
| `...!NothingLeaks` | `[]NothingLeftOpen` | the same |
| `...!WholeInTurns` | `[]PathIsWhole` | the same, if downloads to the path take turns |
| `...!ReplacesInTurns` | `ReplacesAtOnce`: the downloads implement `PictureFile` | the same, if they take turns |
| `...!WholeAlone`, `ReplacesAlone` | the two before | one process |
| `...!FailureCleansUp` | `[]FailureRemovesPart` | one process |

Each is `Spec => ...`. The assumptions are those named in the modules
(`ConstantsAssumption` and the like: finite sets, values of the right kind, bounds
that are numbers) and the hypotheses of the last column. A
hypothesis is there where the property fails without it, and a run shows that or
the code says it:

* memory: `apply_pending_filter()` drops a filter that it cannot copy, and says so;
* requests and IDs (`Faults = {}`, `InvalidIds = {}`): a pick also fails when its
  request does, or when the album it meets has an unusable ID;
* names without `*` (and without a character that `tolower()` makes one): the run
  `glob_star_in_name`;
* turns (`OneSaver`): the run `fetch_same_path`. It is a hypothesis about behaviours:
  at no time are two processes inside a download to the path. A process that
  dies has ended its turn, so leftovers of crashes are covered.

**Sampler.** `TypeInv` joins the types with two facts without which
not even the types are inductive: `LockInv` (who is inside `r->lock` owns it)
and `ReadyInv` (who is about to deliver has a picture left, who waits for an
album's pictures waits for one of the rotation). On top of it each property has
its own strengthening, proved separately:

* `RotationInv` adds that a sampler without a list has no albums, since a filter
  that arrives before the first list comes into force without a rebuild.
* `SampleFromAllowedAlbum` follows from it: a sample is only drawn from the
  rotation, and copying a filter drops it.
* `RefreshInv` adds what a request under way knows: it was sent after every
  refresh that it cleared.
* `FreshInv` says where the newest committed filter is: in force, or announced by
  the flag, or about to be copied by the thread that took the flag. It also
  bounds what setters in flight and getters inside may know.
* `ShowsAlbumByAlbum` needs `UsedUp`: a thread that is choosing an album, or waits for
  the server to that end, finds the sample used up; and that the threads about to deliver, or about
  to copy a filter, are one at most (`AloneInside`). With these every step of the sampler
  is a step of `AlbumShow` or changes nothing of it.

**Status and rounds** (`Rotation_proofs`). `VerdictInv` says that the stored verdict
and count are those of the rotation except between the three stores, and that
there is no verdict before there is a list. `StampInv` orders the stores: the
verdict is of a rotation no newer than the count's, which is no newer than
the total's, and where two are of one rotation they agree. `ReaderInv` carries
that over to what a reader has loaded so far against what is there to be loaded;
it holds because a reader loads in the order opposite to that of the stores.
`VisitInv` says that the albums of the round that are not to come any more are
those visited, once each. `RetryInv` says what a failed call leaves behind
(`Known`): as long as fewer empty visits were made than the round has, nothing; then,
that every album visited in this round may be empty; and before the visits reach
twice the size of the rotation, that all may be. Two failures in a row have made
that many visits, although one call alone may have met some albums twice.

**Shuffle.** `Mixed` is recursive; `Turns` is the same said of the arrays that the turns
leave, and `TurnsExist` and `TurnsAgree` that there are such arrays and only one
choice of them. `TurnSettles`: the turn for a place has the last word on it. So two
choices of draws that leave one order agree draw by draw (`TurnsDiffer`), and
every order is left by the choice that draws each place where the turns above
left its album (`TurnsReach`). The final swap sends two orders to one exactly
when the album just shown is second in it (`ShuffledTo`).

**Sampling.** `SelectionInv` is `SelectionInvariant` with the types of the inputs.
`SizeIsDocumented` has the rounding of integers in `sample_size()` on one side and the
inequalities of `AlbumSample` on the other.
For the likelihood, `BinomialRows` shows that the recursive definition of Pascal's
triangle has a solution, and `BinomialWith` and `BinomialWithout` that m of n of the
subsets hold a given element. `RemaindersBelow` counts the words below a multiple of n
that leave a remainder below m, and `WordsThatKeep` with it the accepted words
that keep the next picture. `LikelyInv` (`SubsetsEquallyLikely` with the types of the
counters) is then a matter of arithmetic.

**Filter.** `PrefixInv` says which part of the name the part of the pattern read
so far stands for, both at the pointers and at the last star; three
lemmas extend such an alignment. `BeyondInv` is its counterpart for names turned
down: every alignment of the whole pattern with the whole name gives what has been read of
the pattern no less of the name than was read for it, and the last star no less
than it has absorbed. A
backtrack gives up one place where no alignment can be (`StuckIsBeyond`). For lists,
`LaterStep` shows that a turn of `matches_any()` at a comma, or at the beginning, takes
the next piece that is not empty; `PatternsAre` that the pieces are the patterns between
commas; `PatternsExist` that `has_patterns()` agrees. `NamesInv` says at each step of the
call what is left to be tried and that this decides; while it waits for `glob_match()`, it
takes over the invariants of that loop for the call made (`GlobInv`, from `PrefixInv` and
`BeyondInv`). `YearsCorrect` needs none of that: whatever `glob_match()` answers, `StageInv`
keeps what the call has seen on the way.

**Listing and clients.** The invariant has four parts, each with a lemma of its own.
`ClientInv` says that whatever is allocated for a client is a member of its struct, the
struct or the local header, and that libcurl counts exactly the threads between new
and free. `CallTypes` are the types. `RefsInv` says that the reply and the request hold
one reference each to their cursor, which makes the count a matter of arithmetic and the
type of `refs` (no reference given up twice) inductive. `HeapInv` says that what is
allocated is the result, the request or the reply, at every step and not only where
`NothingLeaks` looks. For `AllOrNothing`, `PageInv` says that what remains of a reply are
the records up to its end, and `ListedInv` that the result holds exactly the ones looked
at so far, in order and with all their strings, as long as nothing has failed.

**Downloads.** `FdInv`, for any number of processes, says whose an open file is:
what a process fills is open in it and no memfd of another (`PrivateInv`), and holds the
blocks received so far (`FillInv`). `TurnInv` adds, for processes that take turns, that
the partial file is the one that the process whose turn it is has open (`PartInv`) and that
the path never is that file (`PathInv`). `LeftInv` is what `FailureRemovesPart` needs.

**Induction.** The library's induction theorems take an operator as a parameter, which
the provers cannot instantiate. `Numbers_proofs` states induction for a set instead
(`SetInduction`, `DownInduction`), from the theorem that a set of natural numbers has a
least element, and a proof defines the set of the numbers for which the claim holds. A
recursive function is shown to exist by exhibiting one that satisfies its equation.

Only model-checked: the liveness properties (`SetFilterReturns`, `GetReturns`,
`RefreshTakesEffect`, `ListingEnds`, `Returns`), which rest on fairness, which this prover does not
reason about; and what the three runs of section 4 refute.

## 6. Not modelled

* The generator: splitmix64 is a free choice of a word. A loss of power: the model's
  file system forgets nothing.
* Memory running out inside json-c and libcurl. The code does not test what
  `json_object_object_add()`, `json_object_to_json_string_ext()` and
  `curl_slist_append()` return (`browse.c` 138, `client.c` 152, `immich.c` 43-48); what
  follows can be read off it: a page fetched twice, a GET in place of a POST, a
  client without its API key.
* Two threads inside `curl_global_init()` at once: libcurl's count is taken for atomic,
  as it is in versions that are built thread-safe.
* Freeing the sampler, and a client shared between threads: the header forbids
  calling them while another thread is inside.
* An album that changes while it is being paged through: what a cursor then means is
  the server's decision.
* What strings and numbers say: JSON fields, URLs, headers, messages. The body of
  a JSON reply is collected in a buffer that lives and dies within
  `request_json()`.
* The example and the tests, which use the library and keep no state of their own.

## 7. Plan

Done in this order: the sampler and its safety, its liveness, the sampling of
an album, the filter, the proofs of these, the downloads, the client object and
the listings with their proofs, the shuffle, the abstract sampler; then proofs of
all safety properties, action properties and refinements that the passing runs
check; then the call of the filter step by step, joined with the loop of
`glob_match()`. Left:

1. `WholeInTurns` for processes that download to several paths, one each.
2. A bound on the visits a failing call makes, from `RetryInv`.

## 8. Running

    tlc -config sampler_safety.cfg MCRandomAlbumPicture.tla
    tlapm RandomAlbumPicture_proofs.tla

`PROJECT.json` names the module and the configuration of each run, the
source lines of each definition (`map`), and for each property a mutant of the
code (operators named in comments as "Mutant of ...") under which it fails.
