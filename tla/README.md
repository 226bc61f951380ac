# A formal model of qomicex-downloader

TLA+ modules that model the download manager and its engine, TLC runs that
check them on small instances, and TLAPS proofs about them. Line numbers refer
to the files under `src/src/`.

## 1. The system

A launcher hands tasks (URL, mirrors, destination, digests) to a
`DownloadManager`. The manager queues them, starts up to `max_concurrent`
workers, and each worker runs the engine for one task. The engine asks for the
file in one stream, switches to several ranged segments if the headers say that
is worthwhile, falls back to a stream if the segments fail, verifies the `.part`
and renames it.

| Component | State | Operations | Interacts by |
|---|---|---|---|
| Manager (`manager.rs`) | task table, one `Entry` per task (state, token, join handle), FIFO queue, worker semaphore, `dispatch` Notify, destination guards | add, pause, resume, retry, cancel, remove, shutdown, dispatch loop, worker | spawns workers; cancels their tokens; awaits their handles; removes `.part` files |
| Engine, one transfer (`engine.rs`) | rotated list of URLs, landing URL, attempt counter, `ranged_attempted`, the `.part` | run, run_once, run_streamed, try_streamed_once, finalize_verified, mirror_url | calls local reuse and the segmented path; reads the token |
| Engine, segmented (`engine.rs`) | table of segments, abort handles, JoinSet, `seg_counter`, `degraded`, `.part`, `.part.meta` | run_ranged, run_segment, try_segment_once, try_split, refresh_bitmap, download_full_fallback | tasks and loop share each segment's atomic counter; global `segment_sem`; abort and join |
| Segment arithmetic (`segment.rs`) | none | Segment, split, build_segments | pure |
| Completion bitmap (`part_meta.rs`) | bits per block, identity | load, save, matches, resumable_bytes, set_complete, all_complete | file beside the `.part`, replaced by rename |
| IP health, resolver (`dns.rs`) | per host: addresses, dead ones with expiry, cursor, last served | pick, mark_failure, mark_ok, resolve | called by connections and by every failed source |
| Host caches (`engine.rs`, `RangeHealth`, `dead_hosts`) | per host: Range support, misses, expiry; dead until | record_range_ok / _miss, mark_source_dead, mark_host_alive | shared by all tasks of a manager; the worker sorts a task's sources by `dead_hosts` |
| Rate limiter (`rate_limit.rs`) | tokens, last refill | acquire | awaited after each chunk |
| Local reuse (`local_reuse.rs`) | digest cache by path, size, mtime | find | asked before and after the first request |
| Tasks, options, errors (`task.rs`, `error.rs`) | none | builders, texts | values |
| JNI bridge (`jni.rs`) | a handle | forwards | manager |

What makes each component correct:

- *Manager*: no permit is lost or returned twice; one worker per destination; a
  queued task is never forgotten and gets its turn; every call returns unless the
  worker it waits for is out of its reach (6.5).
- *One transfer*: what is renamed has been verified; the bytes of a finished
  stream are one attempt's; a good mirror is found, by the stream and by the
  segments; corrupt data leads to one repetition, on another source; the two
  paths do not bounce; cancellation ends it.
- *Segmented*: the segments tile the file through every split; a unit counted is
  a unit written; one task per segment; the loop never waits for nothing; a
  complete file has no hole; a resumed run skips only what is there (before the
  first crash, and unless the `.part` was removed under tasks: 6.3, 6.7).
- *IP health and host caches*: no connection lacks an address, no address is
  banned or passed over for ever, a task's order of sources comes back; a verdict
  on Range is not turned by a header, and ends.
- *Rate limiter*: readers together never get more than the rate and one burst, and
  each acquire returns.

What is hard here: the manager takes each lock for one statement, so that every
call interleaves with the dispatcher and the workers; state is read, unlocked
and then used (`pause`); workers outlive the token they were started with
(`retry`); segment tasks are aborted but not awaited and their counters shared;
results are joined by an index that a split has handed on; counters run ahead of
the file; two paths hand over to each other; a failure is blamed on the
address served last to anyone; caches are read and written in separate lock
sections; a bucket is refilled by whoever looks at it, and its waiters may be
aborted. `PROJECT.json` lists these hazards at their lines with the properties
that cover each.

## 2. Modules

| Module | Models | Notes |
|---|---|---|
| `Manager` | `manager.rs` | one action per lock section of the dispatcher (`D...`), a worker (`W...`) and a call |
| `MCManager` | values for its runs | two tasks, one destination, two worker slots, one caller |
| `ManagerProofs` | theorems about `Manager` | inductive invariant `IInv` |
| `Transfer` | `run`, `run_once`, `run_streamed`, `try_streamed_once`, `run_segment`, `finalize_verified` | bytes reduced to whose they are |
| `MCTransfer` | values for its runs | a task with no mirror and one with two, two segments |
| `TransferProofs` | theorems about `Transfer` | inductive invariant `IInv` |
| `Segments` | `segment.rs`, `part_meta.rs`, `refresh_bitmap` | constant-level arithmetic, in units for bytes |
| `SegmentsProofs` | theorems about `Segments` | needs no state |
| `Ranged` | `run_ranged`, `run_segment`, `try_segment_once`, `try_split` over several runs | extends `Segments` |
| `MCRanged` | values for its runs | |
| `RangedProofs` | theorems about `Ranged` | inductive invariant `IInv`, refinement |
| `Filling` | what a segmented download promises | abstract; `Ranged` implements it |
| `FillingProofs` | theorems about `Filling` | |
| `SourceHealth` | `dns.rs`; `mark_source_dead`, `note_remote`, the dead hosts and the order of a task's sources | one host, concurrent attempts |
| `MCSourceHealth` | values for its run | three addresses, three answers of DNS |
| `SourceHealthProofs` | theorems about `SourceHealth` | |
| `RangeCache` | `RangeHealth` and its methods, the sniffing and degrading that use it | concurrent downloads |
| `MCRangeCache` | values for its run | |
| `RangeCacheProofs` | theorems about `RangeCache` | inductive invariant `IInv` |
| `RateLimiter` | `rate_limit.rs` | discrete time |
| `Bucket` | what a token bucket promises | abstract; `RateLimiter` implements it |
| `MCRateLimiter` | values for its run | |
| `RateLimiterProofs` | theorems about `RateLimiter` | invariant `Balance`, refinement |

### Manager

`tasks`, `state`, `cancelled`, `handle` are the task table and the fields of an
`Entry`; `queue`, `permits`, `notified`, `destLocks` are `Inner.queue`,
`semaphore`, the stored permit of the `Notify`, and `dest_locks`; `part` is the
set of destinations that have a `.part`. The dispatcher's local state is `dpc`,
`held`, `spawned`; a worker's `wpc`, `wtask`, `wtoken`; a caller's `cpc`, `cop`,
`ctask` and what is left to do of a shutdown.

A token is not a value of its own: `cancelled[t]` is the token now in the entry,
and a worker that holds an older one carries whether it was cancelled
(`wtoken`). `resume` and `retry` turn the view of the workers alive from
`current` into an old one. A worker is `spawned` before the dispatcher stores
its handle, as in the code. The engine is an atomic write (`EngineIO`) that may
happen any number of times, and three ways to end.

`Notify::notify_one` stores a permit when nobody waits; `DWake` uses it up. The
Tokio facilities are modelled from their use.

### Transfer

`kind[s]` fixes how a source answers (good, corrupt, nothing, 4xx, breaking off,
stalling); `part` and `final` are the origins whose bytes the `.part` and the
destination hold: sources, or a local file whose content is that of its digest
(`file`) or, after a stale cache hit, not (`stale`). Verification fails exactly
if corrupt or stale bytes are in the `.part`. Local reuse copies; a copy goes
through the verification like a download. Whether a response tells of a large
file and of Range support is decided response by response (`NeedsRanged` or
`Accept`), since size and headers are the source's and the cache that also
decides is `RangeCache`. A landing URL counts as the source that redirects.

On the segmented path each segment asks the head of the list when it starts
(`at`), and rotates the list, which all of them share, when its source fails;
the others go on with the source they have. How segments are cut, split and
joined is left to `Ranged`. One of its results is taken up here: a task whose
handle was lost, or that was aborted in mid-write, may outlive the loop that
started it (`strays`). It may reopen the `.part` beside `download_full_fallback`
(`StrayOpens`, with create and without truncate), write to it, and write to what
was the `.part` after the rename. Hash, rename and return are three steps, so
that it has room to. `beside` remembers that there was one.

### Ranged and Segments

The main loop is `pc` with `launch` (start pending segments), `select` (the
biased `select!`) and `sampled` (after the await of the save, before
`try_split`); the segment tasks are the records of `tasks`. A task reads and
advances the counter of its segment in `table` as long as the segment is still
cut as the task knows it (`Attached`); afterwards its counter is its own. An
aborted task has `killed` set and may complete one more write: the next one has
to await the write before it, and an await is where an abort takes effect. If it
was aborted within the open of the `.part`, that open goes through and may create
the file anew (`Die`). A task that had the `.part` open when it was removed
writes to no file (`lost`).

`DropPart` is the removal of the `.part`, and not of its `.part.meta`, by
`Manager::cancel`. The code has no guard there but the handle it has awaited, so
the action may happen at any time: while a run goes on (of an older worker), and
while aborted tasks of an ended run are still ending. `dropped` remembers a
removal under live tasks.

A chunk is one unit. It is counted when `write_all` returns; `tokio::fs::File`
hands data to a blocking thread, so it is on disk for certain only when the next
operation on that file has waited for it (`disk`, `behind`); a crash loses any of
`behind`. `sync_data` at the end of a body empties it. `meta` is the last saved
bitmap, replaced as a whole because `save` writes aside and renames.
`seg_counter` starts at the first free index instead of 10000.

`refresh_bitmap` adds up, block by block, how much of it each segment has
counted. `RefreshBitmap` is this sum as the number of pairs of a segment and a
unit it has counted in the block, so that overlapping segments would count
twice, as they do in the code.

### Filling

`Filling` has no segments, tasks or bitmaps: a download is waiting, filling,
streaming or done, holds credit for the units it has counted, and hands units to
the file. `Ranged!Promise` reads these off its state: the phase from `pc` and
`result`, the credit from the counters of the table, the file from `disk` and
`behind`. A step of `Ranged` is then a unit handed over and counted (`Receive`),
a unit that a task which has lost its segment still writes (`Stray`), a start,
an end, or nothing. That a split is *nothing* (the halves count exactly what the
segment counted), and that a run ends in success only with all units in credit,
is what the refinement says. The run `ranged` checks it and `RangedProofs`
proves it.

### SourceHealth

The tables of `dns.rs` and the dead hosts are keyed by host, and no operation
touches two: the module is one host. An attempt resolves (from the cached list
or by a lookup, which takes time), picks an address under the lock, connects,
gets a status and a body; or reuses a pooled connection; or fails and blames. The
address of the connection that answers (`peer`) and the address blamed
(`lastServed`) are two things, as in the code. An instant is an age that stops
growing at its TTL, so that time has no end and liveness can be checked. Without
an `IpHealth` (`ipLevel` false) blame falls on the host. What the list of dead
hosts is for is `Start`: the worker sorts the sources of a new task, stably, by
whether their host is on it (`Ahead`), here a source of this host and one of
another, in either order. After a redirect the address noted is that of the
landing host, and the one blamed stays blamed (`Answered`).

### RangeCache

Each method of the cache is one action, and a download reads (`Sniff`) and
records (`Judge`) in two, with other downloads between. Segments ask the URL
that answered: `asked` may differ from `home`, the key that the worker removes
after a failure. An absent entry and an expired positive one without misses
behave alike and are one value.

### RateLimiter and Bucket

One turn of the loop of `acquire` under its lock is `Drain` or `Grant`; `asleep`
counts the ticks of the sleep; tokens are whole numbers and `Rate` of them come
in per tick. `excess` observes what has been taken beyond `Rate` per tick in the
worst interval that ends now (a counter that drops by `Rate` per tick and not
below zero). `Bucket` fills by the clock and is paid from; `RateLimiter!Meter`
reads the level as the tokens plus what has come in since the last refill.

## 3. Runs

| Run | Question | Distinct states |
|---|---|---|
| `mgr_safety` | permits, guards, wake-ups and queue under every interleaving of two tasks on one destination, two workers, two calls | 1.8 M |
| `mgr_live` | one permit, two tasks: every queued task gets its turn | 0.2 M |
| `mgr_stop` | transfers that do not end by themselves, all six calls, two permits: every call returns that does not wait for a worker out of its reach | 0.46 M |
| `transfer` | one or three sources of all kinds, two segments, a lost segment task: verification, residue, bouncing, segments that get to a good source, success, the one repetition, cancellation | 0.3 M |
| `ranged` | three runs with splits, late aborts and opens, failures, missing permits, the `.part` removed or a crash at any moment; the refinement of `Filling` | 0.9 M |
| `source_health` | two attempts on a host with shrinking, reordered and empty answers from DNS: an address for each attempt, another one than before, each again in the end, and a task's order of sources back | 0.34 M |
| `range_cache` | two downloads, two keys: a verdict stands against headers read earlier or later, and expires | 0.58 M |
| `rate_limiter` | three readers, chunks below and above the capacity, aborts: rate and burst, the refinement of `Bucket`, every acquire returns | 0.2 M |
| `mirrors_endless`, `permits_degrade`, `crash_hole`, `orphan_task` | each refutes one sentence of the source (section 6) | until the counterexample |

Deadlock checking is off everywhere: a manager without calls to come, a run that
has ended, are quiet for good.

Every property has a mutant in `PROJECT.json`, a definition with the mark
`Mutant` beside the one it would replace: with it, TLC finds the property
violated.

### Bounds

- `MaxCalls`: calls a caller makes besides `add`. Two for safety: one to create
  a situation (paused, cancelled, failed) and one to act in it; three for
  `mgr_stop`, which needs pause, resume (or cancel, retry) and another stop, and
  has two permits and two workers so that the old and the new worker of one task
  are alive together. Several callers in the proofs; one in the runs.
- `Worker`: slots for workers alive. Two are enough for an old and a new worker
  of one task, and for two tasks on one destination.
- `Transfer`: three sources rotate through every cyclic order, and two segments
  are enough to rotate past each other; the first source answers in all six ways,
  the others in the ways that make a difference to it, and all three may be
  corrupt (`GivenWorlds`). `MaxRetries = 1` has both a retry and its exhaustion.
  One stray task at a time. The counters of the code are bounded themselves
  (`attempts`, `attempt`), so nothing else is cut.
- `Ranged`: three units in one segment, blocks of two: a block and a rest, and
  halves whose border lies inside a block. `Slot` holds two tasks, running or
  unjoined; `MaxRuns = 3` is what it takes to resume from a bitmap that a resumed
  run has saved. No behaviour has both a crash and a removal of the `.part` under
  live tasks, nor a third run after either (`OneMishap`, for the size of the run;
  the theorems have no such bound). The runs that refute a comment have four units
  in blocks of three, where a split of a split fits, and no such constraint;
  `crash_hole` has three runs. `Permits = 2`, and
  `Launched` may happen whether or not one is free, because other downloads take
  them too.
- `SourceHealth`: three addresses, so that there is another one beside the dead
  and the last; answers with all, with two in another order, and with none, so
  that the list shrinks below the cursor. Two attempts: one blames while the
  other picks. TTLs of 4, 2 and 4 ticks keep the proportion of 120, 60 and 120 s.
- `RangeCache`: two keys for a redirection, two downloads for a stale read;
  `MissMax = 3` is above `Misses = 2`, so that the counter saturates after the
  verdict; `ProbeTtl = 2` has an age between fresh and expired.
- `RateLimiter`: a second of three ticks and a longest sleep of two, so that a
  waiter wakes before its tokens are there and an idle bucket fills; chunks of
  4 and 9 tokens for a capacity of 6; two chunks for each of three readers.
  `MaxChunks` also bounds the competition, see the fairness of this run.

### Fairness

Safety properties need none. `EndSpec` (run `mgr_live`) assumes weak fairness
for the dispatcher, the workers and the calls under way, and that a transfer
ends: the Tokio runtime polls every ready task, and every wait of the engine has
a timeout. `StopSpec` (run `mgr_stop`) drops the last assumption: a transfer
ends only after its token is cancelled. `Transfer!Spec` assumes weak fairness for
the engine's own steps, for the end of a segmented attempt, and for each segment
task that runs (`SegTask`), since every wait of theirs has a timeout. It does not
assume that a segment is started, for which a permit of all downloads is needed;
without a start the loop degrades (6.2).
`Ranged!Spec` has no fairness and no liveness property yet. `SourceHealth!Spec`
and `RangeCache!Spec` assume of the world only that time passes (`Tick`); their
liveness properties name what else they need: that blame, or lies, end, that the
host goes on being resolved and that the lists served settle. `RateLimiter!Spec`
assumes the clock and that a reader whose sleep is over is polled (`Step`). It
does not assume a fair lock queue, and each reader has finitely many chunks:
with competitors that never stop, others could take every token first, and the
code does not exclude it.

## 4. Proofs

Every invariant that a run checks and does not refute is a theorem, and so are
the action properties and both refinements: they hold for all values of the
constants that satisfy the assumptions named in the modules. One theorem,
`NoneIsForgotten`, has a further hypothesis.

| Theorem | Statement |
|---|---|
| **`ManagerProofs`** | *for any tasks, destinations, callers, permits, any finite set of workers* |
| `TypeCorrect` | `Spec => []TypeOK` |
| `PermitsAreConserved` | `Spec => []PermitsConserved` |
| `DestinationsAreExclusive` | `Spec => []OneWriterPerDest` |
| `WakeupsAreNotLost` | `Spec => []NoLostWakeup` |
| `NoneIsForgotten` | `Spec /\ []OneCallPerTask => []QueuedNotForgotten` |
| **`TransferProofs`** | *for any sources, lists and kinds of them, segments, retries* |
| `Typed` | `Spec => []TypeOK` |
| `VerifiedBeforeRename` | `Spec => []CompletedIsVerified` |
| `StreamIsOneAttempt` | `Spec => []NoResidue` |
| `OneHandover` | `Spec => []NoBounce` |
| **`SegmentsProofs`** | *for any sizes of file, segments and blocks* |
| `BuildTiles`, `SplitTiles`, `SplitKeepsTiling` | what `build_segments` and `split` cut tiles what they cut up |
| `SplitKeepsProgress` | the halves count what the segment counted |
| `ResumeOnlyComplete` | `resumable_bytes` counts complete blocks only |
| `BitmapIsCounted` | `refresh_bitmap` sets the blocks that are counted in full, and no others |
| **`RangedProofs`** | *for any sizes, finite number of tasks, permits, runs* |
| `Typed` | `Spec => []TypeOK` |
| `AlwaysTiled` | `Spec => []SegmentsTile` |
| `CountersAreTrue` | `Spec => []CountedIsWritten` |
| `OneWriter` | `Spec => []OneTaskPerSegment` |
| `NoLostJoin` | `Spec => []HandlesAreJoined` |
| `WholeFile` | `Spec => []CompleteHasNoHole` |
| `SoundResumes` | `Spec => []ResumesAreSound` |
| `RangedFillsUp` | `Spec => FillsUp`, that is `Spec => Promise!Spec` |
| **`FillingProofs`** | *for any set of units* |
| `CreditHolds` | `Spec => []CreditIsCovered` |
| **`SourceHealthProofs`** | *for any addresses, answers of DNS, attempts, TTLs* |
| `TypesHold` | `Spec => []TypeOK` |
| `ServedHolds` | `Spec => AlwaysServed` |
| `NextHolds` | `Spec => NextIsAnother` |
| **`RangeCacheProofs`** | *for any keys, downloads, TTL and limits* |
| `TypesHold` | `Spec => []TypeOK` |
| `NegativeHolds` | `Spec => NegativeStands` |
| **`RateLimiterProofs`** | *for any readers, chunks, rate, sleeps* |
| `TypesHold` | `Spec => []TypeOK` |
| `RateHolds` | `Spec => []RateIsBounded` |
| `MeterHolds` | `Spec => MetersOut`, that is `Spec => Meter!Spec` |

The arguments follow, with the strengthening that each inductive invariant
needs.

*Manager.* `IInv` is the conjunction of the four safety theorems and of
`TaskKnown`: a worker that is not free, a dispatcher between pop and store and a
call in progress each know a task, and only a shutdown is in the steps of a
shutdown. `OneWriterPerDest` needs `TaskKnown` (the guard's key is the
destination of the worker's task) and is stated with its converse, that a locked
destination is some worker's: without it a worker could take a guard that was
already held. `NoLostWakeup` needs `PermitsConserved`: a dispatcher that finds no
permit knows that a worker holds one (`NoPermitMeansHolder`), and that worker
will notify. `Invariance` combines the initial state (`InitIInv`) and one lemma
for each kind of actor (`DispatcherIInv`, `WorkerIInv`, `CallerIInv`). The
cardinality facts rest on `FiniteSetTheorems`, for which worker slots are finite.
`Retain` counts the kept positions instead of filtering recursively, since a
recursive definition cannot be reasoned about here; `RetainProperties` shows that
it is a queue without the task, and `RetainKeeps` that it has all others.

`QueuedNotForgotten` speaks of workers and the dispatcher, and is not inductive:
nothing in it says what a call between its write of the state and its push, or
between its write and its removal from the queue, has done. `QueueInv` does. A
queued task has its turn coming or is in a call that is about to push it or to
write another state (`Covered`), a call past that point finds its task in another
state than queued (`PastQueued`), and a call's task has been added (`Added`). Two calls on
one task break it (section 6), hence the hypothesis `OneCallPerTask`, which any
single caller satisfies; the code does not enforce it. `IInv` and `QueueInv` were
checked with two callers first.

*Transfer.* A stray task is noticed when it comes to be (`Noticed`), and what
follows is claimed while none has been. `NoResidue` is not inductive:
`OneAttempt` adds that while the body is read the `.part` has bytes of the source
now asked and no others. `CompletedIsVerified` needs what lies between the three
steps of the end: the `.part` is not spoilt from the digest to the rename
(`Digested`), and before the rename there is no destination and nobody has it
open (`NotRenamed`). Every action is a case of each of these, the steps of
segments and stray tasks among them: without `beside` the proof fails at
`StrayWrites`, and so does the code (6.13). `NoBounce` needs that a hand-over is
remembered until `run` begins again (`HandedOver`). The types need that a rotation
keeps the length of the list and its sources (`RotatedList`, `RotateKeeps`).

*Segments.* The piece of a unit is found by a division, and pieces are ordered
(`BuildTiles`). The gap with the least number bounds what can be resumed; that a
set of naturals has a least element comes from the well-foundedness of `<`. For
`BitmapIsCounted` the pairs of segment and unit of a block are mapped to the
units; the map is injective because the segments do not overlap, so that there
are as many pairs as the block has units only if every unit is counted.

*Ranged.* The invariants hold together only. `IInv` adds to them:

- `Control`: between runs the table is empty, its indices are below the counter,
  and the last check is passed only with every segment finished;
- `TasksOK`, for each task: it has the segment of its index, as it is or as it
  was before splits, and an aborted one has it no more (`OwnSegment`); it writes
  where the counter of its segment stands (`Position`); as long as the run is
  not degraded, a task that runs or has succeeded is the one its index has a
  handle of, and the segment of one that has succeeded is finished (`Outcome`);
- `OneAlive`: no two tasks that run and are not aborted have one index;
- `OnPart`: unless the `.part` was removed under it, a task of a run has it open,
  so that what it counts goes there;
- `BitsTrue`: until the first crash or removal of the `.part` under live tasks,
  the bitmap that a run may find between two runs marks only blocks that are in
  the file, if there is one or a task alive that may yet create one. While a run
  is on, it need not: the `.part` may have been removed before it.

`SegmentsTile` is what makes the bitmap true (`BitmapIsCounted`), the bitmap
makes a resumed counter true (`ResumeOnlyComplete`), true counters make both the
next bitmap and the finished file true; and a counter is true through a split
because halves count what was counted (`SplitKeepsProgress`), and through a late
write of an aborted task because that is no longer attached. The proofs have a
lemma for what each action does to the table and the tasks (`...Is`), one for
each conjunct of the invariant and kind of action, and `StepPreserves` over all.

`RangedFillsUp` is the step theorem of the refinement: opening, receiving, a
stray write and the ends map to the actions of `Filling` (`OpenRefines`,
`ChunkRefines`, `EndRefines`), and everything else is a stutter (`StepRefines`).
`Filling` alone gives `CreditIsCovered` (`CreditHolds`; it needs that only a
download that is filling holds credit).

*IP health.* Healing leaves an address of the list that is not dead
(`HealedIsUsable`), and the places from the cursor on, wherever a longer list
has left it, cover the list (`PlacesCover`), so that the search finds it
(`PickServes`). `NextIsAnother` needs to know where the cursor is: one past the
address served last, as long as the list is the one it was served from
(`CursorFollows`). That place is then the last of the search
(`LastIsFarthest`), and any other usable one comes first. That no address follows itself
because a list has it twice is the assumption `DistinctAssumption`: the resolver
leaves repetitions out (dns.rs 162-167).

*Range cache.* `IInv` adds to the types that a download under way has keys
(`Working`): the table is written under them.

*Rate limiter.* All rests on two facts about `Refilled`, what the bucket holds at
a moment: a tick fills it by `Rate` up to the burst (`TickFills`), and a reader
that looks takes its share of it and leaves the rest (`StepTakes`).
`RateIsBounded` is not inductive, for a full bucket beside a full excess would
let the next reader take two bursts; `Balance` adds the two up. The refinement
needs `Settled`: who reads owes nothing.

Only model-checked, because the prover knows nothing of fairness and `ENABLED`:
the liveness properties `QueuedGetsTurn`, `CallsReturn`, `SegmentsArrive`,
`GoodSourceWins`, `OneRepetition`, `CancelEnds`, `EveryAddressReturns`,
`OrderReturns`, `HostIsRejudged` and `AcquireReturns`. Their premises are part of
them: `GoodSourceWins`, for instance, asks that no source sends corrupt data, no
local file is stale and no lost task is beside the stream, and accepts an end for
want of space or for a file that cannot be read (`refused`).

## 5. What is not modelled

- How hosts and cache keys are cut out of URLs.
- The search for a reusable file and its digest cache (`local_reuse.rs`): a
  sequential scan; `Transfer` has its three outcomes.
- The rounding of the bucket's `f64` tokens: they are whole numbers here.
- The choice of protocol (h3, h2, h1), headers, response parsing: no state that
  a property depends on; their outcomes are nondeterministic.
- How often a segment retries: in both modules it may fail at any time. Which
  mirror it uses is in `Transfer`, how segments are split in `Ranged`.
- Progress reports, events and the number of active segments: reported only.
- Panics of a task; failing disk writes, renames and saves (a file that is too
  short or cannot be read at the end of the segments is: `RangedIncomplete`).
- The speed that enables splitting: `try_split` removes a handle and adds none,
  so the comparison at 596 never records a baseline and splitting is never
  switched off; the model lets every sample split.
- JNI, builders, hex parsers: no state.

## 6. Where the code and its comments disagree

The first four are runs that TLC ends with a counterexample.

1. `TaskState::Failed`: "retries/mirrors used up". With two mirrors or more the
   list rotates for ever (`MirrorsRunOut`).
2. `run_ranged` (494, 514): no permit means try again in the next turn. With no
   segment running it means degradation, and the loss of the `.part`
   (`DegradedBySegment`).
3. `run_ranged` (440, 557): unconfirmed data is never skipped. The bitmap is
   saved before the data is flushed (`NothingIsSkipped`).
4. `run_ranged` (514): no segment is active when it degrades. A late result
   removes the handle of its segment's successor, which goes on beside the
   stream (`FallbackIsAlone`).

The others are read off the code and the actions named, without a run.

5. `pause` (manager.rs 168): "the worker has not started". The dispatcher may
   start it between the read of the state (`PauseRead`) and the removal from the
   queue (`Dequeue`); the task is `Paused` and the transfer goes on. If the
   handle is stored by then, `pause` takes it and waits, for a worker whose token
   it has not cancelled: as long as the transfer. So does a `cancel` after a
   `resume` or `retry` that renewed the token while a worker with the old one was
   alive. `CallsReturn` excepts these two (`OutOfReach`); without the exception
   the run `mgr_stop` ends with each of them.
6. Destination guard (manager.rs 71): one writer per `.part`. `cancel` removes
   the `.part` of its destination (`Unlink`) without the guard, also when
   another task is writing it.
7. `retry` (manager.rs 205): resume if the `.part` is kept, "otherwise from the
   start". `cancel` keeps the bitmap of the `.part` it removes, and an aborted
   segment task that was opening the file creates it anew (`Die`): the retry then
   resumes from the bitmap of the old one. A `.part` removed under the run of an
   older worker can likewise end as complete with a hole, where no digest tells.
   `ResumesAreSound`, `CountedIsWritten` and `CompleteHasNoHole` except a removal
   under live tasks (`dropped`); without the exception TLC finds both.
8. `shutdown` (manager.rs 287): waits for the workers. It collects the handles
   (`TakeOne`) before it stops the dispatcher (`Abort`), which can store or spawn
   more.
9. `cached_addrs` (dns.rs 96): a list within its TTL. `pick` renews the age of
   the list whatever its origin (line 76, `Pick`), so that a host in steady use
   is not looked up again.
10. `RangeHealth` (engine.rs 86): one path must not condemn a host. Two segments
    of one file are two misses (`Ignored` twice). "Consecutive" misses are
    counted whatever lies between them, also over an expiry.
11. `cached_range_ok` (engine.rs 1077): a verdict spares later files of the
    host. A segment records its miss under the URL that answered (893), the
    sniff asks under the URL requested (1079): the host that redirects is never
    condemned.
12. `record_range_ok` keeps an expired verdict against a host (193), so that
    nothing is cached for it and a single miss condemns it again, until a task
    of it fails. That failure removes the verdict (manager.rs 628), and a download
    that had looked before it may then record its good header: `NegativeStands`
    is about a verdict in force, not about one that was removed.
13. `finalize_verified` and the comment on `OpenOptions` (engine.rs 936): a lost
    segment task beside the fallback (item 4) writes to the `.part` it shares
    with the stream, and may do so between the digest and the rename.
    `CompletedIsVerified` and `NoResidue` therefore say "with no lost task
    beside" (`beside`); without it TLC finds both violated.
14. `run` (engine.rs 337): only another source can have the right content. With
    segments the one repetition can meet the corrupt source again, or for the
    first time: the corrupt bytes were a left-over `.part`'s and the rotation leads
    to that source, a segment has rotated the list back to it, or two have rotated
    past the good one. The download fails, with a good mirror in the list.
    `OneRepetition` claims success for downloads without a segmented attempt.

With two callers on one task, `cancel` can dequeue between `retry`'s write of the
state and its push: the task is then queued and cancelled. The runs have one
caller, so that `QueuedNotForgotten` speaks of the dispatcher; its theorem
excludes exactly this (`OneCallPerTask`).

## 7. Plan

1. Done: all modules of section 2, with a theorem for each invariant, action
   property and refinement.
2. An abstract pool of tasks (idle, waiting, running, over; at most
   `MaxConcurrent` running and one per destination) that `Manager` implements.
3. What several callers on one task can do: the weakest discipline of callers
   under which `NoneIsForgotten` holds.
4. The tables of several hosts at once, from the theorems about one.
5. Liveness of `Ranged`: a run ends. Work kept on resume: what `run_ranged` (525)
   promises ("fill holes only") against the prefix that `resumable_bytes` counts.
