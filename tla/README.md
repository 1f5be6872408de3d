# stax: verification models

stax is a sampling profiler for macOS. A privileged daemon (`staxd`) owns the
kernel's kperf/kdebug facility; a server (`stax-server`) hosts at most one
recording at a time; a helper process per recording (`stax-shade`) attaches to
the target and forwards what it collects; frontends (the CLI, a TUI, a web UI)
start and stop recordings and query the result. This directory holds TLA+ models
of the parts of it that are hard to test, TLC configurations that check them on
small instances, and TLAPS proofs for instances of every size.

    frontends --RunControl/Profiler--> stax-server <--RunIngest/Shade-- stax-shade --Staxd--> staxd --> kernel

## 1. Inventory

| Component | State it keeps | Operations | Talks to | What is hard | What makes it correct |
|---|---|---|---|---|---|
| Run registry (`stax-server/src/main.rs`) | the slot of the active run and everything under `Inner`'s mutex, the history, parked terminals, the aggregator it resets | start_attach, start_launch, start_run, attach_run, stop_active, wait_active, register_shade, session close, ingest drainer, child monitor, watchdog | frontends and shades (calls), shade processes (spawn, kill, wait), aggregator (shared) | a multi-threaded runtime: the mutex is dropped between deciding and doing almost everywhere; children die at any time; `notify_waiters` keeps no permit | one run at a time, archived once, with a reason that follows the end of its own shade; nobody acts on another run's shade, child, handle or data; a run whose shade is gone ends |
| staxd session slot (`staxd/src/main.rs`, `session.rs`) | the slot, a cancel flag per session, the kernel's switches | record, stop_recording, set-up, teardown | kernel, shades | the slot outlives the mutex guard; set-up fails half-way; stops come late | one owner of kperf from set-up to teardown; a stop hits the session it saw; the slot is freed |
| staxd drain session (`staxd/src/session.rs`) | adaptive read size, bounded queue, drop counters | read, enqueue with drop-oldest, send, flush | kernel buffer, client channel (credit) | thread and task take from the same end of the queue; a client that stops granting credit, or vanishes when idle | nothing lost uncounted, nothing reordered; the drain thread never waits for the client; the session ends |
| staxd client (`staxd-client/src/lib.rs`) | parser and scanner queues, abort flag, the scanner's open sample | receive, enqueue with drop-oldest, parse, scan for probes, stop, join with a deadline | staxd, recorder pipeline | the session task and the worker evict from the same end; an abort against the batch in hand; both ends close | nothing dropped uncounted, nothing reordered; a probe belongs to its sample; it returns even when a scan hangs |
| stax-shade (`stax-shade/src/main.rs`) | attach state, the child of a launch, the terminal pump | attach or launch suspended, register, connect, resume, record, stop, terminate, report | server, staxd client, target, terminal | early exits everywhere; three tasks hold the terminal's channel; the order of winding up | a launched target is resumed at most once and reaped; its output is whole or its loss is said; only a frontend that does not read can hold a stopped shade |
| Ingest sink (`src/ingest_sink.rs`, `live_sink.rs`) | two unbounded queues, a batch being filled, stop flag | emit, publish, batch, send, call, drop | recorder, server | events over a channel, binaries over calls; the owner drops the sink while a batch is filled | order kept per path; what was queued when the sink is dropped is sent |
| CPU interval tracker (`stax-mac-kperf-parse/src/offcpu.rs`) | who is on which CPU, open intervals, pending wakeups | feed, note_sample, drain_pending | kdebug records | starts in the middle of things; threads migrate | an interval that is reported happened; its waker woke inside it, from the second off-CPU interval of a thread on |
| kdebug parser and pipeline (`parser.rs`, `pipeline.rs`) | one partial sample; timers of the scans | feed, normalise, tick, finish | staxd client, trackers, sink | no sequence numbers: a lost record changes the meaning of the next | a walk that lost nothing emerges whole and once |
| Image scanner, jitdump tailer (`image_scan.rs`, `jitdump_tail.rs`) | last scan, dyld's image count; file offset | rescan, tick | target's memory, file | images come and go between scans, a walk over the regions fails half-way; the file grows while it is read | the sink ends with the images that are there, but for what an unchanged image count hides; each function is announced once |
| Kernel slide estimator (`kernel_symbols.rs`) | votes | observe, finalize | parser | few or ambiguous addresses, and those of kernel extensions | no slide explains more of the addresses than the reported one |
| Aggregator (`stax-live/src/aggregator.rs`) | rings of samples, intervals and wakeups per thread | record_*, aggregate | registry, profiler | an interval is credited to the samples inside it, by two cursors, under a filter, from bounded rings | the time of a view is time that was sampled |
| Binary registry (`stax-live/src/binaries.rs`) | loaded images, a lazily built index | insert, set_target, lookup_symbol, resolve | registry, profiler | the index is read by position; images replace each other; five fall-backs | an address is named after the image that holds it |
| Profiler queries and subscriptions (`stax-live/src/lib.rs`) | the revision last seen, per subscription | top, flamegraph, neighbours, timeline, intervals, threads; subscribe_* | aggregator, binaries, clients | the same time is divided along several ways; change, revision and snapshot are three critical sections | views agree; a skipped tick misses no revision; tasks of clients that left end with the next change |
| CFG builder (`stax-live/src/cfg.rs`) | none | build | disassembler | branch targets outside or inside a block | blocks partition the function |
| libproc, target-images, shared cache, FFI bindings, protocols, CLI, demangling, source view, RPC observation, xtask | little or none | I/O, parsing, declarations, rendering | | | |

PROJECT.json lists each with its status and the reason when it is not modelled,
and every hazard of the code at its line with the properties that watch it.

## 2. Modules

| Module | Models | Role |
|---|---|---|
| `RunLifecycle` | RunState, StopReason, ServerStatus of `stax-live-proto` | what the server promises of runs (abstract) |
| `RunRegistry` | the registry | one action per critical section of `Inner`'s mutex, or per step between two of them |
| `WaitActive` | `RunControl::wait_active` beside the registry | extends `RunRegistry` with a polling caller |
| `StaxdDaemon` | `record`, `stop_recording`, `run`, set-up, teardown | several sessions against one kernel |
| `LossyFifo` | | what a path with drop-oldest queues promises its reader (abstract) |
| `StaxdDrain` | `drain`, `drain_kdebug_loop`, `BatchSendQueue`, `send_batches` | one session: thread, sender, supervisor; refines `LossyFifo` |
| `StaxdClient` | `drive_session_with_hooks`, its queues and its two threads | the other end of that session; refines `LossyFifo` |
| `IngestSink` | the sink and its two forwarders | extended by `Shade` |
| `Shade` | `run_recording` | the sink's owner, the target, the terminal, the session |
| `CpuIntervals` | `CpuIntervalTracker` | the tracker next to a scheduler |
| `KdebugParser`, `KernelSlide`, `JitdumpTailer`, `ImageScanner` | `Parser`, `SlideEstimator`, `JitdumpTailer`, `ImageScanner` | algorithms and their state |
| `KdebugPipeline` | the loop of `pipeline.rs` | extends the four, next to a process that runs, loads and unloads |
| `Lists` | retain, filter, sort_by_key and sum | the operations on lists the next two need, by recursive functions and counting |
| `Binaries`, `Aggregator`, `Views` | `BinaryRegistry`, `Aggregator` with the filter of a request, the requests of `Profiler` | each extends the one before |
| `LiveStore` | the store as the server runs it | extends `Aggregator` with the drainer and the ingest calls |
| `LiveViews` | the requests over that store | extends `LiveStore` and `Views`; properties only |
| `Subscription` | `bump_revision`, `should_publish_revision`, the `subscribe_*` loops | writers against subscriptions |
| `MC*` | | values of constants and symmetry for TLC |
| `RunRegistryProofs`, `StaxdProofs` (of `StaxdDaemon` and `StaxdDrain`), `StaxdClientProofs`, `ShadeProofs`, `CpuIntervalsProofs`, `KdebugPipelineProofs`, `LiveProofs` (of `LiveStore` and `Subscription`) | | theorems and proofs, of the module in the name |
| `SequenceLemmas` | | lemmas about sequences, recursion and induction that five of them share |

### RunRegistry

The variables are the fields of `Inner`, the counters and tables of
`ServerState`, and for each actor where it is: `pc` for the handler of a client
call, `drainer`, `monitor` and `watchdog` for the tasks, `proc`, `status` and
`handle` for a shade's process, its exit status and the `Option<Child>` the
server holds, `sess` for its session. A run has at most one shade, so a pid is
the id of its run. Where the code unlocks and later locks again, there are two
actions, and everything may happen between them: `BeginRun`, `AllocRunId`,
`ClaimSlot` and `ResetAggregator` are one call of `begin_run`; `ApplyEvent` and
`WriteEvent` are one event; `CancelForRun` and `AttachIngest` are one
`attach_run`; `MonitorTick` to `MonitorReap` are the exit of a child;
`WatchdogRead` and `WatchdogProbe` are one tick of the watchdog. `FinalizeRun`
and `ReleaseSlot` are the operators several actions share, as `finalize_run` is
the function several tasks call. `StopNothing` is the call that finds no run: it
is in the next-state relation, so a server that has run out of ids still serves.

The binary registry is reset after the aggregator and is written in the same
check-then-write pattern; one table of counters (`agg`) stands for both.

`Ending` is how a shade's process ends: `main` of the shade turns the exit of the target, the time
limit and the end of the session alike into success, and the server sees success or failure
(`Succeeded`).

Modelled from outside, from how the server uses them: the shade's process (it
runs, may register, attach and send at any time, and may exit or crash at any
time) and the operating system's wait and kill.

### WaitActive

`wait_active` keeps nothing but its condition: every turn copies the slot and
decides. `waitFor` is a history variable that remembers what the code does not.

### StaxdDaemon and StaxdDrain

`StaxdDaemon` is about who may touch the kernel; a phase of a session
(`Wipe`, `SetupKperf`, ...) is one action because the calls in it are made back to
back by the only session inside, but a failure may leave any prefix of them in
effect. `StaxdDrain` is what happens between set-up and teardown, at the grain at
which thread and sender interleave: `TrySend`, `Evict` and `Recv` are the
`try_send`, `try_recv` and `recv_async` on one flume channel. A record is a
number and a batch a set of numbers, so a loss, a duplicate and a reordering are
told apart. The empty batch is the heartbeat.

### StaxdClient

The client keeps two queues and two threads; the variable `client` is where the
session task is, `hand` the batch it holds, `parsing` the one the worker holds.
A batch is its number, and `Kind` says what its record is to the probe scanner.
`TrySend` and `Evict` are the `try_send` and `try_recv` of a drop-oldest push on
either queue (`ProbeScannerQueue`, then `ParserQueue`). The daemon is an environment
that keeps what `StaxdDrain` shows of it. The worker looks at the abort flag
at three places (`CheckAbort`, `CheckAbortAgain`, `Finish`), and `Process` need never
come: then the budget of `join_worker_with_deadline` is spent, the flag is set, and
after a grace period the worker is left behind.

### Shade and IngestSink

`Shade` follows `run_recording` from top to bottom: `shade` is the place reached,
and every `?` of the code is a disjunct that leaves for `exit`. A launch is with or without a
terminal (`pty`). The target, the server and the frontend are environment: the server relays
every event of the terminal to the frontend and waits for it to be taken, so a `frontend` that is
`stalled` holds up the shade's own send. The reader thread takes chunks until the terminal closes or
a read fails. The session is what
`StaxdClient` shows of it. `IngestSink` is composed by sharing variables: `Shade`
spawns the forwarders, and drops the sink when the parser worker ends, or at once when
the start fails. The runtime waits for its blocking thread, so the process
exits only when the reliable forwarder has ended (`ProcessExits`).

### Lists, Binaries, Aggregator, LiveStore, Views, LiveViews

The registry and the aggregator are data structures under a lock: an operation is
an action of `LiveStore`, what a request computes is an operator over the state.
`AggregateThread` keeps the two cursors of the code; `Aggregated` puts threads together, and
its result is a list of credits
from which the flame tree and the table by address are sums. `Views` builds the tree
as the code does (`build_children`, `fold_recursion`) and is compared in `LiveViews` with
definitions that do not build it; these two have RECURSIVE operators, and nothing that
is proved about reaches them. A lookup may rebuild the
lazy index, and so `Query` is an action. `Insert` retains the images at other bases
and sorts the new one's symbols (`Retained`, `Stored`); `BuiltIndex` is the stable sort of the index,
written by the rank of each element. `Callers` and `Callees` are the family trees of a symbol, each node by
the chain of symbols that leads to it; a node with less than its share of the target's time
(`Threshold`, one part in `PruneShare`, 2000 in the code) is cut off with all below it (`Shown`).

### Subscription

`Write` is the critical section in which a writer changes the data, `BumpRevision`
the increment after it; `ShouldPublish`, `Build`, `Send` are the three points of a
subscription's turn. A snapshot is the number of changes it shows. `begin_run` writes three times:
the empty aggregator (`Write`), the empty registry (`ResetRegistry`) and, after its bump, the
shared cache it attaches (`AttachCache`), which has no revision of its own; `due` is the last
change that has one after it, or is owed one.

### CpuIntervals and KdebugPipeline

`Switch` and `MakeRunnable` are the scheduler's own steps (external); each emits
one record and feeds it to the tracker in the same step, as the recorder does.
The tracker's fields are those of the code, keyed by CPU or thread. The scheduler
state is the ground truth that intervals are compared with. The tracker starts empty next to a
scheduler that is already running threads; `resumed` is a history variable, the threads
whose off-CPU interval the tracker has closed once.

`KdebugPipeline` extends the parser, the estimator, the tailer and the image scanner.
A workload is a process that is sampled: it emits the records of its walks, any of
which may be lost (at most `MaxLost`), it writes its jitdump unit by unit, and
it maps, lists, unlists and unmaps images at any time, also while the scanner
walks its regions. A walk may fail (at most `faults` times): it then returns the regions before some
address, and `rescan` takes them for all (`EndWalk`). Kernel frames are any addresses, of the kernel
or of its extensions, and `observed` keeps those that voted. `hidden` is a history variable: an unload,
or a failed walk, since the image count was last read for a walk. `pc` is where the recorder's loop is. `damaged` remembers which
walks the losses touched.

## 3. Checks

Runs that pass:

| Run | Bounds | Shows |
|---|---|---|
| `RunRegistry_races` | 2 runs, 2 concurrent client calls, launches and direct ingest, shades that end with their target, at the time limit or with a failure, 1 event per recorder, shades do not dial | `RunAccountedFor`, `ReasonFollowsShade`, `NeverOvercounts`; `ImplementsLifecycle`: the registry refines `RunLifecycle` |
| `RunRegistry_shades` | 2 runs, 1 client, both shades dial, sessions and channels may break | `ShadeOfActiveRun`, `LiveShadeKept` |
| `RunRegistry_live` | 2 runs, 1 client, attach, the first shade dials, everything may break, `wait_active` polls beside it; fair | `DeadShadeSlotFreed`, `ShadeExitEndsRun`, `ReturnsOnceStopped` |
| `StaxdDaemon` | 3 record calls, 1 stop; fair | `OneOwner`, `DrainingMeansTracing`, `StopCancelsWhatItSaw`, `SlotFreed` |
| `StaxdDrain` | 6 records, queue of 2, read size 5 to 8; fair | `RecordsAccountedFor`, `FlushedMeansDelivered`, `ImplementsFifo`, `DrainNeverBlocks`, `VanishedClientEndsSession`, `StopEndsSession` |
| `StaxdClient` | 5 batches: a sample with two stack headers, its end, one header more; parser queue of 2, scanner queue of 1; fair | `BatchesAccountedFor`, `ProbesTrue`, `ImplementsFifo`, `SessionReturns` |
| `Shade` | an attached target with 3 events and calls in all, of which 2 are calls; a launched one without either, with a terminal and 2 writes or with none; batches of 2, credit of 1; a frontend that stops and starts reading; fair | `IngestInOrder`, `LaunchedTargetIsOwned`, `OutputComplete`, `StoppedShadeExits` |
| `CpuIntervals` | 2 threads, 2 CPUs, 7 records, any threads running or blocked at the start | `IntervalsTrue`, `WakerAfterFirst` |
| `KdebugPipeline` | 4 workloads: 4 walks with 2 lost records; 1 walk, 1 load or unload; a jitdump of 3 records written in pieces; 3 images of which two share a base, 5 loads and unloads, 2 walks that fail; kernel addresses of which one is an extension's; fair | `WholeWalksEmerge`, `LoadsFollowTheDump`, `SlideExplainsMost`, `ImagesCatchUp` |
| `LiveStore` | 2 threads, 4 changes, 2 events per thread, 3 stacks, 3 filters, 4 images: one with two symbols out of order, one replaced at its base, one that starts inside another; neighbours with less than half of the target's time cut off | `CreditIsSampledTime`, `FlameShowsStacks`, `ViewsAgree`, `LookupNamesTheImage` |
| `Subscription` | 2 writers, 2 subscriptions, 3 changes; fair | `SkippedMeansCurrent`, `ChangesReachClients`, `LeftTasksEnd` |

One run finds what the repository says of the code and the code does not do (the
line is quoted in PROJECT.json): `RunRegistry_wrongKill` violates
`KilledAfterRunEnd`. `finalize_run` unlocks and then takes whatever child is
recorded; the reap at the end of one run kills the shade of the next, which
records on without one.

More properties of that kind stand in the modules, each with the comment that
quotes its source, and are not part of a run. A small cfg with the property
finds the behaviour at once:

| Property | Constants | What TLC finds |
|---|---|---|
| `StoppedRunLeavesSlot` (`RunRegistry`) | 1 run, 1 client, ingest, 1 event, `FairSpec` | `notify_waiters` finds the drainer inside a batch; the channel closes; the stopped run stays in the slot |
| `AggregatorHoldsOneRun` (`RunRegistry`) | 2 runs, 2 clients, ingest, 1 event | an event checked against run 1 is written after run 2 reset the aggregator |
| `TargetExitedMeansTarget` (`RunRegistry`) | 1 run, 1 client, attach, `Exits = {"timeLimit"}` | a run that ends at its time limit is archived as `TargetExited`: the shade exits with success and `shade_child_exited` knows no other reason, so the `TimeLimit` of `stax-live-proto/src/lib.rs:735-743` is never given |
| `AlwaysReturnsOnceStopped` (`WaitActive`) | as `RunRegistry_live` | a run begun between two polls hides the stop of the one waited for |
| `SkippedHidesNothing` (`Subscription`) | as `Subscription` | a snapshot built after the bump of `begin_run` and before it attaches the shared cache: the cache stays unseen until something else moves the revision |
| `ImagesAlwaysCatchUp` (`KdebugPipeline`) | as `KdebugPipeline` | with a task port, an unload made up for by a load, or a walk that failed, leaves dyld's count as it was and is not looked at again |
| `FreeSlotMeansQuiet` (`StaxdDaemon`) | 1 session | a set-up that fails half-way leaves counters running and the slot free |
| `WakerInInterval` (`CpuIntervals`) | as `CpuIntervals` | a thread that is woken and comes on a CPU before the tracker has seen it leave one keeps that wakeup, and it is reported with the first off-CPU interval, which starts later |

Also kept as definitions: the type invariants and the properties that the theorems
of section 4 cover for all instances (`TypeOK`, `CancelMatchesState`,
`ArchivedOnce`, `SetupStartsClean`, `SnapshotsAdvance`), and
`EndedRunReleasesTerminal`: a run that ends by itself hands its parked terminal
back (one stopped by its user and archived by the stale path of `begin_run` does
not).

Properties worth a second look. `ReasonFollowsShade` relates a reason in the
history to the exit status of that run's own process, so finalizing whatever run
is in the slot breaks it; what made that process succeed the server cannot tell
(`TargetExitedMeansTarget` above). `RunAccountedFor` fails if any path drops a run on the
floor. `NeverOvercounts` is one-sided: the aggregator may lack events that the
summary counted (the reset comes after the claim), never the reverse.
`ShadeExitEndsRun` promises no more than the comment at the drainer's exit does:
a run lives until its shade exits or someone stops it; it is not claimed of a shade whose
handle a reaper has taken, which with two runs may be the reaper of the other
(`RunRegistry_wrongKill`). `ReturnsOnceStopped` is not claimed when the slot has passed to the next
run between two polls. `SkippedMeansCurrent` and `ChangesReachClients` speak of changes that have a revision
after them. `WakerAfterFirst` is claimed from the second off-CPU interval of a thread on.
`StoppedShadeExits` names the one thing that can hold a stopped shade: a frontend that neither reads nor leaves.
`SlideExplainsMost` compares the reported slide with every other one; that it is the true
slide holds only as long as the kernel's own code is sampled more than its extensions. `BatchesAccountedFor`
allows for one batch, the one an aborted worker may have had in its hand: it is
neither processed nor counted. `LaunchedTargetIsOwned` speaks of sessions: an
error before the session leaves the launched child suspended (below).
`CreditIsSampledTime` defines the time of a stack from the intervals and samples
alone and compares it with what the two cursors credited. `ViewsAgree` is claimed of filters
without exclusions where the code does not apply them, and of symbols that occur
once in a stack. `ImagesCatchUp` excuses a recorder with a task port only when the count hides something: an
unload after the count was last read for a walk, or a walk that failed; the shade always has the task
port, so these are the cases in which it does miss images.

Further disagreements between text and code, and surprises, seen while reading
and checking and not kept as runs:

- Registry. `stax-live-proto/src/lib.rs:1052` says channel-close ends a recording;
  the drainer only detaches (`stax-server/src/main.rs:849`), and a run opened by
  `start_run` has no shade whose exit could end it. Line 724 says the
  aggregator is frozen once a run is Stopped; `apply_event` compares the id and not
  the state. Line 826: NoActiveRun is also returned to a caller that waited for a
  run which has ended by itself. `stax-server/src/main.rs:289-290` says one run has at
  most one child; `spawn_shade` (538) overwrites whatever is recorded; line 1045
  speaks of SIGTERM where `Child::kill` sends SIGKILL. `stop_active` returns "the
  final RunSummary"; `discard_start_failed` may rewrite its reason afterwards
  (`RunLifecycle!Discard` allows it).
- staxd. `staxd/src/main.rs:162-165` says the mutex is held across the body of
  `record`; the guard is dropped at 227. The promised effect holds, by `OneOwner`.
  `RecordError::Evicted` is never constructed.
- Shade and sink. `src/ingest_sink.rs:33-37` says the recorder loop polls
  `LiveSink::stop_requested()`; the shade's `should_stop` (`stax-shade/src/main.rs:353-378`)
  does not, so a shade whose server dropped its receiver records on until it is told
  to stop, and an idle sink never notices. `staxd-client/src/lib.rs:817` detaches
  the worker "so recorder can exit"; the detached worker keeps the sink, the
  blocking forwarder (`ingest_sink.rs:311`) never ends, and the runtime waits for it.
  Errors before the session (`?` in `run_recording`) leave the launched child
  suspended. A frontend that stays connected and does not read blocks the server's relay
  (`stax-server/src/main.rs:905-919`), the shade's `output_task` (962-967) and so `pump.finish`, with no
  time limit anywhere. `pump.finish` waits for the end of the pty, which a descendant of the target
  may hold open.
- Recorder. dlclose and dlopen between two scans leave dyld's count as it was, and
  `dyld_images_changed` (`image_scan.rs:249`, "Returns true when dyld's image list
  has changed") does not see it; `enumerate_regions` (`libproc.rs:171-187`) returns what it has
  when a call fails, and `rescan` unloads the rest; a failed read of dyld's list resets only its address;
  a region that grew under the same key is not reported again. A jitdump that
  cannot be opened is never tried again (`pipeline.rs:196`), a record of less than 16 bytes
  stalls the tailer, and a big-endian magic is accepted by a reader of little-endian.
  The parser's single partial sample lets a lost START, END or header join two walks. Ties of the
  slide estimator are broken arbitrarily, and addresses in kexts vote for
  wrong slides, which win when they are sampled more often than the kernel itself.
- Store and views. The comment on overlapping mappings (`binaries.rs:228-233`) does not
  hold for an image inside another; `lookup_symbol` and `resolve` may name different
  symbols where symbols overlap. Nothing reads what `set_paused` sets.
  `TopEntry::total_pet_samples` counts a sample once per recursive frame;
  `build_intervals_update` ignores `exclude_symbols` and leaves out open intervals; the
  timeline starts at the first arrival, not the first event;
  `WakersUpdate::total_wakeups` sums only the groups that are kept;
  `fold_recursion` can leave siblings of one symbol; an idle subscription of a client that has left lives until the
  next change. The comment at `lib.rs:1231` calls the threshold of the family trees the same as that of
  the flame graph, which has none.

### Bounds

Every bound caps a counter that only grows and is a guard of the action that counts.
Two runs are what it takes for one run
to interfere with the next; no code compares more than two, the history
is only searched and appended to. Two client calls give every pair of handlers.
One event per recorder puts a drainer inside a batch. Three record calls give a
holder, a refused call and a successor. A queue of two batches distinguishes
oldest from newest, and six records from a read size of five reach a doubled
read (to the limit of eight) and a halved one. Five batches fill the client's parser
queue while one is parsed and one is in hand, and are the shortest stream with two
candidate headers for a probe and one that belongs to no sample. Three events with
batches of two give a full and a partial batch, and a credit of one makes the sender
wait; the terminal and the sink share no state but the shade's own place, so the launched shade has
no events. Seven records on two CPUs are enough for a thread to leave, be woken and return on another
CPU, twice. Two lost records can take the end of one walk and the start of the
next. Five loads and unloads replace an image at its base and unload it again, around two walks that
fail. Four changes to the store allow an interval around two samples, an image
that replaces another and one that starts inside another. Three changes and two subscriptions let each fall behind
in its own way. A launch
is an attach that parks a terminal as well, so the safety runs of the registry use launches. The
registry's instances are split because their product is out of reach: what the
split might miss (a late shade during a hand-over between two clients, for one)
is what the theorems below cover for all values at once. The launched and the
attached shade get different amounts of data for the same reason. Thread, client and CPU symmetry
is used only where no liveness is checked.

Deadlock is checked in the runs of the registry. The others do stop: every
call has returned, the session is over, the bound is reached.

### Fairness

In the registry: a handler that was called runs on, and the server's tasks are
polled (tokio's scheduler); a reaper's grace period ends in a kill; the session and
the channel of a process that is gone are reported closed (local sessions, with
keepalive). Nothing is assumed of a frontend, nor of a shade that lives: it may never
register, never send, never exit. `wait_active`'s timer fires, so an end that
lasts is noticed. In the drain session: the thread and the supervisor run, the
heartbeat period passes, a receive that can complete does, and a send to a
vanished peer fails. That a client which is there grants credit is not assumed,
and that is what makes `DrainNeverBlocks` and `StopEndsSession` say something. In
the daemon: the call that holds the slot runs on, except that draining ends only
when it is told to. In the client: the session task and the scanner run, and a daemon
that was told to stop, or that the client waits for, returns (`StopEndsSession`);
nothing is assumed of the parser worker, which is why the deadline matters. In the
shade: its own steps are taken, the forwarders and the pump run, the server applies what
it is sent, a send of terminal output completes while the frontend reads (that it reads is not
assumed), a session that was asked to stop returns (`SessionReturns`), a
terminal nobody holds is closed, and the worker comes back from its scans (without
that, the detached worker keeps the process). In a subscription: tasks run, the timer
ticks, a client reads or leaves. In the pipeline: the loop ticks for ever and a timer
that is due again and again is served (strong fairness, because the loop may be elsewhere
when the period passes); the process finishes the load or unload it began. The store
has no liveness of its own.

## 4. Proofs

All theorems are of `Spec`, for every value of the constants that the named
assumptions of the modules admit (`RegistryAssumption`, `DaemonAssumption`,
`DrainAssumption`, `ClientAssumption`, `IngestAssumption`, `ShadeAssumption`,
`IntervalsAssumption`, `SubscriptionAssumption`, `LiveStoreAssumption`, `WaitTableAssumption`: bounds and capacities are naturals,
a queue has room for one batch, threads have positive numbers, the set of clients is
finite, None is not a session; a ring holds at least one event; the images the recorder reports have symbols
at different addresses, each ending by the start of the next, as `image_scan.rs:407-419` and
`collect_symbols` of the shared cache leave them and a function of the jitdump has trivially; the
table of wait reasons does not list "OnCpu"). Those of the pipeline say more, and the theorems of
`KdebugPipelineProofs` are worth what they are worth: a chunk carries at least one frame
(`ParserAssumption`); a jitdump is a sequence of records of positive length (`DumpAssumption`; the tailer
stalls on a shorter one); a kernel has finitely many executable segments, none empty, apart
(`SegmentsAssumption`); a header counts no more main frames than its walk has, each
walk is a thread's, and a frame that is not NULL is not made of authentication bits alone
(`WorkloadsAssumption`; kernel frames are any addresses but NULL); every segment is small enough to
vote, 64 MB in the code (`SlideAssumption`).

`RunRegistryProofs`:

- `TypeCorrect`. `TypeOK` alone is not inductive: a drainer that finishes an event
  subtracts one from its batch, and a handler adds its run to tables indexed by
  runs. `TypeInv` adds that a drainer with an event in hand has a non-empty batch
  (`EventInHand`) and that a handler past the allocation has an id
  (`RunAllocated`).
- `CancelHandleMatchesState` and `RegisteredShadeIsOfActiveRun`. Inductive
  together given types (`SlotInv`): every critical section that changes the run
  in the slot or its state sets the handle and the registration in the same
  section.
- `RunsAreArchivedOnce`. `ArchivedOnce` is not inductive: a handler about to claim
  the slot could hold an id that is in the history. `ArchiveInv` adds that ids in
  use are below the counter (`IdsAllocated`) and that an id about to be claimed is
  held by one handler, is not in the slot and is not in the history (`ClaimsFresh`).
- `RegistryImplementsLifecycle`. From both invariants: each action maps to one
  step of `RunLifecycle` or a stutter. The refinement mapping reads a run's phase
  and reason out of the slot and the history.

The history, on top of the invariants above:

- `RunsAreAccountedFor`. `AccountInv` speaks of what a run leaves behind (a process,
  a drainer, events in the aggregator) and of the handlers that hold its number
  after they claimed the slot: each step that adds a trace is one of such a handler or
  follows from an earlier trace (`TracesHaveHolders`), and a run leaves the slot
  for the history only (`RunsStay`).
- `ReasonsFollowShades` (`ReasonFollowsShade`). `ReasonInv` joins four facts: a zombie, and a monitor that saw an
  exit, has an exit status (`StatusKnown`); a stopped run in the slot was stopped by a
  user (`StoppedByUser`); a handler that has not spawned its shade is the only one
  with its run, there is no process yet, and the run can only have been archived
  as `UserStop` (`EarlyRuns`); entries are of real runs (`HistoryOfRuns`).
  `EntriesAreTrue` shows what every new entry says, `ShadesStay` that no later step makes an old one false.
- `AggregatorNeverOvercounts`. `NeverOvercounts` is inductive once a run that
  enters the slot is known to have no events in the aggregator, which is
  `ClaimsFresh` with `AccountInv`.
- `LiveShadesAreKept`, an action property, from types.

`StaxdProofs`, of the daemon:

- `DaemonTypeCorrect`, then `KperfHasOneOwner`, which is inductive by itself given
  types. `SessionKeepsItsTrace` and `SetupIsFromCleanState` need both it and
  `KperfIsUp` (between the two halves of the set-up, the first half's switches
  are the session's own), joined in `KernelInv`.
- `StopsAreForOneSession`, an action property, needs types only: the flag a stop
  sets is that of the session it cloned.

`StaxdProofs`, of one drain session:

- `TypeCorrect` and, from it, `ReadsFitTheBuffer`: the read size stays between one
  record and what the buffer holds, whatever the configured sizes are.
- `NothingLostUncounted` (`RecordsAccountedFor`). The counts are sums over sets of
  records, so the invariant `DrainInv` speaks of where records are and not only how many: who holds
  what, all holders apart and in order (`Order`), nothing held by a thread or a task that is
  idle (`Idle`), and the drop counter equal to what is missing (`Count`). The lemmas on
  `Held` say what appending to and taking from a queue of batches does to the
  set of records in it.
- `DeliveryIsInOrder`, from `Order`.
- `FlushLosesNothing` (`FlushedMeansDelivered`), from `FlushInv`: a flush ends only with
  every holder empty.
- `QueueIsALossyFifo` (`ImplementsFifo`). The refinement mapping lists the batches in
  the sender's hand, the queue and the thread's hand and leaves the heartbeats out.
  A read is a `Put`, a granted send a `Deliver`, an eviction and a
  sender that gives up are a `Lose` of one batch (or nothing, when it was a heartbeat),
  and moving a batch between hand and queue changes nothing (`FifoSteps`). Each of
  these is a lemma about `Flight`, for any batches; the invariant is needed for `Idle`:
  who has nothing to offer or to send holds nothing.

`StaxdClientProofs`:

- `TypeCorrect`, from `TypeInv`, which numbers the batches: what is on the wire
  continues what was received, each queue holds increasing numbers, older than the batch
  in the session's hand.
- `PathHolds` and `EveryBatchAccountedFor` (`BatchesAccountedFor`). `PathInv` adds that
  what was processed, the worker's batch, the queue and the hand hold ever later
  batches (`OrderOK`), and where each batch received is (`CountedOK`). The
  cardinalities of `BatchesAccountedFor` follow: an increasing sequence has as many
  elements as members.
- `PathIsALossyQueue` (`ImplementsFifo`), in the manner of `QueueIsALossyFifo`. Here a worker that
  gives up and drops its backlog is an `End`.
- `ProbesAreTrue` (`ProbesTrue`). `ProbeInv` follows the open sample: every start or end
  after it that was received was dropped or is still to be scanned (`ScannerOK`),
  triggers are in the order of their samples, and the open sample's own trigger is the
  last (`TriggersOK`).

`CpuIntervalsProofs`:

- `TrackerKnowsTruth` is the heart of it: whatever the tracker remembers of a CPU or a
  thread agrees with the scheduler (`KnowsOK`), however late it was attached. It is
  inductive with `SchedulerOK`, and gives `IntervalsAreTrue` (`IntervalsTrue`), an action property.
- `WakersAreInside` (`WakerAfterFirst`) needs the converse, that the tracker has missed
  nothing of a thread once it has closed an off-CPU interval of it (`FollowedOK`): while such a thread is off its
  CPU there is a start to measure from, a pending wakeup is no older than that, and while it is
  on one there is no pending wakeup.

`KdebugPipelineProofs`:

- `EveryWholeWalk` (`WholeWalksEmerge`). The hard part is what the parser's one partial
  sample holds. `RecordsOfWalk` says which record stands at which place of a walk's
  stream, for stacks of any depth; `Expected` says what the parser holds after the
  first j records of a walk that has lost none, stack by stack (`ReadSoFar`: the frames
  before the chunk boundary, and how many the header's count leaves to read). A START sets it up
  whatever was there before (`ExpectedStart`), and each record takes it one further
  (`ExpectedNext`, with `ReadHeader`, `ReadChunk`, and `ReadOther` for a record of the other stack).
  `FixupIsCallStack` is the algorithm's half: moving the saved link register and cutting
  at the first NULL gives the call stack the walk stands for. `WalksInv` puts them together: the
  walk being read is as expected unless it lost a record (`ReadAsExpected`), an
  unfinished sample is of that walk or of a damaged one (`OpenSample`), and no sample is of
  a walk that is not over (`SamplesAreRead`).
- `TheSlideFitsBest` (`SlideExplainsMost`). `VotesOK`: a slide has exactly as many votes as there are observed
  addresses it explains. An address gives a slide at most one vote because segments are disjoint,
  and does give it one when it explains the address, because every segment votes. So the slide with
  the most votes, whichever `finalize` picks from a tie, explains the most addresses.
- `EveryFunctionOnce` (`LoadsFollowTheDump`). `JitInv`: the tailer stands at the end of a
  record, and what was announced are the functions up to there. `CompleteRecords` says that a
  tick which reads up to any length consumes the records that end within it and no more;
  `LoadsSplit` that the functions up to one end and those up to the next make up the
  functions up to the second; `LoadsInOrder` that the n-th of them has n functions up to it.
- `PipelineTypes`, from the place in the stream and the parser's states.

`LiveProofs`, of the store:

- `OneNameForAnAddress` (`LookupNamesTheImage`). `RegistryOK`: the bases of the images
  differ, the symbols of each are in order and end before the next, and the index, when there is one,
  is the one that would be built. `InsertKeepsOrder` shows it of `insert`: `retain` takes out the
  image whose base comes again, `sort_by_key` puts the symbols in order (`StoredInOrder`), and the
  index is dropped, without which it would name what was there before. `IndexInOrder` says what the
  built index is: sorted by base, with every image in it. Then `partition_point` ends on the image
  with the last base at or before the address (`OwnerIsFound`) and, in its symbols, on the one that holds the address
  (`SymbolIsFound`), which is also what the linear search of `resolve` finds (`SymbolNamesTheAddress`).
- `TimeGoesToItsSamples` (`CreditIsSampledTime`). The cursor of `aggregate` never goes back, so it
  is right only because of what the queues hold: `EventsOK` says that the samples of a thread are in the
  order of time and its intervals one after the other, however many old ones `push_bounded`
  has dropped (`PushKeeps`, `EventsStep`). `CursorsFindTheInside`: the two loops then stop around just the samples
  inside the interval, when all those behind the cursor are earlier. `SharesAddUp` counts what one interval
  gives to each stack. `PassedUpTo` is the loop's invariant: after n intervals the credits are what
  the first n owe, and what the cursor has passed is before every interval to come (`PassGoesOn`).
- The lemmas they rest on: `PickEnumerates` and `PickTotal` (what `retain` and `filter` keep, in
  what order, and what it adds up to), `TotalConcat`, `TotalAppend`, `WeightsConcat` (sums over lists put together), `RankGrows`,
  `RankOnto` and `SortingOrder` (the ranks of n elements are 1..n, so each element has one place, and the keys
  are in order there).

`LiveProofs`, of the subscriptions:

- `SkippedTicksMissNoRevision` (`SkippedMeansCurrent`). Not inductive as it stands:
  `Current` follows the snapshot from `Build` to `Send`, up to the changes that have a revision (`due`), and `Never` says that no
  subscription has seen a revision which is still to come.
- `SnapshotsOnlyAdvance`, an action property, from `Behind`: what was sent is no newer than what
  was built, and that no newer than the data.

`ShadeProofs`:

- `TargetIsOwned` (`LaunchedTargetIsOwned`). `OwnInv` adds that nothing is resumed
  before the session (`ResumeOnce`), that the shade goes on to its report only with
  its child's status in hand (`ChildKnown`), and that the one way around the
  termination is a resume that failed (`WayOut`).
- `EventsArriveInOrder` (`IngestInOrder`). `SinkInv`: while the server listens, what it has
  applied, what is on the wire, the batch and the queue, one after the other, are all that was
  emitted (`EventsInOrder`); a forwarder that found its input at an end was right
  (`Phases`); calls carry the numbers of their requests (`CallsInOrder`). The wire is a sequence of
  batches, so each step needs what `FlattenSeq` does to one more batch or one less.
- `OutputIsComplete` (`OutputComplete`). `TermInv`: what is shown and what is in the
  channel make up all that was read, and the exit is among them once the pump has let go of its
  sender (`Complete`); a closed output means that the reader saw the end of the pty
  after the target did, or that its error is in the channel or shown (`Ends`).
  What the frontend does is no step of the shade (`FrontendApart`).
- `TypeCorrect`, from both.

`SequenceLemmas` has what those proofs share: increasing sequences by the set of
their members, taking one element out, prefixes, and `FlattenSeq` of one more or one
less sequence. The library's induction theorems take an operator as parameter, which the
installed provers cannot instantiate; `SetInduction` states induction over a set of
naturals instead (it follows from the well-foundedness of the naturals by `LeastNumber`), and a
proof that needs induction defines the set of the numbers for which its claim is true. In the same
way `RecursionExists` gives the function that a recursive definition over 0..N
describes, from a table of its steps: `EndOf`, `CodeLoads`, `ObserveAll`, `PickAt`, `Total` and
`AggregateThread` are defined by recursion and nothing can be proved of them before.
`SelectSeq` and the folds have no definition the prover can expand, so the modules proved about count,
flatten or recurse where they would have filtered or folded (`ChunksUpTo` in `Shade`, `NonEmpty` in
`StaxdDrain`, `CodeLoads` in `JitdumpTailer`, `ObserveAll` in `KernelSlide`, `PickAt` and `Total` in `Lists`).

Proving `KdebugPipeline` corrected it: the arms of `Feed` overlapped (any record outside a
sample, and a START inside one, matched two), and the value of such a CASE is either arm; TLC takes
the first, the prover showed that nothing else can be relied on.

Only model-checked:

- everything about liveness and fairness: it rests on ENABLED, which the prover does
  not handle;
- `FlameShowsStacks` and `ViewsAgree`: `Views` builds trees with RECURSIVE operators, and a module
  that reaches one loses the prover's SMT backend. What they start from, the credits of one thread, is
  `TimeGoesToItsSamples`;
- `KilledAfterRunEnd` and the other properties that the code does not have.

## 5. Not modelled

Read-only calls, log lines, labels and timestamps; the input half of the terminal and its
size; the set-up of sockets; reuse of pids; loss of kdebug records on the way to the
interval tracker; the time between empty reads; thread names, PMU sums, string tables and the
order of rows; annotated disassembly and the probe-difference views. Components marked
`not_modelled` in PROJECT.json are pure I/O, parsing of foreign memory or files,
foreign-function declarations, presentation, or planned below.

## 6. Plan

Next modules:

1. The CFG builder (`stax-live/src/cfg.rs`): blocks partition the decoded
   instructions and edges end at block starts, over small functions.
2. The thread-name scan of the pipeline and the input half of the terminal.
3. The annotated view and the probe-difference view, against the same credits as the flame graph.
4. The record command's signal handling (`src/cmd_record_mac.rs`) as a client of `RunRegistry`.

Next theorems: that `ImplementsFifo` of the client and the drain session compose into one path; that a
flame tree written as a recursive function over the depth of its stacks loses no time
(`FlameShowsStacks`); that the timeline divides every interval between its buckets (the second part of `ViewsAgree`,
which needs no tree).
