----------------------------- MODULE IngestSink -----------------------------
(***************************************************************************)
(* How a recorder's events reach stax-server (src/ingest_sink.rs and the   *)
(* LiveSink trait).  Samples, intervals, wakeups and thread names go       *)
(* through an unbounded channel to forward_events, which sends them in     *)
(* batches over a vox channel; targets and binaries go through a second    *)
(* channel to a blocking thread that makes one call for each.  An event or *)
(* a call is its number; what they carry, and the counters of the log      *)
(* lines, are left out.                                                    *)
(*                                                                         *)
(* The spawner of the forwarders and the owner of the sink are in Shade.   *)
(***************************************************************************)
EXTENDS Naturals, Sequences, SequencesExt

CONSTANTS
  MaxEvents,      \* bound: events the recorder ever emits
  MaxCalls,       \* bound: targets and binaries it ever publishes
  BatchMax,       \* INGEST_BATCH_MAX_EVENTS
  Credit          \* INGEST_CHANNEL_CAPACITY

ASSUME IngestAssumption ==
  {MaxEvents, MaxCalls} \subseteq Nat /\ {BatchMax, Credit} \subseteq Nat \ {0}

VARIABLES
  sink,           \* "none", "open" or "dropped"
  enqueued,       \* events the recorder has emitted
  events,         \* the unbounded channel
  forwarder,      \* forward_events: where it is
  batch,          \* the batch it fills or sends
  inputClosed,
  published,      \* calls the recorder has asked for
  requests,       \* the channel of the reliable forwarder
  reliable,       \* the reliable forwarder: where it is
  stopRequested,
  \* the server's ends
  serverRx,       \* it holds its Rx<IngestBatch>
  wire,           \* batches on the vox channel
  applied,        \* events it has taken, in order
  called          \* calls it has accepted, in order

recorder == <<sink, enqueued, published>>
forward  == <<events, forwarder, batch, inputClosed>>
calls    == <<requests, reliable, called>>
server   == <<serverRx, wire, applied>>
ingestVars == <<recorder, forward, calls, stopRequested, server>>

IngestInit ==
  /\ sink = "none" /\ enqueued = 0 /\ published = 0
  /\ events = <<>> /\ forwarder = "none" /\ batch = <<>> /\ inputClosed = FALSE
  /\ requests = <<>> /\ reliable = "none" /\ called = <<>>
  /\ stopRequested = FALSE
  /\ serverRx = FALSE /\ wire = <<>> /\ applied = <<>>

IngestTypeOK ==
  /\ sink \in {"none", "open", "dropped"}
  /\ enqueued \in 0..MaxEvents /\ published \in 0..MaxCalls
  /\ forwarder \in {"none", "recv", "fill", "send", "close", "done"}
  /\ Len(batch) <= BatchMax /\ Len(wire) <= Credit
  /\ reliable \in {"none", "recv", "call", "done"}
  /\ {inputClosed, stopRequested, serverRx} \subseteq BOOLEAN

-----------------------------------------------------------------------------
\* connect_to_existing_run: the server has accepted the run, and
\* spawn_forwarders has started both forwarders.
SpawnForwarders ==
  /\ sink' = "open" /\ forwarder' = "recv" /\ reliable' = "recv"
  /\ serverRx' = TRUE
  /\ UNCHANGED <<enqueued, published, events, batch, inputClosed, requests,
                 called, stopRequested, wire, applied>>

\* enqueue_event: on_sample, on_thread_name, on_wakeup and on_cpu_interval.
EnqueueEvent ==
  /\ sink = "open" /\ enqueued < MaxEvents
  /\ enqueued' = enqueued + 1
  /\ IF forwarder # "done"
     THEN events' = Append(events, enqueued + 1) /\ UNCHANGED stopRequested
     ELSE stopRequested' = TRUE /\ UNCHANGED events
  /\ UNCHANGED <<sink, published, forwarder, batch, inputClosed, calls, server>>

\* enqueue_reliable: on_target_attached, on_binary_loaded and _unloaded.
EnqueueReliable ==
  /\ sink = "open" /\ published < MaxCalls
  /\ published' = published + 1
  /\ requests' = Append(requests, published + 1)
  /\ UNCHANGED <<sink, enqueued, forward, reliable, called, stopRequested, server>>

-----------------------------------------------------------------------------
(* forward_events *)

\* recv, try_recv, or the recv that waits for INGEST_BATCH_MAX_DELAY.
TakeEvent ==
  /\ forwarder \in {"recv", "fill"} /\ Len(batch) < BatchMax
  /\ events # <<>>
  /\ batch' = Append(batch, Head(events)) /\ events' = Tail(events)
  /\ forwarder' = "fill"
  /\ UNCHANGED <<recorder, inputClosed, calls, stopRequested, server>>

\* Mutant: the loop ends when the input has closed, with a batch in hand.
BatchReady_DropsLast ==
  /\ forwarder = "fill"
  /\ inputClosed' = (Len(batch) < BatchMax /\ events = <<>> /\ sink = "dropped")
  /\ forwarder' = IF inputClosed' THEN "close" ELSE "send"
  /\ UNCHANGED <<recorder, events, batch, calls, stopRequested, server>>

\* The batch is full, its time is up, or no event will come any more.
BatchReady ==
  /\ forwarder = "fill"
  /\ inputClosed' \in
       {FALSE, Len(batch) < BatchMax /\ events = <<>> /\ sink = "dropped"}
  /\ forwarder' = "send"
  /\ UNCHANGED <<recorder, events, batch, calls, stopRequested, server>>

SendBatch ==
  /\ forwarder = "send" /\ serverRx /\ Len(wire) < Credit
  /\ wire' = Append(wire, batch) /\ batch' = <<>>
  /\ forwarder' = IF inputClosed THEN "close" ELSE "recv"
  /\ UNCHANGED <<recorder, events, inputClosed, calls, stopRequested, serverRx,
                 applied>>

\* The server has dropped its Rx.
SendFails ==
  /\ forwarder = "send" /\ ~serverRx
  /\ stopRequested' = TRUE /\ batch' = <<>>
  /\ forwarder' = "close"
  /\ UNCHANGED <<recorder, events, inputClosed, calls, server>>

\* recv finds the channel empty and the sink gone.
InputEnds ==
  /\ forwarder = "recv" /\ events = <<>> /\ sink = "dropped"
  /\ forwarder' = "close"
  /\ UNCHANGED <<recorder, events, batch, inputClosed, calls, stopRequested,
                 server>>

\* vox_tx.close, after what was sent; what is queued by now is dropped.
CloseTx ==
  /\ forwarder = "close"
  /\ stopRequested' = TRUE
  /\ events' = <<>> /\ forwarder' = "done"
  /\ UNCHANGED <<recorder, batch, inputClosed, calls, server>>

-----------------------------------------------------------------------------
(* The reliable forwarder *)

TakeRequest ==
  /\ reliable = "recv"
  /\ reliable' = IF requests # <<>> THEN "call" ELSE "done"
  /\ requests # <<>> \/ sink = "dropped"
  /\ UNCHANGED <<recorder, forward, requests, called, stopRequested, server>>

\* Mutant: a call that failed is made again after those behind it.
MakeCall_RetriesLater ==
  /\ reliable = "call"
  /\ \/ /\ called' = Append(called, Head(requests))
        /\ requests' = Tail(requests)
        /\ UNCHANGED stopRequested
     \/ /\ requests' = Append(Tail(requests), Head(requests))
        /\ stopRequested' = TRUE
        /\ UNCHANGED called
  /\ reliable' = "recv"
  /\ UNCHANGED <<recorder, forward, server>>

\* A call that fails asks the recorder to stop; the next is made all the same.
MakeCall ==
  /\ reliable = "call"
  /\ requests' = Tail(requests)
  /\ \/ called' = Append(called, Head(requests)) /\ UNCHANGED stopRequested
     \/ stopRequested' = TRUE /\ UNCHANGED called
  /\ reliable' = "recv"
  /\ UNCHANGED <<recorder, forward, server>>

\* The task spawn_forwarders returns: both forwarders have ended.
Joined == forwarder = "done" /\ reliable = "done"

-----------------------------------------------------------------------------
(* The server's drainer (RunRegistry) *)

ServerApplies ==
  /\ serverRx /\ wire # <<>>
  /\ applied' = applied \o Head(wire) /\ wire' = Tail(wire)
  /\ UNCHANGED <<recorder, forward, calls, stopRequested, serverRx>>

\* The run was stopped, or the server died.
ServerDropsRx ==
  /\ serverRx
  /\ serverRx' = FALSE /\ wire' = <<>>
  /\ UNCHANGED <<recorder, forward, calls, stopRequested, applied>>

-----------------------------------------------------------------------------
Forwarder == TakeEvent \/ BatchReady \/ SendBatch \/ SendFails \/ InputEnds \/ CloseTx

Reliable == TakeRequest \/ MakeCall

Emit == EnqueueEvent \/ EnqueueReliable

-----------------------------------------------------------------------------
(* Properties *)

UpTo(n) == [i \in 1..n |-> i]

IsIncreasing(s) == \A i, j \in DOMAIN s : i < j => s[i] < s[j]

\* What the server has taken of a run is a prefix of what the recorder saw,
\* with no event missing before one that is there, and while it listens no
\* event is lost on the way, although the sink may be dropped while a batch is
\* being filled; the calls it accepted are in the order they were asked for.
IngestInOrder ==
  /\ IF serverRx
     THEN applied \o FlattenSeq(wire) \o batch \o events = UpTo(enqueued)
     ELSE IsPrefix(applied, UpTo(enqueued))
  /\ forwarder = "done" /\ serverRx => applied \o FlattenSeq(wire) = UpTo(enqueued)
  /\ IsIncreasing(called \o requests)
=============================================================================
