---------------------------- MODULE StaxdClient -----------------------------
(***************************************************************************)
(* One recording session seen from the client of staxd                     *)
(* (staxd-client/src/lib.rs: drive_session_with_hooks and the two threads  *)
(* it starts).  The session task only receives: it hands every batch to    *)
(* the probe scanner and to the parser worker through queues that drop     *)
(* their oldest batch when they are full, and it leaves the parser worker  *)
(* a bounded time to work off its queue when the session ends.             *)
(*                                                                         *)
(* A batch is its number, and holds one record: Kind says what the record  *)
(* is to KperfProbeTriggerScanner.  An empty batch differs from one whose  *)
(* record is "other" only in what is counted.  The daemon is an            *)
(* environment that keeps what StaxdDrain shows of it.  Statistics that    *)
(* are only logged (depths and ages of the queues) are left out, and so    *)
(* are the Disconnected answers to the enqueuer, which holds both ends.    *)
(***************************************************************************)
EXTENDS Naturals, Sequences, FiniteSets, SequencesExt

CONSTANTS
  MaxBatches,   \* bound: batches the daemon ever sends
  Capacity,     \* WORKER_QUEUE_CAPACITY, PROBE_SCANNER_QUEUE_CAPACITY, by queue
  Kind          \* what the batch's record is, by batch

Queue == {"scanner", "parser"}

ASSUME ClientAssumption ==
  /\ MaxBatches \in Nat
  /\ Capacity \in [Queue -> Nat \ {0}]
  /\ Kind \in [1..MaxBatches -> {"start", "user", "end", "other"}]

VARIABLES
  \* the daemon, and whoever may end the session
  sent,        \* batches the daemon has sent
  wire,        \* batches on the records channel
  record,      \* the record call: "none", "pending", or how it has returned
  told,        \* the daemon has handled stop_recording
  asked,       \* should_stop answers true, or opts.duration has elapsed
  \* session task
  client,      \* where it is
  hand,        \* the batch it hands out; 0 is none
  to,          \* the queue it hands it to
  received,    \* batches it has received
  outcome,     \* what it has returned
  \* the queues
  queue, dropped, open,
  \* parser worker
  worker, parsing,   \* where it is, and the batch in its hand
  processed,   \* batches the pipeline has processed, in order
  abort,       \* abort_worker_backlog
  \* probe scanner
  scanner, pending, triggers

daemon    == <<sent, wire, record, told>>
session   == <<client, hand, to, received, outcome>>
parser    == <<worker, parsing, processed>>
probe     == <<scanner, pending, triggers>>
vars      == <<daemon, asked, session, queue, dropped, open, parser, abort, probe>>

NoSample == [tid |-> 0, triggered |-> FALSE]

Init ==
  /\ sent = 0 /\ wire = <<>> /\ record = "none" /\ told = FALSE
  /\ asked = FALSE
  /\ client = "connect" /\ hand = 0 /\ to = "scanner" /\ received = 0
  /\ outcome = "none"
  /\ queue = [q \in Queue |-> <<>>] /\ dropped = [q \in Queue |-> {}]
  /\ open = FALSE
  /\ worker = "none" /\ parsing = 0 /\ processed = <<>>
  /\ abort = FALSE
  /\ scanner = "none" /\ pending = NoSample /\ triggers = <<>>

TypeOK ==
  /\ sent \in 0..MaxBatches /\ received \in 0..sent
  /\ wire \in Seq(1..sent)
  /\ record \in {"none", "pending", "ok", "user", "failed"}
  /\ {told, asked, open, abort} \subseteq BOOLEAN
  /\ client \in {"connect", "status", "start", "loop", "recv", "send", "evict",
                 "stop", "close", "rpc", "scanner", "budget", "grace", "done"}
  /\ hand \in 0..received /\ to \in Queue
  /\ outcome \in {"none", "ok", "failed", "timedOut"}
  /\ \A q \in Queue : Len(queue[q]) <= Capacity[q]
  /\ worker \in {"none", "top", "recv", "check", "process", "finish", "finished",
                 "aborted"}
  /\ scanner \in {"none", "recv", "done"}

-----------------------------------------------------------------------------
(* The environment *)

Ask ==
  /\ ~asked
  /\ asked' = TRUE
  /\ UNCHANGED <<daemon, session, queue, dropped, open, parser, abort, probe>>

DaemonSends ==
  /\ record = "pending" /\ sent < MaxBatches
  /\ sent' = sent + 1 /\ wire' = Append(wire, sent + 1)
  /\ UNCHANGED <<record, told, asked, session, queue, dropped, open, parser,
                 abort, probe>>

\* The record call returns: because the session was stopped, because the
\* client's end is gone, or because the daemon or the connection fails.
DaemonReturns ==
  /\ record = "pending"
  /\ record' \in {"ok", "user", "failed"}
  /\ wire' \in IF record' = "failed" THEN {wire, <<>>} ELSE {wire}
  /\ UNCHANGED <<sent, told, asked, session, queue, dropped, open, parser,
                 abort, probe>>

-----------------------------------------------------------------------------
(* drive_session_with_hooks *)

Returns(result) == client' = "done" /\ outcome' = result

\* vox::connect.
Connect ==
  /\ client = "connect"
  /\ \/ client' = "status" /\ UNCHANGED outcome
     \/ Returns("failed")
  /\ UNCHANGED <<daemon, asked, hand, to, received, queue, dropped, open,
                 parser, abort, probe>>

\* client.status(), then the queues and the parser worker.
SpawnWorker ==
  /\ client = "status"
  /\ \/ Returns("failed") /\ UNCHANGED <<worker, open>>
     \/ /\ client' = "start" /\ worker' = "top" /\ open' = TRUE
        /\ UNCHANGED outcome
  /\ UNCHANGED <<daemon, asked, hand, to, received, queue, dropped, parsing,
                 processed, abort, probe>>

\* The probe scanner and the record call.  Returning drops the queues.
SpawnRecord ==
  /\ client = "start"
  /\ \/ /\ Returns("failed") /\ open' = FALSE
        /\ UNCHANGED <<scanner, record>>
     \/ /\ client' = "loop" /\ scanner' = "recv" /\ record' = "pending"
        /\ UNCHANGED <<outcome, open>>
  /\ UNCHANGED <<sent, wire, told, asked, hand, to, received, queue, dropped,
                 parser, abort, pending, triggers>>

\* The top of the loop.
CheckStop ==
  /\ client = "loop"
  /\ client' = IF asked THEN "stop" ELSE "recv"
  /\ UNCHANGED <<daemon, asked, hand, to, received, outcome, queue, dropped,
                 open, parser, abort, probe>>

\* stop_recording().await; whether it succeeds does not matter.
StopRecording ==
  /\ client = "stop"
  /\ told' \in {told, record = "pending"}
  /\ client' = "close"
  /\ UNCHANGED <<sent, wire, record, asked, hand, to, received, outcome, queue,
                 dropped, open, parser, abort, probe>>

Recv ==
  /\ client = "recv" /\ wire # <<>>
  /\ hand' = Head(wire) /\ wire' = Tail(wire)
  /\ received' = received + 1
  /\ to' = "scanner" /\ client' = "send"
  /\ UNCHANGED <<sent, record, told, asked, outcome, queue, dropped, open,
                 parser, abort, probe>>

RecvTimeout ==
  /\ client = "recv" /\ wire = <<>> /\ record = "pending"
  /\ client' = "loop"
  /\ UNCHANGED <<daemon, asked, hand, to, received, outcome, queue, dropped,
                 open, parser, abort, probe>>

\* The daemon closed the channel, or recv failed.
RecvClosed ==
  /\ client = "recv" /\ wire = <<>> /\ record # "pending"
  /\ client' = "close"
  /\ UNCHANGED <<daemon, asked, hand, to, received, outcome, queue, dropped,
                 open, parser, abort, probe>>

-----------------------------------------------------------------------------
(* enqueue_batch and enqueue_chunk_drop_oldest, against the two threads *)

TrySend ==
  /\ client = "send"
  /\ IF Len(queue[to]) = Capacity[to]
     THEN client' = "evict" /\ UNCHANGED <<queue, hand, to>>
     ELSE /\ queue' = [queue EXCEPT ![to] = Append(@, hand)]
          /\ IF to = "scanner"
             THEN to' = "parser" /\ UNCHANGED <<hand, client>>
             ELSE hand' = 0 /\ client' = "loop" /\ UNCHANGED to
  /\ UNCHANGED <<daemon, asked, received, outcome, dropped, open, parser, abort,
                 probe>>

\* Mutant: what is evicted is not counted.
Evict_Uncounted ==
  /\ client = "evict"
  /\ queue' = [queue EXCEPT ![to] = IF @ = <<>> THEN @ ELSE Tail(@)]
  /\ client' = "send"
  /\ UNCHANGED <<daemon, asked, hand, to, received, outcome, dropped, open,
                 parser, abort, probe>>

\* Mutant: the evicted batch goes back behind the others.
Evict_Requeue ==
  /\ client = "evict"
  /\ queue' = [queue EXCEPT ![to] = IF @ = <<>> THEN @
                                    ELSE Append(Tail(@), Head(@))]
  /\ client' = "send"
  /\ UNCHANGED <<daemon, asked, hand, to, received, outcome, dropped, open,
                 parser, abort, probe>>

\* The reader may have emptied the queue since try_send found it full.
Evict ==
  /\ client = "evict"
  /\ IF queue[to] = <<>> THEN UNCHANGED <<queue, dropped>>
     ELSE /\ queue' = [queue EXCEPT ![to] = Tail(@)]
          /\ dropped' = [dropped EXCEPT ![to] = @ \union {Head(queue[to])}]
  /\ client' = "send"
  /\ UNCHANGED <<daemon, asked, hand, to, received, outcome, open, parser,
                 abort, probe>>

-----------------------------------------------------------------------------
(* The end of the session *)

\* Drop Rx and the ends of the two queues.
CloseQueues ==
  /\ client = "close"
  /\ open' = FALSE /\ client' = "rpc"
  /\ UNCHANGED <<daemon, asked, hand, to, received, outcome, queue, dropped,
                 parser, abort, probe>>

\* record_fut.await has no deadline.
RecordReturned ==
  /\ client = "rpc" /\ record # "pending"
  /\ client' = "scanner"
  /\ UNCHANGED <<daemon, asked, hand, to, received, outcome, queue, dropped,
                 open, parser, abort, probe>>

\* scanner_handle.join() has none either.
JoinScanner ==
  /\ client = "scanner" /\ scanner = "done"
  /\ client' = "budget"
  /\ UNCHANGED <<daemon, asked, hand, to, received, outcome, queue, dropped,
                 open, parser, abort, probe>>

WorkerDone == worker \in {"finished", "aborted"}

\* The worker ends within the budget or the grace period.
JoinWorker ==
  /\ client \in {"budget", "grace"} /\ WorkerDone
  /\ Returns(IF record = "ok" THEN "ok" ELSE "failed")
  /\ UNCHANGED <<daemon, asked, hand, to, received, queue, dropped, open,
                 parser, abort, probe>>

\* Mutant: the session waits for the worker as long as it takes.
BudgetSpent_Waits ==
  /\ client = "budget" /\ ~WorkerDone
  /\ abort' = TRUE /\ client' = "budget"
  /\ UNCHANGED <<daemon, asked, hand, to, received, outcome, queue, dropped,
                 open, parser, probe>>

\* WORKER_SHUTDOWN_BUDGET has passed: ask the worker to give up its queue.
BudgetSpent ==
  /\ client = "budget" /\ ~WorkerDone
  /\ abort' = TRUE /\ client' = "grace"
  /\ UNCHANGED <<daemon, asked, hand, to, received, outcome, queue, dropped,
                 open, parser, probe>>

\* WORKER_ABORT_GRACE has passed too: the worker is left to itself.
GraceSpent ==
  /\ client = "grace" /\ ~WorkerDone
  /\ Returns(IF record = "ok" THEN "timedOut" ELSE "failed")
  /\ UNCHANGED <<daemon, asked, hand, to, received, queue, dropped, open,
                 parser, abort, probe>>

-----------------------------------------------------------------------------
(* worker_thread *)

\* drain_parser_backlog_for_abort, and return without finish.  A batch that
\* is in the worker's hand is given up without being counted.
DropBacklog ==
  /\ dropped' = [dropped EXCEPT !["parser"] = @ \union ToSet(queue["parser"])]
  /\ queue' = [queue EXCEPT !["parser"] = <<>>]
  /\ worker' = "aborted"
  /\ parsing' = 0

CheckAbort ==
  /\ worker = "top"
  /\ IF abort THEN DropBacklog
     ELSE worker' = "recv" /\ UNCHANGED <<queue, dropped, parsing>>
  /\ UNCHANGED <<daemon, asked, session, open, processed, abort, probe>>

\* recv_timeout: a batch, the timeout (and Pipeline::tick), or the end of an
\* emptied queue.
WorkerRecv ==
  /\ worker = "recv"
  /\ IF queue["parser"] # <<>>
     THEN /\ parsing' = Head(queue["parser"])
          /\ queue' = [queue EXCEPT !["parser"] = Tail(@)]
          /\ worker' = "check"
     ELSE /\ worker' = IF open THEN "top" ELSE "finish"
          /\ UNCHANGED <<queue, parsing>>
  /\ UNCHANGED <<daemon, asked, session, dropped, open, processed, abort, probe>>

\* The flag may have been set while the worker waited for the batch.
CheckAbortAgain ==
  /\ worker = "check"
  /\ IF abort THEN DropBacklog
     ELSE worker' = "process" /\ UNCHANGED <<queue, dropped, parsing>>
  /\ UNCHANGED <<daemon, asked, session, open, processed, abort, probe>>

\* Pipeline::process_records and Pipeline::tick.
Process ==
  /\ worker = "process"
  /\ processed' = Append(processed, parsing)
  /\ parsing' = 0 /\ worker' = "top"
  /\ UNCHANGED <<daemon, asked, session, queue, dropped, open, abort, probe>>

\* The last look at the flag, then Pipeline::finish.
Finish ==
  /\ worker = "finish"
  /\ IF abort THEN DropBacklog
     ELSE worker' = "finished" /\ UNCHANGED <<queue, dropped, parsing>>
  /\ UNCHANGED <<daemon, asked, session, open, processed, abort, probe>>

-----------------------------------------------------------------------------
(* probe_scanner_thread *)

\* Mutant: the end of a sample does not close it.
Feed_KeepsEnded(b) ==
  CASE Kind[b] = "start" ->
         pending' = [tid |-> b, triggered |-> FALSE] /\ UNCHANGED triggers
    [] Kind[b] = "user" /\ pending.tid # 0 /\ ~pending.triggered ->
         /\ pending' = [pending EXCEPT !.triggered = TRUE]
         /\ triggers' = Append(triggers, <<pending.tid, b>>)
    [] OTHER -> UNCHANGED <<pending, triggers>>

\* KperfProbeTriggerScanner::feed: a sample starts, its user stack header
\* with a frame in it triggers the probe once, the sample ends.
Feed(b) ==
  CASE Kind[b] = "start" ->
         pending' = [tid |-> b, triggered |-> FALSE] /\ UNCHANGED triggers
    [] Kind[b] = "end" -> pending' = NoSample /\ UNCHANGED triggers
    [] Kind[b] = "user" /\ pending.tid # 0 /\ ~pending.triggered ->
         /\ pending' = [pending EXCEPT !.triggered = TRUE]
         /\ triggers' = Append(triggers, <<pending.tid, b>>)
    [] OTHER -> UNCHANGED <<pending, triggers>>

Scan ==
  /\ scanner = "recv"
  /\ IF queue["scanner"] # <<>>
     THEN /\ Feed(Head(queue["scanner"]))
          /\ queue' = [queue EXCEPT !["scanner"] = Tail(@)]
          /\ UNCHANGED scanner
     ELSE ~open /\ scanner' = "done" /\ UNCHANGED <<queue, pending, triggers>>
  /\ UNCHANGED <<daemon, asked, session, dropped, open, parser, abort>>

-----------------------------------------------------------------------------
Session ==
  \/ Connect \/ SpawnWorker \/ SpawnRecord \/ CheckStop \/ StopRecording
  \/ Recv \/ RecvTimeout \/ RecvClosed \/ TrySend \/ Evict \/ CloseQueues
  \/ RecordReturned \/ JoinScanner \/ JoinWorker \/ BudgetSpent \/ GraceSpent

Worker == CheckAbort \/ WorkerRecv \/ CheckAbortAgain \/ Process \/ Finish

Next == Ask \/ DaemonSends \/ DaemonReturns \/ Session \/ Worker \/ Scan

Spec == Init /\ [][Next]_vars

\* The session task and the scanner run.  The daemon ends a session that was
\* stopped or whose client is gone (StaxdDrain: StopEndsSession and
\* VanishedClientEndsSession); rx is dropped in CloseQueues.  The pipeline
\* reads files and other processes and need not come back.
Fairness ==
  /\ WF_vars(Session) /\ WF_vars(Scan)
  /\ WF_vars((told \/ client = "rpc") /\ DaemonReturns)

FairSpec == Spec /\ Fairness

-----------------------------------------------------------------------------
(* Properties *)

\* The batches the worker, the queue and the session task hold, oldest first.
InFlight ==
  (IF parsing = 0 THEN <<>> ELSE <<parsing>>) \o queue["parser"]
    \o (IF hand = 0 THEN <<>> ELSE <<hand>>)

\* Every batch the session has received is processed, counted as dropped or
\* in flight, and only one of them, except the single batch an aborted worker
\* may have had in its hand; a pipeline that was finished has seen all that
\* was not counted.
BatchesAccountedFor ==
  LET known == ToSet(processed) \union dropped["parser"] \union ToSet(InFlight)
  IN /\ Cardinality((1..received) \ known) <= (IF worker = "aborted" THEN 1 ELSE 0)
     /\ Len(processed) + Cardinality(dropped["parser"]) + Len(InFlight)
          = Cardinality(known)
     /\ worker = "finished" => InFlight = <<>>

\* The path to the pipeline implements LossyFifo: batches are lost, but never
\* reordered or processed twice.
Fifo == INSTANCE LossyFifo WITH
  Batch <- 1..MaxBatches, flight <- InFlight, delivered <- processed

ImplementsFifo == Fifo!Spec

\* A probe is triggered at most once per sample, by a stack header of that
\* sample: nothing that ends the sample came between, unless the queue
\* dropped it.
ProbesTrue ==
  \A i \in DOMAIN triggers :
    LET start == triggers[i][1]
        user  == triggers[i][2]
    IN /\ \A j \in DOMAIN triggers : triggers[j][1] = start => j = i
       /\ \A b \in (start + 1)..(user - 1) :
            Kind[b] \in {"start", "end"} => b \in dropped["scanner"]

\* A session that is asked to stop, or whose record call returns, returns to
\* its caller, even when the pipeline hangs in one of its scans.
SessionReturns == (asked \/ record \in {"ok", "user", "failed"}) ~> (client = "done")
=============================================================================
