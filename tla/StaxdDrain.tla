----------------------------- MODULE StaxdDrain -----------------------------
(***************************************************************************)
(* One record session of staxd once kperf and kdebug are configured        *)
(* (staxd/src/session.rs: drain, drain_kdebug_loop, BatchSendQueue and     *)
(* send_batches).  Three actors share the session's cancel flag: the drain *)
(* thread, which reads the kernel ring buffer and must never wait for the  *)
(* client; the sender task, which waits for the client's credit; and the   *)
(* supervisor, which joins the thread and gives the sender a bounded time  *)
(* to flush.                                                               *)
(*                                                                         *)
(* A record is a number, a batch the set of the records in it; {} is the   *)
(* batch that announces readiness or a heartbeat.  Timestamps, log lines   *)
(* and KperfSampleAgeScanner (whose result is dropped) are left out, and   *)
(* so is the backing off between empty reads, which only delays.  The      *)
(* Disconnected answers of flume cannot happen: the queue owns both ends.  *)
(***************************************************************************)
EXTENDS Naturals, Sequences, FiniteSets, SequencesExt

CONSTANTS
  MaxRecords,      \* bound: records the kernel ever traces
  Capacity,        \* SEND_QUEUE_CAPACITY
  BufRecords,      \* SessionConfig::buf_records
  MinBatch,        \* MIN_DRAIN_READ_BATCH_RECORDS
  MaxBatch         \* MAX_DRAIN_READ_BATCH_RECORDS

ASSUME DrainAssumption ==
  /\ {MaxRecords, BufRecords} \subseteq Nat
  /\ {Capacity, MinBatch, MaxBatch} \subseteq Nat \ {0}
  /\ MinBatch <= MaxBatch

VARIABLES
  traced,      \* records the kernel has put into the ring buffer
  drained,     \* records read from it (total_drained)
  cancel,      \* the session's cancel flag
  \* drain thread
  loop,        \* where it is: "check" is the top of the loop
  readSize,    \* read_batch_records
  due,         \* last_empty_heartbeat has elapsed
  offer,       \* the batch enqueue_drop_oldest holds
  dropped,     \* records counted in SendDropStats::dropped_records
  \* the flume channel and the sender task
  queue, sender, sending,
  received,    \* non-empty batches the client got, in order
  lost,        \* records given up when the sender ended early
  \* supervisor and client
  supervisor, client

thread == <<drained, loop, readSize, due, offer, dropped>>
task   == <<sender, sending, received, lost>>
vars   == <<traced, cancel, thread, queue, task, supervisor, client>>

-----------------------------------------------------------------------------
Smaller(a, b) == IF a < b THEN a ELSE b
Larger(a, b)  == IF a > b THEN a ELSE b

MinReadSize == Larger(Smaller(MinBatch, BufRecords), 1)
MaxReadSize == Larger(Smaller(MaxBatch, BufRecords), MinReadSize)

Batch == SUBSET (1..MaxRecords)

TypeOK ==
  /\ traced \in 0..MaxRecords /\ drained \in 0..traced
  /\ cancel \in BOOLEAN
  /\ loop \in {"check", "read", "offer", "evict", "ended", "failed"}
  /\ readSize \in MinReadSize..MaxReadSize
  /\ due \in BOOLEAN
  /\ offer \in Batch
  /\ dropped \in Nat
  /\ queue \in Seq(Batch) /\ Len(queue) <= Capacity
  /\ sender \in {"recv", "send", "flushed", "closed", "aborted"}
  /\ sending \in Batch
  /\ received \in Seq(Batch)
  /\ lost \in Nat
  /\ supervisor \in {"join", "flush", "done"}
  /\ client \in {"open", "closed"}

\* drain has queued the ready batch and started the sender and the thread.
Init ==
  /\ traced = 0 /\ drained = 0
  /\ cancel = FALSE
  /\ loop = "check" /\ readSize = MinReadSize /\ due = FALSE
  /\ offer = {} /\ dropped = 0
  /\ queue = <<{}>>
  /\ sender = "recv" /\ sending = {} /\ received = <<>> /\ lost = 0
  /\ supervisor = "join" /\ client = "open"

SenderDone == sender \in {"flushed", "closed", "aborted"}

-----------------------------------------------------------------------------
(* The environment: the kernel, the client and stop_recording. *)

Trace ==
  /\ traced < MaxRecords
  /\ traced' = traced + 1
  /\ UNCHANGED <<cancel, thread, queue, task, supervisor, client>>

\* The client drops its end of the channel, exits, or fails its keepalive.
ClientCloses ==
  /\ client = "open"
  /\ client' = "closed"
  /\ UNCHANGED <<traced, cancel, thread, queue, task, supervisor>>

\* Staxd::stop_recording.  It read the slot before, so it may come late.
StopRecording ==
  /\ ~cancel
  /\ cancel' = TRUE
  /\ UNCHANGED <<traced, thread, queue, task, supervisor, client>>

\* EMPTY_HEARTBEAT_PERIOD has passed since the last heartbeat or record.
HeartbeatDue ==
  /\ ~due /\ loop \notin {"ended", "failed"}
  /\ due' = TRUE
  /\ UNCHANGED <<traced, cancel, drained, loop, readSize, offer, dropped,
                 queue, task, supervisor, client>>

-----------------------------------------------------------------------------
(* drain_kdebug_loop *)

\* Mutant: the stop is noticed only while records keep coming.
CheckCancel_BusyOnly ==
  /\ loop = "check"
  /\ loop' = IF cancel /\ traced > drained THEN "ended" ELSE "read"
  /\ UNCHANGED <<traced, cancel, drained, readSize, due, offer, dropped, queue,
                 task, supervisor, client>>

\* The two loads of the flag before a read.
CheckCancel ==
  /\ loop = "check"
  /\ loop' = IF cancel THEN "ended" ELSE "read"
  /\ UNCHANGED <<traced, cancel, drained, readSize, due, offer, dropped, queue,
                 task, supervisor, client>>

ReadFails ==
  /\ loop = "read"
  /\ loop' = "failed"
  /\ UNCHANGED <<traced, cancel, drained, readSize, due, offer, dropped, queue,
                 task, supervisor, client>>

\* Mutant: an idle session sends nothing.
ReadNothing_Silent ==
  /\ loop = "read"
  /\ traced = drained
  /\ readSize' = MinReadSize
  /\ loop' = "check"
  /\ UNCHANGED <<traced, cancel, drained, due, offer, dropped, queue, task,
                 supervisor, client>>

\* read_trace returned no record: send a heartbeat if one is due.
ReadNothing ==
  /\ loop = "read"
  /\ traced = drained
  /\ readSize' = MinReadSize
  /\ IF due THEN offer' = {} /\ due' = FALSE /\ loop' = "offer"
            ELSE loop' = "check" /\ UNCHANGED <<offer, due>>
  /\ UNCHANGED <<traced, cancel, drained, dropped, queue, task, supervisor,
                 client>>

\* Mutant: the doubled size is not limited to the buffer.
NextReadSize_NoLimit(n) ==
  CASE n = readSize -> 2 * readSize
    [] n < readSize \div 4 /\ readSize > MinReadSize ->
         Larger(readSize \div 2, MinReadSize)
    [] OTHER -> readSize

\* The size of the next read after n records were read.
NextReadSize(n) ==
  CASE n = readSize /\ readSize < MaxReadSize ->
         Smaller(2 * readSize, MaxReadSize)
    [] n < readSize \div 4 /\ readSize > MinReadSize ->
         Larger(readSize \div 2, MinReadSize)
    [] OTHER -> readSize

\* read_trace returned n > 0 records, the oldest in the ring buffer.
ReadRecords(n) ==
  /\ loop = "read"
  /\ n <= readSize /\ n <= traced - drained
  /\ readSize' = NextReadSize(n)
  /\ drained' = drained + n
  /\ offer' = (drained + 1)..(drained + n)
  /\ due' = FALSE
  /\ loop' = "offer"
  /\ UNCHANGED <<traced, cancel, dropped, queue, task, supervisor, client>>

-----------------------------------------------------------------------------
(* BatchSendQueue::enqueue_drop_oldest, against the sender's recv_async. *)

\* try_send.  An empty batch is dropped when the queue is full.
TrySend ==
  /\ loop = "offer"
  /\ IF Len(queue) < Capacity
     THEN queue' = Append(queue, offer) /\ offer' = {} /\ loop' = "check"
     ELSE /\ loop' = IF offer = {} THEN "check" ELSE "evict"
          /\ UNCHANGED <<queue, offer>>
  /\ UNCHANGED <<traced, cancel, drained, readSize, due, dropped, task,
                 supervisor, client>>

\* Mutant: the thread waits for room instead of evicting.
Evict_Waits ==
  /\ loop = "evict"
  /\ Len(queue) < Capacity
  /\ loop' = "offer"
  /\ UNCHANGED <<traced, cancel, drained, readSize, due, offer, dropped, queue,
                 task, supervisor, client>>

\* Mutant: the evicted batch is not counted.
Evict_Uncounted ==
  /\ loop = "evict"
  /\ queue' = IF queue = <<>> THEN queue ELSE Tail(queue)
  /\ loop' = "offer"
  /\ UNCHANGED <<traced, cancel, drained, readSize, due, offer, dropped, task,
                 supervisor, client>>

\* Mutant: the evicted batch is put back behind the others.
Evict_Requeue ==
  /\ loop = "evict"
  /\ queue' = IF queue = <<>> THEN queue ELSE Append(Tail(queue), Head(queue))
  /\ loop' = "offer"
  /\ UNCHANGED <<traced, cancel, drained, readSize, due, offer, dropped, task,
                 supervisor, client>>

\* try_recv and record_drop, then another try_send.  The sender may have
\* emptied the queue since it was found full.
Evict ==
  /\ loop = "evict"
  /\ IF queue = <<>> THEN UNCHANGED <<queue, dropped>>
     ELSE /\ queue' = Tail(queue)
          /\ dropped' = dropped + Cardinality(Head(queue))
  /\ loop' = "offer"
  /\ UNCHANGED <<traced, cancel, drained, readSize, due, offer, task,
                 supervisor, client>>

-----------------------------------------------------------------------------
(* send_batches *)

\* Mutant: the sender ends with the thread and leaves the queue behind.
Recv_EndsWithThread ==
  /\ sender = "recv"
  /\ IF loop \in {"ended", "failed"}
     THEN sender' = "flushed" /\ UNCHANGED <<sending, queue>>
     ELSE /\ queue # <<>>
          /\ sending' = Head(queue) /\ queue' = Tail(queue)
          /\ sender' = "send"
  /\ UNCHANGED <<traced, cancel, thread, received, lost, supervisor, client>>

\* recv_async: the next batch, or the end once the thread has dropped the
\* queue and what was in it has been taken.
Recv ==
  /\ sender = "recv"
  /\ \/ /\ queue # <<>>
        /\ sending' = Head(queue) /\ queue' = Tail(queue)
        /\ sender' = "send"
     \/ /\ queue = <<>> /\ loop \in {"ended", "failed"}
        /\ sender' = "flushed"
        /\ UNCHANGED <<sending, queue>>
  /\ UNCHANGED <<traced, cancel, thread, received, lost, supervisor, client>>

\* The client granted credit.
SendOk ==
  /\ sender = "send" /\ client = "open"
  /\ received' = IF sending = {} THEN received ELSE Append(received, sending)
  /\ sending' = {}
  /\ sender' = "recv"
  /\ UNCHANGED <<traced, cancel, thread, queue, lost, supervisor, client>>

\* The client is gone: stop the session and end.  The batch in hand is lost,
\* and what is queued then or later stays in the queue until it is dropped.
SendFails ==
  /\ sender = "send" /\ client = "closed"
  /\ cancel' = TRUE
  /\ sender' = "closed"
  /\ lost' = lost + Cardinality(sending)
  /\ sending' = {}
  /\ UNCHANGED <<traced, thread, queue, received, supervisor, client>>

-----------------------------------------------------------------------------
(* drain, after it has started the thread *)

\* The thread has returned.
Join ==
  /\ supervisor = "join"
  /\ loop \in {"ended", "failed"}
  /\ supervisor' = "flush"
  /\ UNCHANGED <<traced, cancel, thread, queue, task, client>>

\* The sender ended within SEND_FLUSH_BUDGET.
Flushed ==
  /\ supervisor = "flush" /\ SenderDone
  /\ supervisor' = "done"
  /\ UNCHANGED <<traced, cancel, thread, queue, task, client>>

\* The budget is spent: the sender is aborted.
FlushTimeout ==
  /\ supervisor = "flush" /\ ~SenderDone
  /\ sender' = "aborted"
  /\ lost' = lost + Cardinality(sending)
  /\ sending' = {}
  /\ supervisor' = "done"
  /\ UNCHANGED <<traced, cancel, thread, queue, received, client>>

-----------------------------------------------------------------------------
DrainThread ==
  \/ CheckCancel \/ ReadFails \/ ReadNothing
  \/ \E n \in 1..MaxRecords : ReadRecords(n)
  \/ TrySend \/ Evict

Sender == Recv \/ SendOk \/ SendFails

Supervisor == Join \/ Flushed \/ FlushTimeout

Next ==
  \/ Trace \/ ClientCloses \/ StopRecording \/ HeartbeatDue
  \/ DrainThread \/ Sender \/ Supervisor

Spec == Init /\ [][Next]_vars

\* The thread and the supervisor run, time passes, and a send on a channel
\* whose peer is gone fails (the sessions are non_resumable and keep alive).
\* A client that is there need not grant credit, so SendOk is not fair.
Fairness ==
  /\ WF_vars(DrainThread) /\ WF_vars(HeartbeatDue)
  /\ WF_vars(Recv) /\ WF_vars(SendFails)
  /\ WF_vars(Supervisor)

FairSpec == Spec /\ Fairness

-----------------------------------------------------------------------------
(* Safety *)

\* The batches the sender, the queue and the thread hold, oldest first.
InFlight == <<sending>> \o queue \o <<offer>>

\* Every drained record is with the client, counted as dropped, given up
\* because the sender ended early, or still on its way; nothing is counted
\* twice although the thread and the sender both take from the queue.
RecordsAccountedFor ==
  drained = Cardinality(UNION Range(received)) + dropped + lost
            + Cardinality(UNION Range(InFlight))

\* A session the client sees through to a flushed end has lost only what it
\* counted.
FlushedMeansDelivered ==
  sender = "flushed" =>
    drained = Cardinality(UNION Range(received)) + dropped

\* A heartbeat is no batch to the reader of the queue.
Sent(b) == IF b = {} THEN <<>> ELSE <<b>>

NonEmpty(s) == FlattenSeq([i \in DOMAIN s |-> Sent(s[i])])

\* The queue is a lossy FIFO: evicting on one side while the sender takes on
\* the same side neither reorders batches nor delivers one twice.
Fifo == INSTANCE LossyFifo WITH
  flight <- NonEmpty(InFlight),
  delivered <- received

ImplementsFifo == Fifo!Spec

-----------------------------------------------------------------------------
(* Liveness *)

\* The thread never waits for the client: a batch it holds is queued even if
\* the client grants no credit.
DrainNeverBlocks == (loop \in {"offer", "evict"}) ~> (loop = "check")

\* A session whose client is gone ends, even when the target is idle: that is
\* what the heartbeats are for.
VanishedClientEndsSession == (client = "closed") ~> (supervisor = "done")

\* A stopped session ends, even when the client grants no more credit.
StopEndsSession == cancel ~> (supervisor = "done")
=============================================================================
