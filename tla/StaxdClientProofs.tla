------------------------- MODULE StaxdClientProofs --------------------------
(***************************************************************************)
(* Safety of a client session of staxd for every number of batches, every  *)
(* capacity of the queues and every content of the batches.  Batches are   *)
(* numbered in the order they are received, and every holder of batches on *)
(* the way to the pipeline (what was processed, the worker, the queue, the *)
(* session task) holds older ones than the next.                           *)
(***************************************************************************)
EXTENDS StaxdClient, SequenceLemmas

\* What a variable of one batch holds.
Held(x) == IF x = 0 THEN {} ELSE {x}

Before(A, B) == \A a \in A, b \in B : a < b

\* TypeOK and its supplements in parts: where each thread is ...
PlacesOK ==
  /\ record \in {"none", "pending", "ok", "user", "failed"}
  /\ client \in {"connect", "status", "start", "loop", "recv", "send", "evict",
                 "stop", "close", "rpc", "scanner", "budget", "grace", "done"}
  /\ outcome \in {"none", "ok", "failed", "timedOut"}
  /\ worker \in {"none", "top", "recv", "check", "process", "finish", "finished",
                 "aborted"}
  /\ scanner \in {"none", "recv", "done"}
  /\ to \in Queue
  /\ client \in {"connect", "status", "start"} => record = "none"
  /\ client \in {"connect", "status"} => worker = "none"

FlagsOK == {told, asked, open, abort} \subseteq BOOLEAN

\* ... when the queues are open, and when the worker is told to give up, ...
EndsOK ==
  /\ open <=> client \in {"start", "loop", "recv", "send", "evict", "stop", "close"}
  /\ abort => client \in {"grace", "done"}
  /\ worker \in {"finish", "finished", "aborted"} => ~open
  /\ worker = "aborted" => abort

\* ... and which numbers the batches have.
NumbersOK ==
  /\ sent \in 0..MaxBatches /\ received \in 0..sent
  /\ hand \in {0, received} /\ (hand # 0 <=> client \in {"send", "evict"})
  /\ parsing \in 0..received /\ (parsing # 0 <=> worker \in {"check", "process"})
  /\ record = "none" => sent = 0

WireOK ==
  /\ wire \in Seq(Nat)
  /\ Len(wire) <= sent - received
  /\ record = "pending" => Len(wire) = sent - received
  /\ \A i \in 1..Len(wire) : wire[i] = received + i

QueuesOK ==
  /\ queue \in [Queue -> Seq(Nat)]
  /\ \A q \in Queue : /\ Len(queue[q]) <= Capacity[q]
                      /\ Increasing(queue[q])
                      /\ ToSet(queue[q]) \subseteq 1..received
  /\ Before(ToSet(queue["parser"]), Held(hand))
  /\ to = "scanner" => Before(ToSet(queue["scanner"]), Held(hand))
  /\ dropped \in [Queue -> SUBSET (1..received)]
  /\ worker \in {"finish", "finished", "aborted"} => queue["parser"] = <<>>

\* The batches on the way to the pipeline.
Path == ToSet(processed) \cup Held(parsing) \cup ToSet(queue["parser"]) \cup Held(hand)

OrderOK ==
  /\ processed \in Seq(Nat) /\ Increasing(processed)
  /\ ToSet(processed) \subseteq 1..received
  /\ Before(ToSet(processed), Held(parsing))
  /\ Before(ToSet(processed), ToSet(queue["parser"]))
  /\ Before(ToSet(processed), Held(hand))
  /\ Before(Held(parsing), ToSet(queue["parser"]))
  /\ Before(Held(parsing), Held(hand))

CountedOK ==
  /\ dropped["parser"] \cap Path = {}
  /\ worker # "aborted" => 1..received \subseteq Path \cup dropped["parser"]
  /\ \E m : 1..received \subseteq Path \cup dropped["parser"] \cup {m}

\* The batches the scanner has still to see.
Unscanned ==
  ToSet(queue["scanner"]) \cup (IF to = "scanner" THEN Held(hand) ELSE {})

ScannerOK ==
  /\ \A x \in Unscanned : x..received \subseteq dropped["scanner"] \cup Unscanned
  /\ pending \in [tid : Nat, triggered : BOOLEAN] /\ pending.tid <= received
  /\ pending.tid # 0 => Before({pending.tid}, Unscanned)
  /\ pending.tid # 0 =>
       \A b \in (pending.tid + 1)..received : Kind[b] \in {"start", "end"} =>
          b \in dropped["scanner"] \cup Unscanned

TriggersOK ==
  /\ triggers \in Seq(Nat \X Nat)
  /\ \A i \in 1..Len(triggers) :
       /\ triggers[i][1] <= received
       /\ Before({triggers[i][1]}, Unscanned)
       /\ pending.tid # 0 => \/ triggers[i][1] < pending.tid
                             \/ triggers[i][1] = pending.tid /\ pending.triggered
       /\ \A b \in (triggers[i][1] + 1)..(triggers[i][2] - 1) :
            Kind[b] \in {"start", "end"} => b \in dropped["scanner"]
  /\ \A i, j \in 1..Len(triggers) : i < j => triggers[i][1] < triggers[j][1]

TypeInv == PlacesOK /\ FlagsOK /\ EndsOK /\ NumbersOK /\ WireOK /\ QueuesOK

PathInv == TypeInv /\ OrderOK /\ CountedOK

ProbeInv == TypeInv /\ ScannerOK /\ TriggersOK

-----------------------------------------------------------------------------
LEMMA Bounds ==
  /\ MaxBatches \in Nat
  /\ \A q \in Queue : Capacity[q] \in Nat /\ Capacity[q] >= 1
  /\ "scanner" \in Queue /\ "parser" \in Queue
BY ClientAssumption DEF Queue

LEMMA InitTyped == Init => TypeInv
<1> SUFFICES ASSUME Init PROVE TypeInv
  OBVIOUS
<1>1. PlacesOK /\ FlagsOK /\ EndsOK
  BY DEF Init, PlacesOK, FlagsOK, EndsOK, Queue
<1>2. NumbersOK /\ WireOK
  BY Bounds, EmptyIncreasing DEF Init, NumbersOK, WireOK
<1>3. QueuesOK
  <2>1. \A q \in Queue : queue[q] = <<>> /\ dropped[q] = {}
    BY DEF Init
  <2> QED BY <2>1, Bounds, EmptyIncreasing DEF Init, QueuesOK, Before
<1> QED BY <1>1, <1>2, <1>3 DEF TypeInv

LEMMA StepFlags == FlagsOK /\ [Next]_vars => FlagsOK'
BY Zenon
   DEF Next, Session, Worker, Ask, DaemonSends, DaemonReturns, Connect, SpawnWorker,
       SpawnRecord, CheckStop, StopRecording, Recv, RecvTimeout, RecvClosed, TrySend,
       Evict, CloseQueues, RecordReturned, JoinScanner, JoinWorker, BudgetSpent,
       GraceSpent, CheckAbort, WorkerRecv, CheckAbortAgain, Process, Finish, Scan,
       Returns, DropBacklog, vars, daemon, session, parser, probe, FlagsOK

LEMMA StepPlaces == PlacesOK /\ [Next]_vars => PlacesOK'
BY DEF Next, Session, Worker, Ask, DaemonSends, DaemonReturns, Connect, SpawnWorker,
       SpawnRecord, CheckStop, StopRecording, Recv, RecvTimeout, RecvClosed, TrySend,
       Evict, CloseQueues, RecordReturned, JoinScanner, JoinWorker, BudgetSpent,
       GraceSpent, CheckAbort, WorkerRecv, CheckAbortAgain, Process, Finish, Scan,
       Returns, DropBacklog, vars, daemon, session, parser, probe, PlacesOK, Queue

LEMMA StepEnds == PlacesOK /\ EndsOK /\ [Next]_vars => EndsOK'
BY DEF Next, Session, Worker, Ask, DaemonSends, DaemonReturns, Connect, SpawnWorker,
       SpawnRecord, CheckStop, StopRecording, Recv, RecvTimeout, RecvClosed, TrySend,
       Evict, CloseQueues, RecordReturned, JoinScanner, JoinWorker, BudgetSpent,
       GraceSpent, CheckAbort, WorkerRecv, CheckAbortAgain, Process, Finish, Scan,
       Returns, DropBacklog, vars, daemon, session, parser, probe, PlacesOK, EndsOK

(* The numbers of the batches in the hands of the session and the worker,  *)
(* and on the channel: the next batch to come is the one after the last.   *)
LEMMA StepNumbers ==
  PlacesOK /\ NumbersOK /\ WireOK /\ QueuesOK /\ [Next]_vars => NumbersOK' /\ WireOK'
<1> SUFFICES ASSUME PlacesOK, NumbersOK, WireOK, QueuesOK, [Next]_vars
             PROVE  NumbersOK' /\ WireOK'
  OBVIOUS
<1> USE Bounds
<1>0. Len(wire) \in Nat /\ sent \in Nat /\ received \in Nat
  BY LenProperties DEF WireOK, NumbersOK
<1>1. CASE DaemonSends
  <2>1. /\ Append(wire, sent + 1) \in Seq(Nat)
        /\ Len(Append(wire, sent + 1)) = Len(wire) + 1
        /\ \A i \in 1..Len(wire) : Append(wire, sent + 1)[i] = wire[i]
        /\ Append(wire, sent + 1)[Len(wire) + 1] = sent + 1
    BY <1>0, AppendProperties DEF WireOK
  <2>2. /\ sent' = sent + 1 /\ wire' = Append(wire, sent + 1)
        /\ UNCHANGED <<record, received, hand, client, parsing, worker>>
        /\ record = "pending" /\ sent < MaxBatches
    BY <1>1 DEF DaemonSends, session, parser
  <2>3. NumbersOK'
    BY <1>0, <2>2 DEF NumbersOK
  <2>4. Len(wire) = sent - received
    BY <2>2 DEF WireOK
  <2>5. \A i \in 1..Len(wire') : wire'[i] = received' + i
    <3>1. \A i \in 1..(Len(wire) + 1) : i \in 1..Len(wire) \/ i = Len(wire) + 1
      BY <1>0
    <3>2. sent + 1 = received + (Len(wire) + 1)
      BY <1>0, <2>4
    <3> QED BY <2>1, <2>2, <3>1, <3>2 DEF WireOK
  <2>6. WireOK'
    BY <1>0, <2>1, <2>2, <2>4, <2>5 DEF WireOK
  <2> QED BY <2>3, <2>6
<1>2. CASE DaemonReturns
  <2>1. <<>> \in Seq(Nat) /\ Len(<<>>) = 0
    BY EmptySeq
  <2>2. NumbersOK'
    BY <1>2 DEF DaemonReturns, session, parser, NumbersOK
  <2>3. record' # "pending" /\ wire' \in {wire, <<>>}
        /\ UNCHANGED <<sent, received>>
    BY <1>2 DEF DaemonReturns, session
  <2>4. WireOK'
    <3>1. CASE wire' = wire
      BY <2>3, <3>1 DEF WireOK
    <3>2. CASE wire' = <<>>
      BY <1>0, <2>1, <2>3, <3>2 DEF WireOK, NumbersOK
    <3> QED BY <2>3, <3>1, <3>2
  <2> QED BY <2>2, <2>4
<1>3. CASE SpawnRecord
  <2>1. record = "none" /\ sent = 0 /\ received = 0
    BY <1>3 DEF SpawnRecord, PlacesOK, NumbersOK
  <2>2. NumbersOK'
    BY <1>3 DEF SpawnRecord, Returns, parser, NumbersOK, PlacesOK
  <2>3. UNCHANGED <<wire, sent, received>>
    BY <1>3 DEF SpawnRecord
  <2>4. WireOK'
    BY <1>0, <2>1, <2>3 DEF WireOK
  <2> QED BY <2>2, <2>4
<1>4. CASE Recv
  <2>1. wire # <<>>
    BY <1>4 DEF Recv
  <2>2. /\ Tail(wire) \in Seq(Nat) /\ Len(Tail(wire)) = Len(wire) - 1
        /\ Len(wire) \in Nat \ {0} /\ Head(wire) = wire[1]
        /\ \A i \in 1..Len(Tail(wire)) : Tail(wire)[i] = wire[i + 1]
    BY <2>1, TailMembers DEF WireOK
  <2>3. Head(wire) = received + 1
    BY <2>2 DEF WireOK
  <2>4. /\ hand' = received + 1 /\ received' = received + 1 /\ client' = "send"
        /\ wire' = Tail(wire) /\ UNCHANGED <<sent, record, parsing, worker>>
    BY <1>4, <2>3 DEF Recv, parser
  <2>5. NumbersOK'
    BY <1>0, <2>2, <2>4 DEF NumbersOK, WireOK
  <2>6. \A i \in 1..Len(wire') : wire'[i] = received' + i
    <3> SUFFICES ASSUME NEW i \in 1..Len(Tail(wire))
                 PROVE  Tail(wire)[i] = (received + 1) + i
      BY <2>4
    <3>1. i + 1 \in 1..Len(wire)
      BY <2>2
    <3>2. wire[i + 1] = received + (i + 1)
      BY <3>1 DEF WireOK
    <3> QED BY <1>0, <2>2, <3>2
  <2>7. WireOK'
    BY <1>0, <2>2, <2>4, <2>6 DEF WireOK
  <2> QED BY <2>5, <2>7
<1>5. CASE WorkerRecv
  <2>1. queue["parser"] # <<>> =>
          Head(queue["parser"]) \in 1..received
    <3>1. queue["parser"] \in Seq(Nat)
      BY DEF QueuesOK
    <3> QED BY <3>1, TailMembers DEF QueuesOK
  <2>2. NumbersOK'
    BY <1>0, <1>5, <2>1 DEF WorkerRecv, daemon, session, NumbersOK
  <2>3. UNCHANGED <<wire, sent, received, record>>
    BY <1>5 DEF WorkerRecv, daemon, session
  <2> QED BY <2>2, <2>3 DEF WireOK
<1>6. ASSUME UNCHANGED <<wire, sent, received, record>>, NumbersOK'
      PROVE  NumbersOK' /\ WireOK'
  BY <1>6 DEF WireOK
<1>7. CASE Ask \/ Scan \/ UNCHANGED vars
  <2>1. UNCHANGED <<daemon, session, parser>>
    BY <1>7 DEF Ask, Scan, vars
  <2> QED BY <1>6, <2>1 DEF daemon, session, parser, NumbersOK
<1>8. CASE Connect \/ SpawnWorker \/ CheckStop \/ StopRecording \/ RecvTimeout
           \/ RecvClosed \/ CloseQueues
  BY <1>6, <1>8 DEF Connect, SpawnWorker, CheckStop, StopRecording, RecvTimeout,
     RecvClosed, CloseQueues, Returns, daemon, parser, NumbersOK, PlacesOK
<1>9. CASE RecordReturned \/ JoinScanner \/ JoinWorker \/ BudgetSpent \/ GraceSpent
  BY <1>6, <1>9 DEF RecordReturned, JoinScanner, JoinWorker, BudgetSpent, GraceSpent,
     Returns, daemon, parser, NumbersOK
<1>10. CASE TrySend \/ Evict
  BY <1>6, <1>10 DEF TrySend, Evict, daemon, parser, NumbersOK
<1>11. CASE CheckAbort \/ CheckAbortAgain \/ Finish \/ Process
  BY <1>6, <1>11 DEF CheckAbort, CheckAbortAgain, Finish, Process, DropBacklog, daemon,
     session, NumbersOK
<1> QED BY <1>1, <1>2, <1>3, <1>4, <1>5, <1>7, <1>8, <1>9, <1>10, <1>11
        DEF Next, Session, Worker

-----------------------------------------------------------------------------
(* The steps that move no batch, and those that do.                        *)

Quiet ==
  /\ UNCHANGED <<received, hand, to, queue, dropped, parsing, processed, pending,
                 triggers>>
  /\ worker' = "aborted" => worker = "aborted"
  /\ worker' # "aborted" => worker # "aborted"
  /\ worker' \in {"finish", "finished", "aborted"} =>
       worker \in {"finish", "finished", "aborted"} \/ queue["parser"] = <<>>

\* The batch in the session's hand enters queue q.
Enters(q) ==
  /\ client = "send" /\ to = q /\ Len(queue[q]) # Capacity[q]
  /\ queue' = [queue EXCEPT ![q] = Append(@, hand)]
  /\ IF q = "scanner" THEN to' = "parser" /\ hand' = hand ELSE to' = to /\ hand' = 0
  /\ UNCHANGED <<received, dropped, parsing, processed, worker, pending, triggers>>

\* The oldest batch of queue q is evicted.
Evicts(q) ==
  /\ client = "evict" /\ to = q /\ queue[q] # <<>>
  /\ queue' = [queue EXCEPT ![q] = Tail(@)]
  /\ dropped' = [dropped EXCEPT ![q] = @ \cup {Head(queue[q])}]
  /\ UNCHANGED <<received, hand, to, parsing, processed, worker, pending, triggers>>

GivesUp ==
  /\ abort /\ worker \in {"top", "check", "finish"} /\ DropBacklog
  /\ UNCHANGED <<received, hand, to, processed, pending, triggers>>

Takes ==
  /\ worker = "recv" /\ queue["parser"] # <<>>
  /\ parsing' = Head(queue["parser"]) /\ worker' = "check"
  /\ queue' = [queue EXCEPT !["parser"] = Tail(@)]
  /\ UNCHANGED <<received, hand, to, dropped, processed, pending, triggers>>

Scans ==
  /\ queue["scanner"] # <<>> /\ Feed(Head(queue["scanner"]))
  /\ queue' = [queue EXCEPT !["scanner"] = Tail(@)]
  /\ UNCHANGED <<received, hand, to, dropped, parsing, processed, worker>>

LEMMA Moves ==
  ASSUME PlacesOK, FlagsOK, [Next]_vars
  PROVE  \/ Quiet \/ Recv \/ Process \/ GivesUp \/ Takes \/ Scans
         \/ \E q \in Queue : Enters(q) \/ Evicts(q)
<1>1. CASE Ask \/ DaemonSends \/ DaemonReturns \/ UNCHANGED vars
  BY <1>1 DEF Ask, DaemonSends, DaemonReturns, vars, session, parser, probe, Quiet
<1>2. CASE Connect \/ SpawnWorker \/ SpawnRecord \/ CheckStop \/ StopRecording
           \/ RecvTimeout \/ RecvClosed \/ CloseQueues
  BY <1>2 DEF Connect, SpawnWorker, SpawnRecord, CheckStop, StopRecording,
     RecvTimeout, RecvClosed, CloseQueues, Returns, parser, probe, PlacesOK, Quiet
<1>3. CASE RecordReturned \/ JoinScanner \/ JoinWorker \/ BudgetSpent \/ GraceSpent
  BY <1>3 DEF RecordReturned, JoinScanner, JoinWorker, BudgetSpent, GraceSpent,
     Returns, parser, probe, Quiet
<1>4. CASE TrySend
  <2>1. CASE Len(queue[to]) = Capacity[to]
    BY <1>4, <2>1 DEF TrySend, parser, probe, Quiet
  <2>2. CASE Len(queue[to]) # Capacity[to]
    <3>1. Enters(to)
      BY <1>4, <2>2 DEF TrySend, parser, probe, Enters
    <3> QED BY <3>1 DEF PlacesOK
  <2> QED BY <2>1, <2>2
<1>5. CASE Evict
  <2>1. CASE queue[to] = <<>>
    BY <1>5, <2>1 DEF Evict, parser, probe, Quiet
  <2>2. CASE queue[to] # <<>>
    <3>1. Evicts(to)
      BY <1>5, <2>2 DEF Evict, parser, probe, Evicts
    <3> QED BY <3>1 DEF PlacesOK
  <2> QED BY <2>1, <2>2
<1>6. CASE CheckAbort \/ CheckAbortAgain \/ Finish
  <2>1. CASE abort
    BY <1>6, <2>1 DEF CheckAbort, CheckAbortAgain, Finish, session, probe, GivesUp
  <2>2. CASE ~abort
    BY <1>6, <2>2 DEF CheckAbort, CheckAbortAgain, Finish, session, probe, Quiet
  <2> QED BY <2>1, <2>2
<1>7. CASE WorkerRecv
  BY <1>7 DEF WorkerRecv, session, probe, Takes, Quiet
<1>8. CASE Scan
  <2>1. CASE queue["scanner"] # <<>>
    BY <1>8, <2>1 DEF Scan, session, parser, Scans
  <2>2. CASE queue["scanner"] = <<>>
    BY <1>8, <2>2 DEF Scan, session, parser, Quiet
  <2> QED BY <2>1, <2>2
<1> QED BY <1>1, <1>2, <1>3, <1>4, <1>5, <1>6, <1>7, <1>8 DEF Next, Session, Worker

\* What the moves do to the contents of the queues.
LEMMA EnterContents ==
  ASSUME PlacesOK, NumbersOK, QueuesOK, NEW q \in Queue, Enters(q)
  PROVE  /\ hand # 0 /\ hand = received
         /\ queue' \in [Queue -> Seq(Nat)]
         /\ queue'[q] = Append(queue[q], hand)
         /\ \A p \in Queue : p # q => queue'[p] = queue[p]
         /\ ToSet(queue'[q]) = ToSet(queue[q]) \cup {hand}
         /\ Increasing(queue'[q]) /\ Len(queue'[q]) <= Capacity[q]
<1>1. hand # 0 /\ hand = received /\ hand \in Nat
  BY Bounds DEF Enters, NumbersOK
<1>2. queue[q] \in Seq(Nat) /\ Len(queue[q]) <= Capacity[q] /\ Increasing(queue[q])
  BY DEF QueuesOK
<1>3. Append(queue[q], hand) \in Seq(Nat)
      /\ Len(Append(queue[q], hand)) = Len(queue[q]) + 1 /\ Len(queue[q]) \in Nat
  BY <1>1, <1>2, AppendProperties, LenProperties
<1>4. /\ queue' \in [Queue -> Seq(Nat)] /\ queue'[q] = Append(queue[q], hand)
      /\ \A p \in Queue : p # q => queue'[p] = queue[p]
  BY <1>3 DEF Enters, QueuesOK
<1>5. \A a \in ToSet(queue[q]) : a < hand
  <2>1. Before(ToSet(queue[q]), Held(hand))
    BY DEF Enters, QueuesOK, Queue
  <2> QED BY <1>1, <2>1 DEF Before, Held
<1>6. ToSet(queue'[q]) = ToSet(queue[q]) \cup {hand} /\ Increasing(queue'[q])
  BY <1>1, <1>2, <1>4, <1>5, AppendMembers, AppendIncreasing
<1>7. Len(queue'[q]) <= Capacity[q]
  BY <1>2, <1>3, <1>4, Bounds DEF Enters
<1> QED BY <1>1, <1>4, <1>6, <1>7

LEMMA TakeContents ==
  ASSUME QueuesOK, NEW q \in Queue, queue[q] # <<>>,
         queue' = [queue EXCEPT ![q] = Tail(@)]
  PROVE  /\ queue' \in [Queue -> Seq(Nat)]
         /\ queue'[q] = Tail(queue[q])
         /\ \A p \in Queue : p # q => queue'[p] = queue[p]
         /\ Head(queue[q]) \in 1..received /\ Head(queue[q]) # 0
         /\ ToSet(queue[q]) = {Head(queue[q])} \cup ToSet(queue'[q])
         /\ Increasing(queue'[q]) /\ Len(queue'[q]) <= Capacity[q]
         /\ Before({Head(queue[q])}, ToSet(queue'[q]))
<1>1. /\ queue[q] \in Seq(Nat) /\ Len(queue[q]) <= Capacity[q]
      /\ Increasing(queue[q]) /\ ToSet(queue[q]) \subseteq 1..received
  BY DEF QueuesOK
<1>2. /\ Tail(queue[q]) \in Seq(Nat) /\ Len(Tail(queue[q])) = Len(queue[q]) - 1
      /\ Len(queue[q]) \in Nat
      /\ ToSet(queue[q]) = {Head(queue[q])} \cup ToSet(Tail(queue[q]))
  BY <1>1, TailMembers
<1>3. /\ Increasing(Tail(queue[q]))
      /\ \A a \in ToSet(Tail(queue[q])) : Head(queue[q]) < a
  BY <1>1, TailIncreasing
<1>4. /\ queue' \in [Queue -> Seq(Nat)] /\ queue'[q] = Tail(queue[q])
      /\ \A p \in Queue : p # q => queue'[p] = queue[p]
  BY <1>2 DEF QueuesOK
<1>5. Before({Head(queue[q])}, ToSet(queue'[q]))
  BY <1>3, <1>4 DEF Before
<1>6. Len(Tail(queue[q])) <= Capacity[q]
  BY <1>1, <1>2, Bounds
<1> QED BY <1>1, <1>2, <1>3, <1>4, <1>5, <1>6

LEMMA RecvContents ==
  ASSUME WireOK, Recv
  PROVE  hand' = received + 1 /\ received' = received + 1 /\ to' = "scanner"
<1>1. Head(wire) = wire[1] /\ Len(wire) \in Nat \ {0}
  BY TailMembers DEF WireOK, Recv
<1> QED BY <1>1 DEF WireOK, Recv

\* The queues keep their order and their bounds.
LEMMA StepQueues ==
  ASSUME TypeInv, [Next]_vars
  PROVE  QueuesOK'
<1> USE Bounds DEF TypeInv
<1>0. received \in Nat
  BY DEF NumbersOK
<1>1. CASE Quiet
  BY <1>1 DEF Quiet, QueuesOK
<1>2. CASE Recv
  <2>1. hand' = received + 1 /\ received' = received + 1 /\ to' = "scanner"
    BY <1>2, RecvContents
  <2>2. UNCHANGED <<queue, dropped, worker>>
    BY <1>2 DEF Recv, parser
  <2>3. 1..received \subseteq 1..(received + 1)
    BY <1>0
  <2>4. \A q \in Queue : Before(ToSet(queue[q]), Held(received + 1))
    <3>1. \A q \in Queue : ToSet(queue[q]) \subseteq 1..received
      BY DEF QueuesOK
    <3> QED BY <1>0, <3>1 DEF Before, Held
  <2>5. dropped \in [Queue -> SUBSET (1..(received + 1))]
    BY <2>3 DEF QueuesOK
  <2>6. \A q \in Queue : /\ Len(queue[q]) <= Capacity[q] /\ Increasing(queue[q])
                         /\ ToSet(queue[q]) \subseteq 1..(received + 1)
    BY <2>3 DEF QueuesOK
  <2> QED BY <2>1, <2>2, <2>4, <2>5, <2>6 DEF QueuesOK
<1>3. CASE Process
  BY <1>3 DEF Process, session, QueuesOK
<1>4. CASE GivesUp
  <2>1. /\ queue' = [queue EXCEPT !["parser"] = <<>>]
        /\ dropped' = [dropped EXCEPT !["parser"] = @ \union ToSet(queue["parser"])]
        /\ UNCHANGED <<received, hand, to>>
    BY <1>4 DEF GivesUp, DropBacklog
  <2>2. /\ queue' \in [Queue -> Seq(Nat)] /\ queue'["parser"] = <<>>
        /\ queue'["scanner"] = queue["scanner"]
    BY <2>1 DEF QueuesOK
  <2>3. dropped' \in [Queue -> SUBSET (1..received)]
    <3>1. ToSet(queue["parser"]) \subseteq 1..received
      BY DEF QueuesOK
    <3> QED BY <2>1, <3>1 DEF QueuesOK
  <2>4. \A q \in Queue : /\ Len(queue'[q]) <= Capacity[q] /\ Increasing(queue'[q])
                         /\ ToSet(queue'[q]) \subseteq 1..received
    <3>1. /\ Len(queue'["parser"]) <= Capacity["parser"]
          /\ Increasing(queue'["parser"]) /\ ToSet(queue'["parser"]) \subseteq 1..received
      BY <2>2, EmptyIncreasing
    <3>2. /\ Len(queue'["scanner"]) <= Capacity["scanner"]
          /\ Increasing(queue'["scanner"]) /\ ToSet(queue'["scanner"]) \subseteq 1..received
      BY <2>2 DEF QueuesOK
    <3> QED BY <3>1, <3>2 DEF Queue
  <2>5. Before({}, Held(hand))
    BY DEF Before
  <2> QED BY <2>1, <2>2, <2>3, <2>4, <2>5, EmptyIncreasing DEF QueuesOK
<1>5. ASSUME NEW q \in Queue, queue[q] # <<>>,
             queue' = [queue EXCEPT ![q] = Tail(@)],
             UNCHANGED <<received, hand, to>>,
             dropped' \in [Queue -> SUBSET (1..received)],
             worker' \notin {"finish", "finished", "aborted"} \/ worker' = worker
      PROVE  QueuesOK'
  <2>1. /\ queue' \in [Queue -> Seq(Nat)] /\ queue'[q] = Tail(queue[q])
        /\ \A p \in Queue : p # q => queue'[p] = queue[p]
        /\ ToSet(queue'[q]) \subseteq ToSet(queue[q])
        /\ Increasing(queue'[q]) /\ Len(queue'[q]) <= Capacity[q]
    BY <1>5, TakeContents
  <2>2. \A p \in Queue : /\ Len(queue'[p]) <= Capacity[p] /\ Increasing(queue'[p])
                         /\ ToSet(queue'[p]) \subseteq ToSet(queue[p])
    BY <2>1 DEF QueuesOK
  <2>3. \A p \in Queue : ToSet(queue'[p]) \subseteq 1..received
    BY <2>2 DEF QueuesOK
  <2>4. \A p \in Queue : Before(ToSet(queue[p]), Held(hand))
                            => Before(ToSet(queue'[p]), Held(hand))
    BY <2>2 DEF Before
  <2>5. worker' \in {"finish", "finished", "aborted"} => queue'["parser"] = <<>>
    <3>1. worker' \in {"finish", "finished", "aborted"} => queue["parser"] = <<>>
      BY <1>5 DEF QueuesOK
    <3> QED BY <1>5, <2>1, <3>1
  <2> QED BY <1>5, <2>1, <2>2, <2>3, <2>4, <2>5 DEF QueuesOK
<1>6. CASE Takes
  <2>1. dropped' \in [Queue -> SUBSET (1..received)]
    BY <1>6 DEF Takes, QueuesOK
  <2> QED BY <1>5, <1>6, <2>1 DEF Takes
<1>7. CASE Scans
  <2>1. dropped' \in [Queue -> SUBSET (1..received)]
    BY <1>7 DEF Scans, QueuesOK
  <2> QED BY <1>5, <1>7, <2>1 DEF Scans
<1>8. ASSUME NEW q \in Queue, Enters(q) PROVE QueuesOK'
  <2>1. /\ hand # 0 /\ hand = received
        /\ queue' \in [Queue -> Seq(Nat)]
        /\ queue'[q] = Append(queue[q], hand)
        /\ \A p \in Queue : p # q => queue'[p] = queue[p]
        /\ ToSet(queue'[q]) = ToSet(queue[q]) \cup {hand}
        /\ Increasing(queue'[q]) /\ Len(queue'[q]) <= Capacity[q]
    BY <1>8, EnterContents
  <2>2. \A p \in Queue : /\ Len(queue'[p]) <= Capacity[p] /\ Increasing(queue'[p])
                         /\ ToSet(queue'[p]) \subseteq 1..received
    <3>1. hand \in 1..received
      BY <1>0, <2>1
    <3> QED BY <2>1, <3>1 DEF QueuesOK
  <2>3. q = "scanner" => /\ to' # "scanner" /\ hand' = hand
                         /\ queue'["parser"] = queue["parser"]
    BY <1>8, <2>1 DEF Enters
  <2>4. q = "parser" => hand' = 0 /\ to' = to /\ to = q
    BY <1>8 DEF Enters
  <2>5. q = "parser" \/ q = "scanner"
    BY DEF Queue
  <2>6. /\ Before(ToSet(queue'["parser"]), Held(hand'))
        /\ to' = "scanner" => Before(ToSet(queue'["scanner"]), Held(hand'))
    BY <2>3, <2>4, <2>5 DEF QueuesOK, Before, Held
  <2>7. worker \notin {"finish", "finished", "aborted"}
    BY <1>8 DEF Enters, EndsOK
  <2> QED BY <1>8, <2>1, <2>2, <2>6, <2>7 DEF Enters, QueuesOK
<1>9. ASSUME NEW q \in Queue, Evicts(q) PROVE QueuesOK'
  <2>1. Head(queue[q]) \in 1..received
    BY <1>9, TakeContents DEF Evicts
  <2>2. dropped' \in [Queue -> SUBSET (1..received)]
    BY <1>9, <2>1 DEF Evicts, QueuesOK
  <2> QED BY <1>5, <1>9, <2>2 DEF Evicts
<1> QED BY <1>1, <1>2, <1>3, <1>4, <1>6, <1>7, <1>8, <1>9, Moves

LEMMA StepTyped == TypeInv /\ [Next]_vars => TypeInv'
<1> SUFFICES ASSUME TypeInv, [Next]_vars PROVE TypeInv'
  OBVIOUS
<1>1. PlacesOK' /\ FlagsOK' /\ EndsOK'
  BY StepPlaces, StepFlags, StepEnds DEF TypeInv
<1>2. NumbersOK' /\ WireOK'
  BY StepNumbers DEF TypeInv
<1> QED BY <1>1, <1>2, StepQueues DEF TypeInv

(* The variables keep their types, the queues their capacities.            *)
THEOREM TypeCorrect == Spec => []TypeOK
<1>1. Spec => []TypeInv
  BY InitTyped, StepTyped, PTL DEF Spec
<1>2. TypeInv => TypeOK
  <2> SUFFICES ASSUME TypeInv PROVE TypeOK
    OBVIOUS
  <2>1. wire \in Seq(1..sent)
    <3>1. Len(wire) \in Nat /\ wire \in [1..Len(wire) -> Nat]
      BY LenProperties DEF TypeInv, WireOK
    <3>2. \A i \in 1..Len(wire) : wire[i] \in 1..sent
      BY <3>1, Bounds DEF TypeInv, WireOK, NumbersOK
    <3>3. wire \in [1..Len(wire) -> 1..sent]
      BY <3>1, <3>2
    <3> QED BY <3>1, <3>3, SeqDef
  <2>2. hand \in 0..received
    BY Bounds DEF TypeInv, NumbersOK
  <2> QED BY <2>1, <2>2
          DEF TypeInv, TypeOK, PlacesOK, FlagsOK, NumbersOK, QueuesOK
<1> QED BY <1>1, <1>2, PTL

-----------------------------------------------------------------------------
(* The way to the pipeline.                                                *)

LEMMA InitPath == Init => PathInv
<1> SUFFICES ASSUME Init PROVE OrderOK /\ CountedOK
  BY InitTyped DEF PathInv
<1>1. /\ ToSet(processed) = {} /\ Held(parsing) = {} /\ Held(hand) = {}
      /\ ToSet(queue["parser"]) = {} /\ dropped["parser"] = {} /\ received = 0
      /\ processed \in Seq(Nat) /\ Increasing(processed)
  BY Bounds, EmptyIncreasing DEF Init, Held
<1> QED BY <1>1 DEF OrderOK, CountedOK, Before, Path

\* Members are numbers, and every holder but the session's hand is known to
\* hold batches that were received.
LEMMA Holders ==
  ASSUME TypeInv, OrderOK
  PROVE  /\ received \in Nat /\ parsing \in 0..received /\ hand \in 0..received
         /\ queue["parser"] \in Seq(Nat)
         /\ ToSet(queue["parser"]) \subseteq 1..received
         /\ ToSet(processed) \subseteq 1..received
         /\ dropped["parser"] \subseteq 1..received
         /\ Path \subseteq 1..received
BY Bounds DEF TypeInv, NumbersOK, QueuesOK, OrderOK, Path, Held

LEMMA StepPath ==
  ASSUME TypeInv, OrderOK, CountedOK, [Next]_vars
  PROVE  OrderOK' /\ CountedOK'
<1> USE Bounds, Holders
<1> DEFINE A == ToSet(processed)
           C == ToSet(queue["parser"])
           gone == dropped["parser"]
<1>1. CASE Quiet
  <2>1. OrderOK'
    BY <1>1 DEF Quiet, OrderOK
  <2>2. Path' = Path
    BY <1>1 DEF Quiet, Path
  <2> QED BY <1>1, <2>1, <2>2 DEF Quiet, CountedOK
<1>2. CASE Recv
  <2>1. hand' = received + 1 /\ received' = received + 1
    BY <1>2, RecvContents DEF TypeInv
  <2>2. hand = 0 /\ UNCHANGED <<queue, dropped, parsing, processed, worker>>
    BY <1>2 DEF Recv, parser, TypeInv, NumbersOK
  <2>3. Held(hand) = {} /\ Held(hand') = {received + 1}
    BY <2>1, <2>2 DEF Held
  <2>4. OrderOK'
    <3>1. ToSet(processed) \subseteq 1..(received + 1)
      OBVIOUS
    <3>2. Before(A, {received + 1}) /\ Before(Held(parsing), {received + 1})
      BY DEF Before, Held
    <3> QED BY <2>1, <2>2, <2>3, <3>1, <3>2 DEF OrderOK
  <2>5. Path' = Path \cup {received + 1}
    BY <2>2, <2>3 DEF Path
  <2>6. 1..(received + 1) = (1..received) \cup {received + 1}
    OBVIOUS
  <2>7. received + 1 \notin gone
    OBVIOUS
  <2> HIDE DEF gone
  <2>8. CountedOK'
    BY <2>1, <2>2, <2>5, <2>6, <2>7 DEF CountedOK, gone
  <2> QED BY <2>4, <2>8
<1>3. CASE Process
  <2>1. /\ parsing \in Nat /\ parsing # 0 /\ parsing' = 0
        /\ processed' = Append(processed, parsing)
        /\ worker # "aborted" /\ worker' # "aborted"
        /\ UNCHANGED <<hand, received, queue, dropped>>
    BY <1>3 DEF Process, session, TypeInv, NumbersOK
  <2>2. \A a \in A : a < parsing
    BY <2>1 DEF OrderOK, Before, Held
  <2>3. /\ processed' \in Seq(Nat) /\ Increasing(processed')
        /\ ToSet(processed') = A \cup {parsing}
    BY <2>1, <2>2, AppendProperties, AppendIncreasing, AppendMembers DEF OrderOK
  <2>4. Held(parsing) = {parsing} /\ Held(parsing') = {}
    BY <2>1 DEF Held
  <2>5. OrderOK'
    BY <2>1, <2>3, <2>4 DEF OrderOK, Before
  <2>6. Path' = Path
    BY <2>1, <2>3, <2>4 DEF Path
  <2> QED BY <2>1, <2>5, <2>6 DEF CountedOK
<1>4. CASE GivesUp
  <2>1. /\ parsing' = 0 /\ dropped'["parser"] = gone \cup C /\ queue'["parser"] = <<>>
        /\ UNCHANGED <<received, hand, processed>>
        /\ worker # "aborted" /\ worker' = "aborted"
    BY <1>4 DEF GivesUp, DropBacklog, TypeInv, QueuesOK
  <2>2. hand = 0
    BY <1>4 DEF GivesUp, TypeInv, EndsOK, NumbersOK
  <2>3. /\ Held(hand) = {} /\ Held(hand') = {} /\ Held(parsing') = {}
        /\ ToSet(queue'["parser"]) = {}
    BY <2>1, <2>2, EmptyIncreasing DEF Held
  <2>4. OrderOK'
    BY <2>1, <2>3 DEF OrderOK, Before
  <2>5. Path' = A /\ Path = A \cup Held(parsing) \cup C
    BY <2>1, <2>3 DEF Path
  <2>6. A \cap C = {}
    BY DEF OrderOK, Before
  <2>7. \E m : Held(parsing) \subseteq {m}
    BY DEF Held
  <2>8. 1..received \subseteq A \cup Held(parsing) \cup C \cup gone /\ gone \cap A = {}
    BY <2>1, <2>5 DEF CountedOK
  <2> HIDE DEF A, C, gone
  <2>9. CountedOK'
    BY <2>1, <2>5, <2>6, <2>7, <2>8 DEF CountedOK
  <2> QED BY <2>4, <2>9
<1>5. CASE Takes
  <2>1. /\ parsing = 0 /\ parsing' = Head(queue["parser"])
        /\ worker # "aborted" /\ worker' # "aborted"
        /\ UNCHANGED <<received, hand, dropped, processed>>
    BY <1>5 DEF Takes, TypeInv, NumbersOK
  <2>2. /\ parsing' # 0 /\ C = {parsing'} \cup ToSet(queue'["parser"])
        /\ Before({parsing'}, ToSet(queue'["parser"]))
    BY <1>5, <2>1, TakeContents DEF Takes, TypeInv
  <2>3. Held(parsing) = {} /\ Held(parsing') = {parsing'}
    BY <2>1, <2>2 DEF Held
  <2>4. Path' = Path
    BY <2>1, <2>2, <2>3 DEF Path
  <2>5. Before(C, Held(hand))
    BY DEF TypeInv, QueuesOK
  <2>6. OrderOK'
    BY <2>1, <2>2, <2>3, <2>5 DEF OrderOK, Before
  <2> QED BY <2>1, <2>4, <2>6 DEF CountedOK
<1>6. ASSUME UNCHANGED <<received, hand, parsing, processed, worker>>,
             queue'["parser"] = queue["parser"], dropped'["parser"] = gone
      PROVE  OrderOK' /\ CountedOK'
  BY <1>6 DEF OrderOK, CountedOK, Path
<1>7. CASE Scans
  <2>1. queue'["parser"] = queue["parser"]
    BY <1>7 DEF Scans, TypeInv, QueuesOK
  <2> QED BY <1>6, <1>7, <2>1 DEF Scans
<1>8. CASE Enters("scanner")
  <2>1. queue'["parser"] = queue["parser"] /\ hand' = hand
    BY <1>8 DEF Enters, TypeInv, QueuesOK
  <2> QED BY <1>6, <1>8, <2>1 DEF Enters
<1>9. CASE Enters("parser")
  <2>1. /\ hand # 0 /\ ToSet(queue'["parser"]) = C \cup {hand}
    BY <1>9, EnterContents DEF TypeInv
  <2>2. hand' = 0 /\ UNCHANGED <<received, parsing, processed, dropped, worker>>
    BY <1>9 DEF Enters
  <2>3. Held(hand) = {hand} /\ Held(hand') = {}
    BY <2>1, <2>2 DEF Held
  <2>4. Path' = Path
    BY <2>1, <2>2, <2>3 DEF Path
  <2>5. OrderOK'
    BY <2>1, <2>2, <2>3 DEF OrderOK, Before
  <2> QED BY <2>2, <2>4, <2>5 DEF CountedOK
<1>10. CASE Evicts("scanner")
  <2>1. queue'["parser"] = queue["parser"] /\ dropped'["parser"] = gone
    BY <1>10 DEF Evicts, TypeInv, QueuesOK
  <2> QED BY <1>6, <1>10, <2>1 DEF Evicts
<1>11. CASE Evicts("parser")
  <2> DEFINE h == Head(queue["parser"])
             R == ToSet(queue'["parser"])
  <2>1. /\ C = {h} \cup R /\ Before({h}, R) /\ h \in 1..received
    BY <1>11, TakeContents DEF Evicts, TypeInv
  <2>2. /\ dropped'["parser"] = gone \cup {h}
        /\ UNCHANGED <<received, hand, parsing, processed, worker>>
    BY <1>11 DEF Evicts, TypeInv, QueuesOK
  <2> HIDE DEF h, R
  <2>3. OrderOK'
    BY <2>1, <2>2 DEF OrderOK, Before, R
  <2>4. Before(C, Held(hand))
    BY DEF TypeInv, QueuesOK
  <2>5. h \notin A /\ h \notin Held(parsing) /\ h \notin R /\ h \notin Held(hand)
    <3>1. h \in Nat /\ ~ (h < h) /\ h \in C
      BY <2>1
    <3>2. Before(A, C) /\ Before(Held(parsing), C)
      BY DEF OrderOK
    <3> HIDE DEF A, C
    <3> QED BY <2>1, <2>4, <3>1, <3>2 DEF Before
  <2>6. Path = A \cup Held(parsing) \cup {h} \cup R \cup Held(hand)
        /\ Path' = A \cup Held(parsing) \cup R \cup Held(hand)
    BY <2>1, <2>2 DEF Path, R
  <2>7. CountedOK'
    <3> HIDE DEF A, C, gone
    <3>1. Path \cup gone = Path' \cup (gone \cup {h})
      BY <2>6
    <3>2. (gone \cup {h}) \cap Path' = {}
      BY <2>5, <2>6 DEF CountedOK, gone
    <3> QED BY <2>2, <3>1, <3>2 DEF CountedOK, gone
  <2> QED BY <2>3, <2>7
<1> QED BY <1>1, <1>2, <1>3, <1>4, <1>5, <1>7, <1>8, <1>9, <1>10, <1>11, Moves
        DEF TypeInv, Queue

(* What an aborted worker had in its hand is all that can be missing.      *)
THEOREM PathHolds == Spec => []PathInv
<1>1. PathInv /\ [Next]_vars => PathInv'
  BY StepTyped, StepPath DEF PathInv
<1> QED BY <1>1, InitPath, PTL DEF Spec

\* A variable of one batch as a sequence.
One(x) == IF x = 0 THEN <<>> ELSE <<x>>

LEMMA OneBatch ==
  ASSUME NEW x \in Nat
  PROVE  /\ One(x) \in Seq(Nat) /\ Increasing(One(x)) /\ ToSet(One(x)) = Held(x)
         /\ Len(One(x)) = IF x = 0 THEN 0 ELSE 1
<1>1. CASE x = 0
  BY <1>1, EmptyIncreasing DEF One, Held
<1>2. CASE x # 0
  <2>1. <<x>> \in Seq(Nat) /\ Len(<<x>>) = 1 /\ <<x>>[1] = x
    OBVIOUS
  <2>2. \A y : y \in ToSet(<<x>>) <=> y = x
    <3> DEFINE t == <<x>>
    <3>1. t \in Seq(Nat) /\ Len(t) = 1 /\ t[1] = x
      OBVIOUS
    <3> HIDE DEF t
    <3>2. \A y : y \in ToSet(t) <=> \E i \in 1..Len(t) : y = t[i]
      BY <3>1, Members
    <3> QED BY <3>1, <3>2 DEF t
  <2>3. Increasing(<<x>>)
    BY <2>1 DEF Increasing
  <2> QED BY <1>2, <2>1, <2>2, <2>3 DEF One, Held
<1> QED BY <1>1, <1>2

\* What the worker, the queue and the session hold, as one sequence.
Flight(x, q, y) == (One(x) \o q) \o One(y)

LEMMA FlightTyped ==
  ASSUME NEW x \in Nat, NEW q \in Seq(Nat), NEW y \in Nat
  PROVE  /\ One(x) \in Seq(Nat) /\ One(y) \in Seq(Nat)
         /\ One(x) \o q \in Seq(Nat) /\ q \o One(y) \in Seq(Nat)
         /\ Flight(x, q, y) \in Seq(Nat)
         /\ Flight(x, q, y) = One(x) \o (q \o One(y))
<1>1. One(x) \in Seq(Nat) /\ One(y) \in Seq(Nat)
  BY OneBatch
<1>2. One(x) \o q \in Seq(Nat) /\ q \o One(y) \in Seq(Nat)
  BY <1>1, ConcatProperties
<1>3. Flight(x, q, y) \in Seq(Nat)
  BY <1>1, <1>2, ConcatProperties DEF Flight
<1>4. Flight(x, q, y) = One(x) \o (q \o One(y))
  BY <1>1, NumbersAssociative, Zenon DEF Flight
<1> QED BY <1>1, <1>2, <1>3, <1>4

LEMMA InFlightParts ==
  ASSUME TypeInv
  PROVE  /\ InFlight = Flight(parsing, queue["parser"], hand)
         /\ parsing \in Nat /\ hand \in Nat /\ queue["parser"] \in Seq(Nat)
<1>1. parsing \in Nat /\ hand \in Nat /\ queue["parser"] \in Seq(Nat)
  BY Bounds DEF TypeInv, NumbersOK, QueuesOK
<1> QED BY <1>1 DEF InFlight, Flight, One

\* The batches on the way are in order, and in as many places as they are.
LEMMA CountPath ==
  ASSUME PathInv
  PROVE  /\ Path = ToSet(processed) \cup ToSet(InFlight)
         /\ Cardinality(Path) = Len(processed) + Len(InFlight)
<1> DEFINE P == One(parsing)
           Q == queue["parser"]
           H == One(hand)
<1>1. /\ InFlight = (P \o Q) \o H /\ P \o Q \in Seq(Nat) /\ InFlight \in Seq(Nat)
      /\ P \in Seq(Nat) /\ Q \in Seq(Nat) /\ H \in Seq(Nat)
  BY InFlightParts, FlightTyped DEF PathInv, Flight
<1>2. /\ ToSet(P) = Held(parsing) /\ ToSet(H) = Held(hand)
      /\ Increasing(P) /\ Increasing(H)
  BY OneBatch, Holders DEF PathInv
<1>3. Increasing(Q)
  BY Bounds DEF PathInv, TypeInv, QueuesOK
<1>4. processed \in Seq(Nat) /\ Increasing(processed)
  BY DEF PathInv, OrderOK
<1>5. /\ \A a \in Held(parsing), b \in ToSet(Q) : a < b
      /\ \A a \in Held(parsing), b \in Held(hand) : a < b
      /\ \A a \in ToSet(Q), b \in Held(hand) : a < b
      /\ \A a \in ToSet(processed), b \in Held(parsing) \cup ToSet(Q) \cup Held(hand) : a < b
  BY DEF PathInv, TypeInv, OrderOK, QueuesOK, Before
<1> HIDE DEF P, Q, H
<1>6. Increasing(P \o Q) /\ ToSet(P \o Q) = Held(parsing) \cup ToSet(Q)
  <2>1. \A a \in ToSet(P), b \in ToSet(Q) : a < b
    BY <1>2, <1>5 DEF Q
  <2> QED BY <1>1, <1>2, <1>3, <2>1, ConcatMembers, ConcatIncreasing
<1>7. /\ Increasing(InFlight)
      /\ ToSet(InFlight) = Held(parsing) \cup ToSet(Q) \cup Held(hand)
  <2>1. \A a \in ToSet(P \o Q), b \in ToSet(H) : a < b
    BY <1>2, <1>5, <1>6 DEF Q
  <2> DEFINE s == P \o Q
  <2>2. s \in Seq(Nat) /\ Increasing(s) /\ InFlight = s \o H
    BY <1>1, <1>6
  <2>3. \A a \in ToSet(s), b \in ToSet(H) : a < b
    BY <2>1
  <2> HIDE DEF s
  <2>4. Increasing(InFlight) /\ ToSet(InFlight) = ToSet(s) \cup ToSet(H)
    BY <1>1, <1>2, <2>2, <2>3, ConcatMembers, ConcatIncreasing
  <2> QED BY <1>2, <1>6, <2>4 DEF s
<1>8. /\ processed \o InFlight \in Seq(Nat) /\ Increasing(processed \o InFlight)
      /\ ToSet(processed \o InFlight) = ToSet(processed) \cup ToSet(InFlight)
      /\ Len(processed \o InFlight) = Len(processed) + Len(InFlight)
  <2>1. \A a \in ToSet(processed), b \in ToSet(InFlight) : a < b
    BY <1>5, <1>7 DEF Q
  <2>2. InFlight \in Seq(Nat) /\ Increasing(InFlight)
    BY <1>1, <1>7
  <2>3. Increasing(processed \o InFlight)
    BY <1>4, <2>1, <2>2, ConcatIncreasing
  <2>4. ToSet(processed \o InFlight) = ToSet(processed) \cup ToSet(InFlight)
    BY <1>4, <2>2, ConcatMembers
  <2> QED BY <1>4, <2>2, <2>3, <2>4, ConcatProperties
<1>9. Path = ToSet(processed) \cup ToSet(InFlight)
  BY <1>7 DEF Path, Q
<1> QED BY <1>8, <1>9, CountMembers

(* Every batch that was received is processed, counted as dropped or in    *)
(* flight, exactly one of them; only an aborted worker may have lost one,  *)
(* the batch in its hand (enqueue_chunk_drop_oldest, worker_thread,        *)
(* drain_parser_backlog_for_abort).                                        *)
THEOREM EveryBatchAccountedFor == Spec => []BatchesAccountedFor
<1> SUFFICES PathInv => BatchesAccountedFor
  BY PathHolds, PTL
<1> SUFFICES ASSUME PathInv PROVE BatchesAccountedFor
  OBVIOUS
<1> DEFINE gone == dropped["parser"]
           known == ToSet(processed) \cup gone \cup ToSet(InFlight)
           missing == (1..received) \ known
<1>1. known = Path \cup gone
  BY CountPath
<1>2. /\ Path \subseteq 1..received /\ gone \subseteq 1..received
      /\ received \in Nat
  BY Holders DEF PathInv
<1>3. IsFiniteSet(1..received)
  BY <1>2, FS_Interval
<1>4. /\ IsFiniteSet(Path) /\ IsFiniteSet(gone)
      /\ Cardinality(Path) \in Nat /\ Cardinality(gone) \in Nat
  BY <1>2, <1>3, FS_Subset, FS_CardinalityType
<1>5. Path \cap gone = {}
  BY DEF PathInv, CountedOK
<1>6. Len(processed) + Cardinality(gone) + Len(InFlight) = Cardinality(known)
  <2>1. Cardinality(Path \cup gone)
          = Cardinality(Path) + Cardinality(gone) - Cardinality(Path \cap gone)
    <3> HIDE DEF gone
    <3> QED BY <1>4, FS_Union
  <2>2. Cardinality(Path \cap gone) = 0
    BY <1>5, FS_EmptySet
  <2>3. Cardinality(Path) = Len(processed) + Len(InFlight)
    BY CountPath
  <2>4. Len(processed) \in Nat /\ Len(InFlight) \in Nat
    BY InFlightParts, FlightTyped, LenProperties DEF PathInv, OrderOK
  <2> HIDE DEF known, gone
  <2> QED BY <1>1, <1>4, <2>1, <2>2, <2>3, <2>4
<1>7. Cardinality(missing) <= (IF worker = "aborted" THEN 1 ELSE 0)
  <2>1. CASE worker # "aborted"
    <3>1. missing = {}
      BY <1>1, <2>1 DEF PathInv, CountedOK
    <3> HIDE DEF missing
    <3> QED BY <2>1, <3>1, FS_EmptySet
  <2>2. CASE worker = "aborted"
    <3>1. PICK m : 1..received \subseteq Path \cup gone \cup {m}
      BY DEF PathInv, CountedOK
    <3>2. missing \subseteq {m}
      BY <1>1, <3>1
    <3>3. IsFiniteSet({m}) /\ Cardinality({m}) = 1
      BY FS_Singleton
    <3> HIDE DEF missing
    <3>4. Cardinality(missing) <= Cardinality({m})
      BY <3>2, <3>3, FS_Subset
    <3> QED BY <2>2, <3>3, <3>4
  <2> QED BY <2>1, <2>2
<1>8. worker = "finished" => InFlight = <<>>
  <2> SUFFICES ASSUME worker = "finished" PROVE InFlight = <<>>
    OBVIOUS
  <2>1. parsing = 0 /\ hand = 0 /\ queue["parser"] = <<>>
    BY DEF PathInv, TypeInv, NumbersOK, EndsOK, QueuesOK
  <2>2. <<>> \o <<>> = <<>>
    BY EmptySeq, ConcatEmptySeq
  <2> QED BY <2>1, <2>2 DEF InFlight
<1> QED BY <1>6, <1>7, <1>8 DEF BatchesAccountedFor

-----------------------------------------------------------------------------
(* The path to the pipeline is a lossy queue.                              *)

LEMMA FlightPut ==
  ASSUME NEW x \in Nat, NEW q \in Seq(Nat), NEW y \in Nat \ {0}
  PROVE  Flight(x, q, y) = Append(Flight(x, q, 0), y)
<1>1. /\ One(x) \o q \in Seq(Nat) /\ One(y) = <<y>> /\ One(0) = <<>>
  BY FlightTyped DEF One
<1>2. Flight(x, q, 0) = One(x) \o q
  BY <1>1, ConcatEmptySeq DEF Flight
<1> QED BY <1>1, <1>2, AppendIsConcat DEF Flight

LEMMA FlightDeliver ==
  ASSUME NEW x \in Nat \ {0}, NEW q \in Seq(Nat), NEW y \in Nat
  PROVE  /\ Flight(x, q, y) # <<>> /\ Head(Flight(x, q, y)) = x
         /\ Tail(Flight(x, q, y)) = Flight(0, q, y)
<1> DEFINE s == q \o One(y)
<1>1. /\ s \in Seq(Nat) /\ Flight(x, q, y) = One(x) \o s
      /\ Flight(0, q, y) = One(0) \o s
  BY FlightTyped
<1>2. One(x) = <<x>> /\ One(0) = <<>>
  BY DEF One
<1> HIDE DEF s
<1>3. Flight(0, q, y) = s
  BY <1>1, <1>2, ConcatEmptySeq
<1>4. x \in Nat /\ Flight(x, q, y) = <<x>> \o s
  BY <1>1, <1>2
<1>5. <<x>> \o s # <<>> /\ Head(<<x>> \o s) = x /\ Tail(<<x>> \o s) = s
  BY <1>1, <1>4, HeadTailCons
<1> QED BY <1>3, <1>4, <1>5

LEMMA FlightTake ==
  ASSUME NEW q \in Seq(Nat), q # <<>>, Head(q) # 0, NEW y \in Nat
  PROVE  Flight(0, q, y) = Flight(Head(q), Tail(q), y)
<1>1. One(Head(q)) = <<Head(q)>> /\ One(0) = <<>>
  BY DEF One
<1>2. <<>> \o q = q /\ <<Head(q)>> \o Tail(q) = q
  BY ConcatEmptySeq, ConsHeadTail
<1> QED BY <1>1, <1>2 DEF Flight

LEMMA FlightEnter ==
  ASSUME NEW x \in Nat, NEW q \in Seq(Nat), NEW y \in Nat \ {0}
  PROVE  Flight(x, q, y) = Flight(x, Append(q, y), 0)
<1>1. Append(q, y) \in Seq(Nat) /\ Append(q, y) = q \o <<y>>
  BY AppendProperties, AppendIsConcat
<1>2. One(y) = <<y>> /\ One(0) = <<>>
  BY DEF One
<1>3. Flight(x, q, y) = One(x) \o Append(q, y)
  <2>1. Flight(x, q, y) = One(x) \o (q \o One(y))
    BY FlightTyped
  <2> QED BY <1>1, <1>2, <2>1
<1>4. Flight(x, Append(q, y), 0) = One(x) \o Append(q, y)
  <2> DEFINE t == Append(q, y)
  <2>1. t \in Seq(Nat) /\ t \o <<>> = t
    BY <1>1, ConcatEmptySeq
  <2> HIDE DEF t
  <2>2. Flight(x, t, 0) = One(x) \o (t \o One(0))
    BY <2>1, FlightTyped
  <2> QED BY <1>2, <2>1, <2>2 DEF t
<1> QED BY <1>3, <1>4

LEMMA FlightEvict ==
  ASSUME NEW x \in Nat, NEW q \in Seq(Nat), q # <<>>, NEW y \in Nat
  PROVE  \E i \in 1..Len(Flight(x, q, y)) :
           RemoveAt(Flight(x, q, y), i) = Flight(x, Tail(q), y)
<1> DEFINE p == One(x)
           h == One(y)
           r == Tail(q)
           e == Head(q)
<1>1. /\ p \in Seq(Nat) /\ h \in Seq(Nat) /\ r \in Seq(Nat) /\ e \in Nat
  BY FlightTyped, TailMembers
<1>2. q = <<e>> \o r
  BY ConsHeadTail
<1>3. Flight(x, q, y) = p \o (q \o h) /\ Flight(x, r, y) = p \o (r \o h)
  BY <1>1, FlightTyped
<1> HIDE DEF p, h, r, e
<1>4. <<e>> \in Seq(Nat) /\ r \o h \in Seq(Nat)
  BY <1>1, ConcatProperties
<1>5. q \o h = <<e>> \o (r \o h)
  <2>1. <<e>> \in Seq(Nat) /\ r \in Seq(Nat) /\ h \in Seq(Nat)
    BY <1>1, <1>4
  <2>2. (<<e>> \o r) \o h = <<e>> \o (r \o h)
    BY <2>1, NumbersAssociative, Zenon
  <2> QED BY <1>2, <2>2
<1>6. /\ RemoveAt(p \o (<<e>> \o (r \o h)), Len(p) + 1) = p \o (r \o h)
      /\ Len(p) + 1 \in 1..Len(p \o (<<e>> \o (r \o h)))
  BY <1>1, <1>4, RemoveMiddle
<1> QED BY <1>3, <1>5, <1>6 DEF r

LEMMA FlightSteps ==
  ASSUME TypeInv, TypeInv', [Next]_vars
  PROVE  [Fifo!Next]_(Fifo!vars)
<1> DEFINE Q == queue["parser"]
<1>1. /\ InFlight = Flight(parsing, Q, hand)
      /\ InFlight' = Flight(parsing', Q', hand')
  BY DEF InFlight, Flight, One
<1>2. /\ parsing \in Nat /\ hand \in Nat /\ Q \in Seq(Nat)
      /\ received \in Nat /\ sent \in 0..MaxBatches
  BY Bounds DEF TypeInv, NumbersOK, QueuesOK
<1>3. ASSUME InFlight' = InFlight, processed' = processed
      PROVE  [Fifo!Next]_(Fifo!vars)
  BY <1>3 DEF Fifo!vars
<1>4. ASSUME parsing' = parsing, Q' = Q, hand' = hand, processed' = processed
      PROVE  [Fifo!Next]_(Fifo!vars)
  BY <1>1, <1>3, <1>4
<1>5. CASE Quiet
  BY <1>4, <1>5 DEF Quiet
<1>6. CASE Recv
  <2>1. hand' = received + 1 /\ received' = received + 1
    BY <1>6, RecvContents DEF TypeInv
  <2>2. hand = 0 /\ Q' = Q /\ UNCHANGED <<parsing, processed>>
    BY <1>6 DEF Recv, parser, TypeInv, NumbersOK
  <2>3. received + 1 \in 1..MaxBatches
    BY <2>1, Bounds DEF TypeInv, NumbersOK
  <2> HIDE DEF Q
  <2>4. Flight(parsing, Q, received + 1) = Append(Flight(parsing, Q, 0), received + 1)
    <3>1. received + 1 \in Nat \ {0}
      BY <1>2
    <3> QED BY <1>2, <3>1, FlightPut
  <2>5. InFlight' = Append(InFlight, received + 1)
    BY <1>1, <2>1, <2>2, <2>4
  <2>6. InFlight \in Seq(Nat) /\ received + 1 \in Nat
    BY <1>1, <1>2, FlightTyped, ConcatProperties DEF Flight
  <2>7. /\ InFlight' # <<>> /\ Front(InFlight') = InFlight
        /\ Last(InFlight') = received + 1
    BY <2>5, <2>6, AppendedLast
  <2> QED BY <2>2, <2>3, <2>7 DEF Fifo!Next, Fifo!Put, Fifo!Front, Fifo!Last, Front, Last
<1>7. CASE Process
  <2>1. /\ parsing # 0 /\ parsing' = 0 /\ processed' = Append(processed, parsing)
        /\ Q' = Q /\ hand' = hand
    BY <1>7 DEF Process, session, TypeInv, NumbersOK
  <2> HIDE DEF Q
  <2>2. InFlight # <<>> /\ Head(InFlight) = parsing /\ Tail(InFlight) = InFlight'
    BY <1>1, <1>2, <2>1, FlightDeliver
  <2> QED BY <2>1, <2>2 DEF Fifo!Next, Fifo!Deliver
<1>8. CASE GivesUp
  <2>1. parsing' = 0 /\ Q' = <<>> /\ UNCHANGED <<hand, processed>>
    BY <1>8 DEF GivesUp, DropBacklog, TypeInv, QueuesOK
  <2>2. hand = 0
    BY <1>8 DEF GivesUp, TypeInv, EndsOK, NumbersOK
  <2>3. Flight(0, <<>>, 0) = <<>>
    BY EmptySeq, ConcatEmptySeq DEF Flight, One
  <2>4. InFlight' = <<>>
    BY <1>1, <2>1, <2>2, <2>3
  <2> QED BY <2>1, <2>4 DEF Fifo!Next, Fifo!End
<1>9. CASE Takes
  <2>1. /\ parsing = 0 /\ parsing' = Head(Q) /\ Q # <<>> /\ hand' = hand
        /\ processed' = processed
    BY <1>9 DEF Takes, TypeInv, NumbersOK
  <2>2. Head(Q) # 0 /\ Q' = Tail(Q)
    BY <1>9, TakeContents, Bounds DEF Takes, TypeInv
  <2> HIDE DEF Q
  <2>3. InFlight' = InFlight
    BY <1>1, <1>2, <2>1, <2>2, FlightTake
  <2> QED BY <1>3, <2>1, <2>3
<1>10. CASE Scans
  <2>1. Q' = Q
    BY <1>10 DEF Scans, TypeInv, QueuesOK
  <2> QED BY <1>4, <1>10, <2>1 DEF Scans
<1>11. CASE Enters("scanner")
  <2>1. Q' = Q /\ hand' = hand
    BY <1>11 DEF Enters, TypeInv, QueuesOK
  <2> QED BY <1>4, <1>11, <2>1 DEF Enters
<1>12. CASE Enters("parser")
  <2>1. hand' = 0 /\ UNCHANGED <<parsing, processed>>
    BY <1>12 DEF Enters
  <2>2. hand # 0 /\ Q' = Append(Q, hand)
    BY <1>12, EnterContents, Bounds DEF TypeInv
  <2> HIDE DEF Q
  <2>3. InFlight' = InFlight
    BY <1>1, <1>2, <2>1, <2>2, FlightEnter
  <2> QED BY <1>3, <2>1, <2>3
<1>13. CASE Evicts("scanner")
  <2>1. Q' = Q
    BY <1>13 DEF Evicts, TypeInv, QueuesOK
  <2> QED BY <1>4, <1>13, <2>1 DEF Evicts
<1>14. CASE Evicts("parser")
  <2>1. Q # <<>> /\ UNCHANGED <<hand, parsing, processed>>
    BY <1>14 DEF Evicts
  <2>2. Q' = Tail(Q)
    BY <1>14, TakeContents, Bounds DEF Evicts, TypeInv
  <2> HIDE DEF Q
  <2>3. \E i \in 1..Len(InFlight) : RemoveAt(InFlight, i) = InFlight'
    BY <1>1, <1>2, <2>1, <2>2, FlightEvict
  <2>4. Fifo!Lose
    BY <2>1, <2>3 DEF Fifo!Lose, RemoveAt, Fifo!RemoveAt
  <2> QED BY <2>4 DEF Fifo!Next
<1> QED BY <1>5, <1>6, <1>7, <1>8, <1>9, <1>10, <1>11, <1>12, <1>13, <1>14, Moves
        DEF TypeInv, Queue

(* From the session to the pipeline batches may be lost, but none is       *)
(* reordered or processed twice (drive_session_with_hooks to               *)
(* Pipeline::process_records).                                             *)
THEOREM PathIsALossyQueue == Spec => ImplementsFifo
<1>1. Init => Fifo!Init
  <2>1. <<>> \o <<>> = <<>>
    BY EmptySeq, ConcatEmptySeq
  <2> QED BY <2>1, Bounds DEF Init, Fifo!Init, InFlight
<1>2. Spec => []TypeInv
  BY InitTyped, StepTyped, PTL DEF Spec
<1>3. TypeInv /\ TypeInv' /\ [Next]_vars => [Fifo!Next]_(Fifo!vars)
  BY FlightSteps
<1> QED BY <1>1, <1>2, <1>3, PTL DEF Spec, ImplementsFifo, Fifo!Spec

-----------------------------------------------------------------------------
(* The probe scanner.                                                      *)

LEMMA InitProbe == Init => ProbeInv
<1> SUFFICES ASSUME Init PROVE ScannerOK /\ TriggersOK
  BY InitTyped DEF ProbeInv
<1>1. Unscanned = {} /\ received = 0 /\ pending = [tid |-> 0, triggered |-> FALSE]
  BY Bounds, EmptyIncreasing DEF Init, NoSample, Unscanned, Held
<1>2. ScannerOK
  BY <1>1 DEF ScannerOK
<1>3. triggers = <<>> /\ Len(triggers) = 0 /\ <<>> \in Seq(Nat \X Nat)
  BY EmptySeq DEF Init
<1> QED BY <1>2, <1>3 DEF TriggersOK

\* What a step does to the batches the scanner has still to see.
ScannerRests ==
  /\ UNCHANGED <<received, pending, triggers>> /\ Unscanned' = Unscanned
  /\ dropped'["scanner"] = dropped["scanner"]

ScannerGets ==
  /\ UNCHANGED <<pending, triggers>> /\ received' = received + 1
  /\ Unscanned' = Unscanned \cup {received + 1}
  /\ dropped'["scanner"] = dropped["scanner"]

ScannerMisses ==
  /\ UNCHANGED <<received, pending, triggers>>
  /\ \E b \in 1..received : /\ Unscanned = Unscanned' \cup {b}
                            /\ dropped'["scanner"] = dropped["scanner"] \cup {b}

ScannerFed(b) ==
  /\ b \in Unscanned /\ b \notin Unscanned' /\ Before({b}, Unscanned')
  /\ Unscanned = Unscanned' \cup {b}
  /\ Feed(b)
  /\ received' = received /\ dropped'["scanner"] = dropped["scanner"]

LEMMA ScannerMoves ==
  ASSUME TypeInv, [Next]_vars
  PROVE  \/ ScannerRests \/ ScannerGets \/ ScannerMisses
         \/ \E b \in 1..received : ScannerFed(b)
<1> DEFINE Q == ToSet(queue["scanner"])
<1> USE Bounds
<1>1. CASE Quiet
  BY <1>1 DEF Quiet, ScannerRests, Unscanned
<1>2. CASE Recv
  <2>1. hand' = received + 1 /\ received' = received + 1 /\ to' = "scanner"
    BY <1>2, RecvContents DEF TypeInv
  <2>2. hand = 0 /\ UNCHANGED <<queue, dropped, pending, triggers>>
    BY <1>2 DEF Recv, probe, TypeInv, NumbersOK
  <2>3. Held(hand) = {} /\ Held(hand') = {received + 1}
    BY <2>1, <2>2 DEF Held, TypeInv, NumbersOK
  <2> QED BY <2>1, <2>2, <2>3 DEF ScannerGets, Unscanned
<1>3. CASE Process
  BY <1>3 DEF Process, session, probe, ScannerRests, Unscanned
<1>4. CASE GivesUp
  <2>1. queue'["scanner"] = queue["scanner"] /\ dropped'["scanner"] = dropped["scanner"]
    BY <1>4 DEF GivesUp, DropBacklog, TypeInv, QueuesOK
  <2> QED BY <1>4, <2>1 DEF GivesUp, ScannerRests, Unscanned
<1>5. CASE Takes
  <2>1. queue'["scanner"] = queue["scanner"]
    BY <1>5 DEF Takes, TypeInv, QueuesOK
  <2> QED BY <1>5, <2>1 DEF Takes, ScannerRests, Unscanned
<1>6. CASE Enters("parser")
  <2>1. queue'["scanner"] = queue["scanner"] /\ to = "parser" /\ to' = to
    BY <1>6 DEF Enters, TypeInv, QueuesOK
  <2> QED BY <1>6, <2>1 DEF Enters, ScannerRests, Unscanned
<1>7. CASE Enters("scanner")
  <2>1. hand # 0 /\ ToSet(queue'["scanner"]) = Q \cup {hand}
    BY <1>7, EnterContents DEF TypeInv
  <2>2. /\ to = "scanner" /\ to' = "parser"
        /\ UNCHANGED <<received, dropped, pending, triggers>>
    BY <1>7 DEF Enters
  <2>3. Held(hand) = {hand}
    BY <2>1 DEF Held
  <2> QED BY <2>1, <2>2, <2>3 DEF ScannerRests, Unscanned
<1>8. CASE Evicts("parser")
  <2>1. queue'["scanner"] = queue["scanner"] /\ dropped'["scanner"] = dropped["scanner"]
    BY <1>8 DEF Evicts, TypeInv, QueuesOK
  <2> QED BY <1>8, <2>1 DEF Evicts, ScannerRests, Unscanned
<1>9. CASE Evicts("scanner")
  <2> DEFINE b == Head(queue["scanner"])
  <2>1. b \in 1..received /\ Q = {b} \cup ToSet(queue'["scanner"])
    BY <1>9, TakeContents DEF Evicts, TypeInv
  <2>2. /\ dropped'["scanner"] = dropped["scanner"] \cup {b}
        /\ UNCHANGED <<received, hand, to, pending, triggers>>
    BY <1>9 DEF Evicts, TypeInv, QueuesOK
  <2> HIDE DEF b
  <2>3. Unscanned = Unscanned' \cup {b}
    BY <2>1, <2>2 DEF Unscanned
  <2> QED BY <2>1, <2>2, <2>3 DEF ScannerMisses
<1>10. CASE Scans
  <2> DEFINE b == Head(queue["scanner"])
             R == ToSet(queue'["scanner"])
             H == IF to = "scanner" THEN Held(hand) ELSE {}
  <2>1. b \in 1..received /\ Q = {b} \cup R /\ Before({b}, R)
    BY <1>10, TakeContents DEF Scans, TypeInv
  <2>2. Feed(b) /\ UNCHANGED <<received, hand, to, dropped>>
    BY <1>10 DEF Scans
  <2>3. Before(Q, H)
    BY DEF TypeInv, QueuesOK, Before
  <2>4. Unscanned = Q \cup H /\ Unscanned' = R \cup H
    BY <2>2 DEF Unscanned
  <2> HIDE DEF b, R, H, Q
  <2>5. Before({b}, R \cup H)
    BY <2>1, <2>3 DEF Before
  <2>6. b \notin R \cup H
    BY <2>1, <2>5, TypeInv DEF Before, TypeInv, NumbersOK
  <2>7. ScannerFed(b)
    BY <2>1, <2>2, <2>4, <2>5, <2>6 DEF ScannerFed
  <2> QED BY <2>1, <2>7
<1> QED BY <1>1, <1>2, <1>3, <1>4, <1>5, <1>6, <1>7, <1>8, <1>9, <1>10, Moves
        DEF TypeInv, Queue

LEMMA StepScanner ==
  ASSUME TypeInv, ScannerOK, TriggersOK, [Next]_vars
  PROVE  ScannerOK' /\ TriggersOK'
<1> USE Bounds
<1>0. /\ received \in Nat /\ Unscanned \subseteq 1..received
      /\ dropped["scanner"] \subseteq 1..received
  BY DEF TypeInv, NumbersOK, QueuesOK, Unscanned, Held
<1>1. CASE ScannerRests
  BY <1>1 DEF ScannerRests, ScannerOK, TriggersOK
<1>2. CASE ScannerGets
  <2>1. ScannerOK'
    <3>1. \A x \in Unscanned' : x..received' \subseteq dropped'["scanner"] \cup Unscanned'
      BY <1>0, <1>2 DEF ScannerGets, ScannerOK
    <3>2. pending' = pending /\ pending.tid \in Nat /\ pending.tid <= received'
      BY <1>0, <1>2 DEF ScannerGets, ScannerOK
    <3>3. pending.tid # 0 => Before({pending.tid}, Unscanned')
      BY <1>0, <1>2 DEF ScannerGets, ScannerOK, Before
    <3>4. pending.tid # 0 =>
            \A b \in (pending.tid + 1)..received' : Kind[b] \in {"start", "end"} =>
              b \in dropped'["scanner"] \cup Unscanned'
      BY <1>0, <1>2 DEF ScannerGets, ScannerOK
    <3> QED BY <3>1, <3>2, <3>3, <3>4 DEF ScannerOK
  <2>2. TriggersOK'
    <3>1. \A i \in 1..Len(triggers) : triggers[i][1] \in Nat
      BY ElementOfSeq DEF TriggersOK
    <3> QED BY <1>0, <1>2, <3>1 DEF ScannerGets, TriggersOK, Before
  <2> QED BY <2>1, <2>2
<1>3. CASE ScannerMisses
  <2>1. PICK b \in 1..received : /\ Unscanned = Unscanned' \cup {b}
                                 /\ dropped'["scanner"] = dropped["scanner"] \cup {b}
    BY <1>3 DEF ScannerMisses
  <2>2. UNCHANGED <<received, pending, triggers>>
    BY <1>3 DEF ScannerMisses
  <2>3. ScannerOK'
    BY <2>1, <2>2 DEF ScannerOK, Before
  <2>4. TriggersOK'
    BY <2>1, <2>2 DEF TriggersOK, Before
  <2> QED BY <2>3, <2>4
<1>4. ASSUME NEW b \in 1..received, ScannerFed(b)
      PROVE  ScannerOK' /\ TriggersOK'
  <2>1. /\ b \in Unscanned /\ b \notin Unscanned' /\ Before({b}, Unscanned')
        /\ Unscanned = Unscanned' \cup {b}
        /\ received' = received /\ dropped'["scanner"] = dropped["scanner"]
    BY <1>4 DEF ScannerFed
  <2>2. \A x \in Unscanned' : x..received' \subseteq dropped'["scanner"] \cup Unscanned'
    BY <1>0, <2>1 DEF ScannerOK, Before
  <2>3. \A i \in 1..Len(triggers) : /\ Before({triggers[i][1]}, Unscanned')
                                    /\ triggers[i][1] < b /\ triggers[i][1] \in Nat
    <3>1. \A i \in 1..Len(triggers) : triggers[i][1] \in Nat
      BY ElementOfSeq DEF TriggersOK
    <3> QED BY <2>1, <3>1 DEF TriggersOK, Before
  <2>4. pending.tid # 0 => pending.tid < b /\ Before({pending.tid}, Unscanned')
    BY <2>1 DEF ScannerOK, Before
  <2>5. pending \in [tid : Nat, triggered : BOOLEAN] /\ pending.tid <= received
    BY DEF ScannerOK
  <2>6. CASE /\ Kind[b] = "start" /\ pending' = [tid |-> b, triggered |-> FALSE]
             /\ UNCHANGED triggers
    <3>1. pending'.tid = b /\ pending' \in [tid : Nat, triggered : BOOLEAN]
      BY <2>6
    <3>2. \A c \in (b + 1)..received : c \in dropped["scanner"] \cup Unscanned'
      <4>1. b..received \subseteq dropped["scanner"] \cup Unscanned
        BY <2>1 DEF ScannerOK
      <4> QED BY <2>1, <4>1
    <3>3. ScannerOK'
      BY <2>1, <2>2, <3>1, <3>2 DEF ScannerOK
    <3>4. TriggersOK'
      BY <2>1, <2>3, <2>6, <3>1 DEF TriggersOK
    <3> QED BY <3>3, <3>4
  <2>7. CASE pending' = NoSample /\ UNCHANGED triggers
    <3>1. pending'.tid = 0 /\ pending' \in [tid : Nat, triggered : BOOLEAN]
      BY <2>7 DEF NoSample
    <3>2. ScannerOK'
      <4>1. pending'.tid <= received'
        BY <1>0, <2>1, <3>1
      <4> QED BY <2>2, <3>1, <4>1, Zenon DEF ScannerOK
    <3>3. TriggersOK'
      <4>1. triggers \in Seq(Nat \X Nat) /\ triggers' = triggers
        BY <2>7 DEF TriggersOK
      <4>2. \A i \in 1..Len(triggers) :
              /\ triggers[i][1] <= received' /\ Before({triggers[i][1]}, Unscanned')
              /\ \A c \in (triggers[i][1] + 1)..(triggers[i][2] - 1) :
                   Kind[c] \in {"start", "end"} => c \in dropped'["scanner"]
        BY <2>1, <2>3 DEF TriggersOK
      <4>3. \A i, j \in 1..Len(triggers) : i < j => triggers[i][1] < triggers[j][1]
        BY DEF TriggersOK
      <4> QED BY <3>1, <4>1, <4>2, <4>3, Zenon DEF TriggersOK
    <3> QED BY <3>2, <3>3
  <2>8. CASE /\ Kind[b] = "user" /\ pending.tid # 0 /\ ~pending.triggered
             /\ pending' = [pending EXCEPT !.triggered = TRUE]
             /\ triggers' = Append(triggers, <<pending.tid, b>>)
    <3>1. /\ pending'.tid = pending.tid /\ pending'.triggered = TRUE
          /\ pending' \in [tid : Nat, triggered : BOOLEAN]
      BY <2>5, <2>8
    <3>2. \A c \in (pending.tid + 1)..received : Kind[c] \in {"start", "end"} =>
             c \in dropped["scanner"] \cup Unscanned'
      BY <2>1, <2>8 DEF ScannerOK
    <3>3. ScannerOK'
      BY <2>1, <2>2, <2>4, <2>5, <3>1, <3>2 DEF ScannerOK
    <3>4. /\ <<pending.tid, b>> \in Nat \X Nat /\ triggers \in Seq(Nat \X Nat)
          /\ Len(triggers) \in Nat
      BY <2>5, LenProperties DEF TriggersOK
    <3>5. /\ triggers' \in Seq(Nat \X Nat) /\ Len(triggers') = Len(triggers) + 1
          /\ \A i \in 1..Len(triggers) : triggers'[i] = triggers[i]
          /\ triggers'[Len(triggers) + 1] = <<pending.tid, b>>
      BY <2>8, <3>4, AppendProperties
    <3>6. \A c \in (pending.tid + 1)..(b - 1) : Kind[c] \in {"start", "end"} =>
             c \in dropped["scanner"]
      <4> SUFFICES ASSUME NEW c \in (pending.tid + 1)..(b - 1),
                          Kind[c] \in {"start", "end"}
                   PROVE  c \in dropped["scanner"]
        OBVIOUS
      <4>1. c \in (pending.tid + 1)..received /\ c < b
        BY <1>0, <2>5
      <4>2. c \notin Unscanned'
        BY <2>1, <4>1 DEF Before
      <4> QED BY <3>2, <4>1, <4>2
    <3>7. \A i \in 1..Len(triggers) : triggers[i][1] < pending.tid
      BY <2>8 DEF TriggersOK
    <3>8. \A i \in 1..Len(triggers') : i \in 1..Len(triggers) \/ i = Len(triggers) + 1
      BY <3>4, <3>5
    <3>9. ASSUME NEW i \in 1..Len(triggers')
          PROVE  /\ triggers'[i][1] <= received'
                 /\ Before({triggers'[i][1]}, Unscanned')
                 /\ pending'.tid # 0 =>
                      \/ triggers'[i][1] < pending'.tid
                      \/ triggers'[i][1] = pending'.tid /\ pending'.triggered
                 /\ \A c \in (triggers'[i][1] + 1)..(triggers'[i][2] - 1) :
                      Kind[c] \in {"start", "end"} => c \in dropped'["scanner"]
      <4>1. CASE i \in 1..Len(triggers)
        BY <2>1, <2>3, <3>1, <3>5, <3>7, <4>1 DEF TriggersOK
      <4>2. CASE i = Len(triggers) + 1
        <5>1. triggers'[i][1] = pending.tid /\ triggers'[i][2] = b
          BY <3>5, <4>2
        <5> QED BY <2>1, <2>4, <2>5, <2>8, <3>1, <3>6, <5>1
      <4> QED BY <3>8, <4>1, <4>2
    <3>10. ASSUME NEW i \in 1..Len(triggers'), NEW j \in 1..Len(triggers'), i < j
           PROVE  triggers'[i][1] < triggers'[j][1]
      <4>1. i \in 1..Len(triggers)
        BY <3>4, <3>5, <3>10
      <4>2. CASE j \in 1..Len(triggers)
        BY <3>5, <3>10, <4>1, <4>2 DEF TriggersOK
      <4>3. CASE j = Len(triggers) + 1
        <5>1. triggers'[j][1] = pending.tid /\ triggers'[i] = triggers[i]
          BY <3>5, <4>1, <4>3
        <5> QED BY <3>7, <4>1, <5>1
      <4> QED BY <3>8, <4>2, <4>3
    <3>11. TriggersOK'
      BY <3>5, <3>9, <3>10 DEF TriggersOK
    <3> QED BY <3>3, <3>11
  <2>9. CASE Kind[b] \notin {"start", "end"} /\ UNCHANGED <<pending, triggers>>
    <3>1. ScannerOK'
      BY <2>1, <2>2, <2>4, <2>5, <2>9 DEF ScannerOK
    <3>2. TriggersOK'
      BY <2>1, <2>3, <2>9 DEF TriggersOK
    <3> QED BY <3>1, <3>2
  <2> QED BY <1>4, <2>6, <2>7, <2>8, <2>9 DEF ScannerFed, Feed
<1> QED BY <1>1, <1>2, <1>3, <1>4, ScannerMoves

(* A probe is triggered at most once per sample, and by a stack header of  *)
(* that sample: what ended the sample in between was dropped               *)
(* (KperfProbeTriggerScanner::feed).                                       *)
THEOREM ProbesAreTrue == Spec => []ProbesTrue
<1>1. ProbeInv /\ [Next]_vars => ProbeInv'
  BY StepTyped, StepScanner DEF ProbeInv
<1>2. Spec => []ProbeInv
  BY <1>1, InitProbe, PTL DEF Spec
<1>3. ProbeInv => ProbesTrue
  <2> SUFFICES ASSUME ProbeInv PROVE ProbesTrue
    OBVIOUS
  <2>1. Len(triggers) \in Nat /\ DOMAIN triggers = 1..Len(triggers)
        /\ \A i \in 1..Len(triggers) : triggers[i][1] \in Nat
    BY LenProperties, ElementOfSeq DEF ProbeInv, TriggersOK
  <2>2. \A i, j \in 1..Len(triggers) : triggers[j][1] = triggers[i][1] => j = i
    BY <2>1 DEF ProbeInv, TriggersOK
  <2> QED BY <2>1, <2>2 DEF ProbeInv, TriggersOK, ProbesTrue
<1> QED BY <1>2, <1>3, PTL
=============================================================================
