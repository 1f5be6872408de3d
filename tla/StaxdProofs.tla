----------------------------- MODULE StaxdProofs ----------------------------
(***************************************************************************)
(* Proofs about staxd.                                                     *)
(*                                                                         *)
(* One drain session (StaxdDrain), for every number of records, every      *)
(* queue capacity and every bound of the read size.  Records are numbered  *)
(* in the order they are read, and every holder of records (the client,    *)
(* the sender, the queue, the thread) holds older ones than the next: so   *)
(* the holders share no record, and moving a batch from one to the next    *)
(* moves exactly its own records.  From there the queue between thread and *)
(* sender is shown to be a lossy FIFO.                                     *)
(*                                                                         *)
(* The session slot (StaxdDaemon), for every set of record and stop calls, *)
(* at the end.                                                             *)
(***************************************************************************)
EXTENDS StaxdDrain, StaxdDaemon, SequenceLemmas

(* The buffer is allocated with MaxReadSize records, and a read asks for   *)
(* no more than that (session.rs: &mut buf[..read_batch_records]).         *)
ReadSizeFits == readSize \in 1..MaxReadSize

LEMMA ReadSizes ==
  /\ MinReadSize \in Nat \ {0} /\ MaxReadSize \in Nat
  /\ MinReadSize <= MaxReadSize
BY DrainAssumption DEF MinReadSize, MaxReadSize, Smaller, Larger

(* Doubling and halving keep the read size between its bounds              *)
(* (drain_kdebug_loop).                                                    *)
LEMMA NextReadSizeFits ==
  ASSUME readSize \in MinReadSize..MaxReadSize, NEW n \in Nat
  PROVE  NextReadSize(n) \in MinReadSize..MaxReadSize
BY ReadSizes DEF NextReadSize, Smaller, Larger

(* Batches are finite sets of records.                                     *)
LEMMA BatchesAreFinite ==
  ASSUME NEW b \in Batch
  PROVE  IsFiniteSet(b) /\ Cardinality(b) \in Nat
<1>1. IsFiniteSet(1..MaxRecords)
  BY DrainAssumption, FS_Interval
<1>2. IsFiniteSet(b)
  BY <1>1, FS_Subset DEF Batch
<1> QED BY <1>2, FS_CardinalityType

LEMMA Bounds ==
  /\ MaxRecords \in Nat
  /\ Capacity \in Nat /\ Capacity >= 1
  /\ {} \in Batch
BY DrainAssumption DEF Batch

\* TypeOK in parts: flags, where each actor is and what it counts, and what it
\* holds.
FlagsOK == cancel \in BOOLEAN /\ due \in BOOLEAN

ControlOK ==
  /\ traced \in 0..MaxRecords /\ drained \in 0..traced
  /\ loop \in {"check", "read", "offer", "evict", "ended", "failed"}
  /\ readSize \in MinReadSize..MaxReadSize
  /\ dropped \in Nat /\ lost \in Nat
  /\ sender \in {"recv", "send", "flushed", "closed", "aborted"}
  /\ supervisor \in {"join", "flush", "done"}
  /\ client \in {"open", "closed"}

HoldersOK ==
  /\ offer \in Batch /\ sending \in Batch
  /\ queue \in Seq(Batch) /\ Len(queue) <= Capacity
  /\ received \in Seq(Batch)

LEMMA TypeParts == TypeOK <=> FlagsOK /\ ControlOK /\ HoldersOK
BY DEF TypeOK, FlagsOK, ControlOK, HoldersOK

(* The session's variables keep their types: among them the read size and  *)
(* the length of the queue stay within their bounds.                       *)
LEMMA InitTyped == Init => TypeOK
<1> SUFFICES ASSUME Init PROVE FlagsOK /\ ControlOK /\ HoldersOK
  BY TypeParts
<1>0. FlagsOK
  BY DEF Init, FlagsOK
<1>1. ControlOK
  BY Bounds, ReadSizes DEF Init, ControlOK
<1>2. queue \in Seq(Batch) /\ Len(queue) = 1 /\ received \in Seq(Batch)
  BY Bounds DEF Init
<1>3. offer \in Batch /\ sending \in Batch
  BY Bounds DEF Init
<1> QED BY <1>0, <1>1, <1>2, <1>3, Bounds DEF HoldersOK

LEMMA StepFlags == FlagsOK /\ [Next]_vars => FlagsOK'
BY Zenon
   DEF Next, DrainThread, Sender, Supervisor, Trace, ClientCloses, StopRecording,
       HeartbeatDue, CheckCancel, ReadFails, ReadNothing, ReadRecords, TrySend,
       Evict, Recv, SendOk, SendFails, Join, Flushed, FlushTimeout, vars, thread,
       task, FlagsOK

LEMMA StepTyped == TypeOK /\ [Next]_vars => TypeOK'
<1> SUFFICES ASSUME ControlOK, HoldersOK, [Next]_vars
             PROVE  ControlOK' /\ HoldersOK'
  BY StepFlags DEF TypeOK, FlagsOK, ControlOK, HoldersOK
<1> USE Bounds
<1>1. CASE Trace \/ ClientCloses \/ StopRecording \/ HeartbeatDue
  <2>1. ControlOK'
    BY <1>1 DEF Trace, ClientCloses, StopRecording, HeartbeatDue, thread, task,
                ControlOK
  <2>2. HoldersOK'
    BY <1>1 DEF Trace, ClientCloses, StopRecording, HeartbeatDue, thread, task,
                HoldersOK
  <2> QED BY <2>1, <2>2
<1>2. CASE CheckCancel \/ ReadFails
  <2>1. ControlOK'
    BY <1>2 DEF CheckCancel, ReadFails, task, ControlOK
  <2>2. HoldersOK'
    BY <1>2 DEF CheckCancel, ReadFails, task, HoldersOK
  <2> QED BY <2>1, <2>2
<1>3. CASE ReadNothing
  <2>1. ControlOK'
    BY <1>3, ReadSizes DEF ReadNothing, task, ControlOK
  <2>2. HoldersOK'
    BY <1>3 DEF ReadNothing, task, HoldersOK
  <2> QED BY <2>1, <2>2
<1>4. ASSUME NEW n \in 1..MaxRecords, ReadRecords(n)
      PROVE  ControlOK' /\ HoldersOK'
  <2>1. readSize' \in MinReadSize..MaxReadSize
    BY <1>4, NextReadSizeFits DEF ReadRecords, ControlOK
  <2>2. ControlOK'
    BY <1>4, <2>1 DEF ReadRecords, task, ControlOK
  <2>3. offer' \in Batch
    BY <1>4 DEF ReadRecords, ControlOK, Batch
  <2>4. HoldersOK'
    BY <1>4, <2>3 DEF ReadRecords, task, HoldersOK
  <2> QED BY <2>2, <2>4
<1>5. CASE TrySend
  <2>1. ControlOK'
    BY <1>5 DEF TrySend, task, ControlOK
  <2>2. /\ Append(queue, offer) \in Seq(Batch)
        /\ Len(Append(queue, offer)) = Len(queue) + 1 /\ Len(queue) \in Nat
    BY AppendProperties, LenProperties DEF HoldersOK
  <2>3. HoldersOK'
    <3>1. CASE Len(queue) < Capacity
      <4>1. /\ queue' = Append(queue, offer) /\ offer' = {}
            /\ sending' = sending /\ received' = received
        BY <1>5, <3>1 DEF TrySend, task
      <4>2. Len(Append(queue, offer)) <= Capacity
        BY <2>2, <3>1
      <4> QED BY <2>2, <4>1, <4>2 DEF HoldersOK
    <3>2. CASE ~(Len(queue) < Capacity)
      BY <1>5, <3>2 DEF TrySend, task, HoldersOK
    <3> QED BY <3>1, <3>2
  <2> QED BY <2>1, <2>3
<1>6. CASE Evict
  <2>1. CASE queue = <<>>
    <3>1. ControlOK'
      BY <1>6, <2>1 DEF Evict, task, ControlOK
    <3>2. HoldersOK'
      BY <1>6, <2>1 DEF Evict, task, HoldersOK
    <3> QED BY <3>1, <3>2
  <2>2. CASE queue # <<>>
    <3>1. Head(queue) \in Batch /\ Tail(queue) \in Seq(Batch)
          /\ Len(Tail(queue)) = Len(queue) - 1 /\ Len(queue) \in Nat
      BY <2>2, HeadTailProperties DEF HoldersOK
    <3>2. Cardinality(Head(queue)) \in Nat
      BY <3>1, BatchesAreFinite
    <3>3. ControlOK'
      BY <1>6, <2>2, <3>2 DEF Evict, task, ControlOK
    <3>4. HoldersOK'
      BY <1>6, <2>2, <3>1 DEF Evict, task, HoldersOK
    <3> QED BY <3>3, <3>4
  <2> QED BY <2>1, <2>2
<1>7. CASE Recv
  <2>1. ControlOK'
    BY <1>7 DEF Recv, thread, ControlOK
  <2>2. queue # <<>> => /\ Head(queue) \in Batch /\ Tail(queue) \in Seq(Batch)
                        /\ Len(Tail(queue)) <= Capacity
    BY HeadTailProperties, LenProperties DEF HoldersOK
  <2>3. HoldersOK'
    BY <1>7, <2>2 DEF Recv, thread, HoldersOK
  <2> QED BY <2>1, <2>3
<1>8. CASE SendOk
  <2>1. ControlOK'
    BY <1>8 DEF SendOk, thread, ControlOK
  <2>2. received' \in Seq(Batch)
    BY <1>8, AppendProperties DEF SendOk, HoldersOK
  <2>3. HoldersOK'
    BY <1>8, <2>2 DEF SendOk, thread, HoldersOK
  <2> QED BY <2>1, <2>3
<1>9. CASE SendFails \/ FlushTimeout
  <2>1. Cardinality(sending) \in Nat
    BY BatchesAreFinite DEF HoldersOK
  <2>2. ControlOK'
    BY <1>9, <2>1 DEF SendFails, FlushTimeout, thread, ControlOK
  <2>3. HoldersOK'
    BY <1>9 DEF SendFails, FlushTimeout, thread, HoldersOK
  <2> QED BY <2>2, <2>3
<1>10. CASE Join \/ Flushed \/ UNCHANGED vars
  <2>1. ControlOK'
    BY <1>10 DEF Join, Flushed, vars, thread, task, ControlOK
  <2>2. HoldersOK'
    BY <1>10 DEF Join, Flushed, vars, thread, task, HoldersOK
  <2> QED BY <2>1, <2>2
<1> QED BY <1>1, <1>2, <1>3, <1>4, <1>5, <1>6, <1>7, <1>8, <1>9, <1>10
        DEF Next, DrainThread, Sender, Supervisor

THEOREM TypeCorrect == Spec => []TypeOK
BY InitTyped, StepTyped, PTL DEF Spec

(* A read never asks for more than the buffer holds, nor for nothing,      *)
(* whatever buffer size the client configured.                             *)
THEOREM ReadsFitTheBuffer == Spec => []ReadSizeFits
<1>1. TypeOK => ReadSizeFits
  BY ReadSizes, TypeParts DEF ControlOK, ReadSizeFits
<1> QED BY TypeCorrect, <1>1, PTL

-----------------------------------------------------------------------------
(* Sets of records and the sequences that hold them.                       *)

Held(s) == UNION Range(s)

Before(A, B) == \A a \in A, b \in B : a < b

\* Batches of a sequence hold ever later records.
InOrder(s) == \A i, j \in 1..Len(s) : i < j => Before(s[i], s[j])

(* Which records a sequence of batches holds.                              *)
LEMMA HeldRecords ==
  ASSUME NEW s \in Seq(Batch)
  PROVE  /\ \A x : x \in Held(s) <=> \E i \in 1..Len(s) : x \in s[i]
         /\ Held(s) \in Batch
<1>1. DOMAIN s = 1..Len(s) /\ \A i \in 1..Len(s) : s[i] \in Batch
  BY LenProperties, ElementOfSeq
<1> QED BY <1>1 DEF Held, Range, Batch

LEMMA HeldEmpty == Held(<<>>) = {}
BY DEF Held, Range

LEMMA HeldAppend ==
  ASSUME NEW s \in Seq(Batch), NEW b \in Batch, InOrder(s), Before(Held(s), b)
  PROVE  /\ Append(s, b) \in Seq(Batch)
         /\ Held(Append(s, b)) = Held(s) \cup b
         /\ InOrder(Append(s, b))
<1>1. /\ Append(s, b) \in Seq(Batch) /\ Len(Append(s, b)) = Len(s) + 1
      /\ \A i \in 1..Len(s) : Append(s, b)[i] = s[i]
      /\ Append(s, b)[Len(s) + 1] = b
  BY AppendProperties
<1>2. Len(s) \in Nat
  BY LenProperties
<1>3. Held(Append(s, b)) = Held(s) \cup b
  <2>1. \A x : x \in Held(Append(s, b))
                 <=> \E i \in 1..(Len(s) + 1) : x \in Append(s, b)[i]
    BY <1>1, HeldRecords
  <2>2. \A i \in 1..(Len(s) + 1) : i \in 1..Len(s) \/ i = Len(s) + 1
    BY <1>2
  <2>3. 1..Len(s) \subseteq 1..(Len(s) + 1) /\ Len(s) + 1 \in 1..(Len(s) + 1)
    BY <1>2
  <2> QED BY <1>1, <2>1, <2>2, <2>3, HeldRecords
<1>4. InOrder(Append(s, b))
  <2> SUFFICES ASSUME NEW i \in 1..(Len(s) + 1), NEW j \in 1..(Len(s) + 1), i < j
               PROVE  Before(Append(s, b)[i], Append(s, b)[j])
    BY <1>1 DEF InOrder
  <2>1. i \in 1..Len(s)
    BY <1>2
  <2>2. CASE j \in 1..Len(s)
    BY <1>1, <2>1, <2>2 DEF InOrder
  <2>3. CASE j = Len(s) + 1
    BY <1>1, <2>1, <2>3, HeldRecords DEF Before
  <2> QED BY <1>2, <2>2, <2>3
<1> QED BY <1>1, <1>3, <1>4

LEMMA HeldTail ==
  ASSUME NEW s \in Seq(Batch), s # <<>>, InOrder(s)
  PROVE  /\ Head(s) \in Batch /\ Tail(s) \in Seq(Batch)
         /\ Held(s) = Head(s) \cup Held(Tail(s))
         /\ Before(Head(s), Held(Tail(s)))
         /\ InOrder(Tail(s))
<1>1. /\ Head(s) \in Batch /\ Tail(s) \in Seq(Batch)
      /\ Len(Tail(s)) = Len(s) - 1
      /\ \A i \in 1..Len(Tail(s)) : Tail(s)[i] = s[i + 1]
  BY HeadTailProperties
<1>2. Len(s) \in Nat \ {0} /\ Head(s) = s[1]
  BY LenProperties, EmptySeq
<1>3. \A i \in 1..Len(Tail(s)) : i + 1 \in 1..Len(s) /\ 1 < i + 1
  BY <1>1, <1>2
<1>4. \A i \in 1..Len(s) : i # 1 => /\ i - 1 \in 1..Len(Tail(s))
                                  /\ i = (i - 1) + 1
  BY <1>1, <1>2
<1>5. \A x : x \in Held(Tail(s)) <=> \E i \in 1..Len(Tail(s)) : x \in s[i + 1]
  BY <1>1, HeldRecords
<1>6. Held(s) = Head(s) \cup Held(Tail(s))
  <2>1. \A x : x \in Held(s) => x \in Head(s) \cup Held(Tail(s))
    BY <1>2, <1>4, <1>5, HeldRecords
  <2>2. \A x : x \in Head(s) \cup Held(Tail(s)) => x \in Held(s)
    BY <1>2, <1>3, <1>5, HeldRecords
  <2> QED BY <2>1, <2>2
<1>7. Before(Head(s), Held(Tail(s)))
  <2>1. 1 \in 1..Len(s)
    BY <1>2
  <2> QED BY <1>2, <1>3, <1>5, <2>1 DEF InOrder, Before
<1>8. InOrder(Tail(s))
  <2> SUFFICES ASSUME NEW i \in 1..Len(Tail(s)), NEW j \in 1..Len(Tail(s)), i < j
               PROVE  Before(s[i + 1], s[j + 1])
    BY <1>1 DEF InOrder
  <2> QED BY <1>3 DEF InOrder
<1> QED BY <1>1, <1>6, <1>7, <1>8

(* Holders in order share no record, so their counts add up.               *)
LEMMA CountsAdd ==
  ASSUME NEW A \in Batch, NEW B \in Batch, Before(A, B)
  PROVE  /\ A \cup B \in Batch
         /\ Cardinality(A \cup B) = Cardinality(A) + Cardinality(B)
<1>1. A \cap B = {}
  BY Bounds DEF Before, Batch
<1>2. Cardinality({}) = 0
  BY FS_EmptySet
<1>3. /\ IsFiniteSet(A) /\ Cardinality(A) \in Nat
      /\ IsFiniteSet(B) /\ Cardinality(B) \in Nat
  BY BatchesAreFinite
<1>4. Cardinality(A \cup B)
        = Cardinality(A) + Cardinality(B) - Cardinality(A \cap B)
  BY <1>3, FS_Union
<1>5. A \cup B \in Batch
  BY DEF Batch
<1>6. Cardinality(A \cap B) = 0
  BY <1>1, <1>2
<1> QED BY <1>3, <1>4, <1>5, <1>6

LEMMA HeldInFlight ==
  ASSUME HoldersOK
  PROVE  Held(InFlight) = (sending \cup Held(queue)) \cup offer
<1>1. /\ <<sending>> \in Seq(Batch) /\ <<offer>> \in Seq(Batch)
      /\ queue \in Seq(Batch)
  BY DEF HoldersOK
<1>2. <<sending>> \o queue \in Seq(Batch)
  BY <1>1, ConcatProperties
<1>3. Range(InFlight) = (Range(<<sending>>) \cup Range(queue)) \cup Range(<<offer>>)
  <2>1. \A s, t \in Seq(Batch) : Range(s \o t) = Range(s) \cup Range(t)
    BY RangeConcatenation
  <2>2. Range(<<sending>> \o queue) = Range(<<sending>>) \cup Range(queue)
    <3>1. \A s \in Seq(Batch) : Range(s \o queue) = Range(s) \cup Range(queue)
      BY <1>1, <2>1
    <3> QED BY <1>1, <3>1
  <2>3. Range((<<sending>> \o queue) \o <<offer>>)
          = Range(<<sending>> \o queue) \cup Range(<<offer>>)
    <3>1. \A t \in Seq(Batch) : Range((<<sending>> \o queue) \o t)
                                  = Range(<<sending>> \o queue) \cup Range(t)
      BY <1>2, <2>1
    <3> QED BY <1>1, <3>1
  <2> QED BY <2>2, <2>3 DEF InFlight
<1>4. Range(<<sending>>) = {sending} /\ Range(<<offer>>) = {offer}
  BY DEF Range
<1> QED BY <1>3, <1>4 DEF Held

-----------------------------------------------------------------------------
(* Every drained record is held once, or counted.                          *)

Got    == Held(received)
Queued == Held(queue)

\* Only a thread that is offering and a sender that is sending hold a batch.
Idle ==
  /\ loop \notin {"offer", "evict"} => offer = {}
  /\ sender # "send" => sending = {}

Order ==
  /\ InOrder(received) /\ InOrder(queue)
  /\ Before(Got, sending) /\ Before(Got, Queued) /\ Before(Got, offer)
  /\ Before(sending, Queued) /\ Before(sending, offer)
  /\ Before(Queued, offer)
  /\ \A x \in ((Got \cup sending) \cup Queued) \cup offer : x <= drained

Count ==
  drained = Cardinality(Got) + Cardinality(sending) + Cardinality(Queued)
            + Cardinality(offer) + dropped + lost

DrainInv == TypeOK /\ Idle /\ Order /\ Count

(* All the counts are numbers.                                             *)
LEMMA CountTypes ==
  ASSUME HoldersOK
  PROVE  /\ Got \in Batch /\ Queued \in Batch
         /\ Cardinality(Got) \in Nat /\ Cardinality(Queued) \in Nat
         /\ Cardinality(sending) \in Nat /\ Cardinality(offer) \in Nat
<1>1. Got \in Batch /\ Queued \in Batch
  BY HeldRecords DEF HoldersOK, Got, Queued
<1> QED BY <1>1, BatchesAreFinite DEF HoldersOK

LEMMA InitDrain == Init => DrainInv
<1> SUFFICES ASSUME Init PROVE Idle /\ Order /\ Count
  BY InitTyped DEF DrainInv
<1>1. Got = {} /\ sending = {} /\ offer = {}
  BY HeldEmpty DEF Init, Got
<1>2. Queued = {} /\ InOrder(queue)
  <2>1. queue = <<{}>>
    BY DEF Init
  <2>2. Range(<<{}>>) = {{}} /\ Len(<<{}>>) = 1
    BY DEF Range
  <2>3. \A i, j \in 1..1 : ~(i < j)
    OBVIOUS
  <2> QED BY <2>1, <2>2, <2>3 DEF Queued, Held, InOrder
<1>3. InOrder(received)
  BY DEF Init, InOrder
<1>4. Cardinality({}) = 0
  BY FS_EmptySet
<1>5. Idle
  BY <1>1 DEF Idle
<1>6. Order
  BY <1>1, <1>2, <1>3 DEF Order, Before
<1>7. drained = 0 /\ dropped = 0 /\ lost = 0
  BY DEF Init
<1>8. Count
  BY <1>1, <1>2, <1>4, <1>7 DEF Count
<1> QED BY <1>5, <1>6, <1>8

(* The steps that move no record.                                          *)
LEMMA StepNoRecord ==
  ASSUME DrainInv,
         UNCHANGED <<received, sending, queue, offer, drained, dropped, lost>>,
         loop' \notin {"offer", "evict"} =>
           loop \notin {"offer", "evict"} \/ offer = {},
         sender' # "send" => sender # "send"
  PROVE  Idle' /\ Order' /\ Count'
<1>1. Idle'
  BY DEF DrainInv, Idle
<1>2. Order'
  BY DEF DrainInv, Order, Got, Queued
<1>3. Count'
  BY DEF DrainInv, Count, Got, Queued
<1> QED BY <1>1, <1>2, <1>3

(* read_trace: what is read is newer than all that was read before.        *)
LEMMA StepRead ==
  ASSUME DrainInv, NEW n \in 1..MaxRecords, ReadRecords(n)
  PROVE  Idle' /\ Order' /\ Count'
<1>1. /\ drained' = drained + n /\ offer' = (drained + 1)..(drained + n)
      /\ received' = received /\ sending' = sending /\ queue' = queue
      /\ dropped' = dropped /\ lost' = lost /\ loop' = "offer"
      /\ sender' = sender
  BY DEF ReadRecords, task
<1>2. drained \in Nat /\ n \in Nat /\ offer = {} /\ n >= 1
  BY Bounds DEF DrainInv, Idle, ReadRecords, TypeOK
<1>3. Got' = Got /\ Queued' = Queued
  BY <1>1 DEF Got, Queued
<1>4. Idle'
  BY <1>1 DEF DrainInv, Idle
<1>5. \A x \in offer' : drained < x /\ x <= drained'
  BY <1>1, <1>2
<1>6. HoldersOK
  BY TypeParts DEF DrainInv
<1>7. Got \subseteq Nat /\ sending \subseteq Nat /\ Queued \subseteq Nat
  BY <1>6, CountTypes DEF HoldersOK, Batch
<1>8. Before(Got, offer') /\ Before(sending, offer') /\ Before(Queued, offer')
  <2>1. \A x \in (Got \cup sending) \cup Queued : \A y \in offer' : x < y
    BY <1>1, <1>2, <1>5, <1>7 DEF DrainInv, Order
  <2> QED BY <2>1 DEF Before
<1>9. \A x \in ((Got \cup sending) \cup Queued) \cup offer' : x <= drained'
  BY <1>1, <1>2, <1>5, <1>7 DEF DrainInv, Order
<1>10. Order'
  BY <1>1, <1>3, <1>8, <1>9 DEF DrainInv, Order
<1>11. Cardinality(offer') = n /\ Cardinality(offer) = 0
  BY <1>1, <1>2, FS_Interval, FS_EmptySet
<1>12. Count'
  <2>1. drained = Cardinality(Got) + Cardinality(sending) + Cardinality(Queued)
                  + 0 + dropped + lost
    BY <1>11 DEF DrainInv, Count
  <2>2. dropped \in Nat /\ lost \in Nat
    BY DEF DrainInv, TypeOK
  <2>3. drained' = Cardinality(Got) + Cardinality(sending) + Cardinality(Queued)
                   + n + dropped + lost
    <3>1. /\ Cardinality(Got) \in Nat /\ Cardinality(Queued) \in Nat
          /\ Cardinality(sending) \in Nat
      BY <1>6, CountTypes
    <3>2. drained' = drained + n
      BY <1>1
    <3> QED BY <1>2, <2>1, <2>2, <3>1, <3>2
  <2> QED BY <1>1, <1>3, <1>11, <2>3 DEF Count
<1> QED BY <1>4, <1>10, <1>12

(* The try_send of enqueue_drop_oldest: the offer goes behind the queue.   *)
LEMMA StepTrySend ==
  ASSUME DrainInv, TrySend
  PROVE  Idle' /\ Order' /\ Count'
<1>1. /\ drained' = drained /\ received' = received /\ sending' = sending
      /\ dropped' = dropped /\ lost' = lost /\ sender' = sender
  BY DEF TrySend, task
<1>2. CASE ~(Len(queue) < Capacity)
  <2>1. /\ queue' = queue /\ offer' = offer
        /\ loop' = IF offer = {} THEN "check" ELSE "evict"
    BY <1>2 DEF TrySend
  <2> QED BY <1>1, <2>1, StepNoRecord
<1>3. CASE Len(queue) < Capacity
  <2>1. queue' = Append(queue, offer) /\ offer' = {} /\ loop' = "check"
    BY <1>3 DEF TrySend
  <2>2. HoldersOK /\ Order
    BY TypeParts DEF DrainInv
  <2>3. /\ Got' = Got /\ Queued' = Queued \cup offer
        /\ InOrder(queue')
    BY <1>1, <2>1, <2>2, HeldAppend DEF HoldersOK, Order, Got, Queued
  <2>4. Cardinality(Queued') = Cardinality(Queued) + Cardinality(offer)
    BY <2>2, <2>3, CountsAdd, CountTypes DEF HoldersOK, Order
  <2>5. Idle'
    BY <1>1, <2>1 DEF DrainInv, Idle
  <2>6. Order'
    BY <1>1, <2>1, <2>2, <2>3 DEF Order, Before
  <2>7. Count'
    <3>1. Cardinality(offer') = 0
      BY <2>1, FS_EmptySet
    <3>2. dropped \in Nat /\ lost \in Nat
      BY DEF DrainInv, TypeOK
    <3>3. drained = Cardinality(Got) + Cardinality(sending)
                    + (Cardinality(Queued) + Cardinality(offer)) + 0
                    + dropped + lost
      BY <2>2, <3>2, CountTypes DEF DrainInv, Count
    <3> QED BY <1>1, <2>3, <2>4, <3>1, <3>3 DEF Count
  <2> QED BY <2>5, <2>6, <2>7
<1> QED BY <1>2, <1>3

(* The try_recv of enqueue_drop_oldest, with record_drop.                  *)
LEMMA StepEvict ==
  ASSUME DrainInv, Evict
  PROVE  Idle' /\ Order' /\ Count'
<1>1. /\ drained' = drained /\ received' = received /\ sending' = sending
      /\ offer' = offer /\ lost' = lost /\ sender' = sender /\ loop' = "offer"
  BY DEF Evict, task
<1>2. CASE queue = <<>>
  BY <1>1, <1>2, StepNoRecord DEF Evict
<1>3. CASE queue # <<>>
  <2>1. queue' = Tail(queue) /\ dropped' = dropped + Cardinality(Head(queue))
    BY <1>3 DEF Evict
  <2>2. HoldersOK /\ Order
    BY TypeParts DEF DrainInv
  <2>3. /\ Head(queue) \in Batch /\ queue' \in Seq(Batch)
        /\ Queued = Head(queue) \cup Queued'
        /\ Before(Head(queue), Queued') /\ InOrder(queue')
    BY <1>3, <2>1, <2>2, HeldTail DEF HoldersOK, Order, Queued
  <2>4. Got' = Got /\ Queued' \in Batch
    BY <1>1, <2>3, HeldRecords DEF Got, Queued
  <2>5. Cardinality(Queued) = Cardinality(Head(queue)) + Cardinality(Queued')
    BY <2>3, <2>4, CountsAdd
  <2>6. Idle'
    BY <1>1 DEF DrainInv, Idle
  <2>7. Order'
    BY <1>1, <2>2, <2>3, <2>4 DEF Order, Before
  <2>8. Count'
    <3>1. /\ Cardinality(Queued') \in Nat /\ Cardinality(Head(queue)) \in Nat
          /\ dropped \in Nat /\ lost \in Nat
      BY <2>3, <2>4, BatchesAreFinite DEF DrainInv, TypeOK
    <3>2. drained = Cardinality(Got) + Cardinality(sending)
                    + Cardinality(Queued') + Cardinality(offer)
                    + (dropped + Cardinality(Head(queue))) + lost
      BY <2>2, <2>5, <3>1, CountTypes DEF DrainInv, Count
    <3> QED BY <1>1, <2>1, <2>4, <3>2 DEF Count
  <2> QED BY <2>6, <2>7, <2>8
<1> QED BY <1>2, <1>3

(* recv_async: the oldest batch moves to the sender's hand.                *)
LEMMA StepRecv ==
  ASSUME DrainInv, Recv
  PROVE  Idle' /\ Order' /\ Count'
<1>1. /\ drained' = drained /\ received' = received /\ offer' = offer
      /\ dropped' = dropped /\ lost' = lost /\ loop' = loop
      /\ sender = "recv"
  BY DEF Recv, thread
<1>2. CASE sending' = sending /\ queue' = queue
  <2>1. sending = {}
    BY <1>1 DEF DrainInv, Idle
  <2>2. Idle'
    BY <1>1, <1>2, <2>1 DEF DrainInv, Idle
  <2>3. Order'
    BY <1>1, <1>2 DEF DrainInv, Order, Got, Queued
  <2>4. Count'
    BY <1>1, <1>2 DEF DrainInv, Count, Got, Queued
  <2> QED BY <2>2, <2>3, <2>4
<1>3. CASE /\ queue # <<>> /\ sending' = Head(queue) /\ queue' = Tail(queue)
           /\ sender' = "send"
  <2>1. HoldersOK /\ Order /\ sending = {}
    BY <1>1, TypeParts DEF DrainInv, Idle
  <2>2. /\ sending' \in Batch /\ queue' \in Seq(Batch)
        /\ Queued = sending' \cup Queued'
        /\ Before(sending', Queued') /\ InOrder(queue')
    BY <1>3, <2>1, HeldTail DEF HoldersOK, Order, Queued
  <2>3. Got' = Got /\ Queued' \in Batch
    BY <1>1, <2>2, HeldRecords DEF Got, Queued
  <2>4. Cardinality(Queued) = Cardinality(sending') + Cardinality(Queued')
    BY <2>2, <2>3, CountsAdd
  <2>5. Idle'
    BY <1>1, <1>3 DEF DrainInv, Idle
  <2>6. Order'
    BY <1>1, <2>1, <2>2, <2>3 DEF Order, Before
  <2>7. Count'
    <3>1. /\ Cardinality(Queued') \in Nat /\ Cardinality(sending') \in Nat
          /\ dropped \in Nat /\ lost \in Nat /\ Cardinality(sending) = 0
      BY <2>1, <2>2, <2>3, BatchesAreFinite, FS_EmptySet DEF DrainInv, TypeOK
    <3>2. drained = Cardinality(Got) + Cardinality(sending')
                    + Cardinality(Queued') + Cardinality(offer)
                    + dropped + lost
      BY <2>1, <2>4, <3>1, CountTypes DEF DrainInv, Count
    <3> QED BY <1>1, <2>3, <3>2 DEF Count
  <2> QED BY <2>5, <2>6, <2>7
<1> QED BY <1>2, <1>3 DEF Recv

(* A granted send: the batch in hand is the client's.                      *)
LEMMA StepSendOk ==
  ASSUME DrainInv, SendOk
  PROVE  Idle' /\ Order' /\ Count'
<1>1. /\ drained' = drained /\ queue' = queue /\ offer' = offer
      /\ dropped' = dropped /\ lost' = lost /\ loop' = loop
      /\ sending' = {}
  BY DEF SendOk, thread
<1>2. HoldersOK /\ Order /\ Queued' = Queued
  BY <1>1, TypeParts DEF DrainInv, Queued
<1>3. Got' = Got \cup sending /\ InOrder(received')
  <2>1. CASE sending = {}
    BY <1>2, <2>1 DEF SendOk, Got, Order
  <2>2. CASE sending # {}
    <3>1. received' = Append(received, sending)
      BY <2>2 DEF SendOk
    <3> QED BY <1>2, <3>1, HeldAppend DEF HoldersOK, Order, Got
  <2> QED BY <2>1, <2>2
<1>4. Cardinality(Got') = Cardinality(Got) + Cardinality(sending)
  BY <1>2, <1>3, CountsAdd, CountTypes DEF HoldersOK, Order
<1>5. Idle'
  BY <1>1 DEF DrainInv, Idle
<1>6. Order'
  BY <1>1, <1>2, <1>3 DEF Order, Before
<1>7. Count'
  <2>1. Cardinality(sending') = 0 /\ dropped \in Nat /\ lost \in Nat
    BY <1>1, FS_EmptySet DEF DrainInv, TypeOK
  <2>2. drained = (Cardinality(Got) + Cardinality(sending)) + 0
                  + Cardinality(Queued) + Cardinality(offer) + dropped + lost
    BY <1>2, <2>1, CountTypes DEF DrainInv, Count
  <2> QED BY <1>1, <1>2, <1>4, <2>1, <2>2 DEF Count
<1> QED BY <1>5, <1>6, <1>7

(* The sender fails or is aborted with a batch in hand.                    *)
LEMMA StepGiveUp ==
  ASSUME DrainInv, SendFails \/ FlushTimeout
  PROVE  Idle' /\ Order' /\ Count'
<1>1. /\ drained' = drained /\ received' = received /\ queue' = queue
      /\ offer' = offer /\ dropped' = dropped /\ loop' = loop
      /\ sending' = {} /\ lost' = lost + Cardinality(sending)
  BY DEF SendFails, FlushTimeout, thread
<1>2. HoldersOK /\ Got' = Got /\ Queued' = Queued
  BY <1>1, TypeParts DEF DrainInv, Got, Queued
<1>3. Idle'
  BY <1>1 DEF DrainInv, Idle
<1>4. Order'
  BY <1>1, <1>2 DEF DrainInv, Order, Before
<1>5. Count'
  <2>1. Cardinality(sending') = 0 /\ dropped \in Nat /\ lost \in Nat
    BY <1>1, FS_EmptySet DEF DrainInv, TypeOK
  <2>2. drained = Cardinality(Got) + 0 + Cardinality(Queued)
                  + Cardinality(offer) + dropped + (lost + Cardinality(sending))
    BY <1>2, <2>1, CountTypes DEF DrainInv, Count
  <2> QED BY <1>1, <1>2, <2>1, <2>2 DEF Count
<1> QED BY <1>3, <1>4, <1>5

LEMMA StepDrain == DrainInv /\ [Next]_vars => DrainInv'
<1> SUFFICES ASSUME DrainInv, [Next]_vars PROVE Idle' /\ Order' /\ Count'
  BY StepTyped DEF DrainInv
<1>1. CASE Trace \/ ClientCloses \/ StopRecording \/ HeartbeatDue
  BY <1>1, StepNoRecord
     DEF Trace, ClientCloses, StopRecording, HeartbeatDue, thread, task
<1>2. CASE CheckCancel \/ ReadFails
  BY <1>2, StepNoRecord DEF CheckCancel, ReadFails, task
<1>3. CASE ReadNothing
  <2>1. offer = {}
    BY <1>3 DEF ReadNothing, DrainInv, Idle
  <2>2. offer' = offer
    BY <1>3, <2>1 DEF ReadNothing
  <2> QED BY <1>3, <2>1, <2>2, StepNoRecord DEF ReadNothing, task
<1>4. CASE Join \/ Flushed
  BY <1>4, StepNoRecord DEF Join, Flushed, thread, task
<1>5. CASE UNCHANGED vars
  BY <1>5, StepNoRecord DEF vars, thread, task
<1> QED BY <1>1, <1>2, <1>3, <1>4, <1>5, StepRead, StepTrySend, StepEvict,
           StepRecv, StepSendOk, StepGiveUp
        DEF Next, DrainThread, Sender, Supervisor

(* Nothing the thread has read is lost uncounted or counted twice, although *)
(* thread and sender take from the same end of the queue                   *)
(* (enqueue_drop_oldest, send_batches, drain's flush budget).              *)
THEOREM NothingLostUncounted == Spec => []RecordsAccountedFor
<1>1. DrainInv => RecordsAccountedFor
  <2> SUFFICES ASSUME DrainInv PROVE RecordsAccountedFor
    OBVIOUS
  <2>1. HoldersOK /\ Order /\ offer \in Batch /\ sending \in Batch
    BY TypeParts DEF DrainInv, TypeOK
  <2>2. /\ sending \cup Queued \in Batch
        /\ Cardinality(sending \cup Queued)
             = Cardinality(sending) + Cardinality(Queued)
    BY <2>1, CountsAdd, CountTypes DEF Order
  <2>3. Before(sending \cup Queued, offer)
    BY <2>1 DEF Order, Before
  <2>4. Cardinality((sending \cup Queued) \cup offer)
          = Cardinality(sending \cup Queued) + Cardinality(offer)
    BY <2>1, <2>2, <2>3, CountsAdd
  <2>5. UNION Range(InFlight) = (sending \cup Queued) \cup offer
    BY <2>1, HeldInFlight DEF Held, Queued
  <2>6. dropped \in Nat /\ lost \in Nat
    BY DEF DrainInv, TypeOK
  <2>7. drained = Cardinality(Got) + dropped + lost
                  + ((Cardinality(sending) + Cardinality(Queued))
                     + Cardinality(offer))
    BY <2>1, <2>6, CountTypes DEF DrainInv, Count
  <2> QED BY <2>2, <2>4, <2>5, <2>7 DEF RecordsAccountedFor, Got, Held
<1> QED BY InitDrain, StepDrain, <1>1, PTL DEF Spec

\* The client got batches in the order their records were read, none twice.
DeliveredInOrder == InOrder(received)

(* Neither evicting nor sending reorders or repeats what the client gets.  *)
THEOREM DeliveryIsInOrder == Spec => []DeliveredInOrder
<1>1. DrainInv => DeliveredInOrder
  BY DEF DrainInv, Order, DeliveredInOrder
<1> QED BY InitDrain, StepDrain, <1>1, PTL DEF Spec

\* What a flushed end means to the queue and to what was given up.
FlushInv ==
  /\ sender \notin {"closed", "aborted"} => lost = 0
  /\ sender = "flushed" => queue = <<>> /\ loop \in {"ended", "failed"}

LEMMA InitFlush == Init => FlushInv
BY DEF Init, FlushInv

LEMMA StepFlush == FlushInv /\ [Next]_vars => FlushInv'
<1> SUFFICES ASSUME FlushInv, [Next]_vars PROVE FlushInv'
  OBVIOUS
<1> USE DEF FlushInv
<1>1. CASE Trace \/ ClientCloses \/ StopRecording \/ HeartbeatDue
  BY <1>1 DEF Trace, ClientCloses, StopRecording, HeartbeatDue, thread, task
<1>2. CASE CheckCancel \/ ReadFails
  BY <1>2 DEF CheckCancel, ReadFails, task
<1>3. CASE ReadNothing \/ TrySend \/ Evict
  BY <1>3 DEF ReadNothing, TrySend, Evict, task
<1>4. ASSUME NEW n \in 1..MaxRecords, ReadRecords(n) PROVE FlushInv'
  BY <1>4 DEF ReadRecords, task
<1>5. CASE Recv \/ SendOk
  BY <1>5 DEF Recv, SendOk, thread
<1>6. CASE SendFails \/ FlushTimeout
  BY <1>6 DEF SendFails, FlushTimeout, thread
<1>7. CASE Join \/ Flushed \/ UNCHANGED vars
  BY <1>7 DEF Join, Flushed, vars, thread, task
<1> QED BY <1>1, <1>2, <1>3, <1>4, <1>5, <1>6, <1>7
        DEF Next, DrainThread, Sender, Supervisor

(* A session that flushed has delivered all but what it counted as dropped *)
(* (send_batches ends only after the queue is drained).                    *)
THEOREM FlushLosesNothing == Spec => []FlushedMeansDelivered
<1>1. DrainInv /\ FlushInv => FlushedMeansDelivered
  <2> SUFFICES ASSUME DrainInv, FlushInv, sender = "flushed"
               PROVE  drained = Cardinality(Got) + dropped
    BY DEF FlushedMeansDelivered, Got, Held
  <2>1. sending = {} /\ offer = {} /\ Queued = {} /\ lost = 0
    BY HeldEmpty DEF DrainInv, Idle, FlushInv, Queued
  <2>2. Cardinality({}) = 0
    BY FS_EmptySet
  <2>3. Cardinality(Got) \in Nat /\ dropped \in Nat
    BY CountTypes, TypeParts DEF DrainInv, ControlOK
  <2> QED BY <2>1, <2>2, <2>3 DEF DrainInv, Count
<1> QED BY InitDrain, StepDrain, InitFlush, StepFlush, <1>1, PTL DEF Spec
-----------------------------------------------------------------------------
(* The queue is a lossy FIFO: what a step does to the batches in flight,   *)
(* heartbeats left out.                                                    *)

Parts(s) == [i \in DOMAIN s |-> Sent(s[i])]

LEMMA SentTyped ==
  /\ \A b \in Batch : Sent(b) \in Seq(Batch)
  /\ Sent({}) = <<>>
  /\ \A b : b # {} => Sent(b) = <<b>>
BY DEF Sent

LEMMA BatchesAssociative ==
  \A u, v, w \in Seq(Batch) : (u \o v) \o w = u \o (v \o w)
BY Associative

LEMMA PartsTyped ==
  ASSUME NEW s \in Seq(Batch)
  PROVE  /\ Parts(s) \in Seq(Seq(Batch)) /\ Len(Parts(s)) = Len(s)
         /\ \A i \in 1..Len(s) : Parts(s)[i] = Sent(s[i])
<1>1. /\ Len(s) \in Nat /\ DOMAIN s = 1..Len(s)
      /\ \A i \in 1..Len(s) : s[i] \in Batch
  BY LenProperties, ElementOfSeq
<1>2. Parts(s) \in [1..Len(s) -> Seq(Batch)]
  BY <1>1, SentTyped DEF Parts
<1>3. Parts(s) \in Seq(Seq(Batch))
  BY <1>1, <1>2, SeqDef
<1>4. DOMAIN Parts(s) = 1..Len(s) /\ DOMAIN Parts(s) = 1..Len(Parts(s))
  BY <1>1, <1>3, LenProperties DEF Parts
<1>5. Len(Parts(s)) = Len(s)
  BY <1>1, <1>3, <1>4, LenProperties
<1> QED BY <1>1, <1>3, <1>5 DEF Parts

LEMMA NonEmptyTyped ==
  ASSUME NEW s \in Seq(Batch)
  PROVE  NonEmpty(s) \in Seq(Batch) /\ NonEmpty(s) = FlattenSeq(Parts(s))
BY PartsTyped, FlattenTyped DEF NonEmpty, Parts

LEMMA NonEmptyAppend ==
  ASSUME NEW s \in Seq(Batch), NEW b \in Batch
  PROVE  NonEmpty(Append(s, b)) = NonEmpty(s) \o Sent(b)
<1> DEFINE t == Append(s, b)
           u == Append(Parts(s), Sent(b))
<1>1. /\ t \in Seq(Batch) /\ Len(t) = Len(s) + 1 /\ Len(s) \in Nat
      /\ \A i \in 1..Len(s) : t[i] = s[i]
      /\ t[Len(s) + 1] = b
  BY AppendProperties, LenProperties
<1> HIDE DEF t
<1>2. /\ Parts(t) \in Seq(Seq(Batch)) /\ Len(Parts(t)) = Len(t)
      /\ \A i \in 1..Len(t) : Parts(t)[i] = Sent(t[i])
  BY <1>1, PartsTyped
<1>3. /\ Parts(s) \in Seq(Seq(Batch)) /\ Len(Parts(s)) = Len(s)
      /\ \A i \in 1..Len(s) : Parts(s)[i] = Sent(s[i])
      /\ Sent(b) \in Seq(Batch)
  BY PartsTyped, SentTyped
<1>4. /\ u \in Seq(Seq(Batch)) /\ Len(u) = Len(s) + 1
      /\ \A i \in 1..Len(s) : u[i] = Parts(s)[i]
      /\ u[Len(s) + 1] = Sent(b)
  BY <1>3, AppendProperties
<1> HIDE DEF u
<1>5. \A i \in 1..Len(Parts(t)) : Parts(t)[i] = u[i]
  <2> SUFFICES ASSUME NEW i \in 1..Len(t) PROVE Parts(t)[i] = u[i]
    BY <1>2
  <2>1. CASE i = Len(s) + 1
    BY <1>1, <1>2, <1>4, <2>1
  <2>2. CASE i # Len(s) + 1
    <3>1. i \in 1..Len(s)
      BY <1>1, <2>2
    <3> QED BY <1>1, <1>2, <1>3, <1>4, <3>1
  <2> QED BY <2>1, <2>2
<1>6. Parts(t) = u
  BY <1>1, <1>2, <1>4, <1>5, SeqEqual
<1>7. FlattenSeq(u) = FlattenSeq(Parts(s)) \o Sent(b)
  BY <1>3, FlattenAppend DEF u
<1> QED BY <1>1, <1>6, <1>7, NonEmptyTyped DEF t

LEMMA NonEmptyTail ==
  ASSUME NEW s \in Seq(Batch), s # <<>>
  PROVE  NonEmpty(s) = Sent(Head(s)) \o NonEmpty(Tail(s))
<1> DEFINE t == Tail(s)
           u == Tail(Parts(s))
<1>1. /\ t \in Seq(Batch) /\ Len(t) = Len(s) - 1 /\ Len(s) \in Nat \ {0}
      /\ Head(s) \in Batch /\ Head(s) = s[1]
      /\ \A i \in 1..Len(t) : t[i] = s[i + 1]
  BY TailMembers
<1> HIDE DEF t
<1>2. /\ Parts(t) \in Seq(Seq(Batch)) /\ Len(Parts(t)) = Len(t)
      /\ \A i \in 1..Len(t) : Parts(t)[i] = Sent(t[i])
  BY <1>1, PartsTyped
<1>3. /\ Parts(s) \in Seq(Seq(Batch)) /\ Len(Parts(s)) = Len(s)
      /\ \A i \in 1..Len(s) : Parts(s)[i] = Sent(s[i])
  BY PartsTyped
<1>4. Parts(s) # <<>>
  BY <1>1, <1>3, EmptySeq
<1>5. /\ u \in Seq(Seq(Batch)) /\ Len(u) = Len(s) - 1
      /\ Head(Parts(s)) = Parts(s)[1]
      /\ \A i \in 1..Len(u) : u[i] = Parts(s)[i + 1]
  BY <1>3, <1>4, TailMembers
<1> HIDE DEF u
<1>6. \A i \in 1..Len(Parts(t)) : Parts(t)[i] = u[i]
  <2> SUFFICES ASSUME NEW i \in 1..Len(t) PROVE Parts(t)[i] = u[i]
    BY <1>2
  <2>1. i + 1 \in 1..Len(s) /\ i \in 1..Len(u)
    BY <1>1, <1>5
  <2> QED BY <1>1, <1>2, <1>3, <1>5, <2>1
<1>7. Parts(t) = u
  BY <1>1, <1>2, <1>5, <1>6, SeqEqual
<1>8. FlattenSeq(Parts(s)) = Head(Parts(s)) \o FlattenSeq(u)
  BY <1>3, <1>4, FlattenTail DEF u
<1>9. Head(Parts(s)) = Sent(Head(s))
  BY <1>1, <1>3, <1>5
<1> QED BY <1>1, <1>7, <1>8, <1>9, NonEmptyTyped DEF t

\* The batches in flight with a in the sender's hand, q in the queue and o in
\* the thread's hand.
Flight(a, q, o) == (Sent(a) \o NonEmpty(q)) \o Sent(o)

LEMMA FlightParts ==
  ASSUME NEW a \in Batch, NEW q \in Seq(Batch), NEW o \in Batch
  PROVE  /\ NonEmpty((<<a>> \o q) \o <<o>>) = Flight(a, q, o)
         /\ Sent(a) \in Seq(Batch) /\ NonEmpty(q) \in Seq(Batch)
         /\ Sent(o) \in Seq(Batch)
         /\ Flight(a, q, o) = Sent(a) \o (NonEmpty(q) \o Sent(o))
<1> DEFINE s == <<a>> \o q
<1>1. /\ s \in Seq(Batch) /\ s # <<>> /\ Head(s) = a /\ Tail(s) = q
  BY HeadTailCons
<1> HIDE DEF s
<1>2. NonEmpty(s) = Sent(a) \o NonEmpty(q)
  BY <1>1, NonEmptyTail
<1>3. s \o <<o>> = Append(s, o)
  BY <1>1, AppendIsConcat
<1>4. NonEmpty(s \o <<o>>) = NonEmpty(s) \o Sent(o)
  BY <1>1, <1>3, NonEmptyAppend
<1>5. Sent(a) \in Seq(Batch) /\ NonEmpty(q) \in Seq(Batch) /\ Sent(o) \in Seq(Batch)
  BY SentTyped, NonEmptyTyped
<1>6. Flight(a, q, o) = Sent(a) \o (NonEmpty(q) \o Sent(o))
  BY <1>5, BatchesAssociative, Zenon DEF Flight
<1> QED BY <1>2, <1>4, <1>5, <1>6 DEF s, Flight

LEMMA FlightPut ==
  ASSUME NEW a \in Batch, NEW q \in Seq(Batch), NEW o \in Batch, o # {}
  PROVE  Flight(a, q, o) = Append(Flight(a, q, {}), o)
<1> DEFINE s == Sent(a) \o NonEmpty(q)
<1>1. s \in Seq(Batch)
  BY FlightParts, ConcatProperties
<1>2. Flight(a, q, o) = s \o Sent(o) /\ Flight(a, q, {}) = s \o Sent({})
  BY DEF Flight
<1> HIDE DEF s
<1>3. Flight(a, q, {}) = s
  BY <1>1, <1>2, SentTyped, ConcatEmptySeq
<1> QED BY <1>1, <1>2, <1>3, SentTyped, AppendIsConcat

\* try_send: the batch in the thread's hand goes behind the queue.
LEMMA FlightEnter ==
  ASSUME NEW a \in Batch, NEW q \in Seq(Batch), NEW o \in Batch
  PROVE  Flight(a, q, o) = Flight(a, Append(q, o), {})
<1>1. NonEmpty(Append(q, o)) = NonEmpty(q) \o Sent(o)
  BY NonEmptyAppend
<1>2. Flight(a, Append(q, o), {}) = (Sent(a) \o (NonEmpty(q) \o Sent(o))) \o <<>>
  BY <1>1, SentTyped DEF Flight
<1>3. Sent(a) \o (NonEmpty(q) \o Sent(o)) \in Seq(Batch)
  BY FlightParts, ConcatProperties
<1>4. Flight(a, Append(q, o), {}) = Sent(a) \o (NonEmpty(q) \o Sent(o))
  BY <1>2, <1>3, ConcatEmptySeq
<1> QED BY <1>4, FlightParts

\* recv_async: the oldest batch moves to the sender's hand.
LEMMA FlightTake ==
  ASSUME NEW q \in Seq(Batch), q # <<>>, NEW o \in Batch
  PROVE  Flight({}, q, o) = Flight(Head(q), Tail(q), o)
<1>1. NonEmpty(q) = Sent(Head(q)) \o NonEmpty(Tail(q))
  BY NonEmptyTail
<1>2. Sent({}) \o NonEmpty(q) = NonEmpty(q)
  BY SentTyped, NonEmptyTyped, ConcatEmptySeq
<1> QED BY <1>1, <1>2 DEF Flight

\* A send: the first batch in flight leaves the sender's hand.
LEMMA FlightDeliver ==
  ASSUME NEW a \in Batch, a # {}, NEW q \in Seq(Batch), NEW o \in Batch
  PROVE  /\ Flight(a, q, o) # <<>> /\ Head(Flight(a, q, o)) = a
         /\ Tail(Flight(a, q, o)) = Flight({}, q, o)
         /\ 1 \in 1..Len(Flight(a, q, o))
         /\ RemoveAt(Flight(a, q, o), 1) = Flight({}, q, o)
<1> DEFINE s == NonEmpty(q) \o Sent(o)
<1>1. /\ s \in Seq(Batch) /\ Flight(a, q, o) = Sent(a) \o s
      /\ Flight({}, q, o) = Sent({}) \o s
  <2>1. {} \in Batch
    BY Bounds
  <2>2. NonEmpty(q) \in Seq(Batch) /\ Sent(o) \in Seq(Batch)
    BY FlightParts
  <2> QED BY <2>1, <2>2, FlightParts, ConcatProperties
<1> HIDE DEF s
<1>2. Flight({}, q, o) = s /\ Flight(a, q, o) = <<a>> \o s
  BY <1>1, SentTyped, ConcatEmptySeq
<1>3. <<a>> \o s # <<>> /\ Head(<<a>> \o s) = a /\ Tail(<<a>> \o s) = s
  BY <1>1, HeadTailCons
<1>4. /\ RemoveAt(<<>> \o (<<a>> \o s), Len(<<>>) + 1) = <<>> \o s
      /\ Len(<<>>) + 1 \in 1..Len(<<>> \o (<<a>> \o s))
  BY <1>1, EmptySeq, RemoveMiddle
<1>5. /\ <<>> \o s = s /\ <<>> \o (<<a>> \o s) = <<a>> \o s
      /\ Len(<<>>) + 1 = 1
  <2>1. <<a>> \in Seq(Batch)
    OBVIOUS
  <2>2. <<a>> \o s \in Seq(Batch)
    BY <1>1, <2>1, ConcatProperties
  <2> QED BY <1>1, <2>2, ConcatEmptySeq, EmptySeq
<1> QED BY <1>2, <1>3, <1>4, <1>5

\* try_recv: the oldest batch of the queue is lost.
LEMMA FlightEvict ==
  ASSUME NEW a \in Batch, NEW q \in Seq(Batch), q # <<>>, NEW o \in Batch
  PROVE  \/ Flight(a, Tail(q), o) = Flight(a, q, o)
         \/ \E i \in 1..Len(Flight(a, q, o)) :
              RemoveAt(Flight(a, q, o), i) = Flight(a, Tail(q), o)
<1> DEFINE p == Sent(a)
           h == Sent(o)
           r == NonEmpty(Tail(q))
           e == Head(q)
<1>1. /\ p \in Seq(Batch) /\ h \in Seq(Batch) /\ r \in Seq(Batch) /\ e \in Batch
      /\ Tail(q) \in Seq(Batch)
  <2>1. Tail(q) \in Seq(Batch) /\ e \in Batch
    BY TailMembers
  <2> QED BY <2>1, SentTyped, NonEmptyTyped
<1>2. NonEmpty(q) = Sent(e) \o r
  BY NonEmptyTail
<1>3. Flight(a, q, o) = p \o (NonEmpty(q) \o h) /\ Flight(a, Tail(q), o) = p \o (r \o h)
  BY <1>1, FlightParts
<1> HIDE DEF p, h, r, e
<1>4. CASE e = {}
  BY <1>1, <1>2, <1>3, <1>4, SentTyped, ConcatEmptySeq
<1>5. CASE e # {}
  <2>1. <<e>> \in Seq(Batch) /\ r \o h \in Seq(Batch)
    BY <1>1, ConcatProperties
  <2>2. (<<e>> \o r) \o h = <<e>> \o (r \o h)
    <3>1. <<e>> \in Seq(Batch) /\ r \in Seq(Batch) /\ h \in Seq(Batch)
      BY <1>1, <2>1
    <3> QED BY <3>1, BatchesAssociative, Zenon
  <2>3. NonEmpty(q) \o h = <<e>> \o (r \o h)
    BY <1>2, <1>5, <2>2, SentTyped
  <2>4. /\ RemoveAt(p \o (<<e>> \o (r \o h)), Len(p) + 1) = p \o (r \o h)
        /\ Len(p) + 1 \in 1..Len(p \o (<<e>> \o (r \o h)))
    BY <1>1, <2>1, RemoveMiddle
  <2> QED BY <1>3, <2>3, <2>4
<1> QED BY <1>4, <1>5

\* The steps that touch no batch.
StandsStill ==
  \/ Trace \/ ClientCloses \/ StopRecording \/ HeartbeatDue
  \/ CheckCancel \/ ReadFails \/ Join \/ Flushed \/ UNCHANGED vars

LEMMA FifoSteps ==
  ASSUME HoldersOK, HoldersOK', Idle, TypeOK, [Next]_vars
  PROVE  [Fifo!Next]_(Fifo!vars)
<1> DEFINE F == NonEmpty(InFlight)
<1>1. /\ offer \in Batch /\ sending \in Batch /\ queue \in Seq(Batch)
      /\ offer' \in Batch /\ sending' \in Batch /\ queue' \in Seq(Batch)
  BY DEF HoldersOK
<1>2. /\ F = Flight(sending, queue, offer)
      /\ F' = Flight(sending', queue', offer')
  BY <1>1, FlightParts DEF InFlight
<1>3. ASSUME F' = F, received' = received
      PROVE  [Fifo!Next]_(Fifo!vars)
  BY <1>3 DEF Fifo!vars
<1>4. ASSUME UNCHANGED <<sending, queue, offer, received>>
      PROVE  [Fifo!Next]_(Fifo!vars)
  <2>1. F' = F
    BY <1>2, <1>4
  <2> QED BY <1>3, <1>4, <2>1
<1>5. ASSUME \E i \in 1..Len(F) : F' = RemoveAt(F, i), received' = received
      PROVE  [Fifo!Next]_(Fifo!vars)
  BY <1>5 DEF Fifo!Next, Fifo!Lose, Fifo!RemoveAt, RemoveAt
<1> HIDE DEF F
<1>6. CASE StandsStill
  BY <1>4, <1>6
     DEF StandsStill, Trace, ClientCloses, StopRecording, HeartbeatDue, CheckCancel,
         ReadFails, Join, Flushed, vars, thread, task
<1>7. CASE ReadNothing
  <2>1. offer' = offer
    BY <1>7 DEF ReadNothing, Idle
  <2> QED BY <1>4, <1>7, <2>1 DEF ReadNothing, task
<1>8. ASSUME NEW n \in 1..MaxRecords, ReadRecords(n)
      PROVE  [Fifo!Next]_(Fifo!vars)
  <2>1. /\ offer = {} /\ offer' = (drained + 1)..(drained + n)
        /\ UNCHANGED <<sending, queue, received>>
    BY <1>8 DEF ReadRecords, Idle, task
  <2>2. drained \in Nat /\ n \in Nat \ {0}
    BY Bounds DEF TypeOK
  <2>3. offer' # {}
    <3>1. drained + 1 \in (drained + 1)..(drained + n)
      BY <2>2
    <3> QED BY <2>1, <3>1
  <2>4. F' = Append(F, offer')
    <3>1. Flight(sending, queue, offer') = Append(Flight(sending, queue, {}), offer')
      BY <1>1, <2>3, FlightPut
    <3> QED BY <1>2, <2>1, <3>1
  <2>5. F \in Seq(Batch)
    BY <1>1, <1>2, FlightParts, ConcatProperties DEF Flight
  <2>6. F' # <<>> /\ Front(F') = F /\ Last(F') = offer'
    BY <1>1, <2>4, <2>5, AppendedLast
  <2> QED BY <1>1, <2>1, <2>6
          DEF F, Fifo!Next, Fifo!Put, Fifo!Front, Fifo!Last, Front, Last
<1>9. CASE TrySend
  <2>1. CASE Len(queue) < Capacity
    <3>1. /\ queue' = Append(queue, offer) /\ offer' = {}
          /\ UNCHANGED <<sending, received>>
      BY <1>9, <2>1 DEF TrySend, task
    <3>2. F' = F
      BY <1>1, <1>2, <3>1, FlightEnter
    <3> QED BY <1>3, <3>1, <3>2
  <2>2. CASE ~(Len(queue) < Capacity)
    BY <1>4, <1>9, <2>2 DEF TrySend, task
  <2> QED BY <2>1, <2>2
<1>10. CASE Evict
  <2>1. CASE queue = <<>>
    BY <1>4, <1>10, <2>1 DEF Evict, task
  <2>2. CASE queue # <<>>
    <3>1. queue' = Tail(queue) /\ UNCHANGED <<sending, offer, received>>
      BY <1>10, <2>2 DEF Evict, task
    <3>2. F' = F \/ \E i \in 1..Len(F) : F' = RemoveAt(F, i)
      <4>1. \/ Flight(sending, Tail(queue), offer) = Flight(sending, queue, offer)
            \/ \E i \in 1..Len(Flight(sending, queue, offer)) :
                 RemoveAt(Flight(sending, queue, offer), i)
                   = Flight(sending, Tail(queue), offer)
        BY <1>1, <2>2, FlightEvict
      <4>2. F' = Flight(sending, Tail(queue), offer)
        BY <1>2, <3>1
      <4> QED BY <1>2, <4>1, <4>2
    <3> QED BY <1>3, <1>5, <3>1, <3>2
  <2> QED BY <2>1, <2>2
<1>11. CASE Recv
  <2>1. CASE sending' = sending /\ queue' = queue
    BY <1>4, <1>11, <2>1 DEF Recv, thread
  <2>2. CASE queue # <<>> /\ sending' = Head(queue) /\ queue' = Tail(queue)
    <3>1. sending = {} /\ UNCHANGED <<offer, received>>
      BY <1>11 DEF Recv, Idle, thread
    <3>2. F' = F
      BY <1>1, <1>2, <2>2, <3>1, FlightTake
    <3> QED BY <1>3, <3>1, <3>2
  <2> QED BY <1>11, <2>1, <2>2 DEF Recv
<1>12. CASE SendOk
  <2>1. /\ sending' = {} /\ UNCHANGED <<queue, offer>>
        /\ received' = IF sending = {} THEN received ELSE Append(received, sending)
    BY <1>12 DEF SendOk, thread
  <2>2. CASE sending = {}
    BY <1>4, <2>1, <2>2
  <2>3. CASE sending # {}
    <3>1. F # <<>> /\ Head(F) = sending /\ Tail(F) = F'
      BY <1>1, <1>2, <2>1, <2>3, FlightDeliver
    <3> QED BY <2>1, <2>3, <3>1 DEF F, Fifo!Next, Fifo!Deliver
  <2> QED BY <2>2, <2>3
<1>13. CASE SendFails \/ FlushTimeout
  <2>1. /\ sending' = {} /\ UNCHANGED <<queue, offer, received>>
    BY <1>13 DEF SendFails, FlushTimeout, thread
  <2>2. CASE sending = {}
    BY <1>4, <2>1, <2>2
  <2>3. CASE sending # {}
    <3>1. 1 \in 1..Len(F) /\ RemoveAt(F, 1) = F'
      BY <1>1, <1>2, <2>1, <2>3, FlightDeliver
    <3> QED BY <1>5, <2>1, <3>1
  <2> QED BY <2>2, <2>3
<1> QED BY <1>6, <1>7, <1>8, <1>9, <1>10, <1>11, <1>12, <1>13
        DEF StandsStill, Next, DrainThread, Sender, Supervisor

(* The thread evicts and the sender takes at the same end of the queue,    *)
(* and still the client gets batches in order and none twice               *)
(* (enqueue_drop_oldest, send_batches).                                    *)
THEOREM QueueIsALossyFifo == Spec => ImplementsFifo
<1>1. Init => Fifo!Init
  <2> SUFFICES ASSUME Init PROVE NonEmpty(InFlight) = <<>>
    BY DEF Init, Fifo!Init
  <2>1. {} \in Batch /\ <<{}>> \in Seq(Batch) /\ <<>> \in Seq(Batch)
    BY Bounds
  <2>2. NonEmpty(InFlight) = Flight({}, <<{}>>, {})
    BY <2>1, FlightParts DEF Init, InFlight
  <2>3. <<{}>> = Append(<<>>, {})
    OBVIOUS
  <2>4. Flight({}, <<{}>>, {}) = Flight({}, <<>>, {})
    BY <2>1, <2>3, FlightEnter
  <2>5. NonEmpty(<<>>) = <<>>
    <3>1. Parts(<<>>) = <<>>
      BY <2>1, PartsTyped, EmptySeq
    <3> QED BY <2>1, <3>1, NonEmptyTyped, FlattenEmpty
  <2>6. <<>> \o <<>> = <<>>
    BY EmptySeq, ConcatEmptySeq
  <2> QED BY <2>2, <2>4, <2>5, <2>6, SentTyped DEF Flight
<1>2. DrainInv /\ DrainInv' /\ [Next]_vars => [Fifo!Next]_(Fifo!vars)
  <2>1. DrainInv /\ DrainInv' => HoldersOK /\ HoldersOK' /\ Idle /\ TypeOK
    BY TypeParts DEF DrainInv, TypeOK, HoldersOK
  <2> QED BY <2>1, FifoSteps
<1> QED BY InitDrain, StepDrain, <1>1, <1>2, PTL DEF Spec, ImplementsFifo, Fifo!Spec

-----------------------------------------------------------------------------
(* The session slot, for every set of record and stop calls.               *)

LEMMA InitType == DaemonInit => DaemonTypeOK
  BY DEF DaemonInit, DaemonTypeOK, Owner, Holding, Quiet

LEMMA NextType == DaemonTypeOK /\ [DaemonNext]_daemonVars => DaemonTypeOK'
<1> SUFFICES ASSUME DaemonTypeOK, [DaemonNext]_daemonVars PROVE DaemonTypeOK'
  OBVIOUS
<1> USE DEF DaemonTypeOK
<1>1. ASSUME NEW s \in Owner, NEW fs \in SUBSET Facility
      PROVE  SwitchOn(s, fs) \in [Facility -> Owner]
  BY <1>1 DEF SwitchOn
<1>2. Quiet \in [Facility -> Owner]
  BY DEF Quiet, Owner
<1>3. ASSUME NEW s \in Sessions,
             \/ Claim(s) \/ Gate(s) \/ Drained(s) \/ DrainFails(s)
             \/ Teardown(s) \/ Release(s) \/ SessionClientCloses(s) \/ SenderFails(s)
      PROVE  DaemonTypeOK'
  BY <1>2, <1>3
  DEF Claim, Gate, Drained, DrainFails, Teardown, Release, SessionClientCloses,
      SenderFails, Goto, Holding, Owner
<1>4. ASSUME NEW s \in Sessions, Wipe(s) \/ SetupKperf(s) \/ SetupKdebug(s)
      PROVE  DaemonTypeOK'
  <2>1. {"pet", "sampling", "tracing"} \subseteq Facility
    BY DEF Facility
  <2>2. /\ {} \subseteq Facility /\ {"counting"} \subseteq Facility
        /\ {"counting", "pet"} \subseteq Facility /\ {"tracing"} \subseteq Facility
        /\ {"counting", "pet", "sampling"} \subseteq Facility
    BY DEF Facility
  <2>3. kernel' \in [Facility -> Owner]
    BY <1>1, <1>4, <2>1, <2>2 DEF Wipe, SetupKperf, SetupKdebug, Owner
  <2>4. pc' \in [Sessions -> Holding \cup {"called", "returned"}]
    BY <1>4 DEF Wipe, SetupKperf, SetupKdebug, Goto, Holding
  <2>5. UNCHANGED <<slot, target, gone, cancelled>>
    BY <1>4 DEF Wipe, SetupKperf, SetupKdebug
  <2> QED BY <2>3, <2>4, <2>5
<1>5. ASSUME NEW k \in Stops, StopClones(k) \/ StopStores(k) PROVE DaemonTypeOK'
  BY <1>5 DEF StopClones, StopStores, Owner
<1>6. CASE UNCHANGED daemonVars
  BY <1>6 DEF daemonVars
<1> QED BY <1>3, <1>4, <1>5, <1>6 DEF DaemonNext, SessionStep

\* Type correctness.
THEOREM DaemonTypeCorrect == DaemonSpec => []DaemonTypeOK
  BY InitType, NextType, PTL DEF DaemonSpec

-----------------------------------------------------------------------------
(* OneOwner is inductive.  The claims about the kernel need it, because it  *)
(* is what keeps another session's wipe and teardown away, and they need to *)
(* know what setup_kperf has left for setup_kdebug.                         *)

KperfIsUp ==
  \A s \in Sessions :
    pc[s] = "kdebug" => \A f \in Facility \ {"tracing"} : kernel[f] = s

KernelInv == OneOwner /\ DrainingMeansTracing /\ SetupStartsClean /\ KperfIsUp

LEMMA InitKernel == DaemonInit => KernelInv
  BY DaemonAssumption
  DEF DaemonInit, KernelInv, OneOwner, DrainingMeansTracing, SetupStartsClean,
      KperfIsUp, Holding

LEMMA NextOwner == DaemonTypeOK /\ OneOwner /\ [DaemonNext]_daemonVars => OneOwner'
<1> SUFFICES ASSUME DaemonTypeOK, OneOwner, [DaemonNext]_daemonVars PROVE OneOwner'
  OBVIOUS
<1> USE DaemonAssumption DEF OneOwner, DaemonTypeOK, Holding
<1>1. ASSUME NEW s \in Sessions, Claim(s) \/ Release(s) PROVE OneOwner'
  BY <1>1 DEF Claim, Release, Goto
<1>2. ASSUME NEW s \in Sessions,
             \/ Gate(s) \/ Wipe(s) \/ SetupKperf(s) \/ SetupKdebug(s)
             \/ Drained(s) \/ DrainFails(s) \/ Teardown(s)
      PROVE  OneOwner'
  BY <1>2
  DEF Gate, Wipe, SetupKperf, SetupKdebug, Drained, DrainFails, Teardown, Goto
<1>3. ASSUME NEW s \in Sessions, SessionClientCloses(s) \/ SenderFails(s) PROVE OneOwner'
  BY <1>3 DEF SessionClientCloses, SenderFails
<1>4. ASSUME NEW k \in Stops, StopClones(k) \/ StopStores(k) PROVE OneOwner'
  BY <1>4 DEF StopClones, StopStores
<1>5. CASE UNCHANGED daemonVars
  BY <1>5 DEF daemonVars
<1> QED BY <1>1, <1>2, <1>3, <1>4, <1>5 DEF DaemonNext, SessionStep

LEMMA NextKernel == DaemonTypeOK /\ KernelInv /\ [DaemonNext]_daemonVars => KernelInv'
<1> SUFFICES ASSUME DaemonTypeOK, KernelInv, [DaemonNext]_daemonVars PROVE KernelInv'
  OBVIOUS
<1>1. OneOwner'
  BY NextOwner DEF KernelInv
<1> DEFINE Inside == {"kperf", "kdebug", "drain"}
<1> USE DEF KernelInv, DrainingMeansTracing, SetupStartsClean, KperfIsUp
\* Whoever holds the slot is alone inside.
<1>2. ASSUME NEW s \in Sessions, pc[s] \in Holding, NEW q \in Sessions \ {s}
      PROVE  pc[q] \notin Inside
  BY <1>2 DEF OneOwner, Holding
<1>3. ASSUME NEW s \in Sessions, Claim(s) \/ Gate(s) \/ Drained(s)
                                 \/ DrainFails(s) \/ Release(s)
      PROVE  KernelInv'
  BY <1>1, <1>3
  DEF Claim, Gate, Drained, DrainFails, Release, Goto, DaemonTypeOK, SwitchOn
<1>4. ASSUME NEW s \in Sessions, Wipe(s) PROVE KernelInv'
  BY <1>1, <1>2, <1>4 DEF Wipe, Goto, DaemonTypeOK, SwitchOn, Facility, Holding
<1>5. ASSUME NEW s \in Sessions, SetupKperf(s) PROVE KernelInv'
  BY <1>1, <1>2, <1>5 DEF SetupKperf, Goto, DaemonTypeOK, SwitchOn, Facility, Holding
<1>6. ASSUME NEW s \in Sessions, SetupKdebug(s) PROVE KernelInv'
  BY <1>1, <1>2, <1>6 DEF SetupKdebug, Goto, DaemonTypeOK, SwitchOn, Facility, Holding
<1>7. ASSUME NEW s \in Sessions, Teardown(s) PROVE KernelInv'
  BY <1>1, <1>2, <1>7 DEF Teardown, Goto, DaemonTypeOK, Holding
<1>8. ASSUME NEW s \in Sessions, SessionClientCloses(s) \/ SenderFails(s)
      PROVE  KernelInv'
  BY <1>1, <1>8 DEF SessionClientCloses, SenderFails, SwitchOn
<1>9. ASSUME NEW k \in Stops, StopClones(k) \/ StopStores(k) PROVE KernelInv'
  BY <1>1, <1>9 DEF StopClones, StopStores, SwitchOn
<1>10. CASE UNCHANGED daemonVars
  BY <1>1, <1>10 DEF daemonVars, SwitchOn
<1> QED
  BY <1>3, <1>4, <1>5, <1>6, <1>7, <1>8, <1>9, <1>10 DEF DaemonNext, SessionStep

LEMMA KernelInvariant == DaemonSpec => []KernelInv
  BY DaemonTypeCorrect, InitKernel, NextKernel, PTL DEF DaemonSpec

\* Only the call that holds the slot is between its claim and its release.
THEOREM KperfHasOneOwner == DaemonSpec => []OneOwner
  BY KernelInvariant, PTL DEF KernelInv

\* A session that drains has every facility of the kernel to itself.
THEOREM SessionKeepsItsTrace == DaemonSpec => []DrainingMeansTracing
  BY KernelInvariant, PTL DEF KernelInv

\* However the last session ended, the next one sets up from a clean state.
THEOREM SetupIsFromCleanState == DaemonSpec => []SetupStartsClean
  BY KernelInvariant, PTL DEF KernelInv

-----------------------------------------------------------------------------
\* A stop never cancels a session that began after it read the slot.
THEOREM StopsAreForOneSession == DaemonSpec => StopCancelsWhatItSaw
<1> DEFINE Cause == \A s \in Sessions :
      ~cancelled[s] /\ cancelled'[s] => s \in gone \/ \E k \in Stops : target[k] = s
<1>1. DaemonTypeOK /\ [DaemonNext]_daemonVars => [Cause]_daemonVars
  <2> SUFFICES ASSUME DaemonTypeOK, DaemonNext PROVE Cause
    OBVIOUS
  <2> USE DEF DaemonTypeOK
  <2>1. ASSUME NEW s \in Sessions, Claim(s) \/ SessionStep(s) \/ DrainFails(s)
                                   \/ SessionClientCloses(s)
        PROVE  Cause
    BY <2>1
    DEF Claim, SessionStep, Gate, Wipe, SetupKperf, SetupKdebug, Drained,
        Teardown, Release, DrainFails, SessionClientCloses
  <2>2. ASSUME NEW s \in Sessions, SenderFails(s) PROVE Cause
    BY <2>2 DEF SenderFails
  <2>3. ASSUME NEW k \in Stops, StopClones(k) \/ StopStores(k) PROVE Cause
    BY <2>3 DEF StopClones, StopStores
  <2> QED BY <2>1, <2>2, <2>3 DEF DaemonNext
<1> QED BY <1>1, DaemonTypeCorrect, PTL DEF DaemonSpec, StopCancelsWhatItSaw
=============================================================================
