---------------------------- MODULE ShadeProofs -----------------------------
(***************************************************************************)
(* Safety of a shade and its sink for every length of a recording.         *)
(*                                                                         *)
(* A launched target is the shade's to resume and to reap.  The proof      *)
(* follows the order of run_recording: nothing is resumed before the       *)
(* session, every way past the session goes through the termination of the *)
(* child, and the only way around it is a resume that failed.              *)
(*                                                                         *)
(* Events and output are numbered in the order they come up; every place   *)
(* that holds some of them holds earlier ones than the next place, and     *)
(* what is at an end of the way is the beginning of what came up.          *)
(***************************************************************************)
EXTENDS Shade, SequenceLemmas

\* Before and after the session.
Early == {"start", "register", "connect", "terminal"}
Late  == {"report", "pump", "forwarder"}

\* The pending PreResume is the only permission to resume.
ResumeOnce ==
  /\ resumed \in {0, 1}
  /\ preResume => resumed = 0
  /\ shade \in Early => resumed = 0
  /\ resumed = 1 => firstBatch \/ result # "none"

\* What the shade knows of its child is so, and it goes on to the report only
\* with that knowledge.
ChildKnown ==
  /\ childExit => target = "reaped"
  /\ shade \in Early => ~childExit
  /\ launched /\ shade \in Late => childExit

\* How the shade gets to its exit.
WayOut ==
  /\ shade \in Early => ~driven
  /\ shade = "resume" => result # "none"
  /\ launched /\ shade \in {"exit", "exited"} /\ driven /\ resumed = 1 =>
       target = "reaped"

OwnInv == ResumeOnce /\ ChildKnown /\ WayOut /\ (pty => launched)

\* What the frontend does is no step of the shade.
LEMMA FrontendApart == [Next]_allVars => [ShadeNext]_vars
BY DEF Next, allVars, FrontendTurns

LEMMA InitOwn == Init => OwnInv
BY DEF Init, OwnInv, ResumeOnce, ChildKnown, WayOut, Early, Late

LEMMA StepOwn == OwnInv /\ [ShadeNext]_vars => OwnInv'
<1> SUFFICES ASSUME OwnInv, [ShadeNext]_vars PROVE OwnInv'
  OBVIOUS
<1> USE DEF OwnInv, ResumeOnce, ChildKnown, WayOut, Early, Late
<1>1. CASE TargetExits
  BY <1>1 DEF TargetExits, process, session
<1>2. CASE TargetWrites \/ ServerCommands
  BY <1>2 DEF TargetWrites, ServerCommands, process, tgt, session
<1>3. CASE Attach
  <2>1. /\ UNCHANGED <<launched, pty, driven, resumed, childExit, firstBatch, result>>
        /\ shade = "start" /\ shade' \in {"register", "exit"}
    BY <1>3 DEF Attach, LaunchSuspended, session
  <2>2. resumed = 0 /\ ~driven /\ ~childExit
    BY <2>1
  <2> QED BY <2>1, <2>2
<1>4. CASE Register \/ ConnectIngest
  BY <1>4 DEF Register, ConnectIngest, tgt, session
<1>5. CASE StartTerminal
  BY <1>5 DEF StartTerminal, tgt
<1>6. CASE FirstBatch
  BY <1>6 DEF FirstBatch, Resume, process
<1>7. CASE ShouldStop
  BY <1>7 DEF ShouldStop, LaunchedChildExited, session
<1>8. CASE DriveReturns
  BY <1>8 DEF DriveReturns, tgt
<1>9. CASE WorkerEnds
  BY <1>9 DEF WorkerEnds, process, tgt
<1>10. CASE ResumeNow
  BY <1>10 DEF ResumeNow, Resume, session
<1>11. CASE TerminateChild
  BY <1>11 DEF TerminateChild, session
<1>12. CASE ReportExit
  BY <1>12 DEF ReportExit, tgt, session
<1>13. CASE FinishPump \/ AwaitForwarder \/ ProcessExits
  BY <1>13 DEF FinishPump, AwaitForwarder, ProcessExits, tgt, session
<1>14. CASE Pump
  BY <1>14 DEF Pump, ReaderThread, OutputTask, ReadPty, ReadFails, PtyCloses, SendOutput,
               CloseOutput, process, tgt, session
<1>15. CASE Recording \/ UNCHANGED vars
  BY <1>15 DEF Recording, vars, process, tgt, session
<1> QED BY <1>1, <1>2, <1>3, <1>4, <1>5, <1>6, <1>7, <1>8, <1>9, <1>10,
           <1>11, <1>12, <1>13, <1>14, <1>15 DEF ShadeNext, Lifecycle

(* A launched target runs only once its recording is ready or over, is     *)
(* resumed once, and is reaped on every way out of a session on which it   *)
(* was resumed (run_recording, PreResume::resume,                          *)
(* terminate_launched_child).                                              *)
THEOREM TargetIsOwned == Spec => []LaunchedTargetIsOwned
<1>1. OwnInv => LaunchedTargetIsOwned
  BY DEF OwnInv, ResumeOnce, ChildKnown, WayOut, Late, LaunchedTargetIsOwned
<1> QED BY InitOwn, StepOwn, <1>1, FrontendApart, PTL DEF Spec
-----------------------------------------------------------------------------
(* The recording: what the sink holds, and where its forwarders are.       *)

\* Before connect_to_existing_run.
Opening == {"start", "register", "connect"}

SinkTypes ==
  /\ enqueued \in Nat /\ published \in Nat
  /\ applied \in Seq(Nat) /\ batch \in Seq(Nat) /\ events \in Seq(Nat)
  /\ wire \in Seq(Seq(Nat))
  /\ called \in Seq(Nat) /\ requests \in Seq(Nat)

\* Nothing has been recorded before the sink is open.
Unopened ==
  shade \in Opening =>
    /\ sink # "open" /\ forwarder = "none" /\ reliable = "none" /\ ~inputClosed
    /\ enqueued = 0 /\ published = 0
    /\ applied = <<>> /\ wire = <<>> /\ batch = <<>> /\ events = <<>>
    /\ called = <<>> /\ requests = <<>>

\* A forwarder that has found its input at an end, while the server listens,
\* was right: no event is left and none will come.
Phases ==
  /\ forwarder \in {"recv", "close", "done"} => batch = <<>>
  /\ reliable = "call" => requests # <<>>
  /\ serverRx /\ (inputClosed \/ forwarder \in {"close", "done"}) =>
       sink = "dropped" /\ events = <<>>

\* All that has been emitted, from the server back to the sink.
Stream == applied \o FlattenSeq(wire) \o batch \o events

EventsInOrder ==
  /\ serverRx => Stream = UpTo(enqueued)
  /\ IsPrefix(applied, UpTo(enqueued))

CallsInOrder ==
  /\ Increasing(called) /\ Increasing(requests)
  /\ \A a \in ToSet(called), b \in ToSet(requests) : a < b
  /\ \A a \in ToSet(called) \cup ToSet(requests) : a <= published

SinkInv == SinkTypes /\ Unopened /\ Phases /\ EventsInOrder /\ CallsInOrder

\* One step, as the sink sees it.
SinkStep ==
  \/ EnqueueEvent \/ EnqueueReliable
  \/ TakeEvent \/ BatchReady \/ SendBatch \/ SendFails \/ InputEnds \/ CloseTx
  \/ TakeRequest \/ MakeCall
  \/ ServerApplies \/ ServerDropsRx

LEMMA NextSeenBySink ==
  ASSUME [ShadeNext]_vars
  PROVE  \/ shade = "connect" /\ shade' = "terminal" /\ SpawnForwarders
         \/ /\ shade' \in Opening => shade \in Opening
            /\ UNCHANGED ingestVars \/ DropSink
         \/ shade' = shade /\ SinkStep
<1> USE DEF Opening
<1>1. CASE TargetExits \/ TargetWrites \/ ServerCommands
  BY <1>1 DEF TargetExits, TargetWrites, ServerCommands, process
<1>2. CASE Attach \/ Register \/ ConnectIngest \/ StartTerminal
  BY <1>2 DEF Attach, Register, ConnectIngest, StartTerminal
<1>3. CASE FirstBatch \/ ShouldStop \/ DriveReturns \/ WorkerEnds
  BY <1>3 DEF FirstBatch, ShouldStop, DriveReturns, WorkerEnds, process
<1>4. CASE \/ ResumeNow \/ TerminateChild \/ ReportExit \/ FinishPump
           \/ AwaitForwarder \/ ProcessExits
  BY <1>4 DEF ResumeNow, TerminateChild, ReportExit, FinishPump, AwaitForwarder,
              ProcessExits
<1>5. CASE Pump
  BY <1>5 DEF Pump, ReaderThread, OutputTask, ReadPty, ReadFails, PtyCloses, SendOutput,
              CloseOutput, process
<1>6. CASE Recording
  BY <1>6 DEF Recording, Emit, Forwarder, Reliable, SinkStep, process
<1>7. CASE UNCHANGED vars
  BY <1>7 DEF vars, process
<1> QED BY <1>1, <1>2, <1>3, <1>4, <1>5, <1>6, <1>7 DEF ShadeNext, Lifecycle

-----------------------------------------------------------------------------
(* What numbered events and calls look like.                               *)

LEMMA UpToSeq ==
  ASSUME NEW n \in Nat
  PROVE  /\ UpTo(n) \in Seq(Nat) /\ Len(UpTo(n)) = n
         /\ \A i \in 1..n : UpTo(n)[i] = i
BY DEF UpTo

LEMMA UpToNext ==
  ASSUME NEW n \in Nat
  PROVE  Append(UpTo(n), n + 1) = UpTo(n + 1)
<1> DEFINE s == Append(UpTo(n), n + 1)
           t == UpTo(n + 1)
<1>1. /\ UpTo(n) \in Seq(Nat) /\ Len(UpTo(n)) = n
      /\ \A i \in 1..n : UpTo(n)[i] = i
  BY UpToSeq
<1>2. /\ t \in Seq(Nat) /\ Len(t) = n + 1
      /\ \A i \in 1..(n + 1) : t[i] = i
  BY UpToSeq
<1>3. /\ s \in Seq(Nat) /\ Len(s) = n + 1 /\ s[n + 1] = n + 1
      /\ \A i \in 1..n : s[i] = UpTo(n)[i]
  BY <1>1, AppendProperties
<1> HIDE DEF s, t
<1>4. \A i \in 1..(n + 1) : s[i] = t[i]
  BY <1>1, <1>2, <1>3
<1>5. s = t
  BY <1>2, <1>3, <1>4, SeqEqual
<1> QED BY <1>5 DEF s, t

LEMMA NothingYet == UpTo(0) = <<>> /\ IsPrefix(<<>>, UpTo(0))
<1>1. UpTo(0) = <<>>
  BY UpToSeq, EmptySeq
<1> QED BY <1>1 DEF IsPrefix

-----------------------------------------------------------------------------
(* The events, operation by operation.                                     *)

LEMMA StreamParts ==
  ASSUME SinkTypes
  PROVE  /\ FlattenSeq(wire) \in Seq(Nat)
         /\ applied \o FlattenSeq(wire) \in Seq(Nat)
         /\ applied \o FlattenSeq(wire) \o batch \in Seq(Nat)
         /\ Stream \in Seq(Nat)
         /\ Stream = (applied \o FlattenSeq(wire)) \o (batch \o events)
         /\ Stream = applied \o (FlattenSeq(wire) \o (batch \o events))
<1> DEFINE flat == FlattenSeq(wire)
<1>1. applied \in Seq(Nat) /\ batch \in Seq(Nat) /\ events \in Seq(Nat)
  BY DEF SinkTypes
<1>2. flat \in Seq(Nat)
  <2>1. wire \in Seq(Seq(Nat))
    BY DEF SinkTypes
  <2> QED BY <2>1, FlattenTyped
<1> HIDE DEF flat
<1>3. \A u, v \in Seq(Nat) : u \o v \in Seq(Nat)
  BY ConcatProperties
<1>4. applied \o flat \in Seq(Nat) /\ batch \o events \in Seq(Nat)
  BY <1>1, <1>2, <1>3
<1>5. (applied \o flat) \o batch \in Seq(Nat)
  BY <1>1, <1>3, <1>4
<1>6. ((applied \o flat) \o batch) \o events = (applied \o flat) \o (batch \o events)
  BY <1>1, <1>4, NumbersAssociative
<1>7. (applied \o flat) \o (batch \o events) = applied \o (flat \o (batch \o events))
  <2> DEFINE rest == batch \o events
  <2>1. rest \in Seq(Nat)
    BY <1>4
  <2> HIDE DEF rest
  <2>2. (applied \o flat) \o rest = applied \o (flat \o rest)
    BY <1>1, <1>2, <2>1, NumbersAssociative, Zenon
  <2> QED BY <2>2 DEF rest
<1>8. ((applied \o flat) \o batch) \o events \in Seq(Nat)
  BY <1>1, <1>3, <1>5
<1> QED BY <1>2, <1>4, <1>5, <1>6, <1>7, <1>8 DEF flat, Stream

\* The first part of a stream begins it.
LEMMA FirstPartBegins ==
  \A a, flat, b, e \in Seq(Nat) : IsPrefix(a, a \o flat \o b \o e)
<1> TAKE a, flat, b, e \in Seq(Nat)
<1> DEFINE late == b \o e
           rest == flat \o late
<1>1. late \in Seq(Nat)
  BY ConcatProperties
<1>2. ((a \o flat) \o b) \o e = (a \o flat) \o (b \o e)
  <2>1. a \o flat \in Seq(Nat)
    BY ConcatProperties
  <2> QED BY <2>1, NumbersAssociative, Zenon
<1> HIDE DEF late
<1>3. (a \o flat) \o late = a \o (flat \o late)
  BY <1>1, NumbersAssociative, Zenon
<1>4. rest \in Seq(Nat)
  BY <1>1, ConcatProperties
<1> HIDE DEF rest
<1>5. IsPrefix(a, a \o rest)
  BY <1>4, PrefixOfConcat
<1> QED BY <1>2, <1>3, <1>5 DEF late, rest

LEMMA EmittedAtTheEnd ==
  ASSUME SinkTypes, events' = Append(events, enqueued + 1),
         UNCHANGED <<applied, wire, batch>>
  PROVE  Stream' = Append(Stream, enqueued + 1)
<1> DEFINE before == applied \o FlattenSeq(wire) \o batch
<1>1. before \in Seq(Nat) /\ events \in Seq(Nat) /\ enqueued + 1 \in Nat
  BY StreamParts DEF SinkTypes
<1>2. Stream = before \o events /\ Stream' = before \o Append(events, enqueued + 1)
  BY DEF Stream
<1> HIDE DEF before
<1> QED BY <1>1, <1>2, AppendToSecond

LEMMA TakenInOrder ==
  ASSUME SinkTypes, TakeEvent
  PROVE  /\ Stream' = Stream
         /\ batch' \in Seq(Nat) /\ events' \in Seq(Nat)
<1> DEFINE before == applied \o FlattenSeq(wire)
<1>1. /\ events # <<>> /\ batch' = Append(batch, Head(events)) /\ events' = Tail(events)
      /\ UNCHANGED <<applied, wire>>
  BY DEF TakeEvent, server
<1>2. before \in Seq(Nat) /\ events \in Seq(Nat) /\ batch \in Seq(Nat)
  BY StreamParts DEF SinkTypes
<1>3. batch' \in Seq(Nat) /\ events' \in Seq(Nat) /\ batch' \o events' = batch \o events
  <2>1. /\ Append(batch, Head(events)) \in Seq(Nat) /\ Tail(events) \in Seq(Nat)
        /\ Append(batch, Head(events)) \o Tail(events) = batch \o events
    BY <1>1, <1>2, MoveOne
  <2> QED BY <1>1, <2>1
<1>4. Stream = before \o (batch \o events)
  BY StreamParts
<1>5. Stream' = (before \o batch') \o events'
  BY <1>1 DEF Stream
<1> HIDE DEF before
<1>6. (before \o batch') \o events' = before \o (batch' \o events')
  BY <1>2, <1>3, NumbersAssociative, Zenon
<1> QED BY <1>3, <1>4, <1>5, <1>6

LEMMA SentInOrder ==
  ASSUME SinkTypes, SendBatch
  PROVE  Stream' = Stream /\ wire' \in Seq(Seq(Nat))
<1> DEFINE flat == FlattenSeq(wire)
<1>1. /\ wire' = Append(wire, batch) /\ batch' = <<>>
      /\ UNCHANGED <<applied, events>>
  BY DEF SendBatch
<1>2. /\ applied \in Seq(Nat) /\ events \in Seq(Nat) /\ batch \in Seq(Nat)
      /\ wire \in Seq(Seq(Nat))
  BY DEF SinkTypes
<1>3. flat \in Seq(Nat)
  BY StreamParts
<1>4. FlattenSeq(wire') = flat \o batch
  BY <1>1, <1>2, FlattenAppend
<1>5. wire' \in Seq(Seq(Nat))
  BY <1>1, <1>2, AppendProperties
<1>6. Stream = ((applied \o flat) \o batch) \o events
  BY DEF Stream
<1>7. Stream' = ((applied \o (flat \o batch)) \o <<>>) \o events
  BY <1>1, <1>4 DEF Stream
<1> HIDE DEF flat
<1>8. (applied \o flat) \o batch = applied \o (flat \o batch)
  BY <1>2, <1>3, NumbersAssociative, Zenon
<1>9. (applied \o (flat \o batch)) \o <<>> = applied \o (flat \o batch)
  <2> DEFINE s == applied \o (flat \o batch)
  <2>1. s \in Seq(Nat)
    BY <1>2, <1>3, ConcatProperties
  <2> HIDE DEF s
  <2>2. s \o <<>> = s
    BY <2>1, ConcatEmptySeq
  <2> QED BY <2>2 DEF s
<1> QED BY <1>5, <1>6, <1>7, <1>8, <1>9

LEMMA AppliedInOrder ==
  ASSUME SinkTypes, ServerApplies
  PROVE  Stream' = Stream /\ wire' \in Seq(Seq(Nat)) /\ applied' \in Seq(Nat)
<1> DEFINE first == Head(wire)
           flat  == FlattenSeq(Tail(wire))
<1>1. /\ wire # <<>> /\ applied' = applied \o first /\ wire' = Tail(wire)
      /\ UNCHANGED <<batch, events>>
  BY DEF ServerApplies, forward
<1>2. applied \in Seq(Nat) /\ wire \in Seq(Seq(Nat))
  BY DEF SinkTypes
<1>3. first \in Seq(Nat) /\ Tail(wire) \in Seq(Seq(Nat))
  BY <1>1, <1>2, HeadTailProperties
<1>4. flat \in Seq(Nat)
  BY <1>3, FlattenTyped
<1>5. FlattenSeq(wire) = first \o flat
  <2>1. \A s \in Seq(Seq(Nat)) :
           s # <<>> => FlattenSeq(s) = Head(s) \o FlattenSeq(Tail(s))
    BY FlattenTail
  <2> QED BY <1>1, <1>2, <2>1
<1>6. Stream = ((applied \o (first \o flat)) \o batch) \o events
  BY <1>5 DEF Stream
<1>7. Stream' = (((applied \o first) \o flat) \o batch) \o events
  BY <1>1 DEF Stream
<1> HIDE DEF first, flat
<1>8. (applied \o first) \o flat = applied \o (first \o flat)
  BY <1>2, <1>3, <1>4, NumbersAssociative, Zenon
<1>9. applied' \in Seq(Nat)
  BY <1>1, <1>2, <1>3, ConcatProperties
<1> QED BY <1>1, <1>3, <1>6, <1>7, <1>8, <1>9

-----------------------------------------------------------------------------
(* The calls: both ends of the second channel are increasing, and all that *)
(* has been called for comes before all that waits.                        *)

LEMMA RequestedInOrder ==
  ASSUME SinkTypes, CallsInOrder, requests' = Append(requests, published + 1),
         published' = published + 1, called' = called
  PROVE  CallsInOrder' /\ requests' \in Seq(Nat)
<1>1. requests \in Seq(Nat) /\ called \in Seq(Nat) /\ published \in Nat
      /\ published + 1 \in Nat
  BY DEF SinkTypes
<1>2. ToSet(requests) \subseteq Nat /\ ToSet(called) \subseteq Nat
  BY <1>1, Members
<1>3. \A a \in ToSet(called) \cup ToSet(requests) : a <= published /\ a < published + 1
  BY <1>1, <1>2 DEF CallsInOrder
<1>4. ToSet(requests') = ToSet(requests) \cup {published + 1}
  BY <1>1, AppendMembers
<1>5. Increasing(requests')
  <2>1. Increasing(requests)
    BY DEF CallsInOrder
  <2> QED BY <1>1, <1>3, <2>1, AppendIncreasing
<1>6. requests' \in Seq(Nat)
  BY <1>1, AppendProperties
<1>7. Increasing(called')
  BY DEF CallsInOrder
<1>8. \A a \in ToSet(called'), b \in ToSet(requests') : a < b
  BY <1>3, <1>4 DEF CallsInOrder
<1>9. \A a \in ToSet(called') \cup ToSet(requests') : a <= published'
  BY <1>1, <1>2, <1>3, <1>4
<1> QED BY <1>5, <1>6, <1>7, <1>8, <1>9 DEF CallsInOrder

LEMMA CalledInOrder ==
  ASSUME SinkTypes, CallsInOrder, requests # <<>>, MakeCall
  PROVE  CallsInOrder' /\ requests' \in Seq(Nat) /\ called' \in Seq(Nat)
<1>1. requests \in Seq(Nat) /\ called \in Seq(Nat)
  BY DEF SinkTypes
<1>2. /\ requests' = Tail(requests) /\ published' = published
      /\ called' = Append(called, Head(requests)) \/ called' = called
  BY DEF MakeCall, recorder
<1>3. /\ Increasing(called) /\ Increasing(requests)
      /\ \A a \in ToSet(called), b \in ToSet(requests) : a < b
      /\ \A a \in ToSet(called) \cup ToSet(requests) : a <= published
  BY DEF CallsInOrder
<1>4. /\ Head(requests) \in Nat /\ requests' \in Seq(Nat)
      /\ ToSet(requests) = {Head(requests)} \cup ToSet(requests')
  BY <1>1, <1>2, TailMembers
<1>5. Increasing(requests') /\ \A b \in ToSet(requests') : Head(requests) < b
  BY <1>1, <1>2, <1>3, TailIncreasing
<1>6. CASE called' = Append(called, Head(requests))
  <2>1. called' \in Seq(Nat)
    BY <1>1, <1>4, <1>6, AppendProperties
  <2>2. ToSet(called') = ToSet(called) \cup {Head(requests)}
    BY <1>1, <1>4, <1>6, AppendMembers
  <2>3. \A a \in ToSet(called) : a < Head(requests)
    BY <1>3, <1>4
  <2>4. Increasing(called')
    BY <1>1, <1>3, <1>4, <1>6, <2>3, AppendIncreasing
  <2>5. \A a \in ToSet(called'), b \in ToSet(requests') : a < b
    BY <1>3, <1>4, <1>5, <2>2
  <2>6. \A a \in ToSet(called') \cup ToSet(requests') : a <= published'
    BY <1>2, <1>3, <1>4, <2>2
  <2> QED BY <1>4, <1>5, <2>1, <2>4, <2>5, <2>6 DEF CallsInOrder
<1>7. CASE called' = called
  <2>1. \A a \in ToSet(called'), b \in ToSet(requests') : a < b
    BY <1>3, <1>4, <1>7
  <2>2. \A a \in ToSet(called') \cup ToSet(requests') : a <= published'
    BY <1>2, <1>3, <1>4, <1>7
  <2> QED BY <1>1, <1>3, <1>4, <1>5, <1>7, <2>1, <2>2 DEF CallsInOrder
<1> QED BY <1>2, <1>6, <1>7

-----------------------------------------------------------------------------
(* The invariant of the sink, step by step.                                *)

LEMMA InitSink == Init => SinkInv
<1> SUFFICES ASSUME Init PROVE SinkInv
  OBVIOUS
<1>1. /\ sink = "none" /\ enqueued = 0 /\ published = 0
      /\ events = <<>> /\ forwarder = "none" /\ batch = <<>> /\ ~inputClosed
      /\ requests = <<>> /\ reliable = "none" /\ called = <<>>
      /\ ~serverRx /\ wire = <<>> /\ applied = <<>>
  BY DEF Init, IngestInit
<1>2. <<>> \in Seq(Nat) /\ <<>> \in Seq(Seq(Nat))
  BY EmptySeq
<1>3. SinkTypes
  BY <1>1, <1>2 DEF SinkTypes
<1>4. Unopened /\ Phases
  BY <1>1 DEF Unopened, Phases
<1>5. EventsInOrder
  BY <1>1, NothingYet DEF EventsInOrder
<1>6. CallsInOrder
  BY <1>1, EmptyIncreasing DEF CallsInOrder
<1> QED BY <1>3, <1>4, <1>5, <1>6 DEF SinkInv

\* The run is accepted: both sides start from nothing.
LEMMA SpawnHolds ==
  ASSUME SinkInv, shade = "connect", shade' = "terminal", SpawnForwarders
  PROVE  SinkInv'
<1>1. /\ forwarder' = "recv" /\ reliable' = "recv"
      /\ UNCHANGED <<enqueued, published, events, batch, inputClosed, requests,
                     called, wire, applied>>
  BY DEF SpawnForwarders
<1>2. /\ ~inputClosed /\ enqueued = 0 /\ published = 0
      /\ applied = <<>> /\ wire = <<>> /\ batch = <<>> /\ events = <<>>
      /\ called = <<>> /\ requests = <<>>
  BY DEF SinkInv, Unopened, Opening
<1>3. SinkTypes' /\ CallsInOrder'
  BY <1>1 DEF SinkInv, SinkTypes, CallsInOrder
<1>4. ~inputClosed'
  BY <1>1, <1>2
<1>5. Unopened' /\ Phases'
  BY <1>1, <1>2, <1>4 DEF Unopened, Phases, Opening
<1>6. Stream' = UpTo(0) /\ enqueued' = 0
  <2>1. Stream' = <<>> \o FlattenSeq(<<>>) \o <<>> \o <<>>
    BY <1>1, <1>2 DEF Stream
  <2>2. <<>> \o <<>> = <<>>
    BY EmptySeq, ConcatEmptySeq
  <2> QED BY <1>1, <1>2, <2>1, <2>2, FlattenEmpty, NothingYet
<1>7. IsPrefix(applied', UpTo(0))
  BY <1>1, <1>2, NothingYet
<1>8. EventsInOrder'
  BY <1>6, <1>7 DEF EventsInOrder
<1> QED BY <1>3, <1>5, <1>8 DEF SinkInv

\* The sink is dropped, or left alone.
LEMMA LeftAlone ==
  ASSUME SinkInv, shade' \in Opening => shade \in Opening,
         UNCHANGED ingestVars \/ DropSink
  PROVE  SinkInv'
<1>1. /\ UNCHANGED <<enqueued, published, events, forwarder, batch, inputClosed,
                     requests, reliable, called, serverRx, wire, applied>>
      /\ sink' = sink \/ sink' = "dropped"
  BY DEF ingestVars, recorder, forward, calls, server, DropSink
<1>2. SinkTypes' /\ CallsInOrder' /\ EventsInOrder'
  BY <1>1 DEF SinkInv, SinkTypes, CallsInOrder, EventsInOrder, Stream
<1>3. Unopened' /\ Phases'
  BY <1>1 DEF SinkInv, Unopened, Phases
<1> QED BY <1>2, <1>3 DEF SinkInv

\* Nothing moves before the sink is open.
LEMMA NothingMoves ==
  ASSUME SinkInv, shade' = shade, SinkStep
  PROVE  Unopened'
<1> SUFFICES ASSUME shade \in Opening PROVE Unopened'
  BY DEF Unopened
<1>1. /\ sink # "open" /\ forwarder = "none" /\ reliable = "none" /\ wire = <<>>
  BY DEF SinkInv, Unopened
<1>2. ServerDropsRx
  BY <1>1 DEF SinkStep, EnqueueEvent, EnqueueReliable, TakeEvent, BatchReady,
              SendBatch, SendFails, InputEnds, CloseTx, TakeRequest, MakeCall,
              ServerApplies
<1> QED BY <1>2 DEF ServerDropsRx, recorder, forward, calls, SinkInv, Unopened

\* The operations that move events, or let them go.
LEMMA EventsHold ==
  ASSUME SinkInv, shade' = shade,
         \/ EnqueueEvent \/ TakeEvent \/ SendBatch \/ ServerApplies \/ ServerDropsRx
  PROVE  SinkTypes' /\ Phases' /\ EventsInOrder'
<1>1. SinkTypes /\ Phases /\ EventsInOrder
  BY DEF SinkInv
<1>2. enqueued \in Nat /\ events \in Seq(Nat)
  BY <1>1 DEF SinkTypes
<1>3. CASE EnqueueEvent
  <2>1. /\ sink = "open" /\ enqueued' = enqueued + 1
        /\ UNCHANGED <<sink, published, forwarder, batch, inputClosed, requests,
                       reliable, called, serverRx, wire, applied>>
    BY <1>3 DEF EnqueueEvent, calls, server
  <2>2. \/ forwarder # "done" /\ events' = Append(events, enqueued + 1)
        \/ forwarder = "done" /\ events' = events
    BY <1>3 DEF EnqueueEvent
  <2>3. events' \in Seq(Nat) /\ enqueued' \in Nat
    BY <1>2, <2>1, <2>2, AppendProperties
  <2>4. SinkTypes'
    BY <1>1, <2>1, <2>3 DEF SinkTypes
  <2>5. ~(serverRx /\ (inputClosed \/ forwarder \in {"close", "done"}))
    BY <1>1, <2>1 DEF Phases
  <2>6. Phases'
    BY <1>1, <2>1, <2>5 DEF Phases
  <2>7. serverRx => Stream' = UpTo(enqueued')
    <3> SUFFICES ASSUME serverRx PROVE Stream' = UpTo(enqueued')
      OBVIOUS
    <3>1. events' = Append(events, enqueued + 1)
      BY <2>2, <2>5
    <3>2. Stream' = Append(Stream, enqueued + 1)
      BY <1>1, <2>1, <3>1, EmittedAtTheEnd
    <3>3. Stream = UpTo(enqueued)
      BY <1>1 DEF EventsInOrder
    <3> QED BY <1>2, <2>1, <3>2, <3>3, UpToNext
  <2>8. IsPrefix(applied', UpTo(enqueued'))
    <3>1. applied \in Seq(Nat) /\ UpTo(enqueued) \in Seq(Nat) /\ enqueued + 1 \in Nat
      BY <1>1, <1>2, UpToSeq DEF SinkTypes
    <3>2. IsPrefix(applied, UpTo(enqueued))
      BY <1>1 DEF EventsInOrder
    <3>3. IsPrefix(applied, Append(UpTo(enqueued), enqueued + 1))
      BY <3>1, <3>2, PrefixOfAppend
    <3> QED BY <1>2, <2>1, <3>3, UpToNext
  <2>9. EventsInOrder'
    BY <2>1, <2>7, <2>8 DEF EventsInOrder
  <2> QED BY <2>4, <2>6, <2>9
<1>4. CASE TakeEvent
  <2>1. /\ events # <<>> /\ forwarder' = "fill"
        /\ UNCHANGED <<sink, enqueued, published, inputClosed, requests, reliable,
                       called, serverRx, wire, applied>>
    BY <1>4 DEF TakeEvent, recorder, calls, server
  <2>2. Stream' = Stream /\ batch' \in Seq(Nat) /\ events' \in Seq(Nat)
    BY <1>1, <1>4, TakenInOrder
  <2>3. SinkTypes'
    BY <1>1, <2>1, <2>2 DEF SinkTypes
  <2>4. Phases'
    BY <1>1, <2>1 DEF Phases
  <2>5. EventsInOrder'
    BY <1>1, <2>1, <2>2 DEF EventsInOrder
  <2> QED BY <2>3, <2>4, <2>5
<1>5. CASE SendBatch
  <2>1. /\ batch' = <<>> /\ forwarder' = IF inputClosed THEN "close" ELSE "recv"
        /\ UNCHANGED <<sink, enqueued, published, events, inputClosed, requests,
                       reliable, called, serverRx, applied>>
    BY <1>5 DEF SendBatch, recorder, calls
  <2>2. Stream' = Stream /\ wire' \in Seq(Seq(Nat))
    BY <1>1, <1>5, SentInOrder
  <2>3. batch' \in Seq(Nat)
    BY <2>1, EmptySeq
  <2>4. SinkTypes'
    BY <1>1, <2>1, <2>2, <2>3 DEF SinkTypes
  <2>5. Phases'
    BY <1>1, <2>1 DEF Phases
  <2>6. EventsInOrder'
    BY <1>1, <2>1, <2>2 DEF EventsInOrder
  <2> QED BY <2>4, <2>5, <2>6
<1>6. CASE ServerApplies
  <2>1. serverRx /\ UNCHANGED <<sink, enqueued, published, events, forwarder, batch,
                                inputClosed, requests, reliable, called, serverRx>>
    BY <1>6 DEF ServerApplies, recorder, forward, calls
  <2>2. Stream' = Stream /\ wire' \in Seq(Seq(Nat)) /\ applied' \in Seq(Nat)
    BY <1>1, <1>6, AppliedInOrder
  <2>3. SinkTypes'
    BY <1>1, <2>1, <2>2 DEF SinkTypes
  <2>4. Phases'
    BY <1>1, <2>1 DEF Phases
  <2>5. Stream' = UpTo(enqueued')
    BY <1>1, <2>1, <2>2 DEF EventsInOrder
  <2>6. IsPrefix(applied', UpTo(enqueued'))
    <3>1. /\ applied' \in Seq(Nat) /\ wire' \in Seq(Seq(Nat))
          /\ batch' \in Seq(Nat) /\ events' \in Seq(Nat)
      BY <2>3 DEF SinkTypes
    <3>2. FlattenSeq(wire') \in Seq(Nat)
      BY <3>1, FlattenTyped
    <3>3. IsPrefix(applied', Stream')
      BY <3>1, <3>2, FirstPartBegins DEF Stream
    <3> QED BY <2>5, <3>3
  <2>7. EventsInOrder'
    BY <2>5, <2>6 DEF EventsInOrder
  <2> QED BY <2>3, <2>4, <2>7
<1>7. CASE ServerDropsRx
  <2>1. /\ ~serverRx' /\ wire' = <<>>
        /\ UNCHANGED <<sink, enqueued, published, events, forwarder, batch,
                       inputClosed, requests, reliable, called, applied>>
    BY <1>7 DEF ServerDropsRx, recorder, forward, calls
  <2>2. wire' \in Seq(Seq(Nat))
    BY <2>1, EmptySeq
  <2>3. SinkTypes'
    BY <1>1, <2>1, <2>2 DEF SinkTypes
  <2>4. Phases' /\ EventsInOrder'
    BY <1>1, <2>1 DEF Phases, EventsInOrder
  <2> QED BY <2>3, <2>4
<1> QED BY <1>3, <1>4, <1>5, <1>6, <1>7

LEMMA CallsUntouched ==
  ASSUME CallsInOrder, UNCHANGED <<published, called, requests>>
  PROVE  CallsInOrder'
BY DEF CallsInOrder

\* The steps of forward_events that move no event, and its end: it lets go of
\* events only if the server has let go of it.
LEMMA ForwarderHolds ==
  ASSUME SinkInv, BatchReady \/ SendFails \/ InputEnds \/ CloseTx
  PROVE  SinkTypes' /\ Phases' /\ EventsInOrder' /\ CallsInOrder'
<1>1. SinkTypes /\ Phases /\ EventsInOrder /\ CallsInOrder
  BY DEF SinkInv
<1>2. /\ UNCHANGED <<sink, enqueued, published, requests, reliable, called,
                     serverRx, wire, applied>>
      /\ events' = events \/ events' = <<>>
      /\ batch' = batch \/ batch' = <<>>
  BY DEF BatchReady, SendFails, InputEnds, CloseTx, recorder, calls, server
<1>3. SinkTypes'
  <2>1. events' \in Seq(Nat) /\ batch' \in Seq(Nat)
    BY <1>1, <1>2, EmptySeq DEF SinkTypes
  <2> QED BY <1>1, <1>2, <2>1 DEF SinkTypes
<1>4. CallsInOrder'
  BY <1>1, <1>2, CallsUntouched
<1>5. CASE BatchReady
  <2>1. /\ forwarder' = "send" /\ UNCHANGED <<events, batch>>
        /\ inputClosed' => sink = "dropped" /\ events = <<>>
    BY <1>5 DEF BatchReady
  <2>2. Phases'
    BY <1>1, <1>2, <2>1 DEF Phases
  <2>3. EventsInOrder'
    BY <1>1, <1>2, <2>1 DEF EventsInOrder, Stream
  <2> QED BY <1>3, <1>4, <2>2, <2>3
<1>6. CASE SendFails
  <2>1. /\ ~serverRx /\ batch' = <<>> /\ forwarder' = "close"
    BY <1>6 DEF SendFails
  <2>2. Phases' /\ EventsInOrder'
    BY <1>1, <1>2, <2>1 DEF Phases, EventsInOrder
  <2> QED BY <1>3, <1>4, <2>2
<1>7. CASE InputEnds
  <2>1. /\ forwarder = "recv" /\ events = <<>> /\ sink = "dropped"
        /\ forwarder' = "close" /\ UNCHANGED <<events, batch, inputClosed>>
    BY <1>7 DEF InputEnds
  <2>2. Phases'
    BY <1>1, <1>2, <2>1 DEF Phases
  <2>3. EventsInOrder'
    BY <1>1, <1>2, <2>1 DEF EventsInOrder, Stream
  <2> QED BY <1>3, <1>4, <2>2, <2>3
<1>8. CASE CloseTx
  <2>1. /\ forwarder = "close" /\ events' = <<>> /\ forwarder' = "done"
        /\ UNCHANGED <<batch, inputClosed>>
    BY <1>8 DEF CloseTx
  <2>2. serverRx => sink = "dropped" /\ events = <<>>
    BY <1>1, <2>1 DEF Phases
  <2>3. Phases'
    BY <1>1, <1>2, <2>1, <2>2 DEF Phases
  <2>4. serverRx => Stream' = Stream
    BY <1>2, <2>1, <2>2 DEF Stream
  <2>5. EventsInOrder'
    BY <1>1, <1>2, <2>4 DEF EventsInOrder
  <2> QED BY <1>3, <1>4, <2>3, <2>5
<1> QED BY <1>5, <1>6, <1>7, <1>8

LEMMA CallsHold ==
  ASSUME SinkInv, EnqueueReliable \/ TakeRequest \/ MakeCall
  PROVE  SinkTypes' /\ Phases' /\ EventsInOrder' /\ CallsInOrder'
<1>1. SinkTypes /\ Phases /\ EventsInOrder /\ CallsInOrder
  BY DEF SinkInv
<1>2. UNCHANGED <<sink, enqueued, events, forwarder, batch, inputClosed, serverRx,
                  wire, applied>>
  BY DEF EnqueueReliable, TakeRequest, MakeCall, recorder, forward, server
<1>3. EventsInOrder'
  BY <1>1, <1>2 DEF EventsInOrder, Stream
<1>4. CASE EnqueueReliable
  <2>1. /\ requests' = Append(requests, published + 1)
        /\ published' = published + 1 /\ UNCHANGED <<called, reliable>>
    BY <1>4 DEF EnqueueReliable
  <2>2. CallsInOrder' /\ requests' \in Seq(Nat)
    BY <1>1, <2>1, RequestedInOrder
  <2>3. SinkTypes'
    BY <1>1, <1>2, <2>1, <2>2 DEF SinkTypes
  <2>4. requests' # <<>>
    <3>1. requests \in Seq(Nat) /\ published + 1 \in Nat
      BY <1>1 DEF SinkTypes
    <3> QED BY <2>1, <3>1, AppendProperties
  <2>5. Phases'
    BY <1>1, <1>2, <2>1, <2>4 DEF Phases
  <2> QED BY <1>3, <2>2, <2>3, <2>5
<1>5. CASE TakeRequest
  <2>1. /\ reliable' = IF requests # <<>> THEN "call" ELSE "done"
        /\ UNCHANGED <<published, requests, called>>
    BY <1>5 DEF TakeRequest, recorder
  <2>2. SinkTypes' /\ Phases'
    BY <1>1, <1>2, <2>1 DEF SinkTypes, Phases
  <2> QED BY <1>1, <1>3, <2>1, <2>2, CallsUntouched
<1>6. CASE MakeCall
  <2>1. reliable = "call" /\ reliable' = "recv" /\ published' = published
    BY <1>6 DEF MakeCall, recorder
  <2>2. requests # <<>>
    BY <1>1, <2>1 DEF Phases
  <2>3. CallsInOrder' /\ requests' \in Seq(Nat) /\ called' \in Seq(Nat)
    BY <1>1, <1>6, <2>2, CalledInOrder
  <2>4. SinkTypes'
    BY <1>1, <1>2, <2>1, <2>3 DEF SinkTypes
  <2>5. Phases'
    BY <1>1, <1>2, <2>1 DEF Phases
  <2> QED BY <1>3, <2>3, <2>4, <2>5
<1> QED BY <1>4, <1>5, <1>6

LEMMA StepSink == SinkInv /\ [ShadeNext]_vars => SinkInv'
<1> SUFFICES ASSUME SinkInv, [ShadeNext]_vars PROVE SinkInv'
  OBVIOUS
<1>1. CASE shade = "connect" /\ shade' = "terminal" /\ SpawnForwarders
  BY <1>1, SpawnHolds
<1>2. CASE /\ shade' \in Opening => shade \in Opening
           /\ UNCHANGED ingestVars \/ DropSink
  BY <1>2, LeftAlone
<1>3. CASE shade' = shade /\ SinkStep
  <2>1. Unopened'
    BY <1>3, NothingMoves
  <2>2. CASE EnqueueEvent \/ TakeEvent \/ SendBatch \/ ServerApplies \/ ServerDropsRx
    <3>1. SinkTypes' /\ Phases' /\ EventsInOrder'
      BY <1>3, <2>2, EventsHold
    <3>2. UNCHANGED <<published, called, requests>>
      BY <2>2 DEF EnqueueEvent, TakeEvent, SendBatch, ServerApplies, ServerDropsRx,
                  recorder, calls
    <3>3. CallsInOrder'
      BY <3>2, CallsUntouched DEF SinkInv
    <3> QED BY <2>1, <3>1, <3>3 DEF SinkInv
  <2>3. CASE BatchReady \/ SendFails \/ InputEnds \/ CloseTx
    BY <2>1, <2>3, ForwarderHolds DEF SinkInv
  <2>4. CASE EnqueueReliable \/ TakeRequest \/ MakeCall
    BY <2>1, <2>4, CallsHold DEF SinkInv
  <2> QED BY <1>3, <2>2, <2>3, <2>4 DEF SinkStep
<1> QED BY <1>1, <1>2, <1>3, NextSeenBySink

(* While the server listens, what it has applied, what is on the wire, in  *)
(* the forwarder's hand and in the channel is, in that order, all that was *)
(* emitted, and nothing of it is left when the forwarder has ended;        *)
(* afterwards what it has applied is the beginning of it.  The calls reach *)
(* it in the order they were asked for (forward_events, forward_reliable). *)
THEOREM EventsArriveInOrder == Spec => []IngestInOrder
<1>1. SinkInv => IngestInOrder
  <2> SUFFICES ASSUME SinkInv PROVE IngestInOrder
    OBVIOUS
  <2>1. IF serverRx
        THEN applied \o FlattenSeq(wire) \o batch \o events = UpTo(enqueued)
        ELSE IsPrefix(applied, UpTo(enqueued))
    BY DEF SinkInv, EventsInOrder, Stream
  <2>2. ASSUME forwarder = "done", serverRx
        PROVE  applied \o FlattenSeq(wire) = UpTo(enqueued)
    <3> DEFINE front == applied \o FlattenSeq(wire)
    <3>1. batch = <<>> /\ events = <<>>
      BY <2>2 DEF SinkInv, Phases
    <3>2. front \in Seq(Nat)
      BY StreamParts DEF SinkInv
    <3>3. front \o <<>> \o <<>> = UpTo(enqueued)
      BY <2>2, <3>1 DEF SinkInv, EventsInOrder, Stream
    <3> HIDE DEF front
    <3>4. front \o <<>> = front
      BY <3>2, ConcatEmptySeq
    <3> QED BY <3>3, <3>4 DEF front
  <2>3. IsIncreasing(called \o requests)
    <3> DEFINE s == called \o requests
    <3>1. called \in Seq(Nat) /\ requests \in Seq(Nat) /\ s \in Seq(Nat)
      BY ConcatProperties DEF SinkInv, SinkTypes
    <3>2. Increasing(s)
      BY <3>1, ConcatIncreasing DEF SinkInv, CallsInOrder
    <3> HIDE DEF s
    <3>3. DOMAIN s = 1..Len(s)
      BY <3>1, LenProperties
    <3>4. IsIncreasing(s)
      BY <3>2, <3>3 DEF IsIncreasing, Increasing
    <3> QED BY <3>4 DEF s
  <2> QED BY <2>1, <2>2, <2>3 DEF IngestInOrder
<1> QED BY <1>1, InitSink, StepSink, FrontendApart, PTL DEF Spec

-----------------------------------------------------------------------------
(* The terminal: what the reader has read is shown or on its way.          *)

All == shown \o output
ChunksIn(s, i) == Cardinality({j \in 1..i : s[j] \in Chunk})
Numbered(s) == \A i \in 1..Len(s) : s[i] \in Chunk => s[i] = ChunksIn(s, i)
Exits(s) == {i \in 1..Len(s) : s[i] = Exit}
Failed(s) == \E i \in 1..Len(s) : s[i] = ReadError

TermTypes ==
  /\ shown \in Seq(Nat) /\ output \in Seq(Nat)
  /\ read \in Nat /\ writes \in Nat /\ read <= writes /\ writes <= MaxWrites

\* The pump has not been started yet.
NoPump ==
  shade \in Early => /\ outputTask = "none" /\ reader = "none" /\ ~senders
                     /\ shown = <<>> /\ output = <<>> /\ read = 0

\* The pump keeps its sender until it has reported the exit, and the output is
\* closed when everybody else has let go of theirs; the reader lets go at the
\* end of the terminal, or has said that it failed.
Ends ==
  /\ outputTask = "sending" /\ ~senders => shade \in {"pump", "forwarder", "exit", "exited"}
  /\ outputTask = "closed" => output = <<>> /\ reader = "done" /\ ~senders
  /\ reader = "done" /\ outputTask \in {"sending", "closed"} =>
       \/ read = writes /\ target \in {"exited", "reaped"}
       \/ Failed(All)

Complete ==
  outputTask \in {"sending", "closed"} =>
    /\ Numbered(All) /\ ChunksIn(All, Len(All)) = read
    /\ senders => Exits(All) = {}
    /\ ~senders => \E i \in 1..Len(All) : Exits(All) = {i}

TermInv == TermTypes /\ NoPump /\ Ends /\ Complete /\ Numbered(shown)

LEMMA Events ==
  /\ Exit \in Nat /\ ReadError \in Nat
  /\ Exit \notin Chunk /\ ReadError \notin Chunk /\ ReadError # Exit
  /\ \A n \in Nat : n < MaxWrites => n + 1 \in Chunk
BY ShadeAssumption DEF Exit, ReadError, Chunk

\* One more event at the end: a chunk is the next one, another counts for none.
LEMMA OneMoreEvent ==
  ASSUME NEW s \in Seq(Nat), NEW e \in Nat, Numbered(s)
  PROVE  /\ Append(s, e) \in Seq(Nat) /\ Len(Append(s, e)) = Len(s) + 1
         /\ ChunksIn(s, Len(s)) \in Nat
         /\ e \in Chunk /\ e = ChunksIn(s, Len(s)) + 1 =>
              /\ Numbered(Append(s, e))
              /\ ChunksIn(Append(s, e), Len(s) + 1) = ChunksIn(s, Len(s)) + 1
         /\ e \notin Chunk =>
              /\ Numbered(Append(s, e))
              /\ ChunksIn(Append(s, e), Len(s) + 1) = ChunksIn(s, Len(s))
         /\ Exits(Append(s, e)) =
              IF e = Exit THEN Exits(s) \cup {Len(s) + 1} ELSE Exits(s)
         /\ Failed(s) \/ e = ReadError => Failed(Append(s, e))
<1> DEFINE t == Append(s, e)
           n == Len(s)
           C(i) == {j \in 1..i : s[j] \in Chunk}
           D(i) == {j \in 1..i : t[j] \in Chunk}
<1>1. /\ t \in Seq(Nat) /\ Len(t) = n + 1 /\ n \in Nat
      /\ \A i \in 1..n : t[i] = s[i]
      /\ t[n + 1] = e
  BY AppendProperties, LenProperties
<1> HIDE DEF t, n
<1>2. IsFiniteSet(C(n)) /\ Cardinality(C(n)) \in Nat /\ n + 1 \notin C(n)
  <2>1. IsFiniteSet(1..n)
    BY <1>1, FS_Interval
  <2>2. IsFiniteSet(C(n))
    BY <2>1, FS_Subset
  <2>3. n + 1 \notin C(n)
    BY <1>1
  <2> HIDE DEF C
  <2> QED BY <2>2, <2>3, FS_CardinalityType
<1>3. \A i \in 1..n : D(i) = C(i)
  BY <1>1
<1>4. D(n + 1) = IF e \in Chunk THEN C(n) \cup {n + 1} ELSE C(n)
  BY <1>1
<1> HIDE DEF C, D
<1>5. Cardinality(D(n + 1)) =
        IF e \in Chunk THEN Cardinality(C(n)) + 1 ELSE Cardinality(C(n))
  BY <1>2, <1>4, FS_AddElement
<1>6. /\ \A i \in 1..n : ChunksIn(s, i) = Cardinality(C(i))
      /\ ChunksIn(s, n) = Cardinality(C(n))
      /\ \A i \in 1..(n + 1) : ChunksIn(t, i) = Cardinality(D(i))
      /\ ChunksIn(t, n + 1) = Cardinality(D(n + 1))
  BY DEF ChunksIn, C, D
<1>7. \A i \in 1..n : s[i] \in Chunk => s[i] = Cardinality(C(i))
  BY <1>6 DEF Numbered, n
<1>8. ASSUME e \in Chunk => e = Cardinality(C(n)) + 1 PROVE Numbered(t)
  <2> SUFFICES ASSUME NEW i \in 1..(n + 1), t[i] \in Chunk
               PROVE  t[i] = Cardinality(D(i))
    BY <1>1, <1>6 DEF Numbered
  <2>1. CASE i \in 1..n
    BY <1>1, <1>3, <1>7, <2>1
  <2>2. CASE i = n + 1
    BY <1>1, <1>5, <1>8, <2>2
  <2> QED BY <1>1, <2>1, <2>2
<1>9. Exits(t) = IF e = Exit THEN Exits(s) \cup {n + 1} ELSE Exits(s)
  BY <1>1 DEF Exits, n
<1>10. Failed(s) \/ e = ReadError => Failed(t)
  <2>1. ASSUME NEW i \in 1..n, s[i] = ReadError PROVE Failed(t)
    BY <1>1, <2>1 DEF Failed
  <2>2. e = ReadError => Failed(t)
    BY <1>1 DEF Failed
  <2> QED BY <2>1, <2>2 DEF Failed, n
<1>11. e \notin Chunk => Numbered(t)
  BY <1>8
<1>12. e \in Chunk /\ e = ChunksIn(s, n) + 1 => Numbered(t)
  BY <1>6, <1>8
<1> QED BY <1>1, <1>2, <1>5, <1>6, <1>9, <1>10, <1>11, <1>12 DEF t, n

LEMMA BeginningNumbered ==
  ASSUME NEW s \in Seq(Nat), NEW t \in Seq(Nat), Numbered(s \o t)
  PROVE  Numbered(s)
<1> DEFINE u == s \o t
<1>1. /\ Len(u) = Len(s) + Len(t) /\ Len(s) \in Nat /\ Len(t) \in Nat
      /\ \A i \in 1..Len(s) : u[i] = s[i]
  BY ConcatProperties, LenProperties
<1>2. Numbered(u)
  OBVIOUS
<1> HIDE DEF u
<1> SUFFICES ASSUME NEW i \in 1..Len(s), s[i] \in Chunk PROVE s[i] = ChunksIn(s, i)
  BY DEF Numbered
<1>3. u[i] = ChunksIn(u, i)
  BY <1>1, <1>2 DEF Numbered
<1>4. \A j \in 1..i : u[j] = s[j]
  BY <1>1
<1>5. {j \in 1..i : u[j] \in Chunk} = {j \in 1..i : s[j] \in Chunk}
  BY <1>4
<1> QED BY <1>1, <1>3, <1>5 DEF ChunksIn

LEMMA NoEvents == /\ Numbered(<<>>) /\ Exits(<<>>) = {} /\ ChunksIn(<<>>, 0) = 0
                  /\ <<>> \o <<>> = <<>>
<1>1. {j \in 1..0 : <<>>[j] \in Chunk} = {}
  OBVIOUS
<1>2. <<>> \o <<>> = <<>>
  BY EmptySeq, ConcatEmptySeq
<1> QED BY <1>1, <1>2, FS_EmptySet DEF Numbered, Exits, ChunksIn

-----------------------------------------------------------------------------
(* The steps, as the terminal sees them.                                   *)

Ending == {"pump", "forwarder", "exit", "exited"}

\* The steps that leave the terminal alone keep its target ended, if it has,
\* and never go back.
LEMMA NextSeenByTerminal ==
  ASSUME [ShadeNext]_vars
  PROVE  \/ TargetWrites \/ StartTerminal \/ ReportExit \/ Pump
         \/ /\ UNCHANGED terminal
            /\ shade \in Early
            /\ shade' \in Early \cup Ending
         \/ /\ UNCHANGED terminal
            /\ shade' \in Early => shade \in Early
            /\ shade \in Ending => shade' \in Ending
            /\ target \in {"exited", "reaped"} => target' \in {"exited", "reaped"}
<1> USE DEF Early, Ending
<1>1. CASE TargetWrites \/ StartTerminal \/ ReportExit \/ Pump
  BY <1>1
<1>2. CASE TargetExits \/ ServerCommands
  BY <1>2 DEF TargetExits, ServerCommands, process, tgt
<1>3. CASE Attach \/ Register \/ ConnectIngest
  BY <1>3 DEF Attach, LaunchSuspended, Register, ConnectIngest
<1>4. CASE FirstBatch \/ ShouldStop
  BY <1>4 DEF FirstBatch, ShouldStop, Resume, LaunchedChildExited, process
<1>5. CASE DriveReturns \/ WorkerEnds
  BY <1>5 DEF DriveReturns, WorkerEnds, process, tgt
<1>6. CASE ResumeNow
  BY <1>6 DEF ResumeNow, Resume
<1>7. CASE TerminateChild
  BY <1>7 DEF TerminateChild
<1>8. CASE FinishPump \/ AwaitForwarder \/ ProcessExits
  BY <1>8 DEF FinishPump, AwaitForwarder, ProcessExits, tgt
<1>9. CASE Recording
  BY <1>9 DEF Recording, process, tgt
<1>10. CASE UNCHANGED vars
  BY <1>10 DEF vars, process, tgt
<1> QED BY <1>1, <1>2, <1>3, <1>4, <1>5, <1>6, <1>7, <1>8, <1>9, <1>10
        DEF ShadeNext, Lifecycle

LEMMA InitTerm == Init => TermInv
<1> SUFFICES ASSUME Init PROVE TermInv
  OBVIOUS
<1>1. /\ writes = 0 /\ read = 0 /\ reader = "none" /\ output = <<>>
      /\ ~senders /\ outputTask = "none" /\ shown = <<>>
  BY DEF Init
<1>2. TermTypes
  BY <1>1, EmptySeq, ShadeAssumption DEF TermTypes
<1>3. NoPump /\ Ends /\ Complete
  BY <1>1 DEF NoPump, Ends, Complete
<1> QED BY <1>1, <1>2, <1>3, NoEvents DEF TermInv

LEMMA TerminalLeftAlone ==
  ASSUME TermInv, UNCHANGED terminal,
         \/ shade \in Early /\ shade' \in Early \cup Ending
         \/ /\ shade' \in Early => shade \in Early
            /\ shade \in Ending => shade' \in Ending
            /\ target \in {"exited", "reaped"} => target' \in {"exited", "reaped"}
  PROVE  TermInv'
<1>1. UNCHANGED <<writes, read, reader, output, senders, outputTask, shown>>
  BY DEF terminal
<1>2. TermTypes' /\ Complete' /\ Numbered(shown')
  BY <1>1 DEF TermInv, TermTypes, Complete, All
<1>3. NoPump'
  BY <1>1 DEF TermInv, NoPump, Early, Ending
<1>4. Ends'
  <2>1. CASE shade \in Early
    BY <1>1, <2>1 DEF TermInv, NoPump, Ends
  <2>2. CASE shade \notin Early
    BY <1>1, <2>2 DEF TermInv, Ends, Ending, All
  <2> QED BY <2>1, <2>2
<1> QED BY <1>2, <1>3, <1>4 DEF TermInv

\* start_terminal_pump: nothing is shown yet.
LEMMA StartTerminalHolds ==
  ASSUME TermInv, StartTerminal
  PROVE  TermInv'
<1>1. /\ shade = "terminal" /\ shade' \in {"drive", "exit"}
      /\ UNCHANGED <<writes, read, output, shown>>
  BY DEF StartTerminal
<1>2. /\ outputTask = "none" /\ reader = "none" /\ ~senders
      /\ shown = <<>> /\ output = <<>> /\ read = 0
  BY <1>1 DEF TermInv, NoPump, Early
<1>3. \/ reader' = "reading" /\ outputTask' = "sending" /\ senders'
      \/ UNCHANGED <<reader, outputTask, senders>>
  BY DEF StartTerminal
<1>4. TermTypes' /\ NoPump' /\ Numbered(shown')
  BY <1>1 DEF TermInv, TermTypes, NoPump, Early
<1>5. Ends'
  BY <1>2, <1>3 DEF Ends
<1>6. All' = <<>> /\ Len(<<>>) = 0
  BY <1>1, <1>2, NoEvents, EmptySeq DEF All
<1>7. Complete'
  <2>1. Numbered(All') /\ Exits(All') = {} /\ ChunksIn(All', Len(All')) = read'
    BY <1>1, <1>2, <1>6, NoEvents
  <2> QED BY <1>2, <1>3, <2>1 DEF Complete
<1> QED BY <1>4, <1>5, <1>7 DEF TermInv

LEMMA TargetWritesHolds ==
  ASSUME TermInv, TargetWrites
  PROVE  TermInv'
<1>1. /\ target = "running" /\ writes' = writes + 1 /\ writes < MaxWrites
      /\ UNCHANGED <<shade, target, read, reader, output, senders, outputTask, shown>>
  BY DEF TargetWrites, process, tgt
<1>2. TermTypes' /\ NoPump' /\ Complete' /\ Numbered(shown')
  BY <1>1, ShadeAssumption DEF TermInv, TermTypes, NoPump, Complete, All
<1>3. Ends'
  BY <1>1 DEF TermInv, Ends, All
<1> QED BY <1>2, <1>3 DEF TermInv

\* What All is made of.
LEMMA AllTyped ==
  ASSUME TermTypes
  PROVE  All \in Seq(Nat) /\ Len(All) \in Nat
<1>1. All \in Seq(Nat)
  BY ConcatProperties DEF TermTypes, All
<1> QED BY <1>1, LenProperties

LEMMA AppendedToAll ==
  ASSUME TermTypes, NEW e \in Nat, output' = Append(output, e), shown' = shown
  PROVE  output' \in Seq(Nat) /\ All' = Append(All, e)
<1>1. shown \in Seq(Nat) /\ output \in Seq(Nat)
  BY DEF TermTypes
<1>2. output' \in Seq(Nat)
  BY <1>1, AppendProperties
<1>3. shown \o Append(output, e) = Append(shown \o output, e)
  BY <1>1, AppendToSecond
<1> QED BY <1>2, <1>3 DEF All

\* report_exit: the only exit in the stream, sent while the pump still holds
\* its sender, and the shade knows how its child ended.
LEMMA ReportExitHolds ==
  ASSUME TermInv, OwnInv, ReportExit
  PROVE  TermInv'
<1>1. /\ shade = "report" /\ shade' \in {"pump", "forwarder"}
      /\ UNCHANGED <<target, writes, read, reader, outputTask, shown>>
  BY DEF ReportExit, tgt
<1>2. TermTypes
  BY DEF TermInv
<1>3. NoPump' /\ Numbered(shown')
  BY <1>1 DEF TermInv, NoPump, Early
<1>4. CASE ~pty
  <2>1. UNCHANGED <<output, senders>>
    BY <1>4 DEF ReportExit
  <2>2. TermTypes' /\ Complete'
    BY <1>1, <2>1 DEF TermInv, TermTypes, Complete, All
  <2>3. Ends'
    BY <1>1, <2>1 DEF TermInv, Ends, All
  <2> QED BY <1>3, <2>2, <2>3 DEF TermInv
<1>5. CASE pty
  <2>1. /\ shade' = "pump" /\ ~senders'
        /\ output' = IF childExit /\ outputTask = "sending"
                     THEN Append(output, Exit) ELSE output
    BY <1>5 DEF ReportExit
  <2>2. childExit
    BY <1>1, <1>5 DEF OwnInv, ChildKnown, Late
  <2>3. outputTask = "closed" => output' = output
    BY <2>1
  <2>5. CASE outputTask = "sending"
    <3>1. output' = Append(output, Exit)
      BY <2>1, <2>2, <2>5
    <3>2. Exit \in Nat
      BY DEF Exit
    <3>3. output' \in Seq(Nat) /\ All' = Append(All, Exit)
      BY <1>1, <1>2, <3>1, <3>2, AppendedToAll
    <3>4. senders
      BY <1>1, <2>5 DEF TermInv, Ends
    <3>5. Numbered(All) /\ ChunksIn(All, Len(All)) = read /\ Exits(All) = {}
      BY <2>5, <3>4 DEF TermInv, Complete
    <3>6. /\ Numbered(All') /\ Exits(All') = {Len(All) + 1}
          /\ Failed(All) => Failed(All')
          /\ Len(All') = Len(All) + 1
          /\ ChunksIn(All', Len(All) + 1) = read
      BY <1>2, <3>2, <3>3, <3>5, AllTyped, Events, OneMoreEvent
    <3>7. Len(All) + 1 \in 1..Len(All')
      BY <1>2, <3>6, AllTyped
    <3>8. Complete'
      BY <1>1, <2>1, <3>6, <3>7 DEF Complete
    <3>9. TermTypes'
      BY <1>1, <1>2, <3>3 DEF TermTypes
    <3>10. Ends'
      BY <1>1, <2>1, <2>5, <3>6 DEF TermInv, Ends
    <3> QED BY <1>3, <3>8, <3>9, <3>10 DEF TermInv
  <2>6. CASE outputTask # "sending"
    <3>1. output' = output
      BY <2>1, <2>6
    <3>2. TermTypes'
      BY <1>1, <1>2, <3>1 DEF TermTypes
    <3>3. outputTask = "closed" => ~senders
      BY DEF TermInv, Ends
    <3>4. Complete'
      BY <1>1, <2>1, <2>6, <3>1, <3>3 DEF TermInv, Complete, All
    <3>5. Ends'
      BY <1>1, <2>1, <2>3, <2>6, <3>1 DEF TermInv, Ends, All
    <3> QED BY <1>3, <3>2, <3>4, <3>5 DEF TermInv
  <2> QED BY <2>5, <2>6
<1> QED BY <1>4, <1>5

\* read_terminal: the next chunk, the end of a terminal that nobody holds, or
\* an error.
LEMMA ReaderHolds ==
  ASSUME TermInv, ReaderThread
  PROVE  TermInv'
<1>1. /\ reader = "reading"
      /\ UNCHANGED <<shade, target, writes, senders, outputTask, shown>>
  BY DEF ReaderThread, ReadPty, PtyCloses, ReadFails, process, tgt
<1>2. TermTypes /\ shade \notin Early
  BY <1>1 DEF TermInv, NoPump
<1>3. outputTask # "closed"
  BY <1>1 DEF TermInv, Ends
<1>4. NoPump' /\ Numbered(shown')
  BY <1>1, <1>2 DEF TermInv, NoPump
<1>5. CASE PtyCloses
  <2>1. /\ read = writes /\ target \in {"exited", "reaped"}
        /\ UNCHANGED <<read, output>>
    BY <1>5 DEF PtyCloses
  <2>2. TermTypes' /\ Complete'
    BY <1>1, <2>1 DEF TermInv, TermTypes, Complete, All
  <2>3. Ends'
    BY <1>1, <1>3, <2>1 DEF TermInv, Ends
  <2> QED BY <1>4, <2>2, <2>3 DEF TermInv
<1>6. CASE ReadPty /\ outputTask = "sending"
  <2>1. /\ read < writes /\ read' = read + 1
        /\ output' = Append(output, read + 1) /\ reader' = reader
    BY <1>6 DEF ReadPty
  <2>2. read \in Nat /\ writes \in Nat /\ read + 1 \in Nat /\ read < MaxWrites
    BY <1>2, <2>1, ShadeAssumption DEF TermTypes
  <2>3. output' \in Seq(Nat) /\ All' = Append(All, read + 1)
    BY <1>1, <1>2, <2>1, <2>2, AppendedToAll
  <2>4. /\ Numbered(All) /\ ChunksIn(All, Len(All)) = read
        /\ senders => Exits(All) = {}
        /\ ~senders => \E i \in 1..Len(All) : Exits(All) = {i}
    BY <1>6 DEF TermInv, Complete
  <2>5. /\ Numbered(All') /\ Exits(All') = Exits(All)
        /\ Len(All') = Len(All) + 1
        /\ ChunksIn(All', Len(All) + 1) = read + 1
    <3>1. read + 1 \in Chunk /\ read + 1 # Exit
      BY <2>2, Events
    <3> QED BY <1>2, <2>2, <2>3, <2>4, <3>1, AllTyped, OneMoreEvent
  <2>6. 1..Len(All) \subseteq 1..Len(All')
    BY <1>2, <2>5, AllTyped
  <2>7. ~senders => \E i \in 1..Len(All') : Exits(All') = {i}
    BY <2>4, <2>5, <2>6
  <2>8. Complete'
    BY <1>1, <2>1, <2>4, <2>5, <2>7 DEF Complete
  <2>9. TermTypes'
    BY <1>1, <1>2, <2>1, <2>2, <2>3 DEF TermTypes
  <2>10. Ends'
    BY <1>1, <1>3, <2>1 DEF TermInv, Ends
  <2> QED BY <1>4, <2>8, <2>9, <2>10 DEF TermInv
<1>7. CASE ReadPty /\ outputTask # "sending"
  <2>1. read < writes /\ read' = read + 1 /\ reader' = "done" /\ output' = output
    BY <1>7 DEF ReadPty
  <2>2. TermTypes'
    BY <1>1, <1>2, <2>1 DEF TermTypes
  <2>3. Ends' /\ Complete'
    BY <1>1, <1>3, <1>7 DEF Ends, Complete
  <2> QED BY <1>4, <2>2, <2>3 DEF TermInv
<1>8. CASE ReadFails
  <2>1. /\ reader' = "done" /\ read' = read
        /\ output' = IF outputTask = "sending" THEN Append(output, ReadError)
                     ELSE output
    BY <1>8 DEF ReadFails
  <2>2. CASE outputTask = "sending"
    <3>1. output' \in Seq(Nat) /\ All' = Append(All, ReadError)
      BY <1>1, <1>2, <2>1, <2>2, Events, AppendedToAll
    <3>2. /\ Numbered(All) /\ ChunksIn(All, Len(All)) = read
          /\ senders => Exits(All) = {}
          /\ ~senders => \E i \in 1..Len(All) : Exits(All) = {i}
      BY <2>2 DEF TermInv, Complete
    <3>3. /\ Numbered(All') /\ Exits(All') = Exits(All) /\ Failed(All')
          /\ Len(All') = Len(All) + 1
          /\ ChunksIn(All', Len(All) + 1) = read
      BY <1>2, <3>1, <3>2, AllTyped, Events, OneMoreEvent
    <3>4. 1..Len(All) \subseteq 1..Len(All')
      BY <1>2, <3>3, AllTyped
    <3>5. ~senders => \E i \in 1..Len(All') : Exits(All') = {i}
      BY <3>2, <3>3, <3>4
    <3>6. Complete'
      BY <1>1, <2>1, <3>2, <3>3, <3>5 DEF Complete
    <3>7. TermTypes'
      BY <1>1, <1>2, <2>1, <3>1 DEF TermTypes
    <3>8. Ends'
      BY <1>1, <1>3, <2>1, <3>3 DEF TermInv, Ends
    <3> QED BY <1>4, <3>6, <3>7, <3>8 DEF TermInv
  <2>3. CASE outputTask # "sending"
    <3>1. output' = output
      BY <2>1, <2>3
    <3>2. TermTypes'
      BY <1>1, <1>2, <2>1, <3>1 DEF TermTypes
    <3>3. Ends' /\ Complete'
      BY <1>1, <1>3, <2>3 DEF Ends, Complete
    <3> QED BY <1>4, <3>2, <3>3 DEF TermInv
  <2> QED BY <2>2, <2>3
<1> QED BY <1>5, <1>6, <1>7, <1>8 DEF ReaderThread

\* output_task: what it sends stays in order; it closes an empty channel that
\* nobody can send to.
LEMMA OutputTaskHolds ==
  ASSUME TermInv, OutputTask
  PROVE  TermInv'
<1>1. /\ outputTask = "sending"
      /\ UNCHANGED <<shade, target, writes, read, reader, senders>>
  BY DEF OutputTask, SendOutput, CloseOutput, process, tgt
<1>2. TermTypes /\ shade \notin Early
  BY <1>1 DEF TermInv, NoPump
<1>3. shown \in Seq(Nat) /\ output \in Seq(Nat)
  BY <1>2 DEF TermTypes
<1>4. NoPump'
  BY <1>1, <1>2 DEF NoPump
<1>5. CASE CloseOutput
  <2>1. /\ output = <<>> /\ ~senders /\ reader = "done"
        /\ outputTask' = "closed" /\ UNCHANGED <<output, shown>>
    BY <1>5 DEF CloseOutput
  <2>2. TermTypes' /\ Complete' /\ Numbered(shown')
    BY <1>1, <2>1 DEF TermInv, TermTypes, Complete, All
  <2>3. Ends'
    BY <1>1, <2>1 DEF TermInv, Ends, All
  <2> QED BY <1>4, <2>2, <2>3 DEF TermInv
<1>6. CASE SendOutput
  <2>1. output # <<>> /\ output' = Tail(output)
    BY <1>6 DEF SendOutput
  <2>2. output' \in Seq(Nat)
    BY <1>3, <2>1, HeadTailProperties
  <2>3. CASE shown' = Append(shown, Head(output)) /\ outputTask' = outputTask
    <3>1. /\ Append(shown, Head(output)) \in Seq(Nat)
          /\ Append(shown, Head(output)) \o Tail(output) = shown \o output
      BY <1>3, <2>1, MoveOne
    <3>2. shown' \in Seq(Nat) /\ All' = All
      BY <2>1, <2>3, <3>1 DEF All
    <3>3. Complete'
      BY <1>1, <2>3, <3>2 DEF TermInv, Complete
    <3>4. Numbered(All')
      BY <1>1, <2>3, <3>3 DEF Complete
    <3>5. Numbered(shown')
      BY <2>2, <3>2, <3>4, BeginningNumbered DEF All
    <3>6. TermTypes'
      BY <1>1, <1>2, <2>2, <3>2 DEF TermTypes
    <3>7. Ends'
      BY <1>1, <2>3, <3>2 DEF TermInv, Ends
    <3> QED BY <1>4, <3>3, <3>5, <3>6, <3>7 DEF TermInv
  <2>4. CASE outputTask' = "failed" /\ shown' = shown
    <3>1. TermTypes' /\ Numbered(shown')
      BY <1>1, <1>2, <2>2, <2>4 DEF TermInv, TermTypes
    <3>2. Ends' /\ Complete'
      BY <2>4 DEF Ends, Complete
    <3> QED BY <1>4, <3>1, <3>2 DEF TermInv
  <2> QED BY <1>6, <2>3, <2>4 DEF SendOutput
<1> QED BY <1>5, <1>6 DEF OutputTask

LEMMA StepTerm == TermInv /\ OwnInv /\ [ShadeNext]_vars => TermInv'
<1> SUFFICES ASSUME TermInv, OwnInv, [ShadeNext]_vars PROVE TermInv'
  OBVIOUS
<1>1. CASE TargetWrites
  BY <1>1, TargetWritesHolds
<1>2. CASE StartTerminal
  BY <1>2, StartTerminalHolds
<1>3. CASE ReportExit
  BY <1>3, ReportExitHolds
<1>4. CASE Pump
  BY <1>4, ReaderHolds, OutputTaskHolds DEF Pump
<1>5. CASE /\ UNCHANGED terminal
           /\ \/ shade \in Early /\ shade' \in Early \cup Ending
              \/ /\ shade' \in Early => shade \in Early
                 /\ shade \in Ending => shade' \in Ending
                 /\ target \in {"exited", "reaped"} => target' \in {"exited", "reaped"}
  BY <1>5, TerminalLeftAlone
<1> QED BY <1>1, <1>2, <1>3, <1>4, <1>5, NextSeenByTerminal

(* What the server is shown of the terminal is the beginning of what the   *)
(* target wrote, chunk by chunk, whatever fails; and a pump that closes    *)
(* its output has shown all of it, or that reading it failed, and once how *)
(* the target ended (start_terminal_pump, read_terminal, report_exit,      *)
(* finish).                                                                *)
THEOREM OutputIsComplete == Spec => []OutputComplete
<1>1. TermInv => OutputComplete
  <2> SUFFICES ASSUME TermInv PROVE OutputComplete
    OBVIOUS
  <2>1. shown \in Seq(Nat) /\ DOMAIN shown = 1..Len(shown)
    BY LenProperties DEF TermInv, TermTypes
  <2>2. \A i \in DOMAIN shown : shown[i] \in Chunk => shown[i] = ChunksUpTo(i)
    BY <2>1 DEF TermInv, Numbered, ChunksIn, ChunksUpTo
  <2>3. ASSUME outputTask = "closed"
        PROVE  /\ \/ ChunksUpTo(Len(shown)) = writes
                  \/ \E i \in DOMAIN shown : shown[i] = ReadError
               /\ Cardinality({i \in DOMAIN shown : shown[i] = Exit}) = 1
    <3>1. output = <<>> /\ ~senders /\ (read = writes \/ Failed(All))
      BY <2>3 DEF TermInv, Ends
    <3>2. All = shown
      BY <2>1, <3>1, ConcatEmptySeq DEF All
    <3>3. ChunksIn(shown, Len(shown)) = writes \/ Failed(shown)
      BY <2>3, <3>1, <3>2 DEF TermInv, Complete
    <3>4. PICK i \in 1..Len(shown) : Exits(shown) = {i}
      BY <2>3, <3>1, <3>2 DEF TermInv, Complete
    <3>5. Cardinality(Exits(shown)) = 1
      BY <3>4, FS_Singleton
    <3> QED BY <2>1, <3>3, <3>5 DEF ChunksIn, ChunksUpTo, Exits, Failed
  <2> QED BY <2>2, <2>3 DEF OutputComplete
<1> QED BY <1>1, InitOwn, StepOwn, InitTerm, StepTerm, FrontendApart, PTL DEF Spec

-----------------------------------------------------------------------------
(* Types.                                                                  *)

LEMMA InitTyped == Init => TypeOK
<1> SUFFICES ASSUME Init PROVE TypeOK
  OBVIOUS
<1>1. IngestTypeOK
  <2>1. /\ MaxEvents \in Nat /\ MaxCalls \in Nat /\ 0 <= BatchMax /\ 0 <= Credit
        /\ Len(<<>>) = 0
    BY IngestAssumption, EmptySeq
  <2>2. /\ sink = "none" /\ enqueued = 0 /\ published = 0 /\ forwarder = "none"
        /\ batch = <<>> /\ wire = <<>> /\ reliable = "none"
    BY DEF Init, IngestInit
  <2>3. {inputClosed, stopRequested, serverRx} \subseteq BOOLEAN
    BY DEF Init, IngestInit
  <2> QED BY <2>1, <2>2, <2>3 DEF IngestTypeOK
<1>2. read \in 0..writes /\ writes \in 0..MaxWrites
  BY ShadeAssumption DEF Init
<1>3. {launched, pty, driven, preResume, childExit, firstBatch, senders} \subseteq BOOLEAN
  BY DEF Init
<1> QED BY <1>1, <1>2, <1>3 DEF Init, TypeOK

\* The sink's part of a step.
LEMMA SinkStepTyped ==
  ASSUME IngestTypeOK, SinkTypes,
         UNCHANGED ingestVars \/ DropSink \/ SpawnForwarders \/ SinkStep
  PROVE  IngestTypeOK'
<1> USE IngestAssumption
<1>1. CASE UNCHANGED ingestVars \/ DropSink \/ SpawnForwarders
  BY <1>1 DEF IngestTypeOK, ingestVars, recorder, forward, calls, server, DropSink,
              SpawnForwarders
<1>2. CASE EnqueueEvent \/ EnqueueReliable
  <2>1. MaxEvents \in Nat /\ MaxCalls \in Nat
    OBVIOUS
  <2>2. /\ enqueued' \in 0..MaxEvents /\ published' \in 0..MaxCalls
        /\ UNCHANGED <<sink, forwarder, batch, wire, reliable>>
    BY <1>2, <2>1 DEF IngestTypeOK, EnqueueEvent, EnqueueReliable, forward, calls, server
  <2>3. {inputClosed', stopRequested', serverRx'} \subseteq BOOLEAN
    BY <1>2 DEF IngestTypeOK, EnqueueEvent, EnqueueReliable, forward, server
  <2> QED BY <2>2, <2>3 DEF IngestTypeOK
<1>8. CASE TakeRequest \/ MakeCall
  BY <1>8 DEF IngestTypeOK, TakeRequest, MakeCall, recorder, forward, server
<1>3. CASE TakeEvent
  <2>1. /\ Len(batch) < BatchMax /\ batch' = Append(batch, Head(events))
        /\ events # <<>>
    BY <1>3 DEF TakeEvent
  <2>2. batch \in Seq(Nat) /\ Head(events) \in Nat
    BY <2>1, HeadTailProperties DEF SinkTypes
  <2>3. Len(batch') <= BatchMax
    BY <2>1, <2>2, AppendProperties, LenProperties
  <2> QED BY <1>3, <2>3 DEF IngestTypeOK, TakeEvent, recorder, calls, server
<1>4. CASE BatchReady
  BY <1>4 DEF IngestTypeOK, BatchReady, recorder, calls, server
<1>5. CASE SendFails
  <2>1. Len(<<>>) <= BatchMax
    BY EmptySeq
  <2> QED BY <1>5, <2>1 DEF IngestTypeOK, SendFails, recorder, calls, server
<1>9. CASE InputEnds \/ CloseTx
  BY <1>9 DEF IngestTypeOK, InputEnds, CloseTx, recorder, calls, server
<1>6. CASE SendBatch
  <2>1. Len(wire) < Credit /\ wire' = Append(wire, batch) /\ batch' = <<>>
    BY <1>6 DEF SendBatch
  <2>2. wire \in Seq(Seq(Nat)) /\ batch \in Seq(Nat)
    BY DEF SinkTypes
  <2>3. Len(wire') <= Credit /\ Len(batch') = 0
    BY <2>1, <2>2, AppendProperties, LenProperties, EmptySeq
  <2> QED BY <1>6, <2>3 DEF IngestTypeOK, SendBatch, recorder, calls
<1>7. CASE ServerApplies \/ ServerDropsRx
  <2>1. Len(wire') <= Credit
    <3>1. wire \in Seq(Seq(Nat)) /\ Len(wire) <= Credit
      BY DEF SinkTypes, IngestTypeOK
    <3>2. CASE ServerApplies
      <4>1. wire # <<>> /\ wire' = Tail(wire)
        BY <3>2 DEF ServerApplies
      <4> QED BY <3>1, <4>1, HeadTailProperties, LenProperties
    <3>3. CASE ServerDropsRx
      BY <3>3, EmptySeq DEF ServerDropsRx
    <3> QED BY <1>7, <3>2, <3>3
  <2> QED BY <1>7, <2>1 DEF IngestTypeOK, ServerApplies, ServerDropsRx,
                            recorder, forward, calls
<1> QED BY <1>1, <1>2, <1>3, <1>4, <1>5, <1>6, <1>7, <1>8, <1>9 DEF SinkStep

LEMMA StepTyped == TypeOK /\ SinkInv /\ [Next]_allVars => TypeOK'
<1> SUFFICES ASSUME TypeOK, SinkInv, [ShadeNext]_vars,
                    frontend' \in {"reading", "stalled"}
             PROVE  TypeOK'
  <2>1. ASSUME TypeOK, [Next]_allVars PROVE frontend' \in {"reading", "stalled"}
    BY <2>1 DEF TypeOK, Next, FrontendTurns, allVars
  <2> QED BY <2>1, FrontendApart
<1>1. IngestTypeOK'
  <2>1. UNCHANGED ingestVars \/ DropSink \/ SpawnForwarders \/ SinkStep
    BY NextSeenBySink
  <2> QED BY <2>1, SinkStepTyped DEF TypeOK, SinkInv
<1> USE ShadeAssumption DEF TypeOK
<1>2. CASE TargetExits \/ TargetWrites \/ ServerCommands
  BY <1>1, <1>2 DEF TargetExits, TargetWrites, ServerCommands, process, tgt, session,
                    terminal
<1>3. CASE Attach \/ Register \/ ConnectIngest
  BY <1>1, <1>3 DEF Attach, LaunchSuspended, Register, ConnectIngest, tgt, session,
                    terminal
<1>4. CASE StartTerminal
  BY <1>1, <1>4 DEF StartTerminal, tgt
<1>5. CASE FirstBatch \/ ResumeNow
  BY <1>1, <1>5 DEF FirstBatch, ResumeNow, Resume, process, session, terminal
<1>6. CASE ShouldStop \/ TerminateChild
  BY <1>1, <1>6 DEF ShouldStop, LaunchedChildExited, TerminateChild, session, terminal
<1>7. CASE DriveReturns \/ WorkerEnds
  BY <1>1, <1>7 DEF DriveReturns, WorkerEnds, process, tgt, terminal
<1>8. CASE ReportExit
  BY <1>1, <1>8 DEF ReportExit, tgt, session
<1>9. CASE FinishPump \/ AwaitForwarder \/ ProcessExits
  BY <1>1, <1>9 DEF FinishPump, AwaitForwarder, ProcessExits, tgt, session, terminal
<1>10. CASE Pump
  BY <1>1, <1>10 DEF Pump, ReaderThread, OutputTask, ReadPty, ReadFails, PtyCloses,
                     SendOutput, CloseOutput, process, tgt, session
<1>11. CASE Recording \/ UNCHANGED vars
  BY <1>1, <1>11 DEF Recording, vars, process, tgt, session, terminal
<1> QED BY <1>2, <1>3, <1>4, <1>5, <1>6, <1>7, <1>8, <1>9, <1>10, <1>11
        DEF ShadeNext, Lifecycle

\* The shade's state, and its sink's, stay within their types and bounds: no
\* batch is larger than INGEST_BATCH_MAX_EVENTS, and no more batches are on the
\* wire than the channel has credit for.
THEOREM TypeCorrect == Spec => []TypeOK
BY InitSink, StepSink, InitTyped, StepTyped, FrontendApart, PTL DEF Spec
=============================================================================
