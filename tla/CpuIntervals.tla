---------------------------- MODULE CpuIntervals ----------------------------
(***************************************************************************)
(* CpuIntervalTracker (stax-mac-kperf-parse/src/offcpu.rs) next to the     *)
(* scheduler whose kdebug records it is fed.  The tracker starts in the    *)
(* middle of things: it knows a thread or a CPU only from the first record *)
(* about it.                                                               *)
(*                                                                         *)
(* 0 is the idle thread, and Option::None for times, which start at 1.  A  *)
(* stack is only known to be cached or not; a PET sample without user      *)
(* frames changes nothing and is left out, as are the totals kept for the  *)
(* log and the separate list of wakeups.  No record is lost.               *)
(***************************************************************************)
EXTENDS Naturals, FiniteSets

CONSTANTS
  Threads,    \* tids
  Cpus,
  MaxTime     \* bound: records the scheduler emits

ASSUME IntervalsAssumption ==
  /\ Threads \subseteq Nat \ {0}
  /\ MaxTime \in Nat \ {0}     \* time 1 is that of the last record so far

VARIABLES
  \* the scheduler (external)
  now,        \* time of the last record
  running,    \* the thread on each CPU
  since,      \* when each thread last went on or off a CPU
  blocked,    \* threads that wait for a wakeup
  \* CpuIntervalTracker
  onCpu,      \* on_cpu; Unseen for a CPU without an entry
  lastOn, lastOff,
  cached,     \* threads whose last_user_stack is not empty
  waker,      \* pending_wakeup: the waker, and when it made the wake
  pending,
  resumed     \* history: threads whose off-CPU interval the tracker has closed

scheduler == <<now, running, since, blocked>>
tracker   == <<onCpu, lastOn, lastOff, cached, waker, pending>>
vars      == <<scheduler, tracker, resumed>>

-----------------------------------------------------------------------------
Idle   == 0
Unseen == 0
Never  == 0
NoWake == [tid |-> Idle, at |-> Never]
Time   == 0..MaxTime

Wake     == [tid : Threads, at : Time \ {Never}] \cup {NoWake}
Interval == [tid : Threads, start : Time, end : Time,
             kind : {"OnCpu", "OffCpu"}, waker : Wake]

OnACpu == {running[c] : c \in Cpus} \ {Idle}

TypeOK ==
  /\ now \in Time
  /\ running \in [Cpus -> Threads \cup {Idle}]
  /\ since \in [Threads -> Time]
  /\ blocked \subseteq Threads
  /\ onCpu \in [Cpus -> Threads \cup {Unseen}]
  /\ lastOn \in [Threads -> Time]
  /\ lastOff \in [Threads -> Time]
  /\ cached \subseteq Threads
  /\ waker \in [Threads -> Wake]
  /\ pending \subseteq Interval
  /\ resumed \subseteq Threads

\* Some threads are on CPUs; the tracker is new and knows none.
Init ==
  /\ now = 1
  /\ running \in [Cpus -> Threads \cup {Idle}]
  /\ \A c, d \in Cpus : running[c] = running[d] /\ c # d => running[c] = Idle
  /\ since = [t \in Threads |-> 1]
  /\ blocked \in SUBSET (Threads \ OnACpu)
  /\ onCpu = [c \in Cpus |-> Unseen]
  /\ lastOn = [t \in Threads |-> Never]
  /\ lastOff = [t \in Threads |-> Never]
  /\ cached = {}
  /\ waker = [t \in Threads |-> NoWake]
  /\ pending = {}
  /\ resumed = {}

-----------------------------------------------------------------------------
(* feed, for MACH_SCHED and MACH_STKHANDOFF: new comes on to cpu at ts. *)

\* The thread that leaves, if the tracker knows one.
Leaving(cpu, new) == {onCpu[cpu]} \ {Unseen, new}

ClosedOn(cpu, new, ts) ==
  {[tid |-> t, start |-> lastOn[t], end |-> ts, kind |-> "OnCpu",
    waker |-> NoWake] : t \in {t \in Leaving(cpu, new) :
                                 lastOn[t] # Never /\ lastOn[t] < ts}}

\* The off-CPU interval of new has ended.
Resumes(new, ts) == new # Idle /\ lastOff[new] # Never /\ lastOff[new] < ts

\* It is reported only with a stack to attribute it to.
ClosedOff(new, ts) ==
  IF Resumes(new, ts) /\ new \in cached
  THEN {[tid |-> new, start |-> lastOff[new], end |-> ts, kind |-> "OffCpu",
         waker |-> waker[new]]}
  ELSE {}

\* Mutant: the stale wakeup of an interval without a stack is kept.
FeedSwitch_KeepsWakeup(cpu, new, ts) ==
  /\ onCpu' = [onCpu EXCEPT ![cpu] = new]
  /\ pending' = pending \cup ClosedOn(cpu, new, ts) \cup ClosedOff(new, ts)
  /\ lastOn' = [t \in Threads |-> IF t = new THEN ts
                  ELSE IF t \in Leaving(cpu, new) THEN Never ELSE lastOn[t]]
  /\ lastOff' = [t \in Threads |-> IF t = new THEN Never
                   ELSE IF t \in Leaving(cpu, new) THEN ts ELSE lastOff[t]]
  /\ waker' = [t \in Threads |->
                 IF t = new /\ ClosedOff(new, ts) # {} THEN NoWake ELSE waker[t]]
  /\ UNCHANGED cached

\* Mutant: the off-CPU interval stays open when the thread comes back.
FeedSwitch_KeepsOff(cpu, new, ts) ==
  /\ onCpu' = [onCpu EXCEPT ![cpu] = new]
  /\ pending' = pending \cup ClosedOn(cpu, new, ts) \cup ClosedOff(new, ts)
  /\ lastOn' = [t \in Threads |-> IF t = new THEN ts
                  ELSE IF t \in Leaving(cpu, new) THEN Never ELSE lastOn[t]]
  /\ lastOff' = [t \in Threads |->
                   IF t \in Leaving(cpu, new) THEN ts ELSE lastOff[t]]
  /\ waker' = [t \in Threads |->
                 IF t = new /\ Resumes(new, ts) THEN NoWake ELSE waker[t]]
  /\ UNCHANGED cached

FeedSwitch(cpu, new, ts) ==
  /\ onCpu' = [onCpu EXCEPT ![cpu] = new]
  /\ pending' = pending \cup ClosedOn(cpu, new, ts) \cup ClosedOff(new, ts)
  /\ lastOn' = [t \in Threads |-> IF t = new THEN ts
                  ELSE IF t \in Leaving(cpu, new) THEN Never ELSE lastOn[t]]
  /\ lastOff' = [t \in Threads |-> IF t = new THEN Never
                   ELSE IF t \in Leaving(cpu, new) THEN ts ELSE lastOff[t]]
  /\ waker' = [t \in Threads |->
                 IF t = new /\ Resumes(new, ts) THEN NoWake ELSE waker[t]]
  /\ UNCHANGED cached

\* Mutant: the CPU need not have a known thread with a stack.
FeedMakeRunnable_AnyWaker(cpu, wakee, ts) ==
  LET by == onCpu[cpu] IN
  /\ waker' = IF by # wakee
              THEN [waker EXCEPT ![wakee] = [tid |-> by, at |-> ts]]
              ELSE waker
  /\ UNCHANGED <<onCpu, lastOn, lastOff, cached, pending>>

\* feed, for MACH_MAKERUNNABLE emitted on cpu for wakee.
FeedMakeRunnable(cpu, wakee, ts) ==
  LET by == onCpu[cpu] IN
  /\ waker' = IF by \in cached \ {wakee}
              THEN [waker EXCEPT ![wakee] = [tid |-> by, at |-> ts]]
              ELSE waker
  /\ UNCHANGED <<onCpu, lastOn, lastOff, cached, pending>>

-----------------------------------------------------------------------------
(* The scheduler emits a record, and the tracker is fed it. *)

\* A CPU switches to another thread, to the idle thread, or to the same one.
\* The thread that leaves blocks, or is preempted.
Switch(cpu, new) ==
  LET leaves  == {running[cpu]} \ {Idle, new}
      changed == leaves \cup ({new} \ {Idle, running[cpu]})
  IN
  /\ now < MaxTime
  /\ new \notin blocked /\ (new \in OnACpu => new = running[cpu])
  /\ now' = now + 1
  /\ running' = [running EXCEPT ![cpu] = new]
  /\ since' = [t \in Threads |-> IF t \in changed THEN now + 1 ELSE since[t]]
  /\ \E b \in SUBSET leaves : blocked' = blocked \cup b
  /\ FeedSwitch(cpu, new, now + 1)
  /\ resumed' = resumed \cup {t \in {new} : Resumes(t, now + 1)}

\* The thread on a CPU wakes one that is blocked.
MakeRunnable(cpu, wakee) ==
  /\ now < MaxTime
  /\ running[cpu] # Idle
  /\ wakee \in blocked
  /\ now' = now + 1
  /\ blocked' = blocked \ {wakee}
  /\ UNCHANGED <<running, since, resumed>>
  /\ FeedMakeRunnable(cpu, wakee, now + 1)

\* note_sample: a PET sample with user frames.
NoteSample(t) ==
  /\ t \in OnACpu
  /\ cached' = cached \cup {t}
  /\ UNCHANGED <<scheduler, onCpu, lastOn, lastOff, waker, pending, resumed>>

\* drain_pending: the recorder takes the closed intervals.
DrainPending ==
  /\ pending # {}
  /\ pending' = {}
  /\ UNCHANGED <<scheduler, onCpu, lastOn, lastOff, cached, waker, resumed>>

Next ==
  \/ \E c \in Cpus : \E t \in Threads \cup {Idle} : Switch(c, t)
  \/ \E c \in Cpus : \E t \in Threads : MakeRunnable(c, t)
  \/ \E t \in Threads : NoteSample(t)
  \/ DrainPending

Spec == Init /\ [][Next]_vars

-----------------------------------------------------------------------------
\* "Ground-truth duration intervals": a thread whose interval is reported was
\* on a CPU (or off all of them) for the whole of it, on whichever CPUs it ran
\* and however little the tracker knew when it started.
IntervalsTrue ==
  [][\A i \in pending' \ pending :
       /\ i.kind = "OnCpu" <=> i.tid \in OnACpu
       /\ i.end = now'
       /\ i.start \in since[i.tid]..now]_vars

WokenInside(i) == i.waker # NoWake => i.waker.at \in i.start..i.end

\* pending_wakeup: the wakeup "that brought this thread out of its current
\* off-CPU state ... consumed (and cleared) when the thread comes back".  Once
\* the tracker has closed one off-CPU interval of a thread, with a stack or
\* without, the waker it reports with each later one did its wake inside it.
WakerAfterFirst ==
  [][\A i \in pending' \ pending :
       i.kind = "OffCpu" /\ i.tid \in resumed => WokenInside(i)]_vars

\* The promise has no such condition: waker_tid is None "when no MAKERUNNABLE
\* record landed in the interval window".  A thread the tracker has not seen
\* leave a CPU yet closes no interval when it is woken and comes on, keeps that
\* wakeup, and reports it with its first off-CPU interval, which starts later.
WakerInInterval == \A i \in pending : WokenInside(i)
=============================================================================
