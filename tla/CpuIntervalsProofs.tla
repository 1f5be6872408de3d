------------------------- MODULE CpuIntervalsProofs -------------------------
(***************************************************************************)
(* The intervals CpuIntervalTracker reports are true, for every number of  *)
(* threads and CPUs and every length of the trace: the invariant ties what *)
(* the tracker keeps of a thread to what the scheduler does with it.       *)
(***************************************************************************)
EXTENDS CpuIntervals, TLAPS

\* A thread runs on one CPU, and not while it waits.
SchedulerOK ==
  /\ now >= 1
  /\ \A c, d \in Cpus : running[c] = running[d] /\ c # d => running[c] = Idle
  /\ blocked \cap OnACpu = {}
  /\ \A t \in Threads : 1 <= since[t] /\ since[t] <= now

\* What the tracker knows of a CPU or a thread is so.
KnowsOK ==
  /\ \A c \in Cpus : onCpu[c] \in {Unseen, running[c]}
  /\ \A t \in Threads :
       /\ lastOn[t] # Never => /\ since[t] <= lastOn[t] /\ lastOn[t] <= now
                               /\ \E c \in Cpus : onCpu[c] = t
       /\ lastOff[t] # Never => /\ since[t] <= lastOff[t] /\ lastOff[t] <= now
                                /\ t \notin OnACpu

\* Of a thread whose off-CPU interval the tracker has closed it knows the CPU
\* it is on, or since when it is off; a wakeup it keeps is from then on.
FollowedOK ==
  \A t \in resumed :
    /\ \A c \in Cpus : running[c] = t => onCpu[c] = t
    /\ t \in OnACpu => waker[t] = NoWake
    /\ t \notin OnACpu => /\ lastOff[t] # Never
                          /\ waker[t] # NoWake => lastOff[t] <= waker[t].at

\* Wakeups have been made.
WakersOK == \A t \in Threads : waker[t].at <= now

IInv == TypeOK /\ SchedulerOK /\ KnowsOK /\ FollowedOK /\ WakersOK

-----------------------------------------------------------------------------
LEMMA Bounds ==
  /\ Threads \subseteq Nat /\ 0 \notin Threads
  /\ MaxTime \in Nat \ {0} /\ Time = 0..MaxTime
  /\ Idle = 0 /\ Unseen = 0 /\ Never = 0
  /\ NoWake \in Wake /\ NoWake.at = 0
BY IntervalsAssumption DEF Time, Idle, Unseen, Never, NoWake, Wake

LEMMA OnACpuMeans ==
  \A t \in Threads : t \in OnACpu <=> \E c \in Cpus : running[c] = t
BY Bounds DEF OnACpu

\* The times a wake was made at are times.
LEMMA WakeTimes ==
  ASSUME NEW w \in Wake, w # NoWake
  PROVE  w.tid \in Threads /\ w.at \in 1..MaxTime
BY Bounds DEF Wake

LEMMA InitHolds == Init => IInv
<1> SUFFICES ASSUME Init PROVE IInv
  OBVIOUS
<1> USE Bounds
<1>1. TypeOK
  <2>1. blocked \subseteq Threads /\ resumed = {}
    BY DEF Init
  <2>2. onCpu \in [Cpus -> Threads \cup {Unseen}]
    BY DEF Init
  <2>3. /\ lastOn \in [Threads -> Time] /\ lastOff \in [Threads -> Time]
        /\ since \in [Threads -> Time] /\ waker \in [Threads -> Wake]
    BY DEF Init
  <2>4. now \in Time /\ running \in [Cpus -> Threads \cup {Idle}]
        /\ cached = {} /\ pending = {}
    BY DEF Init
  <2> QED BY <2>1, <2>2, <2>3, <2>4 DEF TypeOK
<1>2. SchedulerOK
  <2>1. now = 1 /\ \A t \in Threads : since[t] = 1
    BY DEF Init
  <2>2. blocked \cap OnACpu = {}
    BY DEF Init
  <2>3. \A c, d \in Cpus : running[c] = running[d] /\ c # d => running[c] = Idle
    BY DEF Init
  <2> QED BY <2>1, <2>2, <2>3 DEF SchedulerOK
<1>3. KnowsOK
  <2>1. /\ \A c \in Cpus : onCpu[c] = Unseen
        /\ \A t \in Threads : lastOn[t] = Never /\ lastOff[t] = Never
    BY DEF Init
  <2> QED BY <2>1 DEF KnowsOK
<1>4. FollowedOK /\ WakersOK
  <2>1. now = 1 /\ resumed = {} /\ \A t \in Threads : waker[t] = NoWake
    BY DEF Init
  <2> QED BY <2>1 DEF FollowedOK, WakersOK
<1> QED BY <1>1, <1>2, <1>3, <1>4 DEF IInv

-----------------------------------------------------------------------------
(* One switch, seen by the scheduler and by the tracker.                   *)

\* Who runs after a switch.
LEMMA AfterSwitch ==
  ASSUME IInv, NEW cpu \in Cpus, NEW new \in Threads \cup {Idle}, Switch(cpu, new)
  PROVE  /\ running' \in [Cpus -> Threads \cup {Idle}]
         /\ running'[cpu] = new
         /\ \A c \in Cpus : c # cpu => running'[c] = running[c]
         /\ \A c, d \in Cpus : running'[c] = running'[d] /\ c # d => running'[c] = Idle
         /\ \A t \in Threads : t \in OnACpu' <=>
              t = new \/ (t \in OnACpu /\ t # running[cpu])
<1> USE Bounds
<1>1. running \in [Cpus -> Threads \cup {Idle}]
  BY DEF IInv, TypeOK
<1>2. running' = [running EXCEPT ![cpu] = new] /\ (new \in OnACpu => new = running[cpu])
  BY DEF Switch
<1>3. /\ running' \in [Cpus -> Threads \cup {Idle}]
      /\ running'[cpu] = new
      /\ \A c \in Cpus : c # cpu => running'[c] = running[c]
  BY <1>1, <1>2
<1>4. \A c, d \in Cpus : running[c] = running[d] /\ c # d => running[c] = Idle
  BY DEF IInv, SchedulerOK
<1>5. \A c \in Cpus : c # cpu /\ running[c] = new => new = Idle
  <2> SUFFICES ASSUME NEW c \in Cpus, c # cpu, running[c] = new, new # Idle
               PROVE  FALSE
    OBVIOUS
  <2>1. new \in OnACpu
    BY OnACpuMeans
  <2> QED BY <1>2, <1>4, <2>1
<1>6. \A c, d \in Cpus : running'[c] = running'[d] /\ c # d => running'[c] = Idle
  BY <1>3, <1>4, <1>5
<1>7. \A t \in Threads : t \in OnACpu' <=> \E c \in Cpus : running'[c] = t
  BY DEF OnACpu
<1>8. \A t \in Threads : t \in OnACpu' <=>
         t = new \/ (t \in OnACpu /\ t # running[cpu])
  <2> TAKE t \in Threads
  <2>1. ASSUME t \in OnACpu' PROVE t = new \/ (t \in OnACpu /\ t # running[cpu])
    <3>1. PICK c \in Cpus : running'[c] = t
      BY <1>7, <2>1
    <3>2. CASE c = cpu
      BY <1>3, <3>1, <3>2
    <3>3. CASE c # cpu
      <4>1. running[c] = t
        BY <1>3, <3>1, <3>3
      <4> QED BY <1>4, <3>3, <4>1, OnACpuMeans
    <3> QED BY <3>2, <3>3
  <2>2. ASSUME t = new PROVE t \in OnACpu'
    BY <1>3, <1>7, <2>2
  <2>3. ASSUME t \in OnACpu, t # running[cpu] PROVE t \in OnACpu'
    <3>1. PICK c \in Cpus : running[c] = t
      BY <2>3, OnACpuMeans
    <3> QED BY <1>3, <1>7, <2>3, <3>1
  <2> QED BY <2>1, <2>2, <2>3
<1> QED BY <1>3, <1>6, <1>8

\* The thread the tracker sees leave is the one that ran on the CPU.
LEMMA WhoLeaves ==
  ASSUME IInv, NEW cpu \in Cpus, NEW new \in Threads \cup {Idle},
         NEW t \in Leaving(cpu, new)
  PROVE  /\ t \in Threads /\ t # new
         /\ t = onCpu[cpu] /\ t = running[cpu] /\ t \in OnACpu
<1> USE Bounds
<1>1. t = onCpu[cpu] /\ t # Unseen /\ t # new
  BY DEF Leaving
<1>2. t = running[cpu]
  BY <1>1 DEF IInv, KnowsOK
<1>3. t \in Threads
  BY <1>1 DEF IInv, TypeOK
<1> QED BY <1>1, <1>2, <1>3, OnACpuMeans

\* When the threads last went on or off a CPU, after a switch: only the two
\* threads of the switch are concerned.
LEMMA SinceAfterSwitch ==
  ASSUME IInv, NEW cpu \in Cpus, NEW new \in Threads \cup {Idle}, Switch(cpu, new)
  PROVE  /\ now \in Nat /\ now' = now + 1 /\ now' \in Time
         /\ since' \in [Threads -> Time]
         /\ \A t \in Threads : 1 <= since'[t] /\ since'[t] <= now'
         /\ \A t \in Threads : t # new /\ t # running[cpu] => since'[t] = since[t]
<1> USE Bounds
<1> DEFINE leaves  == {running[cpu]} \ {Idle, new}
           changed == leaves \cup ({new} \ {Idle, running[cpu]})
<1>1. now \in Time /\ since \in [Threads -> Time]
  BY DEF IInv, TypeOK
<1>2. \A t \in Threads : 1 <= since[t] /\ since[t] <= now
  BY DEF IInv, SchedulerOK
<1>3. now' = now + 1 /\ now < MaxTime
  BY DEF Switch
<1>4. since' = [t \in Threads |-> IF t \in changed THEN now + 1 ELSE since[t]]
  BY DEF Switch
<1>5. now \in Nat /\ now' \in Time /\ now + 1 \in Time
  BY <1>1, <1>3
<1>6. \A t \in Threads : t # new /\ t # running[cpu] => t \notin changed
  OBVIOUS
<1> HIDE DEF changed
<1>7. \A t \in Threads : since'[t] = IF t \in changed THEN now + 1 ELSE since[t]
  BY <1>4
<1>8. since' \in [Threads -> Time]
  BY <1>1, <1>4, <1>5
<1>9. \A t \in Threads : 1 <= since'[t] /\ since'[t] <= now'
  <2> TAKE t \in Threads
  <2>1. since[t] \in Nat
    BY <1>1
  <2> QED BY <1>2, <1>3, <1>5, <1>7, <2>1
<1> QED BY <1>3, <1>5, <1>6, <1>7, <1>8, <1>9

LEMMA SwitchScheduler ==
  ASSUME IInv, NEW cpu \in Cpus, NEW new \in Threads \cup {Idle}, Switch(cpu, new)
  PROVE  SchedulerOK' /\ blocked' \subseteq Threads
<1> USE Bounds
<1>1. PICK b \in SUBSET ({running[cpu]} \ {Idle, new}) : blocked' = blocked \cup b
  BY DEF Switch
<1>2. new \notin blocked /\ blocked \subseteq Threads /\ blocked \cap OnACpu = {}
      /\ running[cpu] \in Threads \cup {Idle}
  BY DEF Switch, IInv, TypeOK, SchedulerOK
<1>3. blocked' \subseteq Threads
  BY <1>1, <1>2
<1>4. \A t \in Threads : t \in OnACpu' <=> t = new \/ (t \in OnACpu /\ t # running[cpu])
  BY AfterSwitch
<1>5. \A t \in blocked' : t \notin OnACpu'
  <2> TAKE t \in blocked'
  <2>1. t \in blocked \/ (t = running[cpu] /\ t # new)
    BY <1>1
  <2>2. t \in Threads
    BY <1>3
  <2> QED BY <1>2, <1>4, <2>1, <2>2
<1>6. blocked' \cap OnACpu' = {}
  BY <1>5
<1>7. now' >= 1
  BY SinceAfterSwitch
<1> QED BY <1>3, <1>6, <1>7, AfterSwitch, SinceAfterSwitch DEF SchedulerOK

\* What the tracker keeps of a thread after a switch, thread by thread.
LEMMA AfterFeedSwitch ==
  ASSUME IInv, NEW cpu \in Cpus, NEW new \in Threads \cup {Idle}, Switch(cpu, new)
  PROVE  /\ onCpu' \in [Cpus -> Threads \cup {Unseen}]
         /\ onCpu'[cpu] = new
         /\ \A c \in Cpus : c # cpu => onCpu'[c] = onCpu[c]
         /\ lastOn' \in [Threads -> Time] /\ lastOff' \in [Threads -> Time]
         /\ \A t \in Threads :
              /\ t = new => lastOn'[t] = now + 1 /\ lastOff'[t] = Never
              /\ t \in Leaving(cpu, new) => lastOn'[t] = Never /\ lastOff'[t] = now + 1
              /\ t # new /\ t \notin Leaving(cpu, new) =>
                   lastOn'[t] = lastOn[t] /\ lastOff'[t] = lastOff[t]
         /\ waker' \in [Threads -> Wake]
         /\ \A t \in Threads :
              waker'[t] = IF t = new /\ Resumes(new, now + 1) THEN NoWake ELSE waker[t]
         /\ pending' = pending \cup ClosedOn(cpu, new, now + 1) \cup ClosedOff(new, now + 1)
         /\ cached' = cached
<1> USE Bounds
<1>1. FeedSwitch(cpu, new, now + 1)
  BY DEF Switch
<1>2. /\ onCpu \in [Cpus -> Threads \cup {Unseen}]
      /\ lastOn \in [Threads -> Time] /\ lastOff \in [Threads -> Time]
      /\ waker \in [Threads -> Wake]
  BY DEF IInv, TypeOK
<1>3. now + 1 \in Time /\ Never \in Time
  BY SinceAfterSwitch
<1>4. onCpu' = [onCpu EXCEPT ![cpu] = new]
  BY <1>1 DEF FeedSwitch
<1>5. lastOn' = [t \in Threads |-> IF t = new THEN now + 1
                   ELSE IF t \in Leaving(cpu, new) THEN Never ELSE lastOn[t]]
  BY <1>1 DEF FeedSwitch
<1>6. lastOff' = [t \in Threads |-> IF t = new THEN Never
                    ELSE IF t \in Leaving(cpu, new) THEN now + 1 ELSE lastOff[t]]
  BY <1>1 DEF FeedSwitch
<1>7. waker' = [t \in Threads |->
                  IF t = new /\ Resumes(new, now + 1) THEN NoWake ELSE waker[t]]
  BY <1>1 DEF FeedSwitch
<1>8. /\ pending' = pending \cup ClosedOn(cpu, new, now + 1) \cup ClosedOff(new, now + 1)
      /\ cached' = cached
  BY <1>1 DEF FeedSwitch
<1>9. new \notin Leaving(cpu, new)
  BY DEF Leaving
<1>10. /\ onCpu' \in [Cpus -> Threads \cup {Unseen}]
       /\ onCpu'[cpu] = new
       /\ \A c \in Cpus : c # cpu => onCpu'[c] = onCpu[c]
  BY <1>2, <1>4
<1>11. /\ lastOn' \in [Threads -> Time] /\ lastOff' \in [Threads -> Time]
       /\ \A t \in Threads :
              /\ t = new => lastOn'[t] = now + 1 /\ lastOff'[t] = Never
              /\ t \in Leaving(cpu, new) => lastOn'[t] = Never /\ lastOff'[t] = now + 1
              /\ t # new /\ t \notin Leaving(cpu, new) =>
                   lastOn'[t] = lastOn[t] /\ lastOff'[t] = lastOff[t]
  BY <1>2, <1>3, <1>5, <1>6, <1>9
<1>12. waker' \in [Threads -> Wake]
  BY <1>2, <1>7
<1> QED BY <1>1, <1>7, <1>8, <1>10, <1>11, <1>12

LEMMA ResumedAfterSwitch ==
  ASSUME IInv, NEW cpu \in Cpus, NEW new \in Threads \cup {Idle}, Switch(cpu, new)
  PROVE  /\ resumed' \subseteq Threads
         /\ \A t \in resumed' : t \in resumed \/ (t = new /\ Resumes(new, now + 1))
<1>1. resumed' = resumed \cup {t \in {new} : Resumes(t, now + 1)}
  BY DEF Switch
<1>2. resumed \subseteq Threads /\ (Resumes(new, now + 1) => new \in Threads)
  BY DEF IInv, TypeOK, Resumes
<1> QED BY <1>1, <1>2

LEMMA SwitchKnows ==
  ASSUME IInv, NEW cpu \in Cpus, NEW new \in Threads \cup {Idle}, Switch(cpu, new)
  PROVE  KnowsOK'
<1> USE Bounds
<1> DEFINE gone == Leaving(cpu, new)
<1>1. \A t \in gone : /\ t \in Threads /\ t # new
                      /\ t = onCpu[cpu] /\ t = running[cpu] /\ t \in OnACpu
  BY WhoLeaves
<1>2. /\ lastOn \in [Threads -> Time] /\ lastOff \in [Threads -> Time]
      /\ since \in [Threads -> Time]
  BY DEF IInv, TypeOK
<1>3. \A c, d \in Cpus : running[c] = running[d] /\ c # d => running[c] = Idle
  BY DEF IInv, SchedulerOK
<1>4. \A c \in Cpus : onCpu'[c] \in {Unseen, running'[c]}
  <2>1. \A c \in Cpus : onCpu[c] \in {Unseen, running[c]}
    BY DEF IInv, KnowsOK
  <2>2. /\ running'[cpu] = new /\ onCpu'[cpu] = new
        /\ \A c \in Cpus : c # cpu => running'[c] = running[c] /\ onCpu'[c] = onCpu[c]
    BY AfterSwitch, AfterFeedSwitch
  <2> QED BY <2>1, <2>2
<1>5. ASSUME NEW t \in Threads, lastOn'[t] # Never
      PROVE  since'[t] <= lastOn'[t] /\ lastOn'[t] <= now' /\ \E c \in Cpus : onCpu'[c] = t
  <2>1. CASE t = new
    BY <2>1, AfterFeedSwitch, SinceAfterSwitch
  <2>2. CASE t # new
    <3>1. t \notin gone /\ lastOn'[t] = lastOn[t] /\ lastOn[t] # Never
      BY <1>5, <2>2, AfterFeedSwitch
    <3>2. since[t] <= lastOn[t] /\ lastOn[t] <= now /\ \E c \in Cpus : onCpu[c] = t
      BY <3>1 DEF IInv, KnowsOK
    <3>3. PICK c \in Cpus : onCpu[c] = t
      BY <3>2
    <3>4. c # cpu
      BY <2>2, <3>1, <3>3 DEF Leaving
    <3>5. running[c] = t
      BY <3>3 DEF IInv, KnowsOK
    <3>6. t # running[cpu]
      BY <1>3, <3>4, <3>5
    <3>7. since'[t] = since[t] /\ onCpu'[c] = t
      BY <2>2, <3>3, <3>4, <3>6, SinceAfterSwitch, AfterFeedSwitch
    <3>8. lastOn[t] \in Nat /\ now \in Nat /\ now' = now + 1
      BY <1>2, SinceAfterSwitch
    <3> QED BY <3>1, <3>2, <3>7, <3>8
  <2> QED BY <2>1, <2>2
<1>6. ASSUME NEW t \in Threads, lastOff'[t] # Never
      PROVE  since'[t] <= lastOff'[t] /\ lastOff'[t] <= now' /\ t \notin OnACpu'
  <2>1. t # new
    BY <1>6, AfterFeedSwitch
  <2>2. CASE t \in gone
    <3>1. lastOff'[t] = now + 1
      <4> HIDE DEF gone
      <4>1. t \in Leaving(cpu, new)
        BY <2>2 DEF gone
      <4> QED BY <4>1, AfterFeedSwitch
    <3>2. t = running[cpu]
      BY <1>1, <2>2
    <3> QED BY <2>1, <3>1, <3>2, AfterSwitch, SinceAfterSwitch
  <2>3. CASE t \notin gone
    <3>1. lastOff'[t] = lastOff[t]
      BY <2>1, <2>3, AfterFeedSwitch
    <3>2. since[t] <= lastOff[t] /\ lastOff[t] <= now /\ t \notin OnACpu
      BY <1>6, <3>1 DEF IInv, KnowsOK
    <3>3. t # running[cpu] /\ t \notin OnACpu'
      BY <2>1, <3>2, OnACpuMeans, AfterSwitch
    <3>4. since'[t] = since[t]
      BY <2>1, <3>3, SinceAfterSwitch
    <3>5. lastOff[t] \in Nat /\ now \in Nat /\ now' = now + 1
      BY <1>2, SinceAfterSwitch
    <3> QED BY <3>1, <3>2, <3>3, <3>4, <3>5
  <2> QED BY <2>2, <2>3
<1> QED BY <1>4, <1>5, <1>6 DEF KnowsOK

\* What a switch reports: the interval of the thread that leaves, and that of
\* the thread that comes, each from the last change the tracker saw.
LEMMA ClosedOnIsTrue ==
  ASSUME IInv, NEW cpu \in Cpus, NEW new \in Threads \cup {Idle}, Switch(cpu, new),
         NEW i \in ClosedOn(cpu, new, now + 1)
  PROVE  /\ i \in Interval /\ i.kind = "OnCpu" /\ i.tid \in OnACpu
         /\ i.start \in since[i.tid]..now /\ i.end = now + 1
         /\ WokenInside(i)
<1> USE Bounds
<1>1. PICK t \in Leaving(cpu, new) :
         /\ i = [tid |-> t, start |-> lastOn[t], end |-> now + 1, kind |-> "OnCpu",
                 waker |-> NoWake]
         /\ lastOn[t] # Never
  BY DEF ClosedOn
<1>2. t \in Threads /\ t \in OnACpu
  BY WhoLeaves
<1>3. since[t] <= lastOn[t] /\ lastOn[t] <= now
  BY <1>1, <1>2 DEF IInv, KnowsOK
<1>4. lastOn[t] \in Time /\ since[t] \in Time /\ now + 1 \in Time /\ now \in Nat
  BY <1>2, SinceAfterSwitch DEF IInv, TypeOK
<1>5. lastOn[t] \in since[t]..now
  BY <1>3, <1>4
<1>6. i \in Interval
  BY <1>1, <1>2, <1>4 DEF Interval
<1> QED BY <1>1, <1>2, <1>5, <1>6 DEF WokenInside

LEMMA ClosedOffIsTrue ==
  ASSUME IInv, NEW cpu \in Cpus, NEW new \in Threads \cup {Idle}, Switch(cpu, new),
         NEW i \in ClosedOff(new, now + 1)
  PROVE  /\ i \in Interval /\ i.kind = "OffCpu" /\ i.tid \in Threads \ OnACpu
         /\ i.start \in since[i.tid]..now /\ i.end = now + 1
         /\ i.tid \in resumed => WokenInside(i)
<1> USE Bounds
<1>1. /\ i = [tid |-> new, start |-> lastOff[new], end |-> now + 1, kind |-> "OffCpu",
              waker |-> waker[new]]
      /\ new # Idle /\ lastOff[new] # Never
  BY DEF ClosedOff, Resumes
<1>2. new \in Threads
  BY <1>1
<1>3. since[new] <= lastOff[new] /\ lastOff[new] <= now /\ new \notin OnACpu
  BY <1>1, <1>2 DEF IInv, KnowsOK
<1>4. lastOff[new] \in Time /\ since[new] \in Time /\ now + 1 \in Time /\ now \in Nat
      /\ waker[new] \in Wake
  BY <1>2, SinceAfterSwitch DEF IInv, TypeOK
<1>5. lastOff[new] \in since[new]..now
  BY <1>3, <1>4
<1>6. i \in Interval
  BY <1>1, <1>2, <1>4 DEF Interval
<1>7. ASSUME new \in resumed, i.waker # NoWake PROVE i.waker.at \in i.start..i.end
  <2>1. lastOff[new] <= waker[new].at
    BY <1>1, <1>3, <1>7 DEF IInv, FollowedOK
  <2>2. waker[new].at <= now
    BY <1>2 DEF IInv, WakersOK
  <2>3. waker[new].at \in 1..MaxTime
    BY <1>1, <1>4, <1>7, WakeTimes
  <2> QED BY <1>1, <1>4, <2>1, <2>2, <2>3
<1>8. i.tid \in resumed => WokenInside(i)
  BY <1>1, <1>7 DEF WokenInside
<1> QED BY <1>1, <1>2, <1>3, <1>5, <1>6, <1>8

\* A thread that resumes is followed from then on; one that was followed leaves
\* with its start, and comes back without its wakeup.
LEMMA SwitchFollows ==
  ASSUME IInv, NEW cpu \in Cpus, NEW new \in Threads \cup {Idle}, Switch(cpu, new)
  PROVE  FollowedOK' /\ WakersOK'
<1> USE Bounds
<1>1. \A t \in Threads :
        t \in OnACpu' <=> t = new \/ (t \in OnACpu /\ t # running[cpu])
  BY AfterSwitch
<1>2. /\ lastOff \in [Threads -> Time] /\ waker \in [Threads -> Wake]
      /\ resumed \subseteq Threads
  BY DEF IInv, TypeOK
<1>3. \A u \in Threads : u # new => waker'[u] = waker[u]
  BY AfterFeedSwitch
<1>4. \A u \in Leaving(cpu, new) :
        u \in OnACpu /\ u = running[cpu] /\ lastOff'[u] = now + 1
  <2>1. \A u \in Leaving(cpu, new) : u \in Threads /\ u \in OnACpu /\ u = running[cpu]
    BY WhoLeaves
  <2>2. \A u \in Threads : u \in Leaving(cpu, new) => lastOff'[u] = now + 1
    BY AfterFeedSwitch
  <2> QED BY <2>1, <2>2
<1>5. ASSUME NEW t \in resumed', t # new
      PROVE  /\ \A c \in Cpus : running'[c] = t => onCpu'[c] = t
             /\ t \in OnACpu' => waker'[t] = NoWake
             /\ t \notin OnACpu' => /\ lastOff'[t] # Never
                                    /\ waker'[t] # NoWake => lastOff'[t] <= waker'[t].at
  <2>1. t \in resumed /\ t \in Threads /\ waker'[t] = waker[t]
    <3>1. t \in resumed /\ t \in Threads
      BY <1>2, <1>5, ResumedAfterSwitch
    <3> QED BY <1>5, <1>3, <3>1
  <2>2. /\ \A c \in Cpus : running[c] = t => onCpu[c] = t
        /\ t \in OnACpu => waker[t] = NoWake
        /\ t \notin OnACpu => /\ lastOff[t] # Never
                              /\ waker[t] # NoWake => lastOff[t] <= waker[t].at
    BY <2>1 DEF IInv, FollowedOK
  <2>3. \A c \in Cpus : running'[c] = t => onCpu'[c] = t
    <3> SUFFICES ASSUME NEW c \in Cpus, running'[c] = t PROVE onCpu'[c] = t
      OBVIOUS
    <3>1. c # cpu /\ running[c] = t
      BY <1>5, AfterSwitch
    <3>2. onCpu'[c] = onCpu[c]
      BY <3>1, AfterFeedSwitch
    <3> QED BY <2>2, <3>1, <3>2
  <2>4. CASE t \in Leaving(cpu, new)
    <3>1. t \in OnACpu /\ t = running[cpu] /\ lastOff'[t] = now + 1
      BY <1>4, <2>4
    <3>2. waker'[t] = NoWake
      BY <2>1, <2>2, <3>1
    <3>3. now \in Nat /\ now + 1 # Never
      <4>1. now \in Nat
        BY SinceAfterSwitch
      <4> QED BY <4>1 DEF Never
    <3>4. lastOff'[t] # Never
      BY <3>1, <3>3
    <3> QED BY <2>3, <3>2, <3>4
  <2>5. CASE t \notin Leaving(cpu, new)
    <3>1. lastOff'[t] = lastOff[t]
      BY <1>5, <2>1, <2>5, AfterFeedSwitch
    <3>2. t # running[cpu]
      BY <1>5, <2>1, <2>2, <2>5 DEF Leaving
    <3>3. t \in OnACpu' <=> t \in OnACpu
      BY <1>1, <1>5, <2>1, <3>2
    <3> QED BY <2>1, <2>2, <2>3, <3>1, <3>3
  <2> QED BY <2>4, <2>5
<1>6. ASSUME new \in resumed'
      PROVE  /\ \A c \in Cpus : running'[c] = new => onCpu'[c] = new
             /\ new \in OnACpu' /\ waker'[new] = NoWake
  <2>1. new \in Threads
    BY <1>2, <1>6, ResumedAfterSwitch
  <2>2. new \in OnACpu'
    BY <1>1, <2>1
  <2>3. \A c \in Cpus : running'[c] = new => c = cpu
    BY <2>1, AfterSwitch
  <2>4. onCpu'[cpu] = new
    BY AfterFeedSwitch
  <2>5. CASE Resumes(new, now + 1)
    BY <2>1, <2>2, <2>3, <2>4, <2>5, AfterFeedSwitch
  <2>6. CASE ~Resumes(new, now + 1)
    <3>1. new \in resumed /\ waker'[new] = waker[new]
      BY <1>6, <2>1, <2>6, ResumedAfterSwitch, AfterFeedSwitch
    <3>2. lastOff[new] = Never
      <4>1. lastOff[new] # Never => lastOff[new] <= now
        BY <2>1 DEF IInv, KnowsOK
      <4>2. lastOff[new] \in Nat
        BY <1>2, <2>1
      <4> QED BY <2>1, <2>6, <4>1, <4>2, SinceAfterSwitch DEF Resumes
    <3>3. new \in OnACpu /\ waker[new] = NoWake
      BY <3>1, <3>2 DEF IInv, FollowedOK
    <3> QED BY <2>2, <2>3, <2>4, <3>1, <3>3
  <2> QED BY <2>5, <2>6
<1>7. FollowedOK'
  BY <1>5, <1>6 DEF FollowedOK
<1>8. WakersOK'
  <2> SUFFICES ASSUME NEW t \in Threads PROVE waker'[t].at <= now'
    BY DEF WakersOK
  <2>1. waker[t] \in Wake /\ waker[t].at <= now
    BY <1>2 DEF IInv, WakersOK
  <2>2. waker[t].at \in Nat
    BY <2>1, WakeTimes
  <2>3. now \in Nat /\ now' = now + 1
    BY SinceAfterSwitch
  <2>4. waker'[t] = NoWake \/ waker'[t] = waker[t]
    BY AfterFeedSwitch
  <2> QED BY <2>1, <2>2, <2>3, <2>4
<1> QED BY <1>7, <1>8

LEMMA SwitchType ==
  ASSUME IInv, NEW cpu \in Cpus, NEW new \in Threads \cup {Idle}, Switch(cpu, new)
  PROVE  TypeOK'
<1>1. pending' \subseteq Interval
  <2> SUFFICES ASSUME NEW i \in pending' PROVE i \in Interval
    OBVIOUS
  <2>1. CASE i \in pending
    BY <2>1 DEF IInv, TypeOK
  <2>2. CASE i \in ClosedOn(cpu, new, now + 1)
    BY <2>2, ClosedOnIsTrue
  <2>3. CASE i \in ClosedOff(new, now + 1)
    BY <2>3, ClosedOffIsTrue
  <2> QED BY <2>1, <2>2, <2>3, AfterFeedSwitch
<1>2. cached' \subseteq Threads /\ resumed' \subseteq Threads
  BY ResumedAfterSwitch, AfterFeedSwitch DEF IInv, TypeOK
<1> QED BY <1>1, <1>2, AfterSwitch, SinceAfterSwitch, SwitchScheduler, AfterFeedSwitch
        DEF TypeOK

LEMMA SwitchHolds ==
  ASSUME IInv, NEW cpu \in Cpus, NEW new \in Threads \cup {Idle}, Switch(cpu, new)
  PROVE  IInv'
BY SwitchType, SwitchScheduler, SwitchKnows, SwitchFollows DEF IInv

-----------------------------------------------------------------------------
(* The other steps.                                                        *)

\* A wake is recorded for a thread that is off its CPU, and after it left.
LEMMA MakeRunnableHolds ==
  ASSUME IInv, NEW cpu \in Cpus, NEW wakee \in Threads, MakeRunnable(cpu, wakee)
  PROVE  IInv'
<1> USE Bounds
<1>1. /\ now \in Time /\ now \in Nat /\ now' = now + 1 /\ now' \in Time /\ now' # Never
      /\ wakee \in blocked /\ blocked' = blocked \ {wakee}
  BY DEF MakeRunnable, IInv, TypeOK
<1>2. UNCHANGED <<running, since, onCpu, lastOn, lastOff, cached, pending, resumed>>
  BY DEF MakeRunnable, FeedMakeRunnable
<1>3. waker' = IF onCpu[cpu] \in cached \ {wakee}
               THEN [waker EXCEPT ![wakee] = [tid |-> onCpu[cpu], at |-> now + 1]]
               ELSE waker
  BY DEF MakeRunnable, FeedMakeRunnable
<1>4. cached \subseteq Threads /\ waker \in [Threads -> Wake]
  BY DEF IInv, TypeOK
<1>5. waker' \in [Threads -> Wake]
  <2>1. CASE onCpu[cpu] \in cached \ {wakee}
    <3>1. [tid |-> onCpu[cpu], at |-> now + 1] \in Wake
      BY <1>1, <1>4, <2>1 DEF Wake
    <3> QED BY <1>3, <1>4, <2>1, <3>1
  <2>2. CASE onCpu[cpu] \notin cached \ {wakee}
    BY <1>3, <1>4, <2>2
  <2> QED BY <2>1, <2>2
<1>6. \A t \in Threads : waker'[t] = waker[t] \/ (t = wakee /\ waker'[t].at = now')
  <2>1. CASE onCpu[cpu] \in cached \ {wakee}
    BY <1>1, <1>3, <1>4, <2>1
  <2>2. CASE onCpu[cpu] \notin cached \ {wakee}
    BY <1>3, <2>2
  <2> QED BY <2>1, <2>2
<1>7. TypeOK'
  BY <1>1, <1>2, <1>5 DEF IInv, TypeOK
<1>8. OnACpu' = OnACpu
  BY <1>2 DEF OnACpu
<1>9. SchedulerOK'
  <2>1. \A t \in Threads : since[t] \in Nat
    BY DEF IInv, TypeOK
  <2> QED BY <1>1, <1>2, <1>8, <2>1 DEF IInv, SchedulerOK
<1>10. KnowsOK'
  <2>1. \A t \in Threads : lastOn[t] \in Nat /\ lastOff[t] \in Nat
    BY DEF IInv, TypeOK
  <2>2. \A n \in Nat : n <= now => n <= now'
    BY <1>1
  <2>3. UNCHANGED <<running, since, onCpu, lastOn, lastOff>>
    BY <1>2
  <2> QED BY <1>8, <2>1, <2>2, <2>3 DEF IInv, KnowsOK
<1>11. FollowedOK'
  <2> SUFFICES ASSUME NEW t \in resumed
               PROVE  /\ \A c \in Cpus : running[c] = t => onCpu[c] = t
                      /\ t \in OnACpu => waker'[t] = NoWake
                      /\ t \notin OnACpu =>
                           /\ lastOff[t] # Never
                           /\ waker'[t] # NoWake => lastOff[t] <= waker'[t].at
    BY <1>2, <1>8 DEF FollowedOK
  <2>1. t \in Threads /\ lastOff[t] \in Nat
    BY DEF IInv, TypeOK
  <2>2. /\ \A c \in Cpus : running[c] = t => onCpu[c] = t
        /\ t \in OnACpu => waker[t] = NoWake
        /\ t \notin OnACpu => /\ lastOff[t] # Never
                              /\ waker[t] # NoWake => lastOff[t] <= waker[t].at
    BY DEF IInv, FollowedOK
  <2>3. CASE waker'[t] = waker[t]
    BY <2>2, <2>3
  <2>4. CASE t = wakee /\ waker'[t].at = now'
    <3>1. t \notin OnACpu
      BY <1>1, <2>4 DEF IInv, SchedulerOK
    <3>2. lastOff[t] <= now
      BY <2>1, <2>2, <3>1 DEF IInv, KnowsOK
    <3> QED BY <1>1, <2>1, <2>2, <2>4, <3>1, <3>2
  <2> QED BY <1>6, <2>1, <2>3, <2>4
<1>12. WakersOK'
  <2> SUFFICES ASSUME NEW t \in Threads PROVE waker'[t].at <= now'
    BY DEF WakersOK
  <2>1. waker[t] \in Wake /\ waker[t].at <= now
    BY <1>4 DEF IInv, WakersOK
  <2>2. waker[t].at \in Nat
    BY <2>1, WakeTimes
  <2>3. CASE waker'[t] = waker[t]
    BY <1>1, <2>1, <2>2, <2>3
  <2>4. CASE waker'[t].at = now'
    BY <1>1, <2>4
  <2> QED BY <1>6, <2>3, <2>4
<1> QED BY <1>7, <1>9, <1>10, <1>11, <1>12 DEF IInv

\* Every step of the system keeps the invariant.
LEMMA StepHolds == IInv /\ [Next]_vars => IInv'
<1> SUFFICES ASSUME IInv, [Next]_vars PROVE IInv'
  OBVIOUS
<1>1. ASSUME NEW c \in Cpus, NEW t \in Threads \cup {Idle}, Switch(c, t) PROVE IInv'
  BY <1>1, SwitchHolds
<1>2. ASSUME NEW c \in Cpus, NEW t \in Threads, MakeRunnable(c, t) PROVE IInv'
  BY <1>2, MakeRunnableHolds
<1>3. ASSUME NEW t \in Threads, NoteSample(t) PROVE IInv'
  <2>1. UNCHANGED <<now, running, since, blocked, onCpu, lastOn, lastOff, waker,
                    pending, resumed>>
    BY <1>3 DEF NoteSample, scheduler
  <2>2. cached' \subseteq Threads
    BY <1>3 DEF NoteSample, IInv, TypeOK
  <2>3. TypeOK'
    BY <2>1, <2>2 DEF IInv, TypeOK
  <2> QED BY <2>1, <2>3 DEF IInv, SchedulerOK, KnowsOK, FollowedOK, WakersOK, OnACpu
<1>4. ASSUME DrainPending PROVE IInv'
  <2>1. UNCHANGED <<now, running, since, blocked, onCpu, lastOn, lastOff, waker,
                    cached, resumed>>
    BY <1>4 DEF DrainPending, scheduler
  <2>2. pending' = {}
    BY <1>4 DEF DrainPending
  <2>3. TypeOK'
    BY <2>1, <2>2 DEF IInv, TypeOK
  <2> QED BY <2>1, <2>3 DEF IInv, SchedulerOK, KnowsOK, FollowedOK, WakersOK, OnACpu
<1>5. ASSUME UNCHANGED vars PROVE IInv'
  BY <1>5 DEF vars, scheduler, tracker, IInv, TypeOK, SchedulerOK, KnowsOK,
              FollowedOK, WakersOK, OnACpu
<1> QED BY <1>1, <1>2, <1>3, <1>4, <1>5 DEF Next

-----------------------------------------------------------------------------
\* The tracker's maps, and the intervals it hands out, are always well formed:
\* every interval is of a known thread and of times that have been.
THEOREM TypeCorrect == Spec => []TypeOK
<1>1. IInv => TypeOK
  BY DEF IInv
<1> QED BY <1>1, InitHolds, StepHolds, PTL DEF Spec

\* What the tracker knows of a thread or a CPU is so: the thread of on_cpu runs
\* there, last_on and last_off are no older than the thread's last change.
THEOREM TrackerKnowsTruth == Spec => []KnowsOK
<1>1. IInv => KnowsOK
  BY DEF IInv
<1> QED BY <1>1, InitHolds, StepHolds, PTL DEF Spec

\* Once the tracker has closed an off-CPU interval of a thread, with a stack or
\* without, the waker it reports with a later one did its wake inside it (feed's
\* clearing of pending_wakeup).
THEOREM WakersAreInside == Spec => WakerAfterFirst
<1> DEFINE Inside == \A i \in pending' \ pending :
                       i.kind = "OffCpu" /\ i.tid \in resumed => WokenInside(i)
<1>1. IInv /\ [Next]_vars => [Inside]_vars
  <2> SUFFICES ASSUME IInv, [Next]_vars PROVE Inside \/ UNCHANGED vars
    OBVIOUS
  <2>1. ASSUME NEW c \in Cpus, NEW t \in Threads \cup {Idle}, Switch(c, t) PROVE Inside
    <3> SUFFICES ASSUME NEW i \in pending' \ pending, i.tid \in resumed
                 PROVE  WokenInside(i)
      OBVIOUS
    <3>1. i \in ClosedOn(c, t, now + 1) \/ i \in ClosedOff(t, now + 1)
      BY <2>1, AfterFeedSwitch
    <3>2. CASE i \in ClosedOn(c, t, now + 1)
      BY <2>1, <3>2, ClosedOnIsTrue
    <3>3. CASE i \in ClosedOff(t, now + 1)
      BY <2>1, <3>3, ClosedOffIsTrue
    <3> QED BY <3>1, <3>2, <3>3
  <2>2. ASSUME NEW c \in Cpus, NEW t \in Threads, MakeRunnable(c, t) PROVE Inside
    BY <2>2 DEF MakeRunnable, FeedMakeRunnable
  <2>3. ASSUME NEW t \in Threads, NoteSample(t) PROVE Inside
    BY <2>3 DEF NoteSample
  <2>4. ASSUME DrainPending PROVE Inside
    BY <2>4 DEF DrainPending
  <2> QED BY <2>1, <2>2, <2>3, <2>4 DEF Next
<1> HIDE DEF Inside
<1>2. Spec => [][Inside]_vars
  BY <1>1, InitHolds, StepHolds, PTL DEF Spec
<1> QED BY <1>2 DEF Inside, WakerAfterFirst

\* An interval is reported by a switch only, for the thread that leaves or for
\* the thread that comes, and that thread was on (or off) a CPU throughout.
THEOREM IntervalsAreTrue == Spec => IntervalsTrue
<1> DEFINE True == \A i \in pending' \ pending :
                     /\ i.kind = "OnCpu" <=> i.tid \in OnACpu
                     /\ i.end = now'
                     /\ i.start \in since[i.tid]..now
<1>1. IInv /\ [Next]_vars => [True]_vars
  <2> SUFFICES ASSUME IInv, [Next]_vars PROVE True \/ UNCHANGED vars
    OBVIOUS
  <2>1. ASSUME NEW c \in Cpus, NEW t \in Threads \cup {Idle}, Switch(c, t) PROVE True
    <3> SUFFICES ASSUME NEW i \in pending' \ pending
                 PROVE  /\ i.kind = "OnCpu" <=> i.tid \in OnACpu
                        /\ i.end = now'
                        /\ i.start \in since[i.tid]..now
      OBVIOUS
    <3>1. i \in ClosedOn(c, t, now + 1) \/ i \in ClosedOff(t, now + 1)
      BY <2>1, AfterFeedSwitch
    <3>2. now' = now + 1
      BY <2>1, SinceAfterSwitch
    <3>3. CASE i \in ClosedOn(c, t, now + 1)
      BY <2>1, <3>2, <3>3, ClosedOnIsTrue
    <3>4. CASE i \in ClosedOff(t, now + 1)
      BY <2>1, <3>2, <3>4, ClosedOffIsTrue
    <3> QED BY <3>1, <3>3, <3>4
  <2>2. ASSUME NEW c \in Cpus, NEW t \in Threads, MakeRunnable(c, t) PROVE True
    BY <2>2 DEF MakeRunnable, FeedMakeRunnable
  <2>3. ASSUME NEW t \in Threads, NoteSample(t) PROVE True
    BY <2>3 DEF NoteSample
  <2>4. ASSUME DrainPending PROVE True
    BY <2>4 DEF DrainPending
  <2> QED BY <2>1, <2>2, <2>3, <2>4 DEF Next
<1> HIDE DEF True
<1>2. Spec => [][True]_vars
  BY <1>1, InitHolds, StepHolds, PTL DEF Spec
<1> QED BY <1>2 DEF True, IntervalsTrue
=============================================================================
