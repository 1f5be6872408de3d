---------------------------- MODULE RunRegistry -----------------------------
(***************************************************************************)
(* The run registry of stax-server (stax-server/src/main.rs): the slot of  *)
(* the active run and everything that competes for it.  The server runs on *)
(* tokio's multi-threaded runtime, so one action is one critical section   *)
(* of Inner's mutex (or one step between two of them), and the handlers    *)
(* of clients, the ingest drainers, the child monitors, the accept loops   *)
(* and the liveness watchdog interleave between them.                      *)
(*                                                                         *)
(* Run ids start at 1, so 0 stands for Option::None.  A run spawns at most *)
(* one stax-shade, so the shade's pid is modelled by the id of its run     *)
(* (pids are never reused).  active_shade and active_shade_commands are    *)
(* assigned together in every critical section and are one variable.       *)
(* Timestamps, labels, target pids, log lines and ingest_attached (which    *)
(* nothing reads) are left out; the data of an event is the run it is from. *)
(***************************************************************************)
EXTENDS Naturals, Sequences, FiniteSets

CONSTANTS
  MaxRuns,    \* bound: run ids ever allocated
  MaxEvents,  \* bound: ingest events one recorder sends
  Clients,    \* concurrently executing RPC handlers of frontends
  Starts,     \* the ways of starting a run that frontends use
  Exits,      \* the ways in which a shade process may end
  Dials,      \* the runs whose shade gets as far as dialling the server
  Lossy       \* whether sessions and channels of a live shade may break

\* How the recording of a shade ends: the launched target exited, the
\* --time-limit elapsed, or the session was over (the server's Stop, or staxd
\* closed it), after all of which the process exits with success; or the
\* recording failed, or the process crashed.
Ending == {"targetExited", "timeLimit", "sessionOver", "failure"}

ASSUME RegistryAssumption ==
  /\ MaxRuns \in Nat
  /\ MaxEvents \in Nat
  /\ IsFiniteSet(Clients)
  /\ Starts \subseteq {"attach", "launch", "ingest"}
  /\ Exits \subseteq Ending
  /\ Dials \subseteq 1..MaxRuns
  /\ Lossy \in BOOLEAN

VARIABLES
  \* Inner, under its mutex
  active,          \* Option<RunSummary>
  cancel,          \* run whose Notify is stored in Inner::cancel
  activeShade,     \* active_shade (by pid) and active_shade_commands
  shadeChild,      \* pid of Inner::shade_child
  history,
  \* the rest of ServerState
  nextRunId,
  agg,             \* events of each run recorded in the aggregator
  pending,         \* keys of TerminalState::pending
  \* handlers of RunControl and RunIngest::start_run
  pc, how, run, child,
  \* stax-shade processes and their sessions
  proc, status, handle, sess,
  \* tasks of the server
  drainer, batch, received, monitor, watchdog

inner   == <<active, cancel, activeShade, shadeChild, history>>
callers == <<pc, how, run, child>>
shades  == <<proc, status, handle, sess>>
ingest  == <<drainer, batch, received>>
vars    == <<inner, nextRunId, agg, pending, callers, shades, ingest,
             monitor, watchdog>>

-----------------------------------------------------------------------------
None == 0
RunId == 1..MaxRuns
OptRun == RunId \cup {None}

\* StopReason; "none" is Option::None.
Reason == {"none", "TargetExited", "TimeLimit", "UserStop", "RecorderError"}

\* RunSummary: pet_samples and off_cpu_intervals are one counter of the
\* events applied on behalf of the run.
Summary == [id : OptRun, state : {"Recording", "Stopped"}, reason : Reason,
            samples : Nat]

NoActive == [id |-> None, state |-> "Stopped", reason |-> "none", samples |-> 0]

Recording(r) ==
  [id |-> r, state |-> "Recording", reason |-> "none", samples |-> 0]

InHistory(r) == \E i \in 1..Len(history) : history[i].id = r

How == Starts \cup {"stop"}
PC == {"idle", "reaping", "claim", "reset", "open", "spawn", "record",
       "notify", "reap"}

InnerTypeOK ==
  /\ active \in Summary
  /\ cancel \in OptRun
  /\ activeShade \in OptRun
  /\ shadeChild \in OptRun
  /\ history \in Seq(Summary)

ServerTypeOK ==
  /\ nextRunId \in 1..(MaxRuns + 1)
  /\ agg \in [RunId -> Nat]
  /\ pending \in SUBSET RunId

CallersTypeOK ==
  /\ pc \in [Clients -> PC]
  /\ how \in [Clients -> How]
  /\ run \in [Clients -> OptRun]
  /\ child \in [Clients -> OptRun]

ShadesTypeOK ==
  /\ proc \in [RunId -> {"none", "running", "zombie", "reaped"}]
  /\ status \in [RunId -> Ending \cup {"none"}]
  /\ handle \in [RunId -> {"none", "held", "taken", "gone"}]
  /\ sess \in [RunId -> {"none", "accepted", "slotted", "refused", "closed"}]

TasksTypeOK ==
  /\ drainer \in [RunId -> {"none", "attaching", "refused", "waiting", "apply",
                            "write", "cancelled", "closed", "reap", "done"}]
  /\ batch \in [RunId -> Nat]
  /\ received \in [RunId -> Nat]
  /\ monitor \in [RunId -> {"none", "watching", "exited", "finalize", "reap",
                            "done"}]
  /\ watchdog \in OptRun

TypeOK == /\ InnerTypeOK /\ ServerTypeOK /\ CallersTypeOK
          /\ ShadesTypeOK /\ TasksTypeOK

Init ==
  /\ active = NoActive
  /\ cancel = None /\ activeShade = None /\ shadeChild = None
  /\ history = <<>>
  /\ nextRunId = 1
  /\ agg = [r \in RunId |-> 0]
  /\ pending = {}
  /\ pc = [c \in Clients |-> "idle"]
  /\ how = [c \in Clients |-> "stop"]
  /\ run = [c \in Clients |-> None]
  /\ child = [c \in Clients |-> None]
  /\ proc = [r \in RunId |-> "none"]
  /\ status = [r \in RunId |-> "none"]
  /\ handle = [r \in RunId |-> "none"]
  /\ sess = [r \in RunId |-> "none"]
  /\ drainer = [r \in RunId |-> "none"]
  /\ batch = [r \in RunId |-> 0]
  /\ received = [r \in RunId |-> 0]
  /\ monitor = [r \in RunId |-> "none"]
  /\ watchdog = None

-----------------------------------------------------------------------------
(* Helpers shared by the critical sections. *)

\* Mutant: the cancel handle of the ended run is left in Inner.
ReleaseSlot_KeepsCancel ==
  /\ active' = NoActive
  /\ activeShade' = None
  /\ UNCHANGED cancel

\* Mutant: the registration of the shade outlives its run.
ReleaseSlot_KeepsShade ==
  /\ active' = NoActive
  /\ cancel' = None
  /\ UNCHANGED activeShade

\* The fields every end of a run clears while it holds the lock.
ReleaseSlot ==
  /\ active' = NoActive
  /\ cancel' = None
  /\ activeShade' = None

\* Option::take of the Child behind a ShadeChild.  It finds nothing when the
\* monitor saw the exit first.  The take of Inner::shade_child and this one
\* are one step: only the monitor runs between them, and both orders end alike.
TakeHandle(p) ==
  handle' = [r \in RunId |->
               IF r = p /\ handle[r] = "held" THEN "taken" ELSE handle[r]]

\* reap_shade_child: whatever child is recorded now is the one that is reaped.
TakeShadeChild ==
  /\ TakeHandle(shadeChild)
  /\ shadeChild' = None

\* The wait and kill of reap_taken_shade_child are over (or there was nothing
\* to wait for).
Reaped(p) == p # None => (handle[p] = "taken" => proc[p] = "reaped")

Dead(r) == proc[r] \in {"zombie", "reaped"}

\* ExitStatus::success: all the server sees of why a shade ended.
Succeeded(r) == status[r] \in Ending \ {"failure"}

Goto(c, label) == pc' = [pc EXCEPT ![c] = label]

Return(c) ==
  /\ Goto(c, "idle")
  /\ how' = [how EXCEPT ![c] = "stop"]
  /\ run' = [run EXCEPT ![c] = None]
  /\ child' = [child EXCEPT ![c] = None]

\* Mutant: the run is copied to the history but not taken out of the slot.
FinalizeRun_KeepsActive(r, why) ==
  /\ pending' = pending \ {r}
  /\ history' = IF active.id = r
                THEN Append(history, [active EXCEPT !.state = "Stopped",
                                                    !.reason = why])
                ELSE history
  /\ UNCHANGED <<active, cancel, activeShade, shadeChild>>

\* Mutant: whatever run is in the slot is finalized.
FinalizeRun_AnyRun(r, why) ==
  /\ pending' = pending \ {r}
  /\ IF active.id # None
     THEN /\ ReleaseSlot
          /\ history' = Append(history,
               IF active.state = "Stopped" THEN active
               ELSE [active EXCEPT !.state = "Stopped", !.reason = why])
     ELSE UNCHANGED <<active, cancel, activeShade, history>>
  /\ UNCHANGED shadeChild

\* Mutant: the reason stop_active recorded is overwritten.
FinalizeRun_OverwritesReason(r, why) ==
  /\ pending' = pending \ {r}
  /\ IF active.id = r
     THEN /\ ReleaseSlot
          /\ history' = Append(history, [active EXCEPT !.state = "Stopped",
                                                       !.reason = why])
     ELSE UNCHANGED <<active, cancel, activeShade, history>>
  /\ UNCHANGED shadeChild

\* Mutant: the parked terminal of the run is not dropped.
FinalizeRun_KeepsTerminal(r, why) ==
  /\ IF active.id = r
     THEN /\ ReleaseSlot
          /\ history' = Append(history,
               IF active.state = "Stopped" THEN active
               ELSE [active EXCEPT !.state = "Stopped", !.reason = why])
     ELSE UNCHANGED <<active, cancel, activeShade, history>>
  /\ UNCHANGED <<pending, shadeChild>>

\* finalize_run up to the reap.
FinalizeRun(r, why) ==
  /\ pending' = pending \ {r}
  /\ IF active.id = r
     THEN /\ ReleaseSlot
          /\ history' = Append(history,
               IF active.state = "Stopped" THEN active
               ELSE [active EXCEPT !.state = "Stopped", !.reason = why])
     ELSE UNCHANGED <<active, cancel, activeShade, history>>
  /\ UNCHANGED shadeChild

\* Where a finalizing task goes next: it reaps only if it ended the run.
AfterFinalize(r) == IF active.id = r THEN "reap" ELSE "done"

-----------------------------------------------------------------------------
(* begin_run, called by start_attach, start_launch and RunIngest::start_run. *)

\* Ids promised to handlers that have not called fetch_add yet (bound).
Unallocated == {c \in Clients : pc[c] = "reaping" /\ how[c] # "stop"}

\* Mutant: the stale run is dropped instead of archived.
BeginRun_ForgetsStale(c, k) ==
  /\ pc[c] = "idle"
  /\ nextRunId + Cardinality(Unallocated) <= MaxRuns
  /\ IF active.id # None /\ active.state = "Stopped"
     THEN /\ ReleaseSlot
          /\ TakeShadeChild
          /\ child' = [child EXCEPT ![c] = shadeChild]
          /\ UNCHANGED history
     ELSE UNCHANGED <<inner, handle, child>>
  /\ how' = [how EXCEPT ![c] = k]
  /\ Goto(c, "reaping")
  /\ UNCHANGED <<nextRunId, agg, pending, run, proc, status, sess, ingest,
                 monitor, watchdog>>

\* First critical section: archive a stopped run nobody finalized.
BeginRun(c, k) ==
  /\ pc[c] = "idle"
  /\ nextRunId + Cardinality(Unallocated) <= MaxRuns
  /\ IF active.id # None /\ active.state = "Stopped"
     THEN /\ history' = IF InHistory(active.id) THEN history
                        ELSE Append(history, active)
          /\ ReleaseSlot
          /\ TakeShadeChild
          /\ child' = [child EXCEPT ![c] = shadeChild]
     ELSE UNCHANGED <<inner, handle, child>>
  /\ how' = [how EXCEPT ![c] = k]
  /\ Goto(c, "reaping")
  /\ UNCHANGED <<nextRunId, agg, pending, run, proc, status, sess, ingest,
                 monitor, watchdog>>

\* The stale child (if any) is reaped, then next_run_id.fetch_add(1).
AllocRunId(c) ==
  /\ pc[c] = "reaping" /\ how[c] # "stop"
  /\ Reaped(child[c])
  /\ nextRunId <= MaxRuns
  /\ run' = [run EXCEPT ![c] = nextRunId]
  /\ child' = [child EXCEPT ![c] = None]
  /\ nextRunId' = nextRunId + 1
  /\ Goto(c, "claim")
  /\ UNCHANGED <<inner, agg, pending, how, shades, ingest, monitor, watchdog>>

\* Second critical section: the slot is claimed, or the call is refused.
ClaimSlot(c) ==
  /\ pc[c] = "claim"
  /\ IF active.id # None
     THEN Return(c) /\ UNCHANGED inner
     ELSE /\ active' = Recording(run[c])
          /\ cancel' = run[c]
          /\ Goto(c, "reset")
          /\ UNCHANGED <<activeShade, shadeChild, history, how, run, child>>
  /\ UNCHANGED <<nextRunId, agg, pending, shades, ingest, monitor, watchdog>>

\* The aggregator is replaced after the slot was claimed and unlocked.  (The
\* binary registry is reset next and written like the aggregator, a check under
\* the lock and a write after it; agg stands for both.)
ResetAggregator(c) ==
  /\ pc[c] = "reset"
  /\ agg' = [r \in RunId |-> 0]
  /\ Goto(c, IF how[c] = "attach" THEN "spawn" ELSE "open")
  /\ UNCHANGED <<inner, nextRunId, pending, how, run, child, shades,
                 ingest, monitor, watchdog>>

-----------------------------------------------------------------------------
(* The rest of start_run, start_attach and start_launch. *)

\* start_run: set the flag and spawn the drainer.
OpenIngest(c) ==
  /\ pc[c] = "open" /\ how[c] = "ingest"
  /\ drainer' = [drainer EXCEPT ![run[c]] = "waiting"]
  /\ Return(c)
  /\ UNCHANGED <<active, cancel, activeShade, shadeChild, history, nextRunId,
                 agg, pending, shades, batch, received, monitor,
                 watchdog>>

\* start_launch parks the frontend's terminal before it spawns the shade.
OpenTerminal(c) ==
  /\ pc[c] = "open" /\ how[c] = "launch"
  /\ pending' = pending \cup {run[c]}
  /\ Goto(c, "spawn")
  /\ UNCHANGED <<inner, nextRunId, agg, how, run, child, shades, ingest,
                 monitor, watchdog>>

\* spawn_shade, first half: the process exists, nothing is recorded yet.
SpawnShade(c) ==
  /\ pc[c] = "spawn"
  /\ proc' = [proc EXCEPT ![run[c]] = "running"]
  /\ Goto(c, "record")
  /\ UNCHANGED <<inner, nextRunId, agg, pending, how, run, child, status,
                 handle, sess, ingest, monitor, watchdog>>

\* spawn_shade, second half: store the handle, start the monitor.
RecordShadeChild(c) ==
  /\ pc[c] = "record"
  /\ shadeChild' = run[c]
  /\ handle' = [handle EXCEPT ![run[c]] = "held"]
  /\ monitor' = [monitor EXCEPT ![run[c]] = "watching"]
  /\ Return(c)
  /\ UNCHANGED <<active, cancel, activeShade, history,
                 nextRunId, agg, pending, proc, status, sess, ingest,
                 watchdog>>

\* spawn_shade failed: discard_start_failed.
DiscardStartFailed(c) ==
  /\ pc[c] = "spawn"
  /\ pending' = pending \ {run[c]}
  /\ IF active.id = run[c]
     THEN /\ ReleaseSlot
          /\ history' = Append(history, [active EXCEPT !.state = "Stopped",
                                                       !.reason = "RecorderError"])
          /\ shadeChild' = None
     ELSE UNCHANGED inner
  /\ Return(c)
  /\ UNCHANGED <<nextRunId, agg, shades, ingest, monitor, watchdog>>

-----------------------------------------------------------------------------
(* stop_active *)

\* The critical section; run[c] holds the taken cancel handle.
StopActive(c) ==
  /\ pc[c] = "idle"
  /\ active.id # None
  /\ active' = [active EXCEPT !.state = "Stopped", !.reason = "UserStop"]
  /\ activeShade' = None
  /\ cancel' = None
  /\ run' = [run EXCEPT ![c] = cancel]
  /\ how' = [how EXCEPT ![c] = "stop"]
  /\ Goto(c, "notify")
  /\ UNCHANGED <<shadeChild, history, nextRunId, agg, pending, child, shades,
                 ingest, monitor, watchdog>>

\* Without an active run the call returns NoActiveRun and changes nothing.
StopNothing(c) ==
  /\ pc[c] = "idle"
  /\ active.id = None
  /\ UNCHANGED vars

\* ShadeCommand::Stop is sent (all it does is make the shade exit, which a
\* shade may do at any time), then notify_waiters: it wakes a drainer that is
\* parked in its select and stores no permit for one that is not.
NotifyDrainer(c) ==
  /\ pc[c] = "notify"
  /\ drainer' = [r \in RunId |->
                   IF r = run[c] /\ drainer[r] = "waiting" THEN "cancelled"
                   ELSE drainer[r]]
  /\ Goto(c, "reap")
  /\ UNCHANGED <<inner, nextRunId, agg, pending, how, run, child, shades,
                 batch, received, monitor, watchdog>>

ReapShadeChild(c) ==
  /\ pc[c] = "reap"
  /\ TakeShadeChild
  /\ child' = [child EXCEPT ![c] = shadeChild]
  /\ Goto(c, "reaping")
  /\ UNCHANGED <<active, cancel, activeShade, history,
                 nextRunId, agg, pending, how, run, proc, status, sess,
                 ingest, monitor, watchdog>>

StopReturns(c) ==
  /\ pc[c] = "reaping" /\ how[c] = "stop"
  /\ Reaped(child[c])
  /\ Return(c)
  /\ UNCHANGED <<inner, nextRunId, agg, pending, shades, ingest, monitor,
                 watchdog>>

\* The child that a reaper holds exits within the grace period or is killed.
ReapTakenShadeChild(r) ==
  /\ handle[r] = "taken"
  /\ proc[r] \in {"running", "zombie"}
  /\ proc' = [proc EXCEPT ![r] = "reaped"]
  /\ UNCHANGED <<inner, nextRunId, agg, pending, callers, status, handle,
                 sess, ingest, monitor, watchdog>>

-----------------------------------------------------------------------------
(* A stax-shade process, as the server sees it. *)

\* The process ends, by itself or by a crash.
ShadeExit(r, st) ==
  /\ proc[r] = "running"
  /\ proc' = [proc EXCEPT ![r] = "zombie"]
  /\ status' = [status EXCEPT ![r] = st]
  /\ UNCHANGED <<inner, nextRunId, agg, pending, callers, handle, sess,
                 ingest, monitor, watchdog>>

\* try_register_shade.  It does not look at the state of the run.
TryRegisterShade(r) ==
  /\ r \in Dials
  /\ proc[r] = "running" /\ sess[r] = "none"
  /\ IF active.id = r /\ activeShade = None
     THEN /\ activeShade' = r
          /\ sess' = [sess EXCEPT ![r] = "accepted"]
     ELSE /\ sess' = [sess EXCEPT ![r] = "refused"]
          /\ UNCHANGED activeShade
  /\ UNCHANGED <<active, cancel, shadeChild, history, nextRunId,
                 agg, pending, callers, proc, status, handle, ingest,
                 monitor, watchdog>>

\* register_shade fills the session's ShadeSlot after try_register_shade.
FillShadeSlot(r) ==
  /\ sess[r] = "accepted"
  /\ sess' = [sess EXCEPT ![r] = "slotted"]
  /\ UNCHANGED <<inner, nextRunId, agg, pending, callers, proc, status,
                 handle, ingest, monitor, watchdog>>

\* The session closes (peer gone, keepalive) and cleanup_session_shade runs:
\* it does nothing while the slot is still empty.
SessionClosed(r) ==
  /\ sess[r] \in {"accepted", "slotted"}
  /\ Lossy \/ Dead(r)
  /\ activeShade' = IF sess[r] = "slotted" /\ activeShade = r THEN None
                    ELSE activeShade
  /\ sess' = [sess EXCEPT ![r] = "closed"]
  /\ UNCHANGED <<active, cancel, shadeChild, history, nextRunId,
                 agg, pending, callers, proc, status, handle, ingest,
                 monitor, watchdog>>

\* attach_terminal_channels takes the parked terminal.
AttachTerminal(r) ==
  /\ sess[r] = "slotted" /\ proc[r] = "running"
  /\ r \in pending
  /\ pending' = pending \ {r}
  /\ UNCHANGED <<inner, nextRunId, agg, callers, shades, ingest, monitor,
                 watchdog>>

\* attach_run, first critical section: cancel_for_run.
CancelForRun(r) ==
  /\ sess[r] = "slotted" /\ proc[r] = "running"
  /\ drainer[r] = "none"
  /\ drainer' = [drainer EXCEPT ![r] =
                   IF active.id = r /\ cancel # None THEN "attaching"
                   ELSE "refused"]
  /\ UNCHANGED <<inner, nextRunId, agg, pending, callers, shades, batch,
                 received, monitor, watchdog>>

\* attach_run, second critical section and the spawn of the drainer: the run
\* is not looked at again.
AttachIngest(r) ==
  /\ drainer[r] = "attaching"
  /\ drainer' = [drainer EXCEPT ![r] = "waiting"]
  /\ UNCHANGED <<active, cancel, activeShade, shadeChild, history, nextRunId,
                 agg, pending, callers, shades, batch, received,
                 monitor, watchdog>>

-----------------------------------------------------------------------------
(* The ingest drainer of a run. *)

\* A batch of n events is received; the Notified future of the select is gone
\* until the whole batch has been applied.
DrainerRecv(r, n) ==
  /\ drainer[r] = "waiting"
  /\ n \in 1..(MaxEvents - received[r])
  /\ batch' = [batch EXCEPT ![r] = n]
  /\ received' = [received EXCEPT ![r] = @ + n]
  /\ drainer' = [drainer EXCEPT ![r] = "apply"]
  /\ UNCHANGED <<inner, nextRunId, agg, pending, callers, shades,
                 monitor, watchdog>>

\* Mutant: off by one at the end of the batch.
NextEvent_OneMore(r) == IF batch[r] = 0 THEN "waiting" ELSE "apply"

\* Where the drainer goes when the event in hand is dealt with.
NextEvent(r) == IF batch[r] = 1 THEN "waiting" ELSE "apply"

\* Mutant: an event of a stopped run is written without being counted.
ApplyEvent_CountsRecording(r) ==
  /\ drainer[r] = "apply"
  /\ IF active.id = r
     THEN /\ active' = IF active.state = "Recording"
                       THEN [active EXCEPT !.samples = @ + 1] ELSE active
          /\ drainer' = [drainer EXCEPT ![r] = "write"]
          /\ UNCHANGED batch
     ELSE /\ drainer' = [drainer EXCEPT ![r] = NextEvent(r)]
          /\ batch' = [batch EXCEPT ![r] = @ - 1]
          /\ UNCHANGED active
  /\ UNCHANGED <<cancel, activeShade, shadeChild, history, nextRunId, agg,
                 pending, callers, shades, received, monitor, watchdog>>

\* apply_event, under the lock: count the event, or ignore it when its run is
\* not the active one.
ApplyEvent(r) ==
  /\ drainer[r] = "apply"
  /\ IF active.id = r
     THEN /\ active' = [active EXCEPT !.samples = @ + 1]
          /\ drainer' = [drainer EXCEPT ![r] = "write"]
          /\ UNCHANGED batch
     ELSE /\ drainer' = [drainer EXCEPT ![r] = NextEvent(r)]
          /\ batch' = [batch EXCEPT ![r] = @ - 1]
          /\ UNCHANGED active
  /\ UNCHANGED <<cancel, activeShade, shadeChild, history,
                 nextRunId, agg, pending, callers, shades, received, monitor, watchdog>>

\* apply_event, after the unlock: the write to the aggregator.
WriteEvent(r) ==
  /\ drainer[r] = "write"
  /\ agg' = [agg EXCEPT ![r] = @ + 1]
  /\ drainer' = [drainer EXCEPT ![r] = NextEvent(r)]
  /\ batch' = [batch EXCEPT ![r] = @ - 1]
  /\ UNCHANGED <<inner, nextRunId, pending, callers, shades, received, monitor, watchdog>>

\* The recorder closed the channel, or recv failed.
DrainerClosed(r) ==
  /\ drainer[r] = "waiting"
  /\ Lossy \/ proc[r] # "running"
  /\ drainer' = [drainer EXCEPT ![r] = "closed"]
  /\ UNCHANGED <<inner, nextRunId, agg, pending, callers, shades, batch,
                 received, monitor, watchdog>>

\* detach_ingest: the run stays active.
DetachIngest(r) ==
  /\ drainer[r] = "closed"
  /\ drainer' = [drainer EXCEPT ![r] = "done"]
  /\ UNCHANGED <<active, cancel, activeShade, shadeChild, history, nextRunId,
                 agg, pending, callers, shades, batch, received,
                 monitor, watchdog>>

DrainerFinalize(r) ==
  /\ drainer[r] = "cancelled"
  /\ FinalizeRun(r, "UserStop")
  /\ drainer' = [drainer EXCEPT ![r] = AfterFinalize(r)]
  /\ UNCHANGED <<nextRunId, agg, callers, shades, batch, received,
                 monitor, watchdog>>

DrainerReap(r) ==
  /\ drainer[r] = "reap"
  /\ TakeShadeChild
  /\ drainer' = [drainer EXCEPT ![r] = "done"]
  /\ UNCHANGED <<active, cancel, activeShade, history,
                 nextRunId, agg, pending, callers, proc, status, sess, batch,
                 received, monitor, watchdog>>

-----------------------------------------------------------------------------
(* The monitor task of a shade child. *)

\* One tick: the handle is gone to a reaper, or try_wait reports the exit.
MonitorTick(r) ==
  /\ monitor[r] = "watching"
  /\ \/ /\ handle[r] = "taken"
        /\ monitor' = [monitor EXCEPT ![r] = "done"]
        /\ UNCHANGED <<proc, handle>>
     \/ /\ handle[r] = "held" /\ proc[r] = "zombie"
        /\ monitor' = [monitor EXCEPT ![r] = "exited"]
        /\ proc' = [proc EXCEPT ![r] = "reaped"]
        /\ handle' = [handle EXCEPT ![r] = "gone"]
  /\ UNCHANGED <<inner, nextRunId, agg, pending, callers, status, sess,
                 ingest, watchdog>>

\* Mutant: the exit ends the run only if the shade had registered.
ShadeChildExited_Registered(r) ==
  /\ monitor[r] = "exited"
  /\ shadeChild' = IF shadeChild = r THEN None ELSE shadeChild
  /\ monitor' = [monitor EXCEPT ![r] =
                   IF active.id = r /\ activeShade = r THEN "finalize"
                   ELSE "done"]
  /\ UNCHANGED <<active, cancel, activeShade, history, nextRunId, agg, pending,
                 callers, shades, ingest, watchdog>>

\* shade_child_exited up to its unlock.
ShadeChildExited(r) ==
  /\ monitor[r] = "exited"
  /\ shadeChild' = IF shadeChild = r THEN None ELSE shadeChild
  /\ monitor' = [monitor EXCEPT ![r] =
                   IF active.id = r THEN "finalize" ELSE "done"]
  /\ UNCHANGED <<active, cancel, activeShade, history,
                 nextRunId, agg, pending, callers, shades, ingest, watchdog>>

MonitorFinalize(r) ==
  /\ monitor[r] = "finalize"
  /\ FinalizeRun(r, IF Succeeded(r) THEN "TargetExited" ELSE "RecorderError")
  /\ monitor' = [monitor EXCEPT ![r] = AfterFinalize(r)]
  /\ UNCHANGED <<nextRunId, agg, callers, shades, ingest, watchdog>>

MonitorReap(r) ==
  /\ monitor[r] = "reap"
  /\ TakeShadeChild
  /\ monitor' = [monitor EXCEPT ![r] = "done"]
  /\ UNCHANGED <<active, cancel, activeShade, history,
                 nextRunId, agg, pending, callers, proc, status, sess,
                 ingest, watchdog>>

-----------------------------------------------------------------------------
(* spawn_shade_liveness_watchdog: read the pid, unlock, probe, lock again. *)

WatchdogRead ==
  /\ watchdog = None
  /\ activeShade # None
  /\ watchdog' = activeShade
  /\ UNCHANGED <<inner, nextRunId, agg, pending, callers, shades, ingest,
                 monitor>>

\* Mutant: the pid is not compared again under the second lock.
WatchdogProbe_NoCompare ==
  /\ watchdog # None
  /\ activeShade' = IF proc[watchdog] = "reaped" THEN None ELSE activeShade
  /\ watchdog' = None
  /\ UNCHANGED <<active, cancel, shadeChild, history, nextRunId, agg, pending,
                 callers, shades, ingest, monitor>>

\* Mutant: only a zombie counts as gone.
WatchdogProbe_ZombieOnly ==
  /\ watchdog # None
  /\ activeShade' = IF proc[watchdog] = "zombie" /\ activeShade = watchdog
                    THEN None ELSE activeShade
  /\ watchdog' = None
  /\ UNCHANGED <<active, cancel, shadeChild, history, nextRunId, agg, pending,
                 callers, shades, ingest, monitor>>

\* pid_is_alive holds for a zombie; only a reaped pid is gone.
WatchdogProbe ==
  /\ watchdog # None
  /\ activeShade' = IF proc[watchdog] = "reaped" /\ activeShade = watchdog
                    THEN None ELSE activeShade
  /\ watchdog' = None
  /\ UNCHANGED <<active, cancel, shadeChild, history, nextRunId,
                 agg, pending, callers, shades, ingest, monitor>>

-----------------------------------------------------------------------------
\* The steps a handler takes once it has been called.
ClientStep(c) ==
  \/ AllocRunId(c) \/ ClaimSlot(c) \/ ResetAggregator(c)
  \/ OpenIngest(c) \/ OpenTerminal(c)
  \/ SpawnShade(c) \/ DiscardStartFailed(c) \/ RecordShadeChild(c)
  \/ NotifyDrainer(c) \/ ReapShadeChild(c) \/ StopReturns(c)

\* The calls frontends make.
ClientCall(c) ==
  \/ \E k \in Starts : BeginRun(c, k)
  \/ StopActive(c) \/ StopNothing(c)

\* What a shade, or another recorder, does.
ShadeStep(r) ==
  \/ \E st \in Exits : ShadeExit(r, st)
  \/ TryRegisterShade(r) \/ AttachTerminal(r) \/ CancelForRun(r)
  \/ \E n \in 1..MaxEvents : DrainerRecv(r, n)
  \/ DrainerClosed(r)
  \/ SessionClosed(r)

\* The steps of the server's tasks on behalf of run r.
TaskStep(r) ==
  \/ ReapTakenShadeChild(r) \/ FillShadeSlot(r)
  \/ AttachIngest(r)
  \/ ApplyEvent(r) \/ WriteEvent(r) \/ DetachIngest(r)
  \/ DrainerFinalize(r) \/ DrainerReap(r)
  \/ MonitorTick(r) \/ ShadeChildExited(r) \/ MonitorFinalize(r)
  \/ MonitorReap(r)

Next ==
  \/ \E c \in Clients : ClientCall(c) \/ ClientStep(c)
  \/ \E r \in RunId : ShadeStep(r) \/ TaskStep(r)
  \/ WatchdogRead \/ WatchdogProbe

Spec == Init /\ [][Next]_vars

-----------------------------------------------------------------------------
(* Fairness.  A handler that was called runs on, and the tasks of the server *)
(* are polled by the runtime.  Nothing is assumed of frontends; of a shade   *)
(* only that the session and the channel of a dead one are reported closed   *)
(* (local sessions are non_resumable and keep alive).                        *)

DrainerStep(r) ==
  \/ ApplyEvent(r) \/ WriteEvent(r) \/ DetachIngest(r)
  \/ DrainerFinalize(r) \/ DrainerReap(r)

MonitorStep(r) ==
  \/ MonitorTick(r) \/ ShadeChildExited(r) \/ MonitorFinalize(r)
  \/ MonitorReap(r)

Fairness ==
  /\ \A c \in Clients : WF_vars(ClientStep(c))
  /\ \A r \in RunId :
       /\ WF_vars(DrainerStep(r))
       /\ WF_vars(MonitorStep(r))
       /\ WF_vars(ReapTakenShadeChild(r))
       /\ WF_vars(AttachIngest(r))
       /\ WF_vars(FillShadeSlot(r))
       /\ WF_vars(Dead(r) /\ SessionClosed(r))
       /\ WF_vars(Dead(r) /\ DrainerClosed(r))
  /\ WF_vars(WatchdogRead \/ WatchdogProbe)

FairSpec == Spec /\ Fairness

-----------------------------------------------------------------------------
(* Safety *)

\* The active run has its cancel handle exactly while it records: stop_active
\* takes the handle in the section that marks the run Stopped, and no handle
\* of an earlier run is left behind for attach_run to pick up.
CancelMatchesState ==
  cancel = IF active.state = "Recording" THEN active.id ELSE None

\* "One active run = at most one shade": the registered shade is the one of
\* the run in the slot, whatever ended the previous run.
ShadeOfActiveRun == activeShade # None => activeShade = active.id

\* No run is archived twice, and the run in the slot is not in the history:
\* the drainer, the monitor, discard_start_failed and begin_run compete to
\* archive a run and one of them wins.
ArchivedOnce ==
  /\ active.id # None => ~InHistory(active.id)
  /\ \A i, j \in 1..Len(history) : history[i].id = history[j].id => i = j

\* No run is lost: once a run has a shade process or a drainer it is in the
\* slot or in the history, so list_runs reports it.
RunAccountedFor ==
  \A r \in RunId :
    proc[r] # "none" \/ drainer[r] # "none" => active.id = r \/ InHistory(r)

\* The reason in the history follows the end of that run's own shade, whoever
\* archived the run: TargetExited only if that shade exited with success,
\* RecorderError only if it failed or was never spawned.  No path records a
\* TimeLimit (see TargetExitedMeansTarget).
ReasonFollowsShade ==
  \A i \in 1..Len(history) :
    LET h == history[i] IN
      /\ h.state = "Stopped" /\ h.reason \notin {"none", "TimeLimit"}
      /\ h.reason = "TargetExited" => Succeeded(h.id)
      /\ h.reason = "RecorderError" =>
           status[h.id] = "failure" \/ proc[h.id] = "none"

\* A run that ended by itself has released the frontend's terminal.
EndedRunReleasesTerminal ==
  \A i \in 1..Len(history) :
    history[i].reason # "UserStop" => history[i].id \notin pending

\* The aggregator never holds an event of the active run that its summary has
\* not counted.
NeverOvercounts ==
  \A r \in RunId :
    active.id = r =>
      agg[r] + (IF drainer[r] = "write" THEN 1 ELSE 0) <= active.samples

\* The registered shade of a recording run keeps its slot while its process
\* runs and its session is open: neither the close of another session nor the
\* watchdog, with the pid it read before, takes it away.
LiveShadeKept ==
  [][\A r \in RunId :
       /\ active.id = r /\ active.state = "Recording"
       /\ activeShade = r /\ proc[r] = "running" /\ sess[r] = "slotted"
       => \/ activeShade' = r
          \/ active'.id # r \/ active'.state = "Stopped"
          \/ sess'[r] = "closed"]_vars

\* What RunLifecycle calls the phase of run r and the reason it stopped for.
RunPhase(r) ==
  IF active.id = r
  THEN IF active.state = "Recording" THEN "recording" ELSE "stopped"
  ELSE IF InHistory(r) THEN "archived" ELSE "unborn"

RunReason(r) ==
  IF active.id = r THEN active.reason
  ELSE IF InHistory(r)
       THEN history[CHOOSE i \in 1..Len(history) : history[i].id = r].reason
       ELSE "none"

Lifecycle == INSTANCE RunLifecycle WITH
  phase  <- [r \in RunId |-> RunPhase(r)],
  reason <- [r \in RunId |-> RunReason(r)]

\* The registry hosts one run at a time, archives each run once and keeps the
\* reason it stopped for.
ImplementsLifecycle == Lifecycle!Spec

-----------------------------------------------------------------------------
(* Liveness *)

\* The slot of a shade that is gone is freed, even when its session closed
\* before the ShadeSlot was filled (the case the watchdog exists for).
DeadShadeSlotFreed ==
  \A r \in RunId : (activeShade = r /\ proc[r] = "reaped") ~> (activeShade # r)

\* A run whose shade exits does not record for ever ("keeping run alive until
\* shade exits or explicit stop"), unless a reaper holds the child: then the
\* monitor reports no exit.  A reaper that took its own run's child has that
\* run out of the slot or Stopped; with two runs reap_shade_child may also take
\* the child of the next run (KilledAfterRunEnd), which then records on.
ShadeExitEndsRun ==
  \A r \in RunId :
    (active.id = r /\ Dead(r))
      ~> (~(active.id = r /\ active.state = "Recording") \/ handle[r] = "taken")

-----------------------------------------------------------------------------
(* What the repository says of the registry and the code does not keep.     *)

\* StopReason: TargetExited is "The launched child exited (or the attached PID
\* went away)", and TimeLimit is there for an elapsed --time-limit.  The server
\* sees an exit status only, and a shade whose time is up exits with success.
TargetExitedMeansTarget ==
  \A i \in 1..Len(history) :
    history[i].reason = "TargetExited" => status[history[i].id] = "targetExited"

\* stop_active: "The drainer is responsible for moving the run from `active`
\* to `history` once its Rx is closed."  A notification that finds the drainer
\* inside a batch is lost, and a drainer whose channel closes only detaches.
StoppedRunLeavesSlot ==
  \A r \in RunId :
    (active.id = r /\ active.state = "Stopped" /\ drainer[r] = "done")
      ~> (active.id # r)

\* ServerState: "a new run resets them".  Once a run has been set up, the
\* aggregator holds no event of another run.
AggregatorHoldsOneRun ==
  \A q, r \in RunId :
    /\ active = [Recording(q) EXCEPT !.samples = active.samples]
    /\ \A c \in Clients : run[c] = q => pc[c] # "reset"
    /\ r # q
    => agg[r] = 0

\* reap_taken_shade_child kills a shade that "didn't exit within 1s of run
\* end": no shade of a run that still records is reaped while it runs.
KilledAfterRunEnd ==
  [][\A r \in RunId :
       active.id = r /\ active.state = "Recording" /\ proc[r] = "running"
       => proc'[r] # "reaped"]_vars

=============================================================================
