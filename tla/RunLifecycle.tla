---------------------------- MODULE RunLifecycle ----------------------------
(***************************************************************************)
(* What stax-server promises about the runs it hosts (RunState, StopReason *)
(* and ServerStatus of stax-live-proto): one run at a time, a run is      *)
(* archived once, and the reason it stopped for never changes once it is   *)
(* in the history.  RunRegistry implements this specification.             *)
(***************************************************************************)
EXTENDS Naturals

CONSTANT MaxRuns   \* how many run ids are ever allocated

RunId == 1..MaxRuns

\* StopReason; "none" is Option::None.
Reason == {"none", "TargetExited", "TimeLimit", "UserStop", "RecorderError"}

VARIABLES phase, reason

vars == <<phase, reason>>

TypeOK ==
  /\ phase \in [RunId -> {"unborn", "recording", "stopped", "archived"}]
  /\ reason \in [RunId -> Reason]

Init ==
  /\ phase = [r \in RunId |-> "unborn"]
  /\ reason = [r \in RunId |-> "none"]

\* "The server hosts one run at a time."
Start(r) ==
  /\ phase[r] = "unborn"
  /\ \A q \in RunId : phase[q] \notin {"recording", "stopped"}
  /\ phase' = [phase EXCEPT ![r] = "recording"]
  /\ UNCHANGED reason

Stop(r) ==
  /\ phase[r] \in {"recording", "stopped"}
  /\ phase' = [phase EXCEPT ![r] = "stopped"]
  /\ reason' = [reason EXCEPT ![r] = "UserStop"]

\* A run stopped by its user is archived as it is.
Archive(r) ==
  /\ phase[r] = "stopped"
  /\ phase' = [phase EXCEPT ![r] = "archived"]
  /\ UNCHANGED reason

\* A recording run ends on its own: its shade exited or its drainer was
\* cancelled.
Finish(r, why) ==
  /\ phase[r] = "recording"
  /\ phase' = [phase EXCEPT ![r] = "archived"]
  /\ reason' = [reason EXCEPT ![r] = why]

\* The shade could not be started.  This wins over a user's stop.
Discard(r) ==
  /\ phase[r] \in {"recording", "stopped"}
  /\ phase' = [phase EXCEPT ![r] = "archived"]
  /\ reason' = [reason EXCEPT ![r] = "RecorderError"]

Next ==
  \E r \in RunId :
    \/ Start(r)
    \/ Stop(r)
    \/ Archive(r)
    \/ Discard(r)
    \/ \E why \in Reason \ {"none"} : Finish(r, why)

Spec == Init /\ [][Next]_vars
=============================================================================
