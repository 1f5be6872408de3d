----------------------------- MODULE WaitActive -----------------------------
(***************************************************************************)
(* RunControl::wait_active (stax-server/src/main.rs) next to the registry  *)
(* it polls.  Every 50 ms the handler copies Inner::active under the lock  *)
(* and looks at nothing else; it keeps neither the id of the run it was    *)
(* called for nor any record of having seen one.                           *)
(***************************************************************************)
EXTENDS RunRegistry

VARIABLES
  waiter,  \* whether a frontend waits: "idle" or "waiting"
  waitFor  \* history variable: the run that was active at the call

waitVars == <<waiter, waitFor>>
allVars  == <<vars, waitVars>>

WaitTypeOK == waiter \in {"idle", "waiting"} /\ waitFor \in OptRun

WaitInit == Init /\ waiter = "idle" /\ waitFor = None

\* Mutant: a run that is Stopped but still in the slot is waited on.
Turn_OnlyNone ==
  IF active.id = None THEN {"NoActiveRun"}
  ELSE {"waiting", "ConditionMet", "TimedOut"}

\* One turn of the loop.  Whether the condition is met or the timeout has
\* elapsed is left open (UntilStopped without a timeout never is).
Turn ==
  CASE active.id = None -> {"NoActiveRun"}
    [] active.id # None /\ active.state = "Stopped" -> {"Stopped"}
    [] OTHER -> {"waiting", "ConditionMet", "TimedOut"}

\* A turn that produces a WaitOutcome returns it; the frontend may call again.
TakeTurn(r) ==
  \E outcome \in Turn :
    IF outcome = "waiting"
    THEN waiter' = "waiting" /\ waitFor' = r
    ELSE waiter' = "idle" /\ waitFor' = None

\* The call runs the first turn.
WaitCall ==
  /\ waiter = "idle"
  /\ TakeTurn(active.id)
  /\ UNCHANGED vars

WaitPoll ==
  /\ waiter = "waiting"
  /\ TakeTurn(waitFor)
  /\ UNCHANGED vars

WaitNext ==
  \/ Next /\ UNCHANGED waitVars
  \/ WaitCall \/ WaitPoll

WaitSpec == WaitInit /\ [][WaitNext]_allVars

\* The timer of the loop keeps firing, so the loop notices an end that lasts.
\* Nothing is assumed of the caller's own condition.
FairWaitSpec ==
  /\ WaitSpec
  /\ Fairness
  /\ WF_allVars(WaitPoll /\ waiter' = "idle" /\ Turn \subseteq {"Stopped", "NoActiveRun"})

-----------------------------------------------------------------------------
\* A call that finds its run Stopped in the slot returns, whether or not the
\* run is archived before the next turn, as long as the slot does not pass to
\* another run between two turns.
ReturnsOnceStopped ==
  \A r \in RunId :
    (waiter = "waiting" /\ waitFor = r /\ active.id = r
       /\ active.state = "Stopped")
      ~> (waiter # "waiting" \/ active.id \notin {r, None})

\* WaitCondition: "`wait_active` always also returns once the run transitions
\* to `Stopped`".  The code does not keep it: a run begun between two turns
\* hides the stop of the last, and the call waits for the end of that one.
AlwaysReturnsOnceStopped ==
  \A r \in RunId :
    (waiter = "waiting" /\ waitFor = r /\ active.id = r
       /\ active.state = "Stopped")
      ~> (waiter # "waiting")
=============================================================================
