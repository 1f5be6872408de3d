---------------------------- MODULE StaxdDaemon -----------------------------
(***************************************************************************)
(* The session slot of staxd (staxd/src/main.rs: record, stop_recording)   *)
(* and what each session does to the one kperf/kdebug of the machine       *)
(* (staxd/src/session.rs: run, setup_kperf, setup_kdebug, teardown).       *)
(* Calls run on a multi-threaded runtime; the slot's mutex is held only    *)
(* to claim, clone or clear the slot.  The calls of one phase are made     *)
(* back to back by the session that holds the slot and are one action.     *)
(* What happens between setup and teardown is StaxdDrain; here it ends     *)
(* when the session's cancel flag is set or a read fails.                  *)
(***************************************************************************)
EXTENDS Naturals, FiniteSets

CONSTANTS
  Sessions,   \* calls of record
  Stops,      \* calls of stop_recording in progress
  None        \* Option::None

ASSUME DaemonAssumption == None \notin Sessions

VARIABLES
  slot,       \* StaxdServer::session, by the call that claimed it
  pc,         \* where each record call is
  cancelled,  \* SessionInfo::cancel of each session
  target,     \* the session a stop call has cloned out of the slot
  gone,       \* sessions whose client has closed its channel
  kernel      \* which session switched on each facility of the kernel

daemonVars == <<slot, pc, cancelled, target, gone, kernel>>

Facility == {"counting", "pet", "sampling", "tracing"}
Quiet    == [f \in Facility |-> None]
Owner    == Sessions \cup {None}

\* The phases in which a call holds the slot.
Holding == {"gate", "wipe", "kperf", "kdebug", "drain", "teardown", "release"}

DaemonTypeOK ==
  /\ slot \in Owner
  /\ pc \in [Sessions -> Holding \cup {"called", "returned"}]
  /\ cancelled \in [Sessions -> BOOLEAN]
  /\ target \in [Stops -> Owner]
  /\ gone \subseteq Sessions
  /\ kernel \in [Facility -> Owner]

DaemonInit ==
  /\ slot = None
  /\ pc = [s \in Sessions |-> "called"]
  /\ cancelled = [s \in Sessions |-> FALSE]
  /\ target = [k \in Stops |-> None]
  /\ gone = {}
  /\ kernel = Quiet

Goto(s, label) == pc' = [pc EXCEPT ![s] = label]

\* Mutant: the other facilities are forgotten.
SwitchOn_Only(s, fs) == [f \in fs |-> s]

\* kernel after session s has switched on the facilities fs.
SwitchOn(s, fs) == [f \in Facility |-> IF f \in fs THEN s ELSE kernel[f]]

-----------------------------------------------------------------------------
(* record *)

\* Mutant: the slot is taken whoever holds it.
Claim_Unchecked(s) ==
  /\ pc[s] = "called"
  /\ slot' = s /\ Goto(s, "gate")
  /\ UNCHANGED <<cancelled, target, gone, kernel>>

\* Claim the slot, or answer Busy.
Claim(s) ==
  /\ pc[s] = "called"
  /\ IF slot = None THEN slot' = s /\ Goto(s, "gate")
                    ELSE UNCHANGED slot /\ Goto(s, "returned")
  /\ UNCHANGED <<cancelled, target, gone, kernel>>

\* run: the frameworks load and the daemon is root, or the call fails.
Gate(s) ==
  /\ pc[s] = "gate"
  /\ Goto(s, "wipe") \/ Goto(s, "release")
  /\ UNCHANGED <<slot, cancelled, target, gone, kernel>>

\* Mutant: only kdebug is wiped.
Wipe_KdebugOnly(s) ==
  /\ pc[s] = "wipe"
  /\ kernel' = [kernel EXCEPT !["tracing"] = None]
  /\ Goto(s, "kperf")
  /\ UNCHANGED <<slot, cancelled, target, gone>>

\* Wipe what a half-finished session left behind.  The counters keep running.
Wipe(s) ==
  /\ pc[s] = "wipe"
  /\ kernel' = SwitchOn(None, {"pet", "sampling", "tracing"})
  /\ Goto(s, "kperf")
  /\ UNCHANGED <<slot, cancelled, target, gone>>

\* setup_kperf: its calls take effect one by one until one fails, and a
\* failure returns from run without teardown.
SetupKperf(s) ==
  /\ pc[s] = "kperf"
  /\ \/ /\ \E on \in {{}, {"counting"}, {"counting", "pet"}} :
             kernel' = SwitchOn(s, on)
        /\ Goto(s, "release")
     \/ /\ kernel' = SwitchOn(s, {"counting", "pet", "sampling"})
        /\ Goto(s, "kdebug")
  /\ UNCHANGED <<slot, cancelled, target, gone>>

\* Mutant: draining starts with a cleared flag.
SetupKdebug_ClearsCancel(s) ==
  /\ pc[s] = "kdebug"
  /\ \/ kernel' = SwitchOn(s, {"tracing"}) /\ Goto(s, "drain")
     \/ UNCHANGED kernel /\ Goto(s, "release")
  /\ cancelled' = [cancelled EXCEPT ![s] = FALSE]
  /\ UNCHANGED <<slot, target, gone>>

\* setup_kdebug: enabling is its last call.
SetupKdebug(s) ==
  /\ pc[s] = "kdebug"
  /\ \/ kernel' = SwitchOn(s, {"tracing"}) /\ Goto(s, "drain")
     \/ UNCHANGED kernel /\ Goto(s, "release")
  /\ UNCHANGED <<slot, cancelled, target, gone>>

\* Mutant: the slot is released before the teardown.
Drained_ReleasesSlot(s) ==
  /\ pc[s] = "drain" /\ cancelled[s]
  /\ Goto(s, "teardown")
  /\ slot' = None
  /\ UNCHANGED <<cancelled, target, gone, kernel>>

\* drain returned: the session was cancelled.
Drained(s) ==
  /\ pc[s] = "drain" /\ cancelled[s]
  /\ Goto(s, "teardown")
  /\ UNCHANGED <<slot, cancelled, target, gone, kernel>>

\* drain returned: a read failed.
DrainFails(s) ==
  /\ pc[s] = "drain"
  /\ Goto(s, "teardown")
  /\ UNCHANGED <<slot, cancelled, target, gone, kernel>>

\* teardown runs every step whatever the others return.
Teardown(s) ==
  /\ pc[s] = "teardown"
  /\ kernel' = Quiet
  /\ Goto(s, "release")
  /\ UNCHANGED <<slot, cancelled, target, gone>>

\* "Always release the slot."
Release(s) ==
  /\ pc[s] = "release"
  /\ slot' = None
  /\ Goto(s, "returned")
  /\ UNCHANGED <<cancelled, target, gone, kernel>>

-----------------------------------------------------------------------------
(* The session's client and stop_recording. *)

SessionClientCloses(s) ==
  /\ s \notin gone /\ pc[s] # "returned"
  /\ gone' = gone \cup {s}
  /\ UNCHANGED <<slot, pc, cancelled, target, kernel>>

\* send_batches failed (StaxdDrain shows that it does when the client is
\* gone).
SenderFails(s) ==
  /\ pc[s] = "drain" /\ s \in gone
  /\ cancelled' = [cancelled EXCEPT ![s] = TRUE]
  /\ UNCHANGED <<slot, pc, target, gone, kernel>>

\* stop_recording, under the lock: clone the session, or return false.
StopClones(k) ==
  /\ target[k] = None /\ slot # None
  /\ target' = [target EXCEPT ![k] = slot]
  /\ UNCHANGED <<slot, pc, cancelled, gone, kernel>>

\* Mutant: the flag of whichever session holds the slot now is set.
StopStores_Current(k) ==
  /\ target[k] # None
  /\ cancelled' = [s \in Sessions |-> cancelled[s] \/ s = slot]
  /\ target' = [target EXCEPT ![k] = None]
  /\ UNCHANGED <<slot, pc, gone, kernel>>

\* stop_recording, after the unlock: set the flag of the cloned session.
StopStores(k) ==
  /\ target[k] # None
  /\ cancelled' = [cancelled EXCEPT ![target[k]] = TRUE]
  /\ target' = [target EXCEPT ![k] = None]
  /\ UNCHANGED <<slot, pc, gone, kernel>>

-----------------------------------------------------------------------------
SessionStep(s) ==
  \/ Gate(s) \/ Wipe(s) \/ SetupKperf(s) \/ SetupKdebug(s)
  \/ Drained(s) \/ Teardown(s) \/ Release(s)

DaemonNext ==
  \/ \E s \in Sessions :
       Claim(s) \/ SessionStep(s) \/ DrainFails(s) \/ SessionClientCloses(s)
       \/ SenderFails(s)
  \/ \E k \in Stops : StopClones(k) \/ StopStores(k)

DaemonSpec == DaemonInit /\ [][DaemonNext]_daemonVars

\* A call that holds the slot runs on; the sender of a session whose client
\* is gone fails while it drains.
DaemonFairness == \A s \in Sessions : WF_daemonVars(SessionStep(s)) /\ WF_daemonVars(SenderFails(s))

FairDaemon == DaemonSpec /\ DaemonFairness

-----------------------------------------------------------------------------
(* Safety *)

\* kperf has one owner: only the call that holds the slot is between its
\* claim and its release, teardown included, although the mutex is not held
\* there.
OneOwner == \A s \in Sessions : pc[s] \in Holding <=> slot = s

\* While a session drains, every facility runs on its behalf: no other
\* session's wipe or teardown switches off what it set up.
DrainingMeansTracing ==
  \A s \in Sessions :
    pc[s] = "drain" => kernel = SwitchOn(s, Facility)

\* A session sets kperf up from a clean state, however the last one ended.
SetupStartsClean ==
  \A s \in Sessions :
    pc[s] = "kperf" => \A f \in Facility \ {"counting"} : kernel[f] = None

\* A stop never cancels a session that began after it read the slot.
StopCancelsWhatItSaw ==
  [][\A s \in Sessions :
       ~cancelled[s] /\ cancelled'[s] => s \in gone \/ \E k \in Stops : target[k] = s]_daemonVars

-----------------------------------------------------------------------------
(* Liveness *)

\* The slot is freed once its session is stopped, whatever phase the stop
\* finds it in, or its client is gone.
SlotFreed ==
  \A s \in Sessions :
    (slot = s /\ (cancelled[s] \/ s \in gone)) ~> (slot # s)

-----------------------------------------------------------------------------
(* What the repository says and the code does not keep. *)

\* record: "The session driver tore down kperf+ kdebug on its own when it
\* returned".  A setup that fails half-way returns without teardown.
FreeSlotMeansQuiet == slot = None => kernel = Quiet
=============================================================================
