---------------------------- MODULE Subscription ----------------------------
(***************************************************************************)
(* How a subscription of the Profiler service follows the aggregator and   *)
(* the binary registry: every writer of the server writes a change under   *)
(* its lock and then moves the revision (stax-server/src/main.rs); each    *)
(* subscribe_* task looks at the revision on its timer and, if it has      *)
(* moved, builds a snapshot and sends it (stax-live/src/lib.rs).  What a   *)
(* change or a snapshot contains is LiveStore; here a snapshot is known by *)
(* the number of changes it shows.                                         *)
(***************************************************************************)
EXTENDS Naturals

CONSTANTS
  Writers,      \* tasks that apply events and calls
  Subscribers,
  MaxWrites     \* bound

ASSUME SubscriptionAssumption == MaxWrites \in Nat

VARIABLES
  written,      \* changes written so far
  owed,         \* writers between their write and bump_revision
  attaching,    \* begin_run calls that have still to attach the shared cache
  revision,
  task,         \* where each subscription is
  lastSeen,     \* last_seen, 0 for None: the revision starts at 1
  built,        \* the snapshot in hand
  sent,         \* the last one the client has
  left,         \* clients that have gone away (external)
  due           \* history: changes up to the last one that has, or is owed, a
                \* revision made after it

subscription == <<written, owed, attaching, revision, task, lastSeen, built,
                  sent, left, due>>

SubscriptionTypeOK ==
  /\ written \in Nat
  /\ owed \subseteq Writers
  /\ attaching \subseteq Writers
  /\ revision \in Nat \ {0}
  /\ task \in [Subscribers -> {"waiting", "building", "sending", "gone"}]
  /\ lastSeen \in [Subscribers -> Nat]
  /\ built \in [Subscribers -> Nat]
  /\ sent \in [Subscribers -> Nat]
  /\ left \subseteq Subscribers
  /\ due \in Nat

SubscriptionInit ==
  /\ written = 0
  /\ owed = {}
  /\ attaching = {}
  /\ revision = 1
  /\ task = [s \in Subscribers |-> "waiting"]
  /\ lastSeen = [s \in Subscribers |-> 0]
  /\ built = [s \in Subscribers |-> 0]
  /\ sent = [s \in Subscribers |-> 0]
  /\ left = {}
  /\ due = 0

-----------------------------------------------------------------------------
\* Mutant: the handler returns without moving the revision.
Write_NoBump(w) ==
  /\ w \notin attaching
  /\ written < MaxWrites
  /\ written' = written + 1
  /\ due' = written + 1
  /\ UNCHANGED <<owed, attaching, revision, task, lastSeen, built, sent, left>>

\* aggregator.write() or binaries.write(), released at the end of the statement.
Write(w) ==
  /\ w \notin attaching
  /\ written < MaxWrites
  /\ written' = written + 1
  /\ due' = written + 1
  /\ owed' = owed \cup {w}
  /\ UNCHANGED <<attaching, revision, task, lastSeen, built, sent, left>>

\* The second write of begin_run, the empty registry (the first, the empty
\* aggregator, is a Write).
ResetRegistry(w) ==
  /\ w \in owed \ attaching
  /\ written < MaxWrites
  /\ written' = written + 1
  /\ due' = written + 1
  /\ attaching' = attaching \cup {w}
  /\ UNCHANGED <<owed, revision, task, lastSeen, built, sent, left>>

BumpRevision(w) ==
  /\ w \in owed
  /\ owed' = owed \ {w}
  /\ revision' = revision + 1
  /\ due' = written
  /\ UNCHANGED <<written, attaching, task, lastSeen, built, sent, left>>

\* attach_local_shared_cache, after begin_run has moved the revision: the
\* registry changes once more and no revision follows.
AttachCache(w) ==
  /\ w \in attaching \ owed
  /\ written < MaxWrites
  /\ written' = written + 1
  /\ attaching' = attaching \ {w}
  /\ UNCHANGED <<owed, revision, task, lastSeen, built, sent, left, due>>

\* The host has no shared cache.
NoCache(w) ==
  /\ w \in attaching \ owed
  /\ attaching' = attaching \ {w}
  /\ UNCHANGED <<written, owed, revision, task, lastSeen, built, sent, left,
                 due>>

\* should_publish_revision, when the timer ticks.
ShouldPublish(s) ==
  /\ task[s] = "waiting"
  /\ lastSeen[s] # revision
  /\ lastSeen' = [lastSeen EXCEPT ![s] = revision]
  /\ task' = [task EXCEPT ![s] = "building"]
  /\ UNCHANGED <<written, owed, attaching, revision, built, sent, left, due>>

Build(s) ==
  /\ task[s] = "building"
  /\ built' = [built EXCEPT ![s] = written]
  /\ task' = [task EXCEPT ![s] = "sending"]
  /\ UNCHANGED <<written, owed, attaching, revision, lastSeen, sent, left, due>>

\* Mutant: the task notes the revision once the snapshot is out.
Send_NotesRevision(s) ==
  /\ task[s] = "sending" /\ s \notin left
  /\ sent' = [sent EXCEPT ![s] = built[s]]
  /\ task' = [task EXCEPT ![s] = "waiting"]
  /\ lastSeen' = [lastSeen EXCEPT ![s] = revision]
  /\ UNCHANGED <<written, owed, attaching, revision, built, left, due>>

Send(s) ==
  /\ task[s] = "sending" /\ s \notin left
  /\ sent' = [sent EXCEPT ![s] = built[s]]
  /\ task' = [task EXCEPT ![s] = "waiting"]
  /\ UNCHANGED <<written, owed, attaching, revision, lastSeen, built, left, due>>

\* Mutant: a failed send is only logged.
SendFails_Continues(s) ==
  /\ task[s] = "sending" /\ s \in left
  /\ task' = [task EXCEPT ![s] = "waiting"]
  /\ UNCHANGED <<written, owed, attaching, revision, lastSeen, built, sent,
                 left, due>>

SendFails(s) ==
  /\ task[s] = "sending" /\ s \in left
  /\ task' = [task EXCEPT ![s] = "gone"]
  /\ UNCHANGED <<written, owed, attaching, revision, lastSeen, built, sent,
                 left, due>>

ClientLeaves(s) ==
  /\ s \notin left
  /\ left' = left \cup {s}
  /\ UNCHANGED <<written, owed, attaching, revision, task, lastSeen, built, sent,
                 due>>

SubscriptionNext ==
  \/ \E w \in Writers :
       \/ Write(w) \/ ResetRegistry(w) \/ BumpRevision(w)
       \/ AttachCache(w) \/ NoCache(w)
  \/ \E s \in Subscribers :
       \/ ShouldPublish(s) \/ Build(s) \/ Send(s) \/ SendFails(s)
       \/ ClientLeaves(s)

SubscriptionSpec == SubscriptionInit /\ [][SubscriptionNext]_subscription

\* Tasks of the runtime go on and the timer ticks.  Of a client it is assumed
\* that it reads what it is sent, or leaves.
FairSubscriptionSpec ==
  /\ SubscriptionSpec
  /\ \A w \in Writers : WF_subscription(BumpRevision(w))
  /\ \A s \in Subscribers :
       WF_subscription(ShouldPublish(s) \/ Build(s) \/ Send(s) \/ SendFails(s))

-----------------------------------------------------------------------------
(* should_publish_revision notes the revision before the snapshot is       *)
(* built, and bump_revision comes after the write: a subscription that     *)
(* skips its tick because the revision is the one it has seen has sent     *)
(* every change but those whose revision is still to come, and those after *)
(* the last one that gets a revision.                                      *)
SkippedMeansCurrent ==
  \A s \in Subscribers :
    task[s] = "waiting" /\ lastSeen[s] = revision /\ owed = {} => sent[s] >= due

(* A snapshot never takes back what an earlier one has shown, although     *)
(* the lock is released between two of them.                               *)
SnapshotsAdvance == [][\A s \in Subscribers : sent[s] <= sent'[s]]_sent

(* Every change that is followed by a revision, its own or a later one,    *)
(* reaches the client of every subscription, or the client has left.       *)
ChangesReachClients ==
  \A s \in Subscribers : \A n \in 1..MaxWrites :
    due >= n ~> sent[s] >= n \/ s \in left

(* The task of a client that has left ends with the next change; until     *)
(* then it has nothing to send and cannot notice.                          *)
LeftTasksEnd ==
  \A s \in Subscribers :
    s \in left /\ lastSeen[s] # revision ~> task[s] = "gone"

-----------------------------------------------------------------------------
(* What the repository says of the revision and the code does not keep:    *)
(* it is "bumped by stax-server when the aggregator or binary registry     *)
(* changes", so that a tick without a new revision has nothing to send.    *)
(* The shared cache begin_run attaches after its bump stays unseen by a    *)
(* subscription that built its snapshot in between, until something else   *)
(* moves the revision.                                                     *)
SkippedHidesNothing ==
  \A s \in Subscribers :
    /\ task[s] = "waiting" /\ lastSeen[s] = revision
    /\ owed = {} /\ attaching = {}
    => sent[s] = written
=============================================================================
