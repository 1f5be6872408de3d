------------------------- MODULE RunRegistryProofs --------------------------
(***************************************************************************)
(* Proofs about RunRegistry, for every number of runs, events and clients: *)
(* its types and how its records relate, that it implements RunLifecycle,  *)
(* and then that its history is true: no run is lost, the reason of its    *)
(* end follows the end of its own shade, the aggregator holds no event     *)
(* that the summary has not counted, and a live shade keeps its            *)
(* registration.                                                           *)
(***************************************************************************)
EXTENDS RunRegistry, TLAPS

-----------------------------------------------------------------------------
(* Type correctness.  It is not inductive alone: the drainer counts its     *)
(* batch down, so an event in hand must mean that the count is not zero,    *)
(* and a handler parks a terminal under the id it has allocated, so it must *)
(* have allocated one.                                                      *)

EventInHand == \A r \in RunId : drainer[r] \in {"apply", "write"} => batch[r] # 0

RunAllocated ==
  \A c \in Clients :
    pc[c] \in {"claim", "reset", "open", "spawn", "record"} => run[c] \in RunId

TypeInv == TypeOK /\ EventInHand /\ RunAllocated

\* NoActive and a run that starts to record are summaries.
LEMMA SummaryConstants ==
  /\ NoActive \in Summary
  /\ \A r \in RunId : Recording(r) \in Summary
  BY RegistryAssumption DEF NoActive, Recording, Summary, OptRun, RunId, None, Reason

\* Changing the fields the code assigns keeps a summary a summary.
LEMMA SummaryUpdates ==
  ASSUME NEW s \in Summary
  PROVE  /\ \A why \in Reason :
              [s EXCEPT !.state = "Stopped", !.reason = why] \in Summary
         /\ [s EXCEPT !.samples = @ + 1] \in Summary
         /\ s.id \in OptRun
<1>1. ASSUME NEW why \in Reason
      PROVE  [s EXCEPT !.state = "Stopped", !.reason = why] \in Summary
  BY DEF Summary
<1>2. [s EXCEPT !.samples = @ + 1] \in Summary
  BY DEF Summary
<1>3. s.id \in OptRun
  BY DEF Summary
<1> QED BY <1>1, <1>2, <1>3

LEMMA ReleaseSlotType ==
  ASSUME ReleaseSlot
  PROVE  active' \in Summary /\ cancel' \in OptRun /\ activeShade' \in OptRun
  BY SummaryConstants DEF ReleaseSlot, OptRun

LEMMA FinalizeRunType ==
  ASSUME TypeOK, NEW r \in RunId, NEW why \in Reason, FinalizeRun(r, why)
  PROVE  /\ active' \in Summary /\ cancel' \in OptRun
         /\ activeShade' \in OptRun /\ shadeChild' \in OptRun
         /\ history' \in Seq(Summary)
         /\ pending' \in SUBSET RunId
<1>1. pending' \in SUBSET RunId
  BY DEF FinalizeRun, TypeOK, ServerTypeOK
<1>2. CASE active.id = r
  <2>1. [active EXCEPT !.state = "Stopped", !.reason = why] \in Summary
    BY SummaryUpdates DEF TypeOK, InnerTypeOK
  <2> QED
    BY <1>1, <1>2, <2>1, ReleaseSlotType DEF FinalizeRun, TypeOK, InnerTypeOK
<1>3. CASE active.id # r
  BY <1>1, <1>3 DEF FinalizeRun, TypeOK, InnerTypeOK
<1> QED BY <1>2, <1>3

LEMMA TakeHandleType ==
  ASSUME TypeOK, NEW p, TakeHandle(p)
  PROVE  handle' \in [RunId -> {"none", "held", "taken", "gone"}]
  BY DEF TakeHandle, TypeOK, ShadesTypeOK

LEMMA InitType == Init => TypeInv
  BY RegistryAssumption, SummaryConstants
  DEF Init, TypeInv, TypeOK, InnerTypeOK, ServerTypeOK, CallersTypeOK, ShadesTypeOK,
      TasksTypeOK, EventInHand, RunAllocated, RunId, OptRun, None, PC, How

LEMMA NextType == TypeInv /\ [Next]_vars => TypeInv'
<1> SUFFICES ASSUME TypeInv, [Next]_vars PROVE TypeInv'
  OBVIOUS
<1> USE DEF TypeInv, TypeOK
<1>1. ASSUME NEW c \in Clients, NEW k \in Starts, BeginRun(c, k) PROVE TypeInv'
  <2>1. InnerTypeOK'
    <3>1. CASE active.id # None /\ active.state = "Stopped"
      <4>1. history' \in Seq(Summary)
        BY <1>1, <3>1 DEF BeginRun, InnerTypeOK
      <4>2. ReleaseSlot /\ shadeChild' = None
        BY <1>1, <3>1 DEF BeginRun, TakeShadeChild
      <4> QED BY <4>1, <4>2, ReleaseSlotType DEF InnerTypeOK, OptRun
    <3>2. CASE ~(active.id # None /\ active.state = "Stopped")
      BY <1>1, <3>2 DEF BeginRun, InnerTypeOK, inner
    <3> QED BY <3>1, <3>2
  <2>2. CallersTypeOK'
    BY <1>1 DEF BeginRun, CallersTypeOK, Goto, PC, How, InnerTypeOK
  <2>3. ShadesTypeOK'
    BY <1>1, TakeHandleType DEF BeginRun, ShadesTypeOK, TakeShadeChild, TypeOK
  <2>4. RunAllocated'
    BY <1>1 DEF BeginRun, RunAllocated, CallersTypeOK, Goto
  <2>5. ServerTypeOK' /\ TasksTypeOK' /\ EventInHand'
    BY <1>1 DEF BeginRun, ServerTypeOK, TasksTypeOK, EventInHand, ingest
  <2> QED BY <2>1, <2>2, <2>3, <2>4, <2>5
<1>2. ASSUME NEW c \in Clients, AllocRunId(c) PROVE TypeInv'
  <2>1. ServerTypeOK'
    BY <1>2, RegistryAssumption DEF AllocRunId, ServerTypeOK
  <2>2. CallersTypeOK'
    BY <1>2, RegistryAssumption
    DEF AllocRunId, CallersTypeOK, ServerTypeOK, Goto, PC, OptRun, RunId, None
  <2>3. RunAllocated'
    BY <1>2, RegistryAssumption
    DEF AllocRunId, RunAllocated, CallersTypeOK, ServerTypeOK, Goto, RunId
  <2>4. InnerTypeOK' /\ ShadesTypeOK' /\ TasksTypeOK' /\ EventInHand'
    BY <1>2
    DEF AllocRunId, InnerTypeOK, ShadesTypeOK, TasksTypeOK, EventInHand,
        inner, shades, ingest
  <2> QED BY <2>1, <2>2, <2>3, <2>4
<1>3. ASSUME NEW c \in Clients, ClaimSlot(c) PROVE TypeInv'
  <2>1. InnerTypeOK'
    BY <1>3, SummaryConstants
    DEF ClaimSlot, InnerTypeOK, RunAllocated, inner, OptRun
  <2>2. CallersTypeOK'
    BY <1>3 DEF ClaimSlot, CallersTypeOK, Return, Goto, PC, How, OptRun
  <2>3. RunAllocated'
    BY <1>3 DEF ClaimSlot, RunAllocated, CallersTypeOK, Return, Goto
  <2>4. ServerTypeOK' /\ ShadesTypeOK' /\ TasksTypeOK' /\ EventInHand'
    BY <1>3
    DEF ClaimSlot, ServerTypeOK, ShadesTypeOK, TasksTypeOK, EventInHand,
        shades, ingest
  <2> QED BY <2>1, <2>2, <2>3, <2>4
<1>4. ASSUME NEW c \in Clients, ResetAggregator(c) PROVE TypeInv'
  <2>1. ServerTypeOK'
    BY <1>4 DEF ResetAggregator, ServerTypeOK
  <2>2. CallersTypeOK'
    BY <1>4 DEF ResetAggregator, CallersTypeOK, Goto, PC
  <2>3. RunAllocated'
    BY <1>4 DEF ResetAggregator, RunAllocated, CallersTypeOK, Goto
  <2>4. InnerTypeOK' /\ ShadesTypeOK' /\ TasksTypeOK' /\ EventInHand'
    BY <1>4
    DEF ResetAggregator, InnerTypeOK, ShadesTypeOK, TasksTypeOK, EventInHand,
        inner, shades, ingest
  <2> QED BY <2>1, <2>2, <2>3, <2>4
<1>5. ASSUME NEW c \in Clients, OpenIngest(c) PROVE TypeInv'
  <2>1. CallersTypeOK'
    BY <1>5 DEF OpenIngest, CallersTypeOK, Return, Goto, PC, How, OptRun
  <2>2. TasksTypeOK'
    BY <1>5 DEF OpenIngest, TasksTypeOK
  <2>3. EventInHand'
    BY <1>5 DEF OpenIngest, EventInHand, TasksTypeOK
  <2>4. RunAllocated'
    BY <1>5 DEF OpenIngest, RunAllocated, CallersTypeOK, Return, Goto
  <2>5. InnerTypeOK' /\ ServerTypeOK' /\ ShadesTypeOK'
    BY <1>5
    DEF OpenIngest, InnerTypeOK, ServerTypeOK, ShadesTypeOK, inner, shades
  <2> QED BY <2>1, <2>2, <2>3, <2>4, <2>5
<1>6. ASSUME NEW c \in Clients, OpenTerminal(c) PROVE TypeInv'
  <2>1. ServerTypeOK'
    BY <1>6 DEF OpenTerminal, ServerTypeOK, RunAllocated
  <2>2. CallersTypeOK'
    BY <1>6 DEF OpenTerminal, CallersTypeOK, Goto, PC
  <2>3. RunAllocated'
    BY <1>6 DEF OpenTerminal, RunAllocated, CallersTypeOK, Goto
  <2>4. InnerTypeOK' /\ ShadesTypeOK' /\ TasksTypeOK' /\ EventInHand'
    BY <1>6
    DEF OpenTerminal, InnerTypeOK, ShadesTypeOK, TasksTypeOK, EventInHand,
        inner, shades, ingest
  <2> QED BY <2>1, <2>2, <2>3, <2>4
<1>7. ASSUME NEW c \in Clients, SpawnShade(c) PROVE TypeInv'
  <2>1. CallersTypeOK'
    BY <1>7 DEF SpawnShade, CallersTypeOK, Goto, PC
  <2>2. ShadesTypeOK'
    BY <1>7 DEF SpawnShade, ShadesTypeOK
  <2>3. RunAllocated'
    BY <1>7 DEF SpawnShade, RunAllocated, CallersTypeOK, Goto
  <2>4. InnerTypeOK' /\ ServerTypeOK' /\ TasksTypeOK' /\ EventInHand'
    BY <1>7
    DEF SpawnShade, InnerTypeOK, ServerTypeOK, TasksTypeOK, EventInHand,
        inner, ingest
  <2> QED BY <2>1, <2>2, <2>3, <2>4
<1>8. ASSUME NEW c \in Clients, RecordShadeChild(c) PROVE TypeInv'
  <2>1. InnerTypeOK'
    BY <1>8 DEF RecordShadeChild, InnerTypeOK, CallersTypeOK
  <2>2. CallersTypeOK'
    BY <1>8 DEF RecordShadeChild, CallersTypeOK, Return, Goto, PC, How, OptRun
  <2>3. ShadesTypeOK'
    BY <1>8 DEF RecordShadeChild, ShadesTypeOK
  <2>4. TasksTypeOK'
    BY <1>8 DEF RecordShadeChild, TasksTypeOK, ingest
  <2>5. EventInHand'
    BY <1>8 DEF RecordShadeChild, EventInHand, ingest
  <2>6. RunAllocated'
    BY <1>8 DEF RecordShadeChild, RunAllocated, CallersTypeOK, Return, Goto
  <2>7. ServerTypeOK'
    BY <1>8 DEF RecordShadeChild, ServerTypeOK
  <2> QED BY <2>1, <2>2, <2>3, <2>4, <2>5, <2>6, <2>7
<1>9. ASSUME NEW c \in Clients, DiscardStartFailed(c) PROVE TypeInv'
  <2>1. InnerTypeOK'
    <3>1. CASE active.id = run[c]
      <4>1. [active EXCEPT !.state = "Stopped", !.reason = "RecorderError"]
              \in Summary
        BY SummaryUpdates DEF InnerTypeOK, Reason
      <4>2. history' \in Seq(Summary)
        BY <1>9, <3>1, <4>1 DEF DiscardStartFailed, InnerTypeOK
      <4>3. ReleaseSlot /\ shadeChild' = None
        BY <1>9, <3>1 DEF DiscardStartFailed
      <4> QED BY <4>2, <4>3, ReleaseSlotType DEF InnerTypeOK, OptRun
    <3>2. CASE active.id # run[c]
      BY <1>9, <3>2 DEF DiscardStartFailed, InnerTypeOK, inner
    <3> QED BY <3>1, <3>2
  <2>2. ServerTypeOK'
    BY <1>9 DEF DiscardStartFailed, ServerTypeOK
  <2>3. CallersTypeOK'
    BY <1>9
    DEF DiscardStartFailed, CallersTypeOK, Return, Goto, PC, How, OptRun
  <2>4. RunAllocated'
    BY <1>9 DEF DiscardStartFailed, RunAllocated, CallersTypeOK, Return, Goto
  <2>5. ShadesTypeOK' /\ TasksTypeOK' /\ EventInHand'
    BY <1>9
    DEF DiscardStartFailed, ShadesTypeOK, TasksTypeOK, EventInHand, shades,
        ingest
  <2> QED BY <2>1, <2>2, <2>3, <2>4, <2>5
<1>10. ASSUME NEW c \in Clients, StopActive(c) PROVE TypeInv'
  <2>1. InnerTypeOK'
    BY <1>10, SummaryUpdates DEF StopActive, InnerTypeOK, OptRun, Reason
  <2>2. CallersTypeOK'
    BY <1>10 DEF StopActive, CallersTypeOK, InnerTypeOK, Goto, PC, How
  <2>3. RunAllocated'
    BY <1>10 DEF StopActive, RunAllocated, CallersTypeOK, Goto
  <2>4. ServerTypeOK' /\ ShadesTypeOK' /\ TasksTypeOK' /\ EventInHand'
    BY <1>10
    DEF StopActive, ServerTypeOK, ShadesTypeOK, TasksTypeOK, EventInHand,
        shades, ingest
  <2> QED BY <2>1, <2>2, <2>3, <2>4
<1>11. ASSUME NEW c \in Clients, NotifyDrainer(c) PROVE TypeInv'
  <2>1. CallersTypeOK'
    BY <1>11 DEF NotifyDrainer, CallersTypeOK, Goto, PC
  <2>2. TasksTypeOK'
    BY <1>11 DEF NotifyDrainer, TasksTypeOK
  <2>3. EventInHand'
    BY <1>11 DEF NotifyDrainer, EventInHand, TasksTypeOK
  <2>4. RunAllocated'
    BY <1>11 DEF NotifyDrainer, RunAllocated, CallersTypeOK, Goto
  <2>5. InnerTypeOK' /\ ServerTypeOK' /\ ShadesTypeOK'
    BY <1>11
    DEF NotifyDrainer, InnerTypeOK, ServerTypeOK, ShadesTypeOK, inner, shades
  <2> QED BY <2>1, <2>2, <2>3, <2>4, <2>5
<1>12. ASSUME NEW c \in Clients, ReapShadeChild(c) PROVE TypeInv'
  <2>1. InnerTypeOK'
    BY <1>12 DEF ReapShadeChild, InnerTypeOK, TakeShadeChild, OptRun
  <2>2. CallersTypeOK'
    BY <1>12 DEF ReapShadeChild, CallersTypeOK, InnerTypeOK, Goto, PC
  <2>3. ShadesTypeOK'
    BY <1>12, TakeHandleType
    DEF ReapShadeChild, ShadesTypeOK, TakeShadeChild, TypeOK
  <2>4. RunAllocated'
    BY <1>12 DEF ReapShadeChild, RunAllocated, CallersTypeOK, Goto
  <2>5. ServerTypeOK' /\ TasksTypeOK' /\ EventInHand'
    BY <1>12
    DEF ReapShadeChild, ServerTypeOK, TasksTypeOK, EventInHand, ingest
  <2> QED BY <2>1, <2>2, <2>3, <2>4, <2>5
<1>13. ASSUME NEW c \in Clients, StopReturns(c) PROVE TypeInv'
  <2>1. CallersTypeOK'
    BY <1>13 DEF StopReturns, CallersTypeOK, Return, Goto, PC, How, OptRun
  <2>2. RunAllocated'
    BY <1>13 DEF StopReturns, RunAllocated, CallersTypeOK, Return, Goto
  <2>3. /\ InnerTypeOK' /\ ServerTypeOK' /\ ShadesTypeOK'
       /\ TasksTypeOK' /\ EventInHand'
    BY <1>13
    DEF StopReturns, InnerTypeOK, ServerTypeOK, ShadesTypeOK, TasksTypeOK,
        EventInHand, inner, shades, ingest
  <2> QED BY <2>1, <2>2, <2>3
<1>14. ASSUME NEW r \in RunId, ReapTakenShadeChild(r) PROVE TypeInv'
  <2>1. ShadesTypeOK'
    BY <1>14 DEF ReapTakenShadeChild, ShadesTypeOK
  <2>2. /\ InnerTypeOK' /\ ServerTypeOK' /\ CallersTypeOK'
       /\ TasksTypeOK' /\ EventInHand' /\ RunAllocated'
    BY <1>14
    DEF ReapTakenShadeChild, InnerTypeOK, ServerTypeOK, CallersTypeOK,
        TasksTypeOK, EventInHand, RunAllocated, inner, callers, ingest
  <2> QED BY <2>1, <2>2
<1>15. ASSUME NEW r \in RunId, NEW st \in Exits, ShadeExit(r, st) PROVE TypeInv'
  <2>1. ShadesTypeOK'
    BY <1>15, RegistryAssumption DEF ShadeExit, ShadesTypeOK
  <2>2. /\ InnerTypeOK' /\ ServerTypeOK' /\ CallersTypeOK'
       /\ TasksTypeOK' /\ EventInHand' /\ RunAllocated'
    BY <1>15
    DEF ShadeExit, InnerTypeOK, ServerTypeOK, CallersTypeOK, TasksTypeOK,
        EventInHand, RunAllocated, inner, callers, ingest
  <2> QED BY <2>1, <2>2
<1>16. ASSUME NEW r \in RunId, TryRegisterShade(r) PROVE TypeInv'
  <2>1. InnerTypeOK'
    BY <1>16 DEF TryRegisterShade, InnerTypeOK, OptRun
  <2>2. ShadesTypeOK'
    BY <1>16 DEF TryRegisterShade, ShadesTypeOK
  <2>3. /\ ServerTypeOK' /\ CallersTypeOK' /\ TasksTypeOK'
       /\ EventInHand' /\ RunAllocated'
    BY <1>16
    DEF TryRegisterShade, ServerTypeOK, CallersTypeOK, TasksTypeOK,
        EventInHand, RunAllocated, callers, ingest
  <2> QED BY <2>1, <2>2, <2>3
<1>17. ASSUME NEW r \in RunId, FillShadeSlot(r) PROVE TypeInv'
  <2>1. ShadesTypeOK'
    BY <1>17 DEF FillShadeSlot, ShadesTypeOK
  <2>2. /\ InnerTypeOK' /\ ServerTypeOK' /\ CallersTypeOK'
       /\ TasksTypeOK' /\ EventInHand' /\ RunAllocated'
    BY <1>17
    DEF FillShadeSlot, InnerTypeOK, ServerTypeOK, CallersTypeOK, TasksTypeOK,
        EventInHand, RunAllocated, inner, callers, ingest
  <2> QED BY <2>1, <2>2
<1>18. ASSUME NEW r \in RunId, SessionClosed(r) PROVE TypeInv'
  <2>1. InnerTypeOK'
    BY <1>18 DEF SessionClosed, InnerTypeOK, OptRun
  <2>2. ShadesTypeOK'
    BY <1>18 DEF SessionClosed, ShadesTypeOK
  <2>3. /\ ServerTypeOK' /\ CallersTypeOK' /\ TasksTypeOK'
       /\ EventInHand' /\ RunAllocated'
    BY <1>18
    DEF SessionClosed, ServerTypeOK, CallersTypeOK, TasksTypeOK, EventInHand,
        RunAllocated, callers, ingest
  <2> QED BY <2>1, <2>2, <2>3
<1>19. ASSUME NEW r \in RunId, AttachTerminal(r) PROVE TypeInv'
  <2>1. ServerTypeOK'
    BY <1>19 DEF AttachTerminal, ServerTypeOK
  <2>2. /\ InnerTypeOK' /\ CallersTypeOK' /\ ShadesTypeOK'
       /\ TasksTypeOK' /\ EventInHand' /\ RunAllocated'
    BY <1>19
    DEF AttachTerminal, InnerTypeOK, CallersTypeOK, ShadesTypeOK, TasksTypeOK,
        EventInHand, RunAllocated, inner, callers, shades, ingest
  <2> QED BY <2>1, <2>2
<1>20. ASSUME NEW r \in RunId, CancelForRun(r) PROVE TypeInv'
  <2>1. TasksTypeOK'
    BY <1>20 DEF CancelForRun, TasksTypeOK
  <2>2. EventInHand'
    BY <1>20 DEF CancelForRun, EventInHand, TasksTypeOK
  <2>3. /\ InnerTypeOK' /\ ServerTypeOK' /\ CallersTypeOK'
       /\ ShadesTypeOK' /\ RunAllocated'
    BY <1>20
    DEF CancelForRun, InnerTypeOK, ServerTypeOK, CallersTypeOK, ShadesTypeOK,
        RunAllocated, inner, callers, shades
  <2> QED BY <2>1, <2>2, <2>3
<1>21. ASSUME NEW r \in RunId, AttachIngest(r) PROVE TypeInv'
  <2>1. TasksTypeOK'
    BY <1>21 DEF AttachIngest, TasksTypeOK
  <2>2. EventInHand'
    BY <1>21 DEF AttachIngest, EventInHand, TasksTypeOK
  <2>3. /\ InnerTypeOK' /\ ServerTypeOK' /\ CallersTypeOK'
       /\ ShadesTypeOK' /\ RunAllocated'
    BY <1>21
    DEF AttachIngest, InnerTypeOK, ServerTypeOK, CallersTypeOK, ShadesTypeOK,
        RunAllocated, inner, callers, shades
  <2> QED BY <2>1, <2>2, <2>3
<1>22. ASSUME NEW r \in RunId, NEW n \in 1..MaxEvents, DrainerRecv(r, n) PROVE TypeInv'
  <2>1. TasksTypeOK'
    BY <1>22 DEF DrainerRecv, TasksTypeOK
  <2>2. EventInHand'
    BY <1>22 DEF DrainerRecv, EventInHand, TasksTypeOK
  <2>3. /\ InnerTypeOK' /\ ServerTypeOK' /\ CallersTypeOK'
       /\ ShadesTypeOK' /\ RunAllocated'
    BY <1>22
    DEF DrainerRecv, InnerTypeOK, ServerTypeOK, CallersTypeOK, ShadesTypeOK,
        RunAllocated, inner, callers, shades
  <2> QED BY <2>1, <2>2, <2>3
<1>23. ASSUME NEW r \in RunId, ApplyEvent(r) PROVE TypeInv'
  <2>1. InnerTypeOK'
    BY <1>23, SummaryUpdates DEF ApplyEvent, InnerTypeOK
  <2>2. TasksTypeOK'
    BY <1>23 DEF ApplyEvent, TasksTypeOK, EventInHand, NextEvent
  <2>3. EventInHand'
    BY <1>23 DEF ApplyEvent, EventInHand, TasksTypeOK, NextEvent
  <2>4. /\ ServerTypeOK' /\ CallersTypeOK'
       /\ ShadesTypeOK' /\ RunAllocated'
    BY <1>23
    DEF ApplyEvent, ServerTypeOK, CallersTypeOK, ShadesTypeOK, RunAllocated,
        callers, shades
  <2> QED BY <2>1, <2>2, <2>3, <2>4
<1>24. ASSUME NEW r \in RunId, WriteEvent(r) PROVE TypeInv'
  <2>1. ServerTypeOK'
    BY <1>24 DEF WriteEvent, ServerTypeOK
  <2>2. TasksTypeOK'
    BY <1>24 DEF WriteEvent, TasksTypeOK, EventInHand, NextEvent
  <2>3. EventInHand'
    BY <1>24 DEF WriteEvent, EventInHand, TasksTypeOK, NextEvent
  <2>4. InnerTypeOK' /\ CallersTypeOK' /\ ShadesTypeOK' /\ RunAllocated'
    BY <1>24
    DEF WriteEvent, InnerTypeOK, CallersTypeOK, ShadesTypeOK, RunAllocated,
        inner, callers, shades
  <2> QED BY <2>1, <2>2, <2>3, <2>4
<1>25. ASSUME NEW r \in RunId, DrainerClosed(r) PROVE TypeInv'
  <2>1. TasksTypeOK'
    BY <1>25 DEF DrainerClosed, TasksTypeOK
  <2>2. EventInHand'
    BY <1>25 DEF DrainerClosed, EventInHand, TasksTypeOK
  <2>3. /\ InnerTypeOK' /\ ServerTypeOK' /\ CallersTypeOK'
       /\ ShadesTypeOK' /\ RunAllocated'
    BY <1>25
    DEF DrainerClosed, InnerTypeOK, ServerTypeOK, CallersTypeOK, ShadesTypeOK,
        RunAllocated, inner, callers, shades
  <2> QED BY <2>1, <2>2, <2>3
<1>26. ASSUME NEW r \in RunId, DetachIngest(r) PROVE TypeInv'
  <2>1. TasksTypeOK'
    BY <1>26 DEF DetachIngest, TasksTypeOK
  <2>2. EventInHand'
    BY <1>26 DEF DetachIngest, EventInHand, TasksTypeOK
  <2>3. /\ InnerTypeOK' /\ ServerTypeOK' /\ CallersTypeOK'
       /\ ShadesTypeOK' /\ RunAllocated'
    BY <1>26
    DEF DetachIngest, InnerTypeOK, ServerTypeOK, CallersTypeOK, ShadesTypeOK,
        RunAllocated, inner, callers, shades
  <2> QED BY <2>1, <2>2, <2>3
<1>27. ASSUME NEW r \in RunId, DrainerFinalize(r) PROVE TypeInv'
  <2>1. InnerTypeOK'
    BY <1>27, FinalizeRunType DEF DrainerFinalize, InnerTypeOK, TypeOK, Reason
  <2>2. ServerTypeOK'
    BY <1>27, FinalizeRunType
    DEF DrainerFinalize, ServerTypeOK, TypeOK, Reason
  <2>3. TasksTypeOK'
    BY <1>27 DEF DrainerFinalize, TasksTypeOK, AfterFinalize
  <2>4. EventInHand'
    BY <1>27 DEF DrainerFinalize, EventInHand, TasksTypeOK, AfterFinalize
  <2>5. CallersTypeOK' /\ ShadesTypeOK' /\ RunAllocated'
    BY <1>27
    DEF DrainerFinalize, CallersTypeOK, ShadesTypeOK, RunAllocated, callers,
        shades
  <2> QED BY <2>1, <2>2, <2>3, <2>4, <2>5
<1>28. ASSUME NEW r \in RunId, DrainerReap(r) PROVE TypeInv'
  <2>1. InnerTypeOK'
    BY <1>28 DEF DrainerReap, InnerTypeOK, TakeShadeChild, OptRun
  <2>2. ShadesTypeOK'
    BY <1>28, TakeHandleType
    DEF DrainerReap, ShadesTypeOK, TakeShadeChild, TypeOK
  <2>3. TasksTypeOK'
    BY <1>28 DEF DrainerReap, TasksTypeOK
  <2>4. EventInHand'
    BY <1>28 DEF DrainerReap, EventInHand, TasksTypeOK
  <2>5. ServerTypeOK' /\ CallersTypeOK' /\ RunAllocated'
    BY <1>28
    DEF DrainerReap, ServerTypeOK, CallersTypeOK, RunAllocated, callers
  <2> QED BY <2>1, <2>2, <2>3, <2>4, <2>5
<1>29. ASSUME NEW r \in RunId, MonitorTick(r) PROVE TypeInv'
  <2>1. ShadesTypeOK'
    BY <1>29 DEF MonitorTick, ShadesTypeOK
  <2>2. TasksTypeOK'
    BY <1>29 DEF MonitorTick, TasksTypeOK, ingest
  <2>3. /\ InnerTypeOK' /\ ServerTypeOK' /\ CallersTypeOK'
       /\ EventInHand' /\ RunAllocated'
    BY <1>29
    DEF MonitorTick, InnerTypeOK, ServerTypeOK, CallersTypeOK, EventInHand,
        RunAllocated, inner, callers, ingest
  <2> QED BY <2>1, <2>2, <2>3
<1>30. ASSUME NEW r \in RunId, ShadeChildExited(r) PROVE TypeInv'
  <2>1. InnerTypeOK'
    BY <1>30 DEF ShadeChildExited, InnerTypeOK, OptRun
  <2>2. TasksTypeOK'
    BY <1>30 DEF ShadeChildExited, TasksTypeOK, ingest
  <2>3. /\ ServerTypeOK' /\ CallersTypeOK' /\ ShadesTypeOK'
       /\ EventInHand' /\ RunAllocated'
    BY <1>30
    DEF ShadeChildExited, ServerTypeOK, CallersTypeOK, ShadesTypeOK,
        EventInHand, RunAllocated, callers, shades, ingest
  <2> QED BY <2>1, <2>2, <2>3
<1>31. ASSUME NEW r \in RunId, MonitorFinalize(r) PROVE TypeInv'
  <2>1. InnerTypeOK'
    BY <1>31, FinalizeRunType DEF MonitorFinalize, InnerTypeOK, TypeOK, Reason
  <2>2. ServerTypeOK'
    BY <1>31, FinalizeRunType
    DEF MonitorFinalize, ServerTypeOK, TypeOK, Reason
  <2>3. TasksTypeOK'
    BY <1>31 DEF MonitorFinalize, TasksTypeOK, AfterFinalize, ingest
  <2>4. CallersTypeOK' /\ ShadesTypeOK' /\ EventInHand' /\ RunAllocated'
    BY <1>31
    DEF MonitorFinalize, CallersTypeOK, ShadesTypeOK, EventInHand,
        RunAllocated, callers, shades, ingest
  <2> QED BY <2>1, <2>2, <2>3, <2>4
<1>32. ASSUME NEW r \in RunId, MonitorReap(r) PROVE TypeInv'
  <2>1. InnerTypeOK'
    BY <1>32 DEF MonitorReap, InnerTypeOK, TakeShadeChild, OptRun
  <2>2. ShadesTypeOK'
    BY <1>32, TakeHandleType
    DEF MonitorReap, ShadesTypeOK, TakeShadeChild, TypeOK
  <2>3. TasksTypeOK'
    BY <1>32 DEF MonitorReap, TasksTypeOK, ingest
  <2>4. ServerTypeOK' /\ CallersTypeOK' /\ EventInHand' /\ RunAllocated'
    BY <1>32
    DEF MonitorReap, ServerTypeOK, CallersTypeOK, EventInHand, RunAllocated,
        callers, ingest
  <2> QED BY <2>1, <2>2, <2>3, <2>4
<1>33. ASSUME WatchdogRead PROVE TypeInv'
  <2>1. TasksTypeOK'
    BY <1>33 DEF WatchdogRead, TasksTypeOK, InnerTypeOK, ingest
  <2>2. /\ InnerTypeOK' /\ ServerTypeOK' /\ CallersTypeOK'
       /\ ShadesTypeOK' /\ EventInHand' /\ RunAllocated'
    BY <1>33
    DEF WatchdogRead, InnerTypeOK, ServerTypeOK, CallersTypeOK, ShadesTypeOK,
        EventInHand, RunAllocated, inner, callers, shades, ingest
  <2> QED BY <2>1, <2>2
<1>34. ASSUME WatchdogProbe PROVE TypeInv'
  <2>1. InnerTypeOK'
    BY <1>34 DEF WatchdogProbe, InnerTypeOK, OptRun
  <2>2. TasksTypeOK'
    BY <1>34 DEF WatchdogProbe, TasksTypeOK, OptRun, ingest
  <2>3. /\ ServerTypeOK' /\ CallersTypeOK' /\ ShadesTypeOK'
       /\ EventInHand' /\ RunAllocated'
    BY <1>34
    DEF WatchdogProbe, ServerTypeOK, CallersTypeOK, ShadesTypeOK, EventInHand,
        RunAllocated, callers, shades, ingest
  <2> QED BY <2>1, <2>2, <2>3
<1>35. CASE UNCHANGED vars
  BY <1>35
  DEF InnerTypeOK, ServerTypeOK, CallersTypeOK, ShadesTypeOK, TasksTypeOK,
      EventInHand, RunAllocated, vars, inner, callers, shades, ingest
<1>36. ASSUME NEW c \in Clients, StopNothing(c) PROVE TypeInv'
  BY <1>35, <1>36 DEF StopNothing
<1> QED
  BY <1>1, <1>2, <1>3, <1>4, <1>5, <1>6, <1>7, <1>8, <1>9, <1>10, <1>11,
     <1>12, <1>13, <1>14, <1>15, <1>16, <1>17, <1>18, <1>19, <1>20, <1>21,
     <1>22, <1>23, <1>24, <1>25, <1>26, <1>27, <1>28, <1>29, <1>30, <1>31,
     <1>32, <1>33, <1>34, <1>35, <1>36
  DEF Next, ClientCall, ClientStep, ShadeStep, TaskStep

\* TypeInv is an inductive invariant.
THEOREM TypeInvariant == Spec => []TypeInv
  BY InitType, NextType, PTL DEF Spec

\* Every reachable state is well-typed: in particular a drainer never counts
\* its batch below zero and no terminal is parked without a run.
THEOREM TypeCorrect == Spec => []TypeOK
  BY TypeInvariant, PTL DEF TypeInv

-----------------------------------------------------------------------------
(* The fields of Inner that belong to the active run.  Ten actions assign   *)
(* them; the inductive invariant is the two properties themselves, on well- *)
(* typed states.                                                            *)

SlotInv == CancelMatchesState /\ ShadeOfActiveRun

LEMMA ReleaseSlotInv ==
  ASSUME ReleaseSlot PROVE SlotInv'
  BY DEF ReleaseSlot, SlotInv, CancelMatchesState, ShadeOfActiveRun, NoActive, None

LEMMA InitSlot == Init => SlotInv
  BY DEF Init, SlotInv, CancelMatchesState, ShadeOfActiveRun, NoActive

LEMMA NextSlot == TypeOK /\ SlotInv /\ [Next]_vars => SlotInv'
<1> SUFFICES ASSUME TypeOK, SlotInv, [Next]_vars PROVE SlotInv'
  OBVIOUS
<1> USE DEF SlotInv, CancelMatchesState, ShadeOfActiveRun
<1>0. active \in Summary
  BY DEF TypeOK, InnerTypeOK
<1>1. ASSUME UNCHANGED <<active, cancel, activeShade>> PROVE SlotInv'
  BY <1>1
<1>2. ASSUME NEW c \in Clients, NEW k \in Starts, BeginRun(c, k) PROVE SlotInv'
  BY <1>1, <1>2, ReleaseSlotInv DEF BeginRun, inner
<1>3. ASSUME NEW c \in Clients, ClaimSlot(c) PROVE SlotInv'
  BY <1>3 DEF ClaimSlot, Recording, inner
<1>4. ASSUME NEW c \in Clients, DiscardStartFailed(c) PROVE SlotInv'
  BY <1>1, <1>4, ReleaseSlotInv DEF DiscardStartFailed, inner
<1>5. ASSUME NEW c \in Clients, StopActive(c) PROVE SlotInv'
  BY <1>0, <1>5 DEF StopActive, Summary
<1>6. ASSUME NEW r \in RunId, TryRegisterShade(r) PROVE SlotInv'
  BY <1>6 DEF TryRegisterShade
<1>7. ASSUME NEW r \in RunId, SessionClosed(r) PROVE SlotInv'
  BY <1>7 DEF SessionClosed
<1>8. ASSUME NEW r \in RunId, ApplyEvent(r) PROVE SlotInv'
  BY <1>0, <1>8 DEF ApplyEvent, Summary
<1>9. ASSUME NEW r \in RunId, DrainerFinalize(r) \/ MonitorFinalize(r)
      PROVE  SlotInv'
  BY <1>1, <1>9, ReleaseSlotInv DEF DrainerFinalize, MonitorFinalize, FinalizeRun
<1>10. CASE WatchdogProbe
  BY <1>10 DEF WatchdogProbe
<1>11. ASSUME NEW c \in Clients,
              \/ AllocRunId(c) \/ ResetAggregator(c) \/ OpenIngest(c)
              \/ OpenTerminal(c) \/ SpawnShade(c) \/ RecordShadeChild(c)
              \/ NotifyDrainer(c) \/ ReapShadeChild(c) \/ StopReturns(c)
              \/ StopNothing(c)
       PROVE  UNCHANGED <<active, cancel, activeShade>>
  BY <1>11
  DEF AllocRunId, ResetAggregator, OpenIngest, OpenTerminal, SpawnShade,
      RecordShadeChild, NotifyDrainer, ReapShadeChild, StopReturns, StopNothing,
      vars, inner
<1>12. ASSUME NEW r \in RunId,
              \/ \E st \in Exits : ShadeExit(r, st)
              \/ \E n \in 1..MaxEvents : DrainerRecv(r, n)
              \/ ReapTakenShadeChild(r) \/ FillShadeSlot(r)
              \/ AttachTerminal(r) \/ CancelForRun(r) \/ AttachIngest(r)
              \/ WriteEvent(r) \/ DrainerClosed(r) \/ DetachIngest(r)
              \/ DrainerReap(r) \/ MonitorTick(r) \/ ShadeChildExited(r)
              \/ MonitorReap(r)
       PROVE  UNCHANGED <<active, cancel, activeShade>>
  BY <1>12
  DEF ShadeExit, DrainerRecv, ReapTakenShadeChild, FillShadeSlot,
      AttachTerminal, CancelForRun, AttachIngest, WriteEvent, DrainerClosed,
      DetachIngest, DrainerReap, MonitorTick, ShadeChildExited, MonitorReap,
      inner
<1>13. CASE WatchdogRead \/ UNCHANGED vars
  BY <1>1, <1>13 DEF WatchdogRead, vars, inner
<1> QED
  BY <1>1, <1>2, <1>3, <1>4, <1>5, <1>6, <1>7, <1>8, <1>9, <1>10, <1>11,
     <1>12, <1>13
  DEF Next, ClientCall, ClientStep, ShadeStep, TaskStep

\* The cancel handle in Inner is that of the active run, exactly while it
\* records.
THEOREM CancelHandleMatchesState == Spec => []CancelMatchesState
  BY TypeCorrect, InitSlot, NextSlot, PTL DEF Spec, SlotInv

\* The registered shade is the shade of the run in the slot.
THEOREM RegisteredShadeIsOfActiveRun == Spec => []ShadeOfActiveRun
  BY TypeCorrect, InitSlot, NextSlot, PTL DEF Spec, SlotInv

-----------------------------------------------------------------------------
(* A run is archived once.  ArchivedOnce alone is not inductive: ClaimSlot  *)
(* puts an id into the slot that was allocated two steps earlier, so the    *)
(* ids that handlers hold must be fresh, and distinct from each other.      *)

Claims(c) == pc[c] = "claim"

IdsAllocated ==
  /\ active.id < nextRunId
  /\ \A i \in 1..Len(history) : history[i].id < nextRunId
  /\ \A c \in Clients : Claims(c) => run[c] < nextRunId

ClaimsFresh ==
  \A c \in Clients : Claims(c) =>
    /\ run[c] # None /\ run[c] # active.id /\ ~InHistory(run[c])
    /\ \A d \in Clients \ {c} : Claims(d) => run[d] # run[c]

ArchiveInv == ArchivedOnce /\ IdsAllocated /\ ClaimsFresh

\* No handler comes to hold an id in this step.
NoNewClaim ==
  /\ nextRunId' = nextRunId
  /\ \A c \in Clients : Claims(c)' => Claims(c) /\ run'[c] = run[c]

\* A step that keeps the run in the slot and the history keeps ArchiveInv.
LEMMA ArchiveFrame ==
  ASSUME ArchiveInv, NoNewClaim, active'.id = active.id, history' = history
  PROVE  ArchiveInv'
  BY DEF ArchiveInv, ArchivedOnce, IdsAllocated, ClaimsFresh, NoNewClaim, InHistory

\* So does one that moves the run in the slot to the end of the history.
LEMMA ArchiveStep ==
  ASSUME TypeOK, ArchiveInv, NoNewClaim, NEW s \in Summary,
         s.id = active.id, active.id # None,
         history' = Append(history, s), active' = NoActive
  PROVE  ArchiveInv'
<1> DEFINE n == Len(history)
<1>1. history \in Seq(Summary) /\ nextRunId \in Nat /\ 0 < nextRunId
  BY RegistryAssumption DEF TypeOK, InnerTypeOK, ServerTypeOK
<1>2. /\ n \in Nat /\ Len(history') = n + 1
      /\ \A i \in 1..n : history'[i] = history[i]
      /\ history'[n + 1] = s
  BY <1>1
<1>3. ArchivedOnce'
  BY <1>2 DEF ArchiveInv, ArchivedOnce, InHistory, NoActive, None
<1>4. IdsAllocated'
  BY <1>1, <1>2 DEF ArchiveInv, IdsAllocated, NoNewClaim, NoActive, None
<1>5. ClaimsFresh'
  BY <1>2 DEF ArchiveInv, ClaimsFresh, NoNewClaim, InHistory, NoActive
<1> QED BY <1>3, <1>4, <1>5 DEF ArchiveInv

LEMMA FinalizeArchives ==
  ASSUME TypeOK, ArchiveInv, NoNewClaim, NEW r \in RunId, NEW why \in Reason,
         FinalizeRun(r, why)
  PROVE  ArchiveInv'
<1>1. CASE active.id = r
  <2> DEFINE s == IF active.state = "Stopped" THEN active
                  ELSE [active EXCEPT !.state = "Stopped", !.reason = why]
  <2>1. s \in Summary /\ s.id = active.id
    BY SummaryUpdates DEF TypeOK, InnerTypeOK, Summary
  <2>2. history' = Append(history, s) /\ active' = NoActive /\ active.id # None
    BY <1>1 DEF FinalizeRun, ReleaseSlot, RunId, None
  <2> HIDE DEF s
  <2> QED BY <2>1, <2>2, ArchiveStep
<1>2. CASE active.id # r
  BY <1>2, ArchiveFrame DEF FinalizeRun
<1> QED BY <1>1, <1>2

LEMMA InitArchive == Init => ArchiveInv
  BY DEF Init, ArchiveInv, ArchivedOnce, IdsAllocated, ClaimsFresh, Claims,
         NoActive, None

LEMMA NextArchive == TypeInv /\ ArchiveInv /\ [Next]_vars => ArchiveInv'
<1> SUFFICES ASSUME TypeInv, ArchiveInv, [Next]_vars PROVE ArchiveInv'
  OBVIOUS
<1> USE DEF TypeInv
<1>0. active \in Summary /\ pc \in [Clients -> PC] /\ run \in [Clients -> OptRun]
  BY DEF TypeOK, InnerTypeOK, CallersTypeOK
<1>1. ASSUME NEW c \in Clients, NEW k \in Starts, BeginRun(c, k) PROVE ArchiveInv'
  <2>1. NoNewClaim
    BY <1>0, <1>1 DEF BeginRun, NoNewClaim, Claims, Goto
  <2>2. CASE active.id # None /\ active.state = "Stopped"
    BY <1>0, <1>1, <2>1, <2>2, ArchiveStep
    DEF BeginRun, ReleaseSlot, ArchiveInv, ArchivedOnce
  <2>3. CASE ~(active.id # None /\ active.state = "Stopped")
    BY <1>1, <2>1, <2>3, ArchiveFrame DEF BeginRun, inner
  <2> QED BY <2>2, <2>3
<1>2. ASSUME NEW c \in Clients, AllocRunId(c) PROVE ArchiveInv'
  <2>1. /\ nextRunId \in Nat \ {0} /\ nextRunId' = nextRunId + 1
        /\ active' = active /\ history' = history
        /\ run'[c] = nextRunId
        /\ \A d \in Clients \ {c} : run'[d] = run[d] /\ pc'[d] = pc[d]
    BY <1>0, <1>2 DEF AllocRunId, TypeOK, ServerTypeOK, Goto, inner
  <2>2. ArchivedOnce'
    BY <2>1 DEF ArchiveInv, ArchivedOnce, InHistory
  <2>3. /\ active.id \in Nat
        /\ \A i \in 1..Len(history) : history[i].id \in Nat
        /\ \A d \in Clients : run[d] \in Nat
    <3>1. OptRun \subseteq Nat
      BY DEF OptRun, RunId, None
    <3>2. \A i \in 1..Len(history) : history[i] \in Summary
      BY DEF TypeOK, InnerTypeOK
    <3> QED BY <1>0, <3>1, <3>2 DEF Summary
  <2>4. IdsAllocated'
    BY <2>1, <2>3 DEF ArchiveInv, IdsAllocated, Claims
  <2>5. ClaimsFresh'
    BY <2>1, <2>3 DEF ArchiveInv, IdsAllocated, ClaimsFresh, Claims, InHistory, None
  <2> QED BY <2>2, <2>4, <2>5 DEF ArchiveInv
<1>3. ASSUME NEW c \in Clients, ClaimSlot(c) PROVE ArchiveInv'
  <2>1. NoNewClaim
    BY <1>0, <1>3 DEF ClaimSlot, NoNewClaim, Claims, Goto, Return
  <2>2. CASE active.id # None
    BY <1>3, <2>1, <2>2, ArchiveFrame DEF ClaimSlot, inner
  <2>3. CASE active.id = None
    <3>1. /\ active'.id = run[c] /\ history' = history /\ Claims(c)
          /\ ~Claims(c)'
      BY <1>0, <1>3, <2>3 DEF ClaimSlot, Recording, Goto, Claims
    <3> QED BY <2>1, <3>1
            DEF ArchiveInv, ArchivedOnce, IdsAllocated, ClaimsFresh,
                NoNewClaim, InHistory
  <2> QED BY <2>2, <2>3
<1>4. ASSUME NEW c \in Clients, DiscardStartFailed(c) PROVE ArchiveInv'
  <2>1. NoNewClaim
    BY <1>0, <1>4 DEF DiscardStartFailed, NoNewClaim, Claims, Goto, Return
  <2>2. CASE active.id = run[c]
    <3> DEFINE s == [active EXCEPT !.state = "Stopped", !.reason = "RecorderError"]
    <3>1. s \in Summary /\ s.id = active.id
      BY <1>0 DEF Summary, Reason
    <3>2. run[c] # None
      BY <1>4 DEF DiscardStartFailed, RunAllocated, RunId, None
    <3>3. history' = Append(history, s) /\ active' = NoActive
      BY <1>4, <2>2 DEF DiscardStartFailed, ReleaseSlot
    <3> HIDE DEF s
    <3> QED BY <2>1, <2>2, <3>1, <3>2, <3>3, ArchiveStep
  <2>3. CASE active.id # run[c]
    BY <1>4, <2>1, <2>3, ArchiveFrame DEF DiscardStartFailed, inner
  <2> QED BY <2>2, <2>3
<1>5. ASSUME NEW c \in Clients, StopActive(c) PROVE ArchiveInv'
  <2>1. NoNewClaim
    BY <1>0, <1>5 DEF StopActive, NoNewClaim, Claims, Goto
  <2> QED BY <1>0, <1>5, <2>1, ArchiveFrame DEF StopActive, Summary
<1>6. ASSUME NEW r \in RunId, ApplyEvent(r) PROVE ArchiveInv'
  <2>1. NoNewClaim
    BY <1>6 DEF ApplyEvent, NoNewClaim, Claims, callers
  <2> QED BY <1>0, <1>6, <2>1, ArchiveFrame DEF ApplyEvent, Summary
<1>7. ASSUME NEW r \in RunId, DrainerFinalize(r) PROVE ArchiveInv'
  <2>1. NoNewClaim
    BY <1>7 DEF DrainerFinalize, NoNewClaim, Claims, callers
  <2> QED BY <1>7, <2>1, FinalizeArchives DEF DrainerFinalize, Reason
<1>8. ASSUME NEW r \in RunId, MonitorFinalize(r) PROVE ArchiveInv'
  <2>1. NoNewClaim
    BY <1>8 DEF MonitorFinalize, NoNewClaim, Claims, callers
  <2> QED BY <1>8, <2>1, FinalizeArchives DEF MonitorFinalize, Reason
<1>9. ASSUME NEW c \in Clients,
             \/ ResetAggregator(c) \/ OpenIngest(c) \/ OpenTerminal(c)
             \/ SpawnShade(c) \/ RecordShadeChild(c) \/ NotifyDrainer(c)
             \/ ReapShadeChild(c) \/ StopReturns(c) \/ StopNothing(c)
      PROVE  ArchiveInv'
  <2>1. NoNewClaim
    BY <1>0, <1>9
    DEF ResetAggregator, OpenIngest, OpenTerminal, SpawnShade, RecordShadeChild,
        NotifyDrainer, ReapShadeChild, StopReturns, StopNothing, Goto, Return,
        NoNewClaim, Claims, vars, callers
  <2>2. active' = active /\ history' = history
    BY <1>9
    DEF ResetAggregator, OpenIngest, OpenTerminal, SpawnShade, RecordShadeChild,
        NotifyDrainer, ReapShadeChild, StopReturns, StopNothing, vars, inner
  <2> QED BY <2>1, <2>2, ArchiveFrame
<1>10. ASSUME NEW r \in RunId,
              \/ \E st \in Exits : ShadeExit(r, st)
              \/ \E n \in 1..MaxEvents : DrainerRecv(r, n)
              \/ ReapTakenShadeChild(r) \/ TryRegisterShade(r)
              \/ FillShadeSlot(r) \/ SessionClosed(r) \/ AttachTerminal(r)
              \/ CancelForRun(r) \/ AttachIngest(r) \/ WriteEvent(r)
              \/ DrainerClosed(r) \/ DetachIngest(r) \/ DrainerReap(r)
              \/ MonitorTick(r) \/ ShadeChildExited(r) \/ MonitorReap(r)
       PROVE  UNCHANGED <<active, history, nextRunId, pc, run>>
  BY <1>10
  DEF ShadeExit, DrainerRecv, ReapTakenShadeChild, TryRegisterShade,
      FillShadeSlot, SessionClosed, AttachTerminal, CancelForRun, AttachIngest,
      WriteEvent, DrainerClosed, DetachIngest, DrainerReap, MonitorTick,
      ShadeChildExited, MonitorReap, inner, callers
<1>11. ASSUME WatchdogRead \/ WatchdogProbe \/ UNCHANGED vars
       PROVE  UNCHANGED <<active, history, nextRunId, pc, run>>
  BY <1>11 DEF WatchdogRead, WatchdogProbe, vars, inner, callers
<1>12. ASSUME UNCHANGED <<active, history, nextRunId, pc, run>> PROVE ArchiveInv'
  BY <1>12, ArchiveFrame DEF NoNewClaim, Claims
<1> QED
  BY <1>1, <1>2, <1>3, <1>4, <1>5, <1>6, <1>7, <1>8, <1>9, <1>10, <1>11,
     <1>12
  DEF Next, ClientCall, ClientStep, ShadeStep, TaskStep

LEMMA ArchiveInvariant == Spec => []ArchiveInv
  BY TypeInvariant, InitArchive, NextArchive, PTL DEF Spec

\* No run is archived twice, whichever of the drainer, the monitor,
\* discard_start_failed and begin_run gets to it first.
THEOREM RunsAreArchivedOnce == Spec => []ArchivedOnce
  BY ArchiveInvariant, PTL DEF ArchiveInv

-----------------------------------------------------------------------------
(* The registry implements RunLifecycle.                                    *)

\* A step that keeps the summary of the run in the slot, but for the samples,
\* and the history is a stutter.
LEMMA LifecycleFrame ==
  ASSUME history' = history, active'.id = active.id,
         active'.state = active.state, active'.reason = active.reason
  PROVE  UNCHANGED Lifecycle!vars
<1>1. \A r \in RunId : RunPhase(r)' = RunPhase(r) /\ RunReason(r)' = RunReason(r)
  BY DEF RunPhase, RunReason, InHistory
<1> QED BY <1>1 DEF Lifecycle!vars

\* Moving the run in the slot to the history changes its phase and nothing
\* else; the reason is that of the archived summary.
LEMMA LifecycleArchive ==
  ASSUME TypeOK, ArchivedOnce, NEW s \in Summary,
         NEW a \in RunId, s.id = a, active.id = a,
         history' = Append(history, s), active' = NoActive
  PROVE  /\ RunPhase(a)' = "archived"
         /\ RunReason(a)' = s.reason
         /\ \A r \in RunId \ {a} :
              RunPhase(r)' = RunPhase(r) /\ RunReason(r)' = RunReason(r)
<1> DEFINE n == Len(history)
<1>1. history \in Seq(Summary) /\ active \in Summary
  BY DEF TypeOK, InnerTypeOK
<1>2. /\ n \in Nat /\ Len(history') = n + 1
      /\ \A i \in 1..n : history'[i] = history[i]
      /\ history'[n + 1] = s
  BY <1>1
<1>3. active'.id = None /\ \A r \in RunId : r # None
  BY DEF NoActive, RunId, None
<1>4. InHistory(a)' /\ ~InHistory(a)
  BY <1>2, <1>3 DEF InHistory, ArchivedOnce
<1>5. \A r \in RunId \ {a} : InHistory(r)' <=> InHistory(r)
  BY <1>2 DEF InHistory
<1>6. RunPhase(a)' = "archived"
  BY <1>3, <1>4 DEF RunPhase
<1>7. RunReason(a)' = s.reason
  <2>1. \A i \in 1..Len(history') : history'[i].id = a <=> i = n + 1
    BY <1>2, <1>4 DEF InHistory
  <2>2. (CHOOSE i \in 1..Len(history') : history'[i].id = a) = n + 1
    BY <1>2, <2>1
  <2> QED BY <1>2, <1>3, <1>4, <2>2 DEF RunReason
<1>8. ASSUME NEW r \in RunId \ {a}
      PROVE  RunPhase(r)' = RunPhase(r) /\ RunReason(r)' = RunReason(r)
  <2>1. RunPhase(r)' = RunPhase(r)
    BY <1>3, <1>5 DEF RunPhase
  <2>2. CASE InHistory(r)
    <3>1. PICK i \in 1..n : history[i].id = r
      BY <2>2 DEF InHistory
    <3>2. \A j \in 1..n : history[j].id = r <=> j = i
      BY <3>1 DEF ArchivedOnce
    <3>3. \A j \in 1..(n + 1) : history'[j].id = r <=> j = i
      BY <1>2, <3>2
    <3>4. (CHOOSE j \in 1..Len(history) : history[j].id = r) = i
      BY <3>2
    <3>5. (CHOOSE j \in 1..Len(history') : history'[j].id = r) = i
      BY <1>2, <3>3
    <3>6. RunReason(r) = history[i].reason
      BY <2>2, <3>4 DEF RunReason
    <3>7. RunReason(r)' = history'[i].reason
      BY <1>3, <1>5, <2>2, <3>5 DEF RunReason
    <3> QED BY <1>2, <2>1, <3>6, <3>7
  <2>3. CASE ~InHistory(r)
    BY <1>3, <1>5, <2>1, <2>3 DEF RunReason
  <2> QED BY <2>2, <2>3
<1> QED BY <1>6, <1>7, <1>8

\* The archive steps of the abstract specification.
LEMMA LifecycleArchiveStep ==
  ASSUME TypeOK, ArchivedOnce, NEW s \in Summary,
         NEW a \in RunId, s.id = a, active.id = a,
         history' = Append(history, s), active' = NoActive,
         \/ active.state = "Stopped" /\ s.reason = active.reason
         \/ active.state = "Recording" /\ s.reason \in Reason \ {"none"}
         \/ s.reason = "RecorderError"
  PROVE  Lifecycle!Next
<1> DEFINE phase == [r \in RunId |-> RunPhase(r)]
           reason == [r \in RunId |-> RunReason(r)]
<1>1. /\ RunPhase(a) = IF active.state = "Recording" THEN "recording" ELSE "stopped"
      /\ RunReason(a) = active.reason
  BY LifecycleArchive DEF RunPhase, RunReason
<1>2. active.state \in {"Recording", "Stopped"}
  BY DEF TypeOK, InnerTypeOK, Summary
<1>3. phase' = [phase EXCEPT ![a] = "archived"]
  BY LifecycleArchive
<1>4. reason' = [reason EXCEPT ![a] = s.reason]
  BY LifecycleArchive
<1>5. CASE active.state = "Stopped" /\ s.reason = active.reason
  <2>1. reason' = reason
    BY <1>1, <1>4, <1>5
  <2> QED BY <1>1, <1>3, <1>5, <2>1 DEF Lifecycle!Next, Lifecycle!Archive, Lifecycle!RunId, RunId
<1>6. CASE active.state = "Recording" /\ s.reason \in Reason \ {"none"}
  BY <1>1, <1>3, <1>4, <1>6
  DEF Lifecycle!Next, Lifecycle!Finish, Lifecycle!RunId, RunId, Lifecycle!Reason, Reason
<1>7. CASE s.reason = "RecorderError"
  BY <1>1, <1>2, <1>3, <1>4, <1>7
  DEF Lifecycle!Next, Lifecycle!Discard, Lifecycle!RunId, RunId
<1> QED BY <1>5, <1>6, <1>7

LEMMA InitLifecycle == Init => Lifecycle!Init
<1> SUFFICES ASSUME Init PROVE Lifecycle!Init
  OBVIOUS
<1>1. active = NoActive /\ Len(history) = 0
  BY DEF Init
<1>2. ASSUME NEW r \in RunId PROVE RunPhase(r) = "unborn" /\ RunReason(r) = "none"
  BY <1>1, <1>2 DEF RunPhase, RunReason, InHistory, NoActive, None, RunId
<1> QED BY <1>2 DEF Lifecycle!Init, Lifecycle!RunId, RunId

LEMMA FinalizeLifecycle ==
  ASSUME TypeOK, ArchivedOnce, NEW r \in RunId,
         NEW why \in Reason \ {"none"}, FinalizeRun(r, why)
  PROVE  Lifecycle!Next \/ UNCHANGED Lifecycle!vars
<1>1. CASE active.id = r
  <2> DEFINE s == IF active.state = "Stopped" THEN active
                  ELSE [active EXCEPT !.state = "Stopped", !.reason = why]
  <2>1. /\ s \in Summary /\ s.id = r
        /\ active.state = "Stopped" => s.reason = active.reason
        /\ active.state # "Stopped" => s.reason = why
    BY <1>1, SummaryUpdates DEF TypeOK, InnerTypeOK, Summary
  <2>2. history' = Append(history, s) /\ active' = NoActive
    BY <1>1 DEF FinalizeRun, ReleaseSlot
  <2>3. active.state \in {"Recording", "Stopped"}
    BY DEF TypeOK, InnerTypeOK, Summary
  <2> HIDE DEF s
  <2> QED BY <1>1, <2>1, <2>2, <2>3, LifecycleArchiveStep
<1>2. CASE active.id # r
  BY <1>2, LifecycleFrame DEF FinalizeRun
<1> QED BY <1>1, <1>2

LEMMA NextLifecycle ==
  TypeInv /\ ArchiveInv /\ [Next]_vars => [Lifecycle!Next]_Lifecycle!vars
<1> DEFINE Goal == Lifecycle!Next \/ UNCHANGED Lifecycle!vars
<1> SUFFICES ASSUME TypeInv, ArchiveInv, [Next]_vars PROVE Goal
  OBVIOUS
<1> USE DEF TypeInv, ArchiveInv
<1>0. active \in Summary /\ (active.id # None => active.id \in RunId)
  BY DEF TypeOK, InnerTypeOK, Summary, OptRun
<1>1. ASSUME NEW c \in Clients, NEW k \in Starts, BeginRun(c, k) PROVE Goal
  <2>1. CASE active.id # None /\ active.state = "Stopped"
    <3>1. history' = Append(history, active) /\ active' = NoActive
      BY <1>1, <2>1 DEF BeginRun, ReleaseSlot, ArchivedOnce
    <3> QED BY <1>0, <2>1, <3>1, LifecycleArchiveStep
  <2>2. CASE ~(active.id # None /\ active.state = "Stopped")
    BY <1>1, <2>2, LifecycleFrame DEF BeginRun, inner
  <2> QED BY <2>1, <2>2
<1>2. ASSUME NEW c \in Clients, ClaimSlot(c) PROVE Goal
  <2>1. CASE active.id # None
    BY <1>2, <2>1, LifecycleFrame DEF ClaimSlot, inner
  <2>2. CASE active.id = None
    <3>1. PICK r \in RunId : r = run[c] /\ ~InHistory(r)
      BY <1>2 DEF ClaimSlot, RunAllocated, ClaimsFresh, Claims
    <3>2. active' = Recording(r) /\ history' = history
      BY <1>2, <2>2, <3>1 DEF ClaimSlot
    <3>3. /\ active'.id = r /\ active'.state = "Recording"
          /\ active'.reason = "none"
      BY <3>2 DEF Recording
    <3>4. \A q \in RunId : RunPhase(q) \in {"archived", "unborn"}
      BY <2>2 DEF RunPhase, RunId, None
    <3>5. RunPhase(r) = "unborn" /\ RunPhase(r)' = "recording"
      BY <2>2, <3>1, <3>3 DEF RunPhase, RunId, None
    <3>6. RunReason(r) = "none" /\ RunReason(r)' = "none"
      BY <2>2, <3>1, <3>3 DEF RunReason, RunId, None
    <3>7. \A q \in RunId \ {r} :
            RunPhase(q)' = RunPhase(q) /\ RunReason(q)' = RunReason(q)
      BY <2>2, <3>2, <3>3 DEF RunPhase, RunReason, InHistory, RunId, None
    <3> QED BY <3>4, <3>5, <3>6, <3>7
            DEF Lifecycle!Next, Lifecycle!Start, Lifecycle!RunId, RunId
  <2> QED BY <2>1, <2>2
<1>3. ASSUME NEW c \in Clients, DiscardStartFailed(c) PROVE Goal
  <2>1. CASE active.id = run[c]
    <3> DEFINE s == [active EXCEPT !.state = "Stopped", !.reason = "RecorderError"]
    <3>1. s \in Summary /\ s.id = active.id /\ s.reason = "RecorderError"
      BY <1>0 DEF Summary, Reason
    <3>2. active.id \in RunId
      BY <1>3, <2>1 DEF DiscardStartFailed, RunAllocated
    <3>3. history' = Append(history, s) /\ active' = NoActive
      BY <1>3, <2>1 DEF DiscardStartFailed, ReleaseSlot
    <3> HIDE DEF s
    <3> QED BY <3>1, <3>2, <3>3, LifecycleArchiveStep
  <2>2. CASE active.id # run[c]
    BY <1>3, <2>2, LifecycleFrame DEF DiscardStartFailed, inner
  <2> QED BY <2>1, <2>2
<1>4. ASSUME NEW c \in Clients, StopActive(c) PROVE Goal
  <2>1. PICK a \in RunId : a = active.id
    BY <1>0, <1>4 DEF StopActive
  <2>2. /\ active'.id = a /\ active'.state = "Stopped"
        /\ active'.reason = "UserStop" /\ history' = history
    BY <1>0, <1>4, <2>1 DEF StopActive, Summary
  <2>3. /\ RunPhase(a) \in {"recording", "stopped"}
        /\ RunPhase(a)' = "stopped" /\ RunReason(a)' = "UserStop"
    BY <2>1, <2>2 DEF RunPhase, RunReason
  <2>4. \A q \in RunId \ {a} :
          RunPhase(q)' = RunPhase(q) /\ RunReason(q)' = RunReason(q)
    BY <2>1, <2>2 DEF RunPhase, RunReason, InHistory
  <2> QED BY <2>3, <2>4 DEF Lifecycle!Next, Lifecycle!Stop, Lifecycle!RunId, RunId
<1>5. ASSUME NEW r \in RunId, ApplyEvent(r) PROVE Goal
  BY <1>0, <1>5, LifecycleFrame DEF ApplyEvent, Summary
<1>6. ASSUME NEW r \in RunId, DrainerFinalize(r) PROVE Goal
  BY <1>6, FinalizeLifecycle DEF DrainerFinalize, Reason
<1>7. ASSUME NEW r \in RunId, MonitorFinalize(r) PROVE Goal
  BY <1>7, FinalizeLifecycle DEF MonitorFinalize, Reason
<1>8. ASSUME NEW c \in Clients,
             \/ AllocRunId(c) \/ ResetAggregator(c) \/ OpenIngest(c)
             \/ OpenTerminal(c) \/ SpawnShade(c) \/ RecordShadeChild(c)
             \/ NotifyDrainer(c) \/ ReapShadeChild(c) \/ StopReturns(c)
             \/ StopNothing(c)
      PROVE  active' = active /\ history' = history
  BY <1>8
  DEF AllocRunId, ResetAggregator, OpenIngest, OpenTerminal, SpawnShade,
      RecordShadeChild, NotifyDrainer, ReapShadeChild, StopReturns, StopNothing,
      vars, inner
<1>9. ASSUME NEW r \in RunId,
             \/ \E st \in Exits : ShadeExit(r, st)
             \/ \E n \in 1..MaxEvents : DrainerRecv(r, n)
             \/ ReapTakenShadeChild(r) \/ TryRegisterShade(r)
             \/ FillShadeSlot(r) \/ SessionClosed(r) \/ AttachTerminal(r)
             \/ CancelForRun(r) \/ AttachIngest(r) \/ WriteEvent(r)
             \/ DrainerClosed(r) \/ DetachIngest(r) \/ DrainerReap(r)
             \/ MonitorTick(r) \/ ShadeChildExited(r) \/ MonitorReap(r)
      PROVE  active' = active /\ history' = history
  BY <1>9
  DEF ShadeExit, DrainerRecv, ReapTakenShadeChild, TryRegisterShade,
      FillShadeSlot, SessionClosed, AttachTerminal, CancelForRun, AttachIngest,
      WriteEvent, DrainerClosed, DetachIngest, DrainerReap, MonitorTick,
      ShadeChildExited, MonitorReap, inner
<1>10. ASSUME WatchdogRead \/ WatchdogProbe \/ UNCHANGED vars
       PROVE  active' = active /\ history' = history
  BY <1>10 DEF WatchdogRead, WatchdogProbe, vars, inner
<1>11. ASSUME active' = active, history' = history PROVE Goal
  BY <1>11, LifecycleFrame
<1> HIDE DEF Goal
<1> QED
  BY <1>1, <1>2, <1>3, <1>4, <1>5, <1>6, <1>7, <1>8, <1>9, <1>10, <1>11
  DEF Next, ClientCall, ClientStep, ShadeStep, TaskStep

\* However its handlers, drainers, monitors and watchdog interleave, the
\* registry hosts one run at a time, archives it once and keeps the reason.
THEOREM RegistryImplementsLifecycle == Spec => ImplementsLifecycle
  BY TypeInvariant, ArchiveInvariant, InitLifecycle, NextLifecycle, PTL
  DEF Spec, ImplementsLifecycle, Lifecycle!Spec
-----------------------------------------------------------------------------
(* No run is lost.  What a run leaves behind (a process, a drainer, events  *)
(* in the aggregator) comes from a handler that has claimed the slot for    *)
(* it, so the invariant speaks of those handlers too.                       *)

Placed(r) == active.id = r \/ InHistory(r)

Traces(r) == proc[r] # "none" \/ drainer[r] # "none" \/ agg[r] # 0

Holds(c) == pc[c] \in {"reset", "open", "spawn", "record"}

Held(r) == \E c \in Clients : Holds(c) /\ run[c] = r

AccountInv == \A r \in RunId : Traces(r) \/ Held(r) => Placed(r)

\* An archived run is still there, and so are those archived before it.
LEMMA AppendKeeps ==
  ASSUME TypeOK, NEW s, s.id = active.id, history' = Append(history, s)
  PROVE  \A r : Placed(r) => InHistory(r)'
<1>1. history \in Seq(Summary)
  BY DEF TypeOK, InnerTypeOK
<1>2. /\ Len(history') = Len(history) + 1 /\ Len(history) \in Nat
      /\ \A i \in 1..Len(history) : history'[i] = history[i]
      /\ history'[Len(history) + 1] = s
  BY <1>1
<1>3. ASSUME NEW r, active.id = r PROVE InHistory(r)'
  <2>1. Len(history) + 1 \in 1..Len(history')
    BY <1>2
  <2> QED BY <1>2, <1>3, <2>1 DEF InHistory
<1>4. ASSUME NEW r, InHistory(r) PROVE InHistory(r)'
  <2>1. PICK i \in 1..Len(history) : history[i].id = r
    BY <1>4 DEF InHistory
  <2>2. i \in 1..Len(history')
    BY <1>2
  <2> QED BY <1>2, <2>1, <2>2 DEF InHistory
<1> QED BY <1>3, <1>4 DEF Placed

KeepsRuns == \A r \in RunId : Placed(r) => Placed(r)'

LEMMA SameKeeps ==
  ASSUME active'.id = active.id, history' = history
  PROVE  KeepsRuns
BY DEF KeepsRuns, Placed, InHistory

LEMMA FinalizeKeeps ==
  ASSUME TypeOK, NEW q \in RunId, NEW why, FinalizeRun(q, why)
  PROVE  KeepsRuns
<1>1. CASE active.id = q
  <2> DEFINE s == IF active.state = "Stopped" THEN active
                  ELSE [active EXCEPT !.state = "Stopped", !.reason = why]
  <2>1. s.id = active.id
    BY DEF TypeOK, InnerTypeOK, Summary
  <2>2. history' = Append(history, s)
    BY <1>1 DEF FinalizeRun
  <2> HIDE DEF s
  <2> QED BY <2>1, <2>2, AppendKeeps DEF KeepsRuns, Placed
<1>2. CASE active.id # q
  BY <1>2, SameKeeps DEF FinalizeRun
<1> QED BY <1>1, <1>2

\* The run in the slot leaves it for the history only.
LEMMA RunsStay == TypeInv /\ [Next]_vars => KeepsRuns
<1> SUFFICES ASSUME TypeInv, [Next]_vars PROVE KeepsRuns
  OBVIOUS
<1> USE DEF TypeInv
<1>0. active \in Summary
  BY DEF TypeOK, InnerTypeOK
<1>1. ASSUME NEW c \in Clients, NEW k \in Starts, BeginRun(c, k) PROVE KeepsRuns
  <2>1. CASE active.id # None /\ active.state = "Stopped" /\ ~InHistory(active.id)
    BY <1>1, <2>1, AppendKeeps DEF BeginRun, KeepsRuns, Placed
  <2>2. CASE active.id # None /\ active.state = "Stopped" /\ InHistory(active.id)
    BY <1>1, <2>2 DEF BeginRun, KeepsRuns, Placed, InHistory
  <2>3. CASE ~(active.id # None /\ active.state = "Stopped")
    BY <1>1, <2>3, SameKeeps DEF BeginRun, inner
  <2> QED BY <2>1, <2>2, <2>3
<1>2. ASSUME NEW c \in Clients, ClaimSlot(c) PROVE KeepsRuns
  <2>1. CASE active.id # None
    BY <1>2, <2>1, SameKeeps DEF ClaimSlot, inner
  <2>2. CASE active.id = None
    BY <1>2, <2>2 DEF ClaimSlot, KeepsRuns, Placed, InHistory, RunId, None
  <2> QED BY <2>1, <2>2
<1>3. ASSUME NEW c \in Clients, DiscardStartFailed(c) PROVE KeepsRuns
  <2>1. CASE active.id = run[c]
    <3> DEFINE s == [active EXCEPT !.state = "Stopped", !.reason = "RecorderError"]
    <3>1. s.id = active.id /\ history' = Append(history, s)
      BY <1>0, <1>3, <2>1 DEF DiscardStartFailed, Summary
    <3> HIDE DEF s
    <3> QED BY <3>1, AppendKeeps DEF KeepsRuns, Placed
  <2>2. CASE active.id # run[c]
    BY <1>3, <2>2, SameKeeps DEF DiscardStartFailed, inner
  <2> QED BY <2>1, <2>2
<1>4. ASSUME NEW c \in Clients, StopActive(c) PROVE KeepsRuns
  BY <1>0, <1>4, SameKeeps DEF StopActive, Summary
<1>5. ASSUME NEW r \in RunId, ApplyEvent(r) PROVE KeepsRuns
  BY <1>0, <1>5, SameKeeps DEF ApplyEvent, Summary
<1>6. ASSUME NEW r \in RunId, DrainerFinalize(r) PROVE KeepsRuns
  BY <1>6, FinalizeKeeps DEF DrainerFinalize
<1>7. ASSUME NEW r \in RunId, MonitorFinalize(r) PROVE KeepsRuns
  BY <1>7, FinalizeKeeps DEF MonitorFinalize
<1>8. ASSUME NEW c \in Clients,
             \/ AllocRunId(c) \/ ResetAggregator(c) \/ OpenIngest(c)
             \/ OpenTerminal(c) \/ SpawnShade(c) \/ RecordShadeChild(c)
             \/ NotifyDrainer(c) \/ ReapShadeChild(c) \/ StopReturns(c)
             \/ StopNothing(c)
      PROVE  KeepsRuns
  <2>1. active' = active /\ history' = history
    BY <1>8
    DEF AllocRunId, ResetAggregator, OpenIngest, OpenTerminal, SpawnShade,
        RecordShadeChild, NotifyDrainer, ReapShadeChild, StopReturns,
        StopNothing, vars, inner
  <2> QED BY <2>1, SameKeeps
<1>9. ASSUME NEW r \in RunId,
             \/ \E st \in Exits : ShadeExit(r, st)
             \/ \E n \in 1..MaxEvents : DrainerRecv(r, n)
             \/ ReapTakenShadeChild(r) \/ TryRegisterShade(r)
             \/ FillShadeSlot(r) \/ SessionClosed(r) \/ AttachTerminal(r)
             \/ CancelForRun(r) \/ AttachIngest(r) \/ WriteEvent(r)
             \/ DrainerClosed(r) \/ DetachIngest(r) \/ DrainerReap(r)
             \/ MonitorTick(r) \/ ShadeChildExited(r) \/ MonitorReap(r)
      PROVE  KeepsRuns
  <2>1. active' = active /\ history' = history
    BY <1>9
    DEF ShadeExit, DrainerRecv, ReapTakenShadeChild, TryRegisterShade,
        FillShadeSlot, SessionClosed, AttachTerminal, CancelForRun,
        AttachIngest, WriteEvent, DrainerClosed, DetachIngest, DrainerReap,
        MonitorTick, ShadeChildExited, MonitorReap, inner
  <2> QED BY <2>1, SameKeeps
<1>10. ASSUME WatchdogRead \/ WatchdogProbe \/ UNCHANGED vars PROVE KeepsRuns
  BY <1>10, SameKeeps DEF WatchdogRead, WatchdogProbe, vars, inner
<1> QED
  BY <1>1, <1>2, <1>3, <1>4, <1>5, <1>6, <1>7, <1>8, <1>9, <1>10
  DEF Next, ClientCall, ClientStep, ShadeStep, TaskStep

\* A run comes to leave traces only when a handler holds it, and a handler
\* comes to hold it only when it puts it into the slot.
TracesStay ==
  \A r \in RunId : Traces(r)' \/ Held(r)' => Traces(r) \/ Held(r) \/ Placed(r)'

NoNewHolder == \A c \in Clients : Holds(c)' => Holds(c) /\ run'[c] = run[c]

LEMMA TracesFrame ==
  ASSUME NoNewHolder, \A r \in RunId : Traces(r)' => Traces(r) \/ Held(r)
  PROVE  TracesStay
BY DEF NoNewHolder, TracesStay, Held

LEMMA TracesHaveHolders == TypeInv /\ [Next]_vars => TracesStay
<1> SUFFICES ASSUME TypeInv, [Next]_vars PROVE TracesStay
  OBVIOUS
<1> USE DEF TypeInv
<1>0. /\ pc \in [Clients -> PC] /\ run \in [Clients -> OptRun]
      /\ proc \in [RunId -> {"none", "running", "zombie", "reaped"}]
      /\ agg \in [RunId -> Nat]
      /\ DOMAIN drainer = RunId
  BY DEF TypeOK, CallersTypeOK, ShadesTypeOK, ServerTypeOK, TasksTypeOK
<1>1. ASSUME NEW c \in Clients, ClaimSlot(c) PROVE TracesStay
  <2>1. \A r \in RunId : Traces(r)' => Traces(r)
    BY <1>1 DEF ClaimSlot, Traces, shades, ingest
  <2>2. \A d \in Clients \ {c} : Holds(d)' => Holds(d) /\ run'[d] = run[d]
    BY <1>0, <1>1 DEF ClaimSlot, Holds, Goto, Return
  <2>3. Holds(c)' => active'.id = run'[c]
    BY <1>0, <1>1 DEF ClaimSlot, Holds, Goto, Return, Recording
  <2>4. \A r \in RunId : Held(r)' => Held(r) \/ Placed(r)'
    BY <2>2, <2>3 DEF Held, Placed
  <2> QED BY <2>1, <2>4 DEF TracesStay
<1>2. ASSUME NEW c \in Clients, NEW k \in Starts, BeginRun(c, k)
      PROVE  TracesStay
  <2>1. NoNewHolder
    BY <1>0, <1>2 DEF BeginRun, NoNewHolder, Holds, Goto
  <2>2. \A r \in RunId : Traces(r)' => Traces(r)
    BY <1>2 DEF BeginRun, Traces, ingest
  <2> QED BY <2>1, <2>2, TracesFrame
<1>3. ASSUME NEW c \in Clients,
             \/ AllocRunId(c) \/ OpenTerminal(c) \/ RecordShadeChild(c)
             \/ DiscardStartFailed(c) \/ StopActive(c) \/ ReapShadeChild(c)
             \/ StopReturns(c) \/ StopNothing(c)
      PROVE  TracesStay
  <2>1. NoNewHolder
    BY <1>0, <1>3
    DEF AllocRunId, OpenTerminal, RecordShadeChild, DiscardStartFailed,
        StopActive, ReapShadeChild, StopReturns, StopNothing, NoNewHolder,
        Holds, Goto, Return, vars, callers
  <2>2. \A r \in RunId : Traces(r)' => Traces(r)
    BY <1>3
    DEF AllocRunId, OpenTerminal, RecordShadeChild, DiscardStartFailed,
        StopActive, ReapShadeChild, StopReturns, StopNothing, Traces, vars,
        shades, ingest
  <2> QED BY <2>1, <2>2, TracesFrame
<1>4. ASSUME NEW c \in Clients,
             \/ ResetAggregator(c) \/ OpenIngest(c) \/ SpawnShade(c)
             \/ NotifyDrainer(c)
      PROVE  TracesStay
  <2>1. NoNewHolder
    BY <1>0, <1>4
    DEF ResetAggregator, OpenIngest, SpawnShade, NotifyDrainer, NoNewHolder,
        Holds, Goto, Return
  <2>2. ASSUME NEW r \in RunId, Traces(r)' PROVE Traces(r) \/ Held(r)
    <3>1. CASE ResetAggregator(c)
      BY <2>2, <3>1 DEF ResetAggregator, Traces, shades, ingest
    <3>2. CASE OpenIngest(c)
      BY <1>0, <2>2, <3>2 DEF OpenIngest, Traces, Held, Holds, shades
    <3>3. CASE SpawnShade(c)
      BY <1>0, <2>2, <3>3 DEF SpawnShade, Traces, Held, Holds, ingest
    <3>4. CASE NotifyDrainer(c)
      BY <1>0, <2>2, <3>4 DEF NotifyDrainer, Traces, shades
    <3> QED BY <1>4, <3>1, <3>2, <3>3, <3>4
  <2> QED BY <2>1, <2>2, TracesFrame
<1>5. ASSUME NEW r \in RunId,
             \/ \E st \in Exits : ShadeExit(r, st)
             \/ ReapTakenShadeChild(r) \/ MonitorTick(r)
      PROVE  TracesStay
  <2>1. NoNewHolder
    BY <1>5
    DEF ShadeExit, ReapTakenShadeChild, MonitorTick, NoNewHolder, Holds, callers
  <2>2. \A q \in RunId : Traces(q)' => Traces(q)
    BY <1>0, <1>5 DEF ShadeExit, ReapTakenShadeChild, MonitorTick, Traces, ingest
  <2> QED BY <2>1, <2>2, TracesFrame
<1>6. ASSUME NEW r \in RunId,
             \/ \E n \in 1..MaxEvents : DrainerRecv(r, n)
             \/ CancelForRun(r) \/ AttachIngest(r) \/ ApplyEvent(r)
             \/ WriteEvent(r) \/ DrainerClosed(r) \/ DetachIngest(r)
             \/ DrainerFinalize(r) \/ DrainerReap(r)
      PROVE  TracesStay
  <2>1. NoNewHolder
    BY <1>6
    DEF DrainerRecv, CancelForRun, AttachIngest, ApplyEvent, WriteEvent,
        DrainerClosed, DetachIngest, DrainerFinalize, DrainerReap, NoNewHolder,
        Holds, callers
  <2>2. Traces(r)
    BY <1>6
    DEF DrainerRecv, CancelForRun, AttachIngest, ApplyEvent, WriteEvent,
        DrainerClosed, DetachIngest, DrainerFinalize, DrainerReap, Traces
  <2>3. \A q \in RunId \ {r} :
          proc'[q] = proc[q] /\ drainer'[q] = drainer[q] /\ agg'[q] = agg[q]
    BY <1>0, <1>6
    DEF DrainerRecv, CancelForRun, AttachIngest, ApplyEvent, WriteEvent,
        DrainerClosed, DetachIngest, DrainerFinalize, DrainerReap, shades
  <2>4. \A q \in RunId : Traces(q)' => Traces(q)
    BY <2>2, <2>3 DEF Traces
  <2> QED BY <2>1, <2>4, TracesFrame
<1>7. ASSUME NEW r \in RunId,
             \/ TryRegisterShade(r) \/ FillShadeSlot(r) \/ SessionClosed(r)
             \/ AttachTerminal(r) \/ ShadeChildExited(r)
             \/ MonitorFinalize(r) \/ MonitorReap(r)
      PROVE  UNCHANGED <<proc, drainer, agg, pc, run>>
  BY <1>7
  DEF TryRegisterShade, FillShadeSlot, SessionClosed, AttachTerminal,
      ShadeChildExited, MonitorFinalize, MonitorReap, callers, shades, ingest
<1>8. ASSUME WatchdogRead \/ WatchdogProbe \/ UNCHANGED vars
      PROVE  UNCHANGED <<proc, drainer, agg, pc, run>>
  BY <1>8 DEF WatchdogRead, WatchdogProbe, vars, callers, shades, ingest
<1>9. ASSUME UNCHANGED <<proc, drainer, agg, pc, run>> PROVE TracesStay
  BY <1>9, TracesFrame DEF NoNewHolder, Holds, Traces
<1> QED
  BY <1>1, <1>2, <1>3, <1>4, <1>5, <1>6, <1>7, <1>8, <1>9
  DEF Next, ClientCall, ClientStep, ShadeStep, TaskStep

LEMMA InitAccount == Init => AccountInv
BY DEF Init, AccountInv, Traces, Held, Holds

LEMMA AccountInvariant == Spec => []AccountInv
<1>1. TypeInv /\ AccountInv /\ [Next]_vars => AccountInv'
  BY RunsStay, TracesHaveHolders DEF AccountInv, TracesStay, KeepsRuns
<1> QED BY <1>1, InitAccount, TypeInvariant, PTL DEF Spec

\* No run is lost: a run that has a shade process or a drainer is in the slot
\* or in the history, whichever handler, task or stale path dealt with it.
THEOREM RunsAreAccountedFor == Spec => []RunAccountedFor
<1>1. AccountInv => RunAccountedFor
  BY DEF AccountInv, RunAccountedFor, Traces, Placed
<1> QED BY <1>1, AccountInvariant, PTL

-----------------------------------------------------------------------------
(* The aggregator holds no event of the active run that its summary has not *)
(* counted.  The invariant is inductive once it is known that a run that    *)
(* enters the slot is new: it has no events there.                          *)

\* A step that counts nothing must not write either.
LEMMA CountFrame ==
  ASSUME TypeInv, NeverOvercounts,
         active'.id # None => active'.id = active.id
                              /\ active'.samples = active.samples,
         \A r \in RunId : agg'[r] = agg[r] /\ (drainer'[r] = "write" => drainer[r] = "write")
  PROVE  NeverOvercounts'
<1>1. agg \in [RunId -> Nat] /\ active.samples \in Nat
  BY DEF TypeInv, TypeOK, ServerTypeOK, InnerTypeOK, Summary
<1>2. \A r \in RunId : r # None
  BY DEF RunId, None
<1> QED BY <1>1, <1>2 DEF NeverOvercounts

\* A run that a handler is about to put into the slot has left no traces.
LEMMA ClaimedRunIsNew ==
  ASSUME TypeInv, ArchiveInv, AccountInv, NEW c \in Clients, Claims(c)
  PROVE  run[c] \in RunId /\ ~Placed(run[c]) /\ ~Traces(run[c])
<1>1. run[c] \in RunId
  BY DEF TypeInv, RunAllocated, Claims
<1>2. ~Placed(run[c])
  BY DEF ArchiveInv, ClaimsFresh, Placed
<1> QED BY <1>1, <1>2 DEF AccountInv

LEMMA NextCount ==
  TypeInv /\ ArchiveInv /\ AccountInv /\ NeverOvercounts /\ [Next]_vars
    => NeverOvercounts'
<1> SUFFICES ASSUME TypeInv, ArchiveInv, AccountInv, NeverOvercounts, [Next]_vars
             PROVE  NeverOvercounts'
  OBVIOUS
<1>0. /\ active \in Summary /\ active.samples \in Nat
      /\ agg \in [RunId -> Nat] /\ DOMAIN drainer = RunId
      /\ batch \in [RunId -> Nat]
  BY DEF TypeInv, TypeOK, InnerTypeOK, ServerTypeOK, TasksTypeOK, Summary
<1>1. ASSUME NEW c \in Clients, ClaimSlot(c) PROVE NeverOvercounts'
  <2>1. CASE active.id # None
    BY <1>1, <2>1, CountFrame DEF ClaimSlot, inner, ingest
  <2>2. CASE active.id = None
    <3>1. /\ active'.id = run[c] /\ active'.samples = 0
          /\ agg' = agg /\ drainer' = drainer
      BY <1>1, <2>2 DEF ClaimSlot, Recording, ingest
    <3>2. agg[run[c]] = 0 /\ drainer[run[c]] = "none"
      BY <1>1, ClaimedRunIsNew DEF ClaimSlot, Claims, Traces
    <3> QED BY <3>1, <3>2 DEF NeverOvercounts
  <2> QED BY <2>1, <2>2
<1>2. ASSUME NEW c \in Clients, ResetAggregator(c) PROVE NeverOvercounts'
  <2>1. /\ active' = active /\ drainer' = drainer
        /\ \A r \in RunId : agg'[r] = 0
    BY <1>2 DEF ResetAggregator, inner, ingest
  <2> QED BY <1>0, <2>1 DEF NeverOvercounts
<1>3. ASSUME NEW r \in RunId, ApplyEvent(r) PROVE NeverOvercounts'
  <2>1. CASE active.id = r
    <3>1. /\ active'.id = r /\ active'.samples = active.samples + 1
          /\ agg' = agg /\ drainer[r] # "write"
      BY <1>0, <1>3, <2>1 DEF ApplyEvent, Summary
    <3> QED BY <1>0, <2>1, <3>1 DEF NeverOvercounts
  <2>2. CASE active.id # r
    <3>1. \A q \in RunId : drainer'[q] = "write" => drainer[q] = "write"
      BY <1>0, <1>3, <2>2 DEF ApplyEvent, NextEvent
    <3> QED BY <1>3, <2>2, <3>1, CountFrame DEF ApplyEvent
  <2> QED BY <2>1, <2>2
<1>4. ASSUME NEW r \in RunId, WriteEvent(r) PROVE NeverOvercounts'
  <2>1. /\ active' = active /\ drainer[r] = "write" /\ drainer'[r] # "write"
        /\ agg'[r] = agg[r] + 1
        /\ \A q \in RunId \ {r} : agg'[q] = agg[q] /\ drainer'[q] = drainer[q]
    BY <1>0, <1>4 DEF WriteEvent, NextEvent, inner
  <2> QED BY <1>0, <2>1 DEF NeverOvercounts
<1>5. ASSUME NEW c \in Clients, NEW k \in Starts, BeginRun(c, k)
      PROVE  NeverOvercounts'
  BY <1>5, CountFrame DEF BeginRun, ReleaseSlot, NoActive, inner, ingest
<1>6. ASSUME NEW c \in Clients, DiscardStartFailed(c) PROVE NeverOvercounts'
  BY <1>6, CountFrame DEF DiscardStartFailed, ReleaseSlot, NoActive, inner, ingest
<1>7. ASSUME NEW c \in Clients, StopActive(c) PROVE NeverOvercounts'
  BY <1>0, <1>7, CountFrame DEF StopActive, Summary, ingest
<1>8. ASSUME NEW c \in Clients,
             \/ AllocRunId(c) \/ OpenIngest(c) \/ OpenTerminal(c)
             \/ SpawnShade(c) \/ RecordShadeChild(c) \/ NotifyDrainer(c)
             \/ ReapShadeChild(c) \/ StopReturns(c) \/ StopNothing(c)
      PROVE  NeverOvercounts'
  <2>1. active' = active /\ agg' = agg
    BY <1>8
    DEF AllocRunId, OpenIngest, OpenTerminal, SpawnShade, RecordShadeChild,
        NotifyDrainer, ReapShadeChild, StopReturns, StopNothing, vars, inner
  <2>2. \A r \in RunId : drainer'[r] = "write" => drainer[r] = "write"
    BY <1>0, <1>8
    DEF AllocRunId, OpenIngest, OpenTerminal, SpawnShade, RecordShadeChild,
        NotifyDrainer, ReapShadeChild, StopReturns, StopNothing, vars, ingest
  <2> QED BY <2>1, <2>2, CountFrame
<1>9. ASSUME NEW r \in RunId,
             \/ \E n \in 1..MaxEvents : DrainerRecv(r, n)
             \/ CancelForRun(r) \/ AttachIngest(r) \/ DrainerClosed(r)
             \/ DetachIngest(r) \/ DrainerReap(r)
      PROVE  NeverOvercounts'
  <2>1. active' = active /\ agg' = agg
    BY <1>9
    DEF DrainerRecv, CancelForRun, AttachIngest, DrainerClosed, DetachIngest,
        DrainerReap, inner
  <2>2. \A q \in RunId : drainer'[q] = "write" => drainer[q] = "write"
    BY <1>0, <1>9
    DEF DrainerRecv, CancelForRun, AttachIngest, DrainerClosed, DetachIngest,
        DrainerReap
  <2> QED BY <2>1, <2>2, CountFrame
<1>10. ASSUME NEW r \in RunId, DrainerFinalize(r) \/ MonitorFinalize(r)
       PROVE  NeverOvercounts'
  <2>1. active' = active \/ active' = NoActive
    BY <1>10 DEF DrainerFinalize, MonitorFinalize, FinalizeRun, ReleaseSlot
  <2>2. agg' = agg /\ \A q \in RunId : drainer'[q] = "write" => drainer[q] = "write"
    BY <1>0, <1>10 DEF DrainerFinalize, MonitorFinalize, AfterFinalize, ingest
  <2> QED BY <2>1, <2>2, CountFrame DEF NoActive
<1>11. ASSUME NEW r \in RunId,
              \/ \E st \in Exits : ShadeExit(r, st)
              \/ ReapTakenShadeChild(r) \/ TryRegisterShade(r)
              \/ FillShadeSlot(r) \/ SessionClosed(r) \/ AttachTerminal(r)
              \/ MonitorTick(r) \/ ShadeChildExited(r) \/ MonitorReap(r)
       PROVE  UNCHANGED <<active, agg, drainer>>
  BY <1>11
  DEF ShadeExit, ReapTakenShadeChild, TryRegisterShade, FillShadeSlot,
      SessionClosed, AttachTerminal, MonitorTick, ShadeChildExited,
      MonitorReap, inner, ingest
<1>12. ASSUME WatchdogRead \/ WatchdogProbe \/ UNCHANGED vars
       PROVE  UNCHANGED <<active, agg, drainer>>
  BY <1>12 DEF WatchdogRead, WatchdogProbe, vars, inner, ingest
<1>13. ASSUME UNCHANGED <<active, agg, drainer>> PROVE NeverOvercounts'
  BY <1>13, CountFrame
<1> QED
  BY <1>1, <1>2, <1>3, <1>4, <1>5, <1>6, <1>7, <1>8, <1>9, <1>10, <1>11,
     <1>12, <1>13
  DEF Next, ClientCall, ClientStep, ShadeStep, TaskStep

\* The summary of the active run counts at least the events that the aggregator
\* holds of it, although the count and the write are two critical sections and
\* the aggregator is replaced in between.
THEOREM AggregatorNeverOvercounts == Spec => []NeverOvercounts
<1>1. Init => NeverOvercounts
  BY DEF Init, NeverOvercounts, NoActive, RunId, None
<1> QED
  BY <1>1, NextCount, TypeInvariant, ArchiveInvariant, AccountInvariant, PTL
  DEF Spec

-----------------------------------------------------------------------------
(* The reason of a run's end follows its own shade.  A shade has an exit    *)
(* status once it is a zombie, and a task that has seen an exit has one to  *)
(* report; a handler that has not spawned its shade yet is the only one to  *)
(* hold its run, and the run it holds can only have been ended by a user.   *)

StatusKnown ==
  \A r \in RunId :
    /\ proc[r] \in {"none", "running"} => status[r] = "none"
    /\ proc[r] = "zombie" => status[r] # "none"
    /\ monitor[r] \in {"exited", "finalize"} => status[r] # "none"

StoppedByUser ==
  active.id # None /\ active.state = "Stopped" => active.reason = "UserStop"

Early(c) == pc[c] \in {"claim", "reset", "open", "spawn"}

EarlyRuns ==
  \A c \in Clients : Early(c) =>
    /\ proc[run[c]] = "none"
    /\ \A i \in 1..Len(history) :
         history[i].id = run[c] => history[i].reason = "UserStop"
    /\ \A d \in Clients \ {c} : Early(d) => run[d] # run[c]

HistoryOfRuns == \A i \in 1..Len(history) : history[i].id \in RunId

ReasonInv ==
  StatusKnown /\ StoppedByUser /\ EarlyRuns /\ HistoryOfRuns /\ ReasonFollowsShade

LEMMA InitReason == Init => ReasonInv
BY DEF Init, ReasonInv, StatusKnown, StoppedByUser, EarlyRuns, Early,
       HistoryOfRuns, ReasonFollowsShade, NoActive, None

\* An early handler's run has a number: the handler has allocated it.
LEMMA EarlyHasRun == ASSUME TypeInv, NEW c \in Clients, Early(c) PROVE run[c] \in RunId
BY DEF TypeInv, RunAllocated, Early

NoNewEarly == \A c \in Clients : Early(c)' => Early(c) /\ run'[c] = run[c]

\* Only the allocation of a number makes a handler early, and it changes
\* neither the shades nor the history.
LEMMA EarlyStep ==
  TypeInv /\ [Next]_vars
    => NoNewEarly \/ \E c \in Clients : AllocRunId(c)
<1> SUFFICES ASSUME TypeInv, [Next]_vars, \A c \in Clients : ~AllocRunId(c)
             PROVE  NoNewEarly
  OBVIOUS
<1>0. pc \in [Clients -> PC] /\ run \in [Clients -> OptRun]
  BY DEF TypeInv, TypeOK, CallersTypeOK
<1>1. ASSUME NEW c \in Clients, NEW k \in Starts, BeginRun(c, k)
      PROVE  NoNewEarly
  BY <1>0, <1>1 DEF BeginRun, NoNewEarly, Early, Goto
<1>2. ASSUME NEW c \in Clients,
             \/ ClaimSlot(c) \/ ResetAggregator(c) \/ OpenIngest(c)
             \/ OpenTerminal(c) \/ SpawnShade(c) \/ RecordShadeChild(c)
             \/ DiscardStartFailed(c) \/ StopActive(c) \/ NotifyDrainer(c)
             \/ ReapShadeChild(c) \/ StopReturns(c) \/ StopNothing(c)
      PROVE  NoNewEarly
  BY <1>0, <1>2
  DEF ClaimSlot, ResetAggregator, OpenIngest, OpenTerminal, SpawnShade,
      RecordShadeChild, DiscardStartFailed, StopActive, NotifyDrainer,
      ReapShadeChild, StopReturns, StopNothing, NoNewEarly, Early, Goto,
      Return, vars, callers
<1>3. ASSUME NEW r \in RunId, ShadeStep(r) \/ TaskStep(r)
      PROVE  UNCHANGED <<pc, run>>
  BY <1>3
  DEF ShadeStep, TaskStep, ShadeExit, DrainerRecv, ReapTakenShadeChild,
      TryRegisterShade, FillShadeSlot, SessionClosed, AttachTerminal,
      CancelForRun, AttachIngest, ApplyEvent, WriteEvent, DrainerClosed,
      DetachIngest, DrainerFinalize, DrainerReap, MonitorTick,
      ShadeChildExited, MonitorFinalize, MonitorReap, callers
<1>4. ASSUME WatchdogRead \/ WatchdogProbe \/ UNCHANGED vars
      PROVE  UNCHANGED <<pc, run>>
  BY <1>4 DEF WatchdogRead, WatchdogProbe, vars, callers
<1>5. ASSUME UNCHANGED <<pc, run>> PROVE NoNewEarly
  BY <1>5 DEF NoNewEarly, Early
<1> QED BY <1>1, <1>2, <1>3, <1>4, <1>5 DEF Next, ClientCall, ClientStep

\* A shade comes to exist by the step of its early handler, which ends there;
\* its exit status is set once.
ShadesStay ==
  \A r \in RunId :
    /\ status[r] # "none" => status'[r] = status[r]
    /\ proc[r] = "none" /\ proc'[r] # "none" =>
         /\ history' = history
         /\ \E c \in Clients : Early(c) /\ run[c] = r /\ ~Early(c)'

LEMMA ShadesFrame ==
  ASSUME TypeInv, StatusKnown,
         \A r \in RunId :
           /\ proc'[r] = proc[r] /\ status'[r] = status[r]
           /\ monitor'[r] \in {"exited", "finalize"} =>
                monitor[r] \in {"exited", "finalize"}
  PROVE  StatusKnown' /\ ShadesStay
BY DEF StatusKnown, ShadesStay

LEMMA NextShades ==
  TypeInv /\ StatusKnown /\ EarlyRuns /\ [Next]_vars
    => StatusKnown' /\ ShadesStay
<1> DEFINE Goal == StatusKnown' /\ ShadesStay
<1> SUFFICES ASSUME TypeInv, StatusKnown, EarlyRuns, [Next]_vars PROVE Goal
  OBVIOUS
<1>0. /\ pc \in [Clients -> PC] /\ DOMAIN proc = RunId /\ DOMAIN status = RunId
      /\ DOMAIN monitor = RunId
  BY DEF TypeInv, TypeOK, CallersTypeOK, ShadesTypeOK, TasksTypeOK
<1>1. ASSUME NEW c \in Clients, SpawnShade(c) PROVE Goal
  <2>1. Early(c) /\ ~Early(c)' /\ proc[run[c]] = "none" /\ run[c] \in RunId
    BY <1>0, <1>1, EarlyHasRun DEF SpawnShade, Early, EarlyRuns, Goto
  <2>2. /\ history' = history /\ status' = status /\ monitor' = monitor
        /\ \A r \in RunId : proc'[r] = IF r = run[c] THEN "running" ELSE proc[r]
    BY <1>0, <1>1 DEF SpawnShade, inner
  <2> QED BY <2>1, <2>2 DEF StatusKnown, ShadesStay
<1>2. ASSUME NEW c \in Clients, RecordShadeChild(c) PROVE Goal
  BY <1>0, <1>2, ShadesFrame DEF RecordShadeChild
<1>3. ASSUME NEW r \in RunId, NEW st \in Exits, ShadeExit(r, st) PROVE Goal
  <2>1. st # "none"
    BY RegistryAssumption DEF Ending
  <2> QED BY <1>0, <1>3, <2>1 DEF ShadeExit, StatusKnown, ShadesStay
<1>4. ASSUME NEW r \in RunId, ReapTakenShadeChild(r) \/ MonitorTick(r) PROVE Goal
  BY <1>0, <1>4 DEF ReapTakenShadeChild, MonitorTick, StatusKnown, ShadesStay
<1>5. ASSUME NEW r \in RunId,
             ShadeChildExited(r) \/ MonitorFinalize(r) \/ MonitorReap(r)
      PROVE  Goal
  BY <1>0, <1>5, ShadesFrame
  DEF ShadeChildExited, MonitorFinalize, MonitorReap, AfterFinalize, shades
<1>6. ASSUME NEW c \in Clients, NEW k \in Starts, BeginRun(c, k)
      PROVE  UNCHANGED <<proc, status, monitor>>
  BY <1>6 DEF BeginRun
<1>7. ASSUME NEW c \in Clients,
             \/ AllocRunId(c) \/ ClaimSlot(c) \/ ResetAggregator(c)
             \/ OpenIngest(c) \/ OpenTerminal(c) \/ DiscardStartFailed(c)
             \/ StopActive(c) \/ NotifyDrainer(c) \/ ReapShadeChild(c)
             \/ StopReturns(c) \/ StopNothing(c)
      PROVE  UNCHANGED <<proc, status, monitor>>
  BY <1>7
  DEF AllocRunId, ClaimSlot, ResetAggregator, OpenIngest, OpenTerminal,
      DiscardStartFailed, StopActive, NotifyDrainer, ReapShadeChild,
      StopReturns, StopNothing, vars, shades
<1>8. ASSUME NEW r \in RunId,
             \/ \E n \in 1..MaxEvents : DrainerRecv(r, n)
             \/ TryRegisterShade(r) \/ FillShadeSlot(r) \/ SessionClosed(r)
             \/ AttachTerminal(r) \/ CancelForRun(r) \/ AttachIngest(r)
             \/ ApplyEvent(r) \/ WriteEvent(r) \/ DrainerClosed(r)
             \/ DetachIngest(r) \/ DrainerFinalize(r) \/ DrainerReap(r)
      PROVE  UNCHANGED <<proc, status, monitor>>
  BY <1>8
  DEF DrainerRecv, TryRegisterShade, FillShadeSlot, SessionClosed,
      AttachTerminal, CancelForRun, AttachIngest, ApplyEvent, WriteEvent,
      DrainerClosed, DetachIngest, DrainerFinalize, DrainerReap, shades
<1>9. ASSUME WatchdogRead \/ WatchdogProbe \/ UNCHANGED vars
      PROVE  UNCHANGED <<proc, status, monitor>>
  BY <1>9 DEF WatchdogRead, WatchdogProbe, vars, shades
<1>10. ASSUME UNCHANGED <<proc, status, monitor>> PROVE Goal
  BY <1>10, ShadesFrame
<1> HIDE DEF Goal
<1> QED
  BY <1>1, <1>2, <1>3, <1>4, <1>5, <1>6, <1>7, <1>8, <1>9, <1>10
  DEF Next, ClientCall, ClientStep, ShadeStep, TaskStep

LEMMA NextStopped == TypeInv /\ StoppedByUser /\ [Next]_vars => StoppedByUser'
<1> SUFFICES ASSUME TypeInv, StoppedByUser, [Next]_vars PROVE StoppedByUser'
  OBVIOUS
<1>0. active \in Summary
  BY DEF TypeInv, TypeOK, InnerTypeOK
<1>1. ASSUME NEW c \in Clients, NEW k \in Starts, BeginRun(c, k)
      PROVE  StoppedByUser'
  BY <1>1 DEF BeginRun, ReleaseSlot, NoActive, StoppedByUser, inner
<1>2. ASSUME NEW c \in Clients,
             ClaimSlot(c) \/ DiscardStartFailed(c) \/ StopActive(c)
      PROVE  StoppedByUser'
  <2>1. CASE ClaimSlot(c)
    BY <2>1 DEF ClaimSlot, Recording, StoppedByUser, inner
  <2>2. CASE DiscardStartFailed(c)
    BY <2>2 DEF DiscardStartFailed, ReleaseSlot, NoActive, StoppedByUser, inner
  <2>3. CASE StopActive(c)
    BY <1>0, <2>3 DEF StopActive, Summary, StoppedByUser
  <2> QED BY <1>2, <2>1, <2>2, <2>3
<1>3. ASSUME NEW r \in RunId,
             ApplyEvent(r) \/ DrainerFinalize(r) \/ MonitorFinalize(r)
      PROVE  StoppedByUser'
  BY <1>0, <1>3
  DEF ApplyEvent, DrainerFinalize, MonitorFinalize, FinalizeRun, ReleaseSlot,
      NoActive, StoppedByUser, Summary
<1>4. ASSUME NEW c \in Clients,
             \/ AllocRunId(c) \/ ResetAggregator(c) \/ OpenIngest(c)
             \/ OpenTerminal(c) \/ SpawnShade(c) \/ RecordShadeChild(c)
             \/ NotifyDrainer(c) \/ ReapShadeChild(c) \/ StopReturns(c)
             \/ StopNothing(c)
      PROVE  active' = active
  BY <1>4
  DEF AllocRunId, ResetAggregator, OpenIngest, OpenTerminal, SpawnShade,
      RecordShadeChild, NotifyDrainer, ReapShadeChild, StopReturns,
      StopNothing, vars, inner
<1>5. ASSUME NEW r \in RunId,
             \/ \E st \in Exits : ShadeExit(r, st)
             \/ \E n \in 1..MaxEvents : DrainerRecv(r, n)
             \/ ReapTakenShadeChild(r) \/ TryRegisterShade(r)
             \/ FillShadeSlot(r) \/ SessionClosed(r) \/ AttachTerminal(r)
             \/ CancelForRun(r) \/ AttachIngest(r) \/ WriteEvent(r)
             \/ DrainerClosed(r) \/ DetachIngest(r) \/ DrainerReap(r)
             \/ MonitorTick(r) \/ ShadeChildExited(r) \/ MonitorReap(r)
      PROVE  active' = active
  BY <1>5
  DEF ShadeExit, DrainerRecv, ReapTakenShadeChild, TryRegisterShade,
      FillShadeSlot, SessionClosed, AttachTerminal, CancelForRun,
      AttachIngest, WriteEvent, DrainerClosed, DetachIngest, DrainerReap,
      MonitorTick, ShadeChildExited, MonitorReap, inner
<1>6. ASSUME WatchdogRead \/ WatchdogProbe \/ UNCHANGED vars
      PROVE  active' = active
  BY <1>6 DEF WatchdogRead, WatchdogProbe, vars, inner
<1>7. ASSUME active' = active PROVE StoppedByUser'
  BY <1>7 DEF StoppedByUser
<1> QED
  BY <1>1, <1>2, <1>3, <1>4, <1>5, <1>6, <1>7
  DEF Next, ClientCall, ClientStep, ShadeStep, TaskStep

\* What a new entry of the history says: the user stopped the run, its shade
\* exited that way, or its early handler gave up and returned.
TrueEnd(s) ==
  /\ s.id \in RunId /\ s.state = "Stopped"
  /\ \/ s.reason = "UserStop"
     \/ s.reason = "TargetExited" /\ Succeeded(s.id)
     \/ s.reason = "RecorderError" /\ status[s.id] = "failure"
     \/ /\ s.reason = "RecorderError"
        /\ \E c \in Clients : Early(c) /\ run[c] = s.id /\ ~Early(c)'

HistoryGrows ==
  \/ history' = history
  \/ \E s : TrueEnd(s) /\ history' = Append(history, s) /\ UNCHANGED <<proc, status>>

LEMMA FinalizeGrows ==
  ASSUME TypeInv, StoppedByUser, NEW r \in RunId, NEW why, FinalizeRun(r, why),
         UNCHANGED <<proc, status>>,
         \/ why = "UserStop"
         \/ why = "TargetExited" /\ Succeeded(r)
         \/ why = "RecorderError" /\ status[r] = "failure"
  PROVE  HistoryGrows
<1>1. CASE active.id = r
  <2> DEFINE s == IF active.state = "Stopped" THEN active
                  ELSE [active EXCEPT !.state = "Stopped", !.reason = why]
  <2>1. /\ s.id = r /\ s.state = "Stopped"
        /\ s.reason = "UserStop" \/ s.reason = why
    BY <1>1 DEF TypeInv, TypeOK, InnerTypeOK, Summary, StoppedByUser, RunId, None
  <2>2. history' = Append(history, s)
    BY <1>1 DEF FinalizeRun
  <2> HIDE DEF s
  <2>3. TrueEnd(s)
    BY <2>1 DEF TrueEnd
  <2> QED BY <2>2, <2>3 DEF HistoryGrows
<1>2. CASE active.id # r
  BY <1>2 DEF FinalizeRun, HistoryGrows
<1> QED BY <1>1, <1>2

LEMMA EntriesAreTrue ==
  TypeInv /\ StatusKnown /\ StoppedByUser /\ [Next]_vars => HistoryGrows
<1> SUFFICES ASSUME TypeInv, StatusKnown, StoppedByUser, [Next]_vars
             PROVE  HistoryGrows
  OBVIOUS
<1>0. /\ active \in Summary /\ pc \in [Clients -> PC]
      /\ status \in [RunId -> Ending \cup {"none"}]
  BY DEF TypeInv, TypeOK, InnerTypeOK, CallersTypeOK, ShadesTypeOK
<1>1. ASSUME NEW c \in Clients, NEW k \in Starts, BeginRun(c, k)
      PROVE  HistoryGrows
  <2>1. CASE active.id # None /\ active.state = "Stopped" /\ ~InHistory(active.id)
    <3>1. TrueEnd(active)
      BY <1>0, <2>1 DEF TrueEnd, StoppedByUser, Summary, OptRun
    <3> QED BY <1>1, <2>1, <3>1 DEF BeginRun, HistoryGrows
  <2>2. CASE ~(active.id # None /\ active.state = "Stopped" /\ ~InHistory(active.id))
    BY <1>1, <2>2 DEF BeginRun, HistoryGrows, inner
  <2> QED BY <2>1, <2>2
<1>2. ASSUME NEW c \in Clients, DiscardStartFailed(c) PROVE HistoryGrows
  <2>1. CASE active.id = run[c]
    <3> DEFINE s == [active EXCEPT !.state = "Stopped", !.reason = "RecorderError"]
    <3>1. s.id = run[c] /\ s.state = "Stopped" /\ s.reason = "RecorderError"
      BY <1>0, <2>1 DEF Summary
    <3>2. Early(c) /\ ~Early(c)' /\ run[c] \in RunId
      BY <1>0, <1>2, EarlyHasRun DEF DiscardStartFailed, Early, Goto, Return
    <3>3. history' = Append(history, s) /\ UNCHANGED <<proc, status>>
      BY <1>2, <2>1 DEF DiscardStartFailed, shades
    <3> HIDE DEF s
    <3>4. TrueEnd(s)
      BY <3>1, <3>2 DEF TrueEnd
    <3> QED BY <3>3, <3>4 DEF HistoryGrows
  <2>2. CASE active.id # run[c]
    BY <1>2, <2>2 DEF DiscardStartFailed, HistoryGrows, inner
  <2> QED BY <2>1, <2>2
<1>3. ASSUME NEW r \in RunId, DrainerFinalize(r) PROVE HistoryGrows
  BY <1>3, FinalizeGrows DEF DrainerFinalize, shades
<1>4. ASSUME NEW r \in RunId, MonitorFinalize(r) PROVE HistoryGrows
  <2>1. Succeeded(r) \/ status[r] = "failure"
    BY <1>0, <1>4 DEF MonitorFinalize, StatusKnown, Succeeded
  <2> QED BY <1>4, <2>1, FinalizeGrows DEF MonitorFinalize, shades
<1>5. ASSUME NEW c \in Clients,
             \/ AllocRunId(c) \/ ClaimSlot(c) \/ ResetAggregator(c)
             \/ OpenIngest(c) \/ OpenTerminal(c) \/ SpawnShade(c)
             \/ RecordShadeChild(c) \/ StopActive(c) \/ NotifyDrainer(c)
             \/ ReapShadeChild(c) \/ StopReturns(c) \/ StopNothing(c)
      PROVE  history' = history
  BY <1>5
  DEF AllocRunId, ClaimSlot, ResetAggregator, OpenIngest, OpenTerminal,
      SpawnShade, RecordShadeChild, StopActive, NotifyDrainer,
      ReapShadeChild, StopReturns, StopNothing, vars, inner
<1>6. ASSUME NEW r \in RunId,
             \/ \E st \in Exits : ShadeExit(r, st)
             \/ \E n \in 1..MaxEvents : DrainerRecv(r, n)
             \/ ReapTakenShadeChild(r) \/ TryRegisterShade(r)
             \/ FillShadeSlot(r) \/ SessionClosed(r) \/ AttachTerminal(r)
             \/ CancelForRun(r) \/ AttachIngest(r) \/ ApplyEvent(r)
             \/ WriteEvent(r) \/ DrainerClosed(r) \/ DetachIngest(r)
             \/ DrainerReap(r) \/ MonitorTick(r) \/ ShadeChildExited(r)
             \/ MonitorReap(r)
      PROVE  history' = history
  BY <1>6
  DEF ShadeExit, DrainerRecv, ReapTakenShadeChild, TryRegisterShade,
      FillShadeSlot, SessionClosed, AttachTerminal, CancelForRun,
      AttachIngest, ApplyEvent, WriteEvent, DrainerClosed, DetachIngest,
      DrainerReap, MonitorTick, ShadeChildExited, MonitorReap, inner
<1>7. ASSUME WatchdogRead \/ WatchdogProbe \/ UNCHANGED vars
      PROVE  history' = history
  BY <1>7 DEF WatchdogRead, WatchdogProbe, vars, inner
<1>8. ASSUME history' = history PROVE HistoryGrows
  BY <1>8 DEF HistoryGrows
<1> QED
  BY <1>1, <1>2, <1>3, <1>4, <1>5, <1>6, <1>7, <1>8
  DEF Next, ClientCall, ClientStep, ShadeStep, TaskStep

\* The number a handler has allocated is nobody else's, and nothing of that run
\* exists yet.
LEMMA AllocEarly ==
  ASSUME TypeInv, ArchiveInv, AccountInv, EarlyRuns,
         NEW c \in Clients, AllocRunId(c)
  PROVE  EarlyRuns'
<1> DEFINE n == nextRunId
<1>0. /\ pc \in [Clients -> PC] /\ run \in [Clients -> OptRun]
      /\ n \in RunId /\ OptRun \subseteq Nat /\ RunId \subseteq Nat
  BY RegistryAssumption
  DEF AllocRunId, TypeInv, TypeOK, CallersTypeOK, ServerTypeOK, OptRun, RunId, None
<1>1. /\ Early(c)' /\ run'[c] = n
      /\ \A d \in Clients \ {c} : Early(d)' = Early(d) /\ run'[d] = run[d]
      /\ UNCHANGED <<proc, history>>
  BY <1>0 DEF AllocRunId, Early, Goto, inner, shades
<1>2. active.id # n /\ \A i \in 1..Len(history) : history[i].id # n
  <2>1. active.id \in Nat /\ \A i \in 1..Len(history) : history[i].id \in Nat
    <3>1. active \in Summary /\ \A i \in 1..Len(history) : history[i] \in Summary
      BY DEF TypeInv, TypeOK, InnerTypeOK
    <3> QED BY <1>0, <3>1 DEF Summary
  <2> QED BY <1>0, <2>1 DEF ArchiveInv, IdsAllocated
<1>3. ~Placed(n)
  BY <1>2 DEF Placed, InHistory
<1>4. proc[n] = "none" /\ ~Held(n)
  BY <1>0, <1>3 DEF AccountInv, Traces
<1>5. ASSUME NEW d \in Clients, Early(d) PROVE run[d] # n
  <2>1. CASE Claims(d)
    BY <1>0, <2>1 DEF ArchiveInv, IdsAllocated
  <2>2. CASE Holds(d)
    BY <1>4, <2>2 DEF Held
  <2> QED BY <1>5, <2>1, <2>2 DEF Early, Claims, Holds
<1>6. ~Early(c)
  BY DEF AllocRunId, Early
<1> HIDE DEF n
<1> QED BY <1>1, <1>2, <1>4, <1>5, <1>6 DEF EarlyRuns

LEMMA NextEarly ==
  ASSUME TypeInv, StatusKnown, EarlyRuns, NoNewEarly, ShadesStay, HistoryGrows
  PROVE  EarlyRuns'
<1> SUFFICES ASSUME NEW c \in Clients, Early(c)'
             PROVE  /\ proc'[run'[c]] = "none"
                    /\ \A i \in 1..Len(history') :
                         history'[i].id = run'[c] => history'[i].reason = "UserStop"
                    /\ \A d \in Clients \ {c} : Early(d)' => run'[d] # run'[c]
  BY DEF EarlyRuns
<1>1. Early(c) /\ run'[c] = run[c] /\ run[c] \in RunId
  BY EarlyHasRun DEF NoNewEarly
<1>2. proc[run[c]] = "none" /\ status[run[c]] = "none"
  BY <1>1 DEF EarlyRuns, StatusKnown
<1>3. \A d \in Clients : Early(d) /\ run[d] = run[c] => d = c
  BY <1>1 DEF EarlyRuns
<1>4. proc'[run[c]] = "none"
  BY <1>1, <1>2, <1>3 DEF ShadesStay
<1>5. ASSUME NEW i \in 1..Len(history'), history'[i].id = run[c]
      PROVE  history'[i].reason = "UserStop"
  <2>1. CASE history' = history
    BY <1>1, <1>5, <2>1 DEF EarlyRuns
  <2>2. ASSUME NEW s, TrueEnd(s), history' = Append(history, s)
        PROVE  history'[i].reason = "UserStop"
    <3>1. history \in Seq(Summary)
      BY DEF TypeInv, TypeOK, InnerTypeOK
    <3>2. \/ i \in 1..Len(history) /\ history'[i] = history[i]
          \/ history'[i] = s
      BY <2>2, <3>1
    <3>3. CASE i \in 1..Len(history) /\ history'[i] = history[i]
      BY <1>1, <1>5, <3>3 DEF EarlyRuns
    <3>4. CASE history'[i] = s
      BY <1>2, <1>3, <1>5, <2>2, <3>4 DEF TrueEnd, Succeeded, Ending
    <3> QED BY <3>2, <3>3, <3>4
  <2> QED BY <2>1, <2>2 DEF HistoryGrows
<1>6. \A d \in Clients \ {c} : Early(d)' => run'[d] # run[c]
  BY <1>3 DEF NoNewEarly
<1> QED BY <1>1, <1>4, <1>5, <1>6

\* An entry of the history stays true, and a new one is true.
LEMMA NextHistory ==
  ASSUME TypeInv, EarlyRuns, HistoryOfRuns, ReasonFollowsShade, ShadesStay, HistoryGrows
  PROVE  HistoryOfRuns' /\ ReasonFollowsShade'
<1> DEFINE Entry(h, st, p) ==
      /\ h.state = "Stopped" /\ h.reason \notin {"none", "TimeLimit"}
      /\ h.reason = "TargetExited" => st \in Ending \ {"failure"}
      /\ h.reason = "RecorderError" => st = "failure" \/ p = "none"
<1>1. ASSUME NEW i \in 1..Len(history), history' = history
      PROVE  /\ history[i].id \in RunId
             /\ Entry(history[i], status'[history[i].id], proc'[history[i].id])
  <2> DEFINE r == history[i].id
  <2>1. r \in RunId /\ Entry(history[i], status[r], proc[r])
    BY DEF HistoryOfRuns, ReasonFollowsShade, Succeeded
  <2>2. status[r] # "none" => status'[r] = status[r]
    BY <2>1 DEF ShadesStay
  <2>3. proc[r] = "none" => proc'[r] = "none" \/ history[i].reason = "UserStop"
    BY <2>1 DEF ShadesStay, EarlyRuns
  <2> HIDE DEF r
  <2> QED BY <2>1, <2>2, <2>3 DEF r, Ending
<1>2. CASE history' = history
  BY <1>1, <1>2 DEF HistoryOfRuns, ReasonFollowsShade, Succeeded
<1>3. ASSUME NEW s, TrueEnd(s), history' = Append(history, s),
             UNCHANGED <<proc, status>>
      PROVE  HistoryOfRuns' /\ ReasonFollowsShade'
  <2>1. history \in Seq(Summary)
    BY DEF TypeInv, TypeOK, InnerTypeOK
  <2>2. \A i \in 1..Len(history') :
          \/ i \in 1..Len(history) /\ history'[i] = history[i]
          \/ history'[i] = s
    BY <1>3, <2>1
  <2>3. s.id \in RunId /\ Entry(s, status[s.id], proc[s.id])
    BY <1>3 DEF TrueEnd, EarlyRuns, Succeeded
  <2>4. HistoryOfRuns'
    BY <2>2, <2>3 DEF HistoryOfRuns
  <2>5. ReasonFollowsShade'
    BY <1>3, <2>2, <2>3 DEF ReasonFollowsShade, Succeeded
  <2> QED BY <2>4, <2>5
<1> QED BY <1>2, <1>3 DEF HistoryGrows

LEMMA NextReason ==
  TypeInv /\ ArchiveInv /\ AccountInv /\ ReasonInv /\ [Next]_vars => ReasonInv'
<1> SUFFICES ASSUME TypeInv, ArchiveInv, AccountInv, ReasonInv, [Next]_vars
             PROVE  ReasonInv'
  OBVIOUS
<1> USE DEF ReasonInv
<1>1. StatusKnown' /\ ShadesStay /\ StoppedByUser' /\ HistoryGrows
  BY NextShades, NextStopped, EntriesAreTrue
<1>2. EarlyRuns'
  BY <1>1, EarlyStep, AllocEarly, NextEarly
<1>3. HistoryOfRuns' /\ ReasonFollowsShade'
  BY <1>1, NextHistory
<1> QED BY <1>1, <1>2, <1>3

\* Whichever of the user, the drainer, the monitor and a failed start ends a
\* run, the reason in the history follows the end of that run's own shade:
\* its success, its failure, or that it was never spawned.
THEOREM ReasonsFollowShades == Spec => []ReasonFollowsShade
<1>1. Spec => []ReasonInv
  BY InitReason, NextReason, TypeInvariant, ArchiveInvariant, AccountInvariant, PTL
  DEF Spec
<1> QED BY <1>1, PTL DEF ReasonInv

-----------------------------------------------------------------------------
(* The slot of a live shade.                                                *)

\* The premise of LiveShadeKept, and what may follow it.
LiveShade(r) ==
  /\ active.id = r /\ active.state = "Recording"
  /\ activeShade = r /\ proc[r] = "running" /\ sess[r] = "slotted"

LEMMA LiveShadeStep ==
  ASSUME TypeInv, NEW r \in RunId, LiveShade(r), [Next]_vars
  PROVE  \/ activeShade' = r
         \/ active'.id # r \/ active'.state = "Stopped"
         \/ sess'[r] = "closed"
<1> DEFINE Goal == \/ activeShade' = r
                   \/ active'.id # r \/ active'.state = "Stopped"
                   \/ sess'[r] = "closed"
<1>0. /\ active \in Summary /\ DOMAIN sess = RunId /\ r # None
      /\ active.id = r /\ active.state = "Recording" /\ activeShade = r
      /\ proc[r] = "running"
  BY DEF TypeInv, TypeOK, InnerTypeOK, ShadesTypeOK, RunId, None, LiveShade
<1>1. ASSUME NEW c \in Clients, NEW k \in Starts, BeginRun(c, k) PROVE Goal
  BY <1>0, <1>1 DEF BeginRun, inner
<1>2. ASSUME NEW c \in Clients, DiscardStartFailed(c) PROVE Goal
  BY <1>0, <1>2 DEF DiscardStartFailed, ReleaseSlot, NoActive, inner
<1>3. ASSUME NEW c \in Clients, StopActive(c) PROVE Goal
  BY <1>0, <1>3 DEF StopActive, Summary
<1>4. ASSUME NEW q \in RunId, DrainerFinalize(q) \/ MonitorFinalize(q) PROVE Goal
  BY <1>0, <1>4
  DEF DrainerFinalize, MonitorFinalize, FinalizeRun, ReleaseSlot, NoActive
<1>5. ASSUME NEW q \in RunId, SessionClosed(q) PROVE Goal
  BY <1>0, <1>5 DEF SessionClosed
<1>6. ASSUME NEW q \in RunId, TryRegisterShade(q) PROVE Goal
  BY <1>0, <1>6 DEF TryRegisterShade
<1>7. ASSUME WatchdogProbe PROVE Goal
  BY <1>0, <1>7 DEF WatchdogProbe
<1>8. ASSUME NEW c \in Clients,
             \/ AllocRunId(c) \/ ClaimSlot(c) \/ ResetAggregator(c)
             \/ OpenIngest(c) \/ OpenTerminal(c) \/ SpawnShade(c)
             \/ RecordShadeChild(c) \/ NotifyDrainer(c) \/ ReapShadeChild(c)
             \/ StopReturns(c) \/ StopNothing(c)
      PROVE  activeShade' = activeShade
  BY <1>8
  DEF AllocRunId, ClaimSlot, ResetAggregator, OpenIngest, OpenTerminal,
      SpawnShade, RecordShadeChild, NotifyDrainer, ReapShadeChild,
      StopReturns, StopNothing, vars, inner
<1>9. ASSUME NEW q \in RunId,
             \/ \E st \in Exits : ShadeExit(q, st)
             \/ \E n \in 1..MaxEvents : DrainerRecv(q, n)
             \/ ReapTakenShadeChild(q) \/ FillShadeSlot(q) \/ AttachTerminal(q)
             \/ CancelForRun(q) \/ AttachIngest(q) \/ ApplyEvent(q)
             \/ WriteEvent(q) \/ DrainerClosed(q) \/ DetachIngest(q)
             \/ DrainerReap(q) \/ MonitorTick(q) \/ ShadeChildExited(q)
             \/ MonitorReap(q)
      PROVE  activeShade' = activeShade
  BY <1>9
  DEF ShadeExit, DrainerRecv, ReapTakenShadeChild, FillShadeSlot,
      AttachTerminal, CancelForRun, AttachIngest, ApplyEvent, WriteEvent,
      DrainerClosed, DetachIngest, DrainerReap, MonitorTick,
      ShadeChildExited, MonitorReap, inner
<1>10. ASSUME WatchdogRead \/ UNCHANGED vars PROVE activeShade' = activeShade
  BY <1>10 DEF WatchdogRead, vars, inner
<1> QED
  BY <1>0, <1>1, <1>2, <1>3, <1>4, <1>5, <1>6, <1>7, <1>8, <1>9, <1>10
  DEF Next, ClientCall, ClientStep, ShadeStep, TaskStep

\* Neither the close of another session nor the watchdog, with the pid it read
\* before, takes the slot from a shade that lives and records.
THEOREM LiveShadesAreKept == Spec => LiveShadeKept
<1> DEFINE Kept == \A r \in RunId :
       /\ active.id = r /\ active.state = "Recording"
       /\ activeShade = r /\ proc[r] = "running" /\ sess[r] = "slotted"
       => \/ activeShade' = r
          \/ active'.id # r \/ active'.state = "Stopped"
          \/ sess'[r] = "closed"
<1>1. TypeInv /\ [Next]_vars => Kept
  BY LiveShadeStep DEF LiveShade
<1>2. Kept => [Kept]_vars
  OBVIOUS
<1> HIDE DEF Kept
<1>3. Spec => [][Kept]_vars
  BY <1>1, <1>2, TypeInvariant, PTL DEF Spec
<1> QED BY <1>3 DEF LiveShadeKept, Kept
=============================================================================
