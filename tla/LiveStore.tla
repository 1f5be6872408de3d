----------------------------- MODULE LiveStore ------------------------------
(***************************************************************************)
(* The aggregator and the binary registry as the server runs them: the     *)
(* drainer records what the recorder reports, the ingest calls load        *)
(* binaries, and requests of the Profiler service read both under their    *)
(* locks (how a subscription follows the changes is Subscription).  The    *)
(* recorder is external: threads go on and off a CPU, and each closed      *)
(* interval is reported when it ends (CpuIntervals).                       *)
(***************************************************************************)
EXTENDS Aggregator

CONSTANTS
  Images,      \* binaries the recorder may report
  Stacks,      \* stacks of samples
  Filters,     \* filters of requests
  Delays,      \* time between two events
  MaxChanges   \* bound: changes to the aggregator and the registry

ASSUME LiveStoreAssumption ==
  /\ MaxChanges \in Nat
  /\ MaxEventsPerThread \in Nat \ {0}
  /\ Delays \subseteq Nat
  /\ Images \subseteq {b \in LoadedBinary : SymbolsApart(b.syms)}

VARIABLES
  \* the recorder (external)
  clock,
  running,     \* threads on a CPU
  since,       \* when each thread last went on or off
  cached,      \* last_user_stack of each thread
  changes      \* how many changes have been applied

recorder == <<clock, running, since, cached>>
vars     == <<recorder, registry, aggregator, changes>>

Init ==
  /\ RegistryInit
  /\ AggregatorInit
  /\ clock = 1
  /\ running \in SUBSET Threads
  /\ since = [t \in Threads |-> 1]
  /\ cached = [t \in Threads |-> <<>>]
  /\ changes = 0

-----------------------------------------------------------------------------
(* The server.                                                             *)

OneChange == changes < MaxChanges /\ changes' = changes + 1

\* The drainer, one event of the recorder at a time.
ApplySample(t, stack, now) ==
  /\ OneChange
  /\ clock' = now
  /\ cached' = IF stack = <<>> THEN cached ELSE [cached EXCEPT ![t] = stack]
  /\ RecordPetSample(t, now, stack)
  /\ UNCHANGED <<running, since, registry>>

ApplyInterval(t, now) ==
  /\ now > since[t]
  /\ OneChange
  /\ clock' = now
  /\ since' = [since EXCEPT ![t] = now]
  /\ running' = IF t \in running THEN running \ {t} ELSE running \cup {t}
  /\ RecordInterval(t,
       [start |-> since[t], end |-> now,
        kind  |-> IF t \in running THEN "OnCpu" ELSE "OffCpu",
        stack |-> IF t \in running THEN <<>> ELSE cached[t]])
  /\ UNCHANGED <<cached, registry>>

ApplyWakeup(t, waker, now) ==
  /\ t \notin running /\ waker \in running
  /\ OneChange
  /\ clock' = now
  /\ RecordWakeup(t, now, waker,
       IF cached[waker] = <<>> THEN 0 ELSE Head(cached[waker]))
  /\ UNCHANGED <<running, since, cached, registry>>

\* The calls.
ApplyBinaryLoaded(binary) ==
  /\ \A i \in DOMAIN byBase : byBase[i] # binary
  /\ OneChange
  /\ Insert(binary)
  /\ UNCHANGED <<recorder, aggregator>>

\* Without a port nothing changes but the pid.
ApplyTargetAttached ==
  /\ ~taskPort
  /\ OneChange
  /\ SetTarget(TRUE)
  /\ UNCHANGED <<recorder, aggregator>>

\* A request that resolves an address.
Query == LookedUp /\ UNCHANGED <<recorder, aggregator, changes>>

Next ==
  \/ \E t \in Threads, d \in Delays :
       \/ \E stack \in Stacks : ApplySample(t, stack, clock + d)
       \/ ApplyInterval(t, clock + d)
       \/ \E waker \in Threads : ApplyWakeup(t, waker, clock + d)
  \/ \E binary \in Images : ApplyBinaryLoaded(binary)
  \/ ApplyTargetAttached
  \/ Query

Spec == Init /\ [][Next]_vars

-----------------------------------------------------------------------------
(* Aggregator::aggregate walks samples and intervals with two cursors.     *)
(* Whatever the recorder reported and the queues still hold, it credits    *)
(* each interval to the samples inside it, in equal parts, as the          *)
(* definition of FlameNode::on_cpu_ns says.                                *)
Inside(t, i, filter) ==
  {k \in DOMAIN petSamples[t] :
     /\ i.start <= petSamples[t][k].ts /\ petSamples[t][k].ts < i.end
     /\ Keep(filter, petSamples[t][k].ts, petSamples[t][k].stack)}

Part(t, i, filter) ==
  LET n == Cardinality(Inside(t, i, filter))
  IN IF n = 0 THEN 0 ELSE (i.end - i.start) \div n

SampledTime(t, filter, stack) ==
  LET Parts(i) ==
        Total([k \in DOMAIN petSamples[t] |->
                 IF k \in Inside(t, i, filter) /\ petSamples[t][k].stack = stack
                 THEN Part(t, i, filter) ELSE 0])
  IN SumBy(intervals[t],
           LAMBDA i : IF i.kind = "OnCpu" THEN Parts(i) ELSE 0)

CreditIsSampledTime ==
  LET Credited(t, filter, agg) ==
        /\ \A stack \in Stacks :
             SumBy(agg.credits,
                   LAMBDA c : IF c.kind = "OnCpu" /\ c.stack = stack
                              THEN c.ns ELSE 0)
               = SampledTime(t, filter, stack)
        /\ agg.on = SumBy(intervals[t],
                      LAMBDA i : IF i.kind = "OnCpu" /\ Part(t, i, filter) # 0
                                 THEN Duration(i) ELSE 0)
  IN \A t \in Known, filter \in Filters :
       Credited(t, filter, Aggregated({t}, filter))

(* The index of binary_for_address is built lazily and never stale: an     *)
(* address inside an image, with no other image that starts between its    *)
(* base and the address, is named after the symbol of that image which     *)
(* holds it, and resolve disassembles the same function.                   *)
Owns(binary, address) ==
  /\ binary.base <= address /\ address < binary.end
  /\ \A k \in DOMAIN byBase :
       byBase[k].base <= address => byBase[k].base <= binary.base

NamedAfter(binary, symbol, address) ==
  LET found == Resolve(address)
  IN /\ LookupSymbol(address) = Named(binary, <<symbol.name>>)
     /\ found # NoFunction =>
          /\ found.fn = <<symbol.name>>
          /\ found.base <= address /\ address < found.end

LookupNamesTheImage ==
  \A i \in DOMAIN byBase :
    \A j \in DOMAIN byBase[i].syms :
      LET b == byBase[i]
          s == b.syms[j]
      IN \A svma \in s.start..(s.end - 1) :
           Owns(b, AvmaFor(b, svma)) => NamedAfter(b, s, AvmaFor(b, svma))
=============================================================================
