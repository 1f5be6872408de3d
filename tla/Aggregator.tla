----------------------------- MODULE Aggregator -----------------------------
(***************************************************************************)
(* Aggregator (stax-live/src/aggregator.rs): the samples, intervals and    *)
(* wakeups of each thread, and the pass that credits time to stacks.       *)
(*                                                                         *)
(* A stack is a sequence of addresses, leaf first.  What credit_*_to_tree  *)
(* adds to the flame tree and to by_address is kept as a list of credits,  *)
(* from which both are sums.  Thread names, kernel stacks (but for the     *)
(* leaf of a waker) and the counters of the PMU, which are added up like   *)
(* the samples, are left out; sums stay below 2^64.                        *)
(***************************************************************************)
EXTENDS Binaries

CONSTANTS
  Threads,
  MaxEventsPerThread,   \* MAX_EVENTS_PER_THREAD
  WaitTable             \* rows [reason, names] of classify_offcpu, in order

ASSUME WaitTableAssumption ==
  WaitTable \in Seq([reason : STRING \ {"OnCpu"}, names : SUBSET Seq(STRING)])

VARIABLES
  petSamples,    \* by thread, sequences of [ts, stack]
  intervals,     \*   of [start, end, kind, stack, waker]
  wakeups,       \*   of [waker, leaf]
  sessionStart,  \* session_start_ns, 0 for None
  lastEvent      \* last_event_ns

aggregator == <<petSamples, intervals, wakeups, sessionStart, lastEvent>>

AggregatorInit ==
  /\ petSamples = [t \in Threads |-> <<>>]
  /\ intervals = [t \in Threads |-> <<>>]
  /\ wakeups = [t \in Threads |-> <<>>]
  /\ sessionStart = 0
  /\ lastEvent = 0

-----------------------------------------------------------------------------
(* Recording.                                                              *)

\* The oldest event makes room for the newest.
PushBounded(queue, event) ==
  Append(IF Len(queue) >= MaxEventsPerThread THEN Tail(queue) ELSE queue,
         event)

\* The first timestamp ever noted, and the largest.
NoteTimestamps(first, last) ==
  /\ sessionStart' = IF sessionStart = 0 THEN first ELSE sessionStart
  /\ lastEvent' = Max({lastEvent, first, last})

RecordPetSample(t, ts, stack) ==
  /\ NoteTimestamps(ts, ts)
  /\ petSamples' = [petSamples EXCEPT ![t] =
                      PushBounded(@, [ts |-> ts, stack |-> stack])]
  /\ UNCHANGED <<intervals, wakeups>>

\* An open interval ends at 0; the recorder only reports closed ones.
RecordInterval(t, interval) ==
  /\ NoteTimestamps(interval.start, interval.end)
  /\ intervals' = [intervals EXCEPT ![t] = PushBounded(@, interval)]
  /\ UNCHANGED <<petSamples, wakeups>>

RecordWakeup(t, ts, waker, leaf) ==
  /\ NoteTimestamps(ts, ts)
  /\ wakeups' = [wakeups EXCEPT ![t] =
                   PushBounded(@, [waker |-> waker, leaf |-> leaf])]
  /\ UNCHANGED <<petSamples, intervals>>

\* threads: those an event was recorded for.
Known == {t \in Threads : \/ petSamples[t] # <<>>
                          \/ intervals[t] # <<>>
                          \/ wakeups[t] # <<>>}

-----------------------------------------------------------------------------
(* The filter of a request (lib.rs).  A symbol is a pair of a function and  *)
(* an image, <<>> when the address has none; a filter has a range, <<>> or *)
(* <<start, end>> relative to the session, and symbols to leave out.       *)
NoFilter == [range |-> <<>>, exclude |-> {}]

Minus(x, y) == IF x > y THEN x - y ELSE 0

SymbolOf(address) ==
  LET Key(r) == IF r = NoSymbol THEN <<>> ELSE <<r.fn, r.bin>>
  IN Key(LookupSymbol(address))

InRange(filter, ts) ==
  \/ filter.range = <<>>
  \/ /\ Minus(ts, sessionStart) >= filter.range[1]
     /\ Minus(ts, sessionStart) < filter.range[2]

\* make_predicate.
Keep(filter, ts, stack) ==
  /\ InRange(filter, ts)
  /\ \A a \in ToSet(stack) : SymbolOf(a) \notin filter.exclude

-----------------------------------------------------------------------------
(* The pass over the events of some threads.                               *)

SumBy(s, Of(_)) == Total([k \in DOMAIN s |-> Of(s[k])])

EndOf(i) == IF i.end = 0 THEN Max({lastEvent, i.start}) ELSE i.end
Duration(i) == IF EndOf(i) > i.start THEN EndOf(i) - i.start ELSE 0

\* classify_offcpu: the first row that lists the name of the leaf.
Classify(stack) ==
  LET fn   == IF stack = <<>> THEN <<>> ELSE LookupSymbol(stack[1]).fn
      row  == SelectInSeq(WaitTable, LAMBDA r : fn \in r.names)
  IN IF row = 0 THEN "Other" ELSE WaitTable[row].reason

\* Mutant: the start of an interval belongs to the one before.
SkipBefore_Exclusive(samples, k, ts) ==
  Min({j \in k..Len(samples) : samples[j].ts > ts} \cup {Len(samples) + 1})

\* The first position from k on whose sample is not before ts.
SkipBefore(samples, k, ts) ==
  Min({j \in k..Len(samples) : samples[j].ts >= ts} \cup {Len(samples) + 1})

OnCredit(sample, ns) ==
  [stack |-> sample.stack, kind |-> "OnCpu", ns |-> ns]
OffCredit(i) ==
  [stack |-> i.stack, kind |-> Classify(i.stack), ns |-> Duration(i)]

\* An on-CPU interval of ns nanoseconds goes to the matching samples in it, in
\* equal shares; without one, or with shares below a nanosecond, to nobody.
CreditSamples(acc, ns, matching) ==
  IF matching = <<>> \/ Len(matching) > ns THEN acc
  ELSE [acc EXCEPT
          !.on      = @ + ns,
          !.credits = @ \o [k \in DOMAIN matching |->
                              OnCredit(matching[k], ns \div Len(matching))]]

\* The samples from position from to before position to that pass the filter.
MatchingSamples(samples, from, to, filter) ==
  PickAt(samples, {k \in from..(to - 1) :
                     Keep(filter, samples[k].ts, samples[k].stack)})

\* One interval of the two-pointer pass; acc is [cursor, on, credits].
CreditInterval(acc, i, samples, filter) ==
  LET From(from) ==
        CreditSamples([acc EXCEPT !.cursor = from], Duration(i),
          MatchingSamples(samples, from, SkipBefore(samples, from, EndOf(i)),
                          filter))
  IN IF Duration(i) = 0 THEN acc
     ELSE IF i.kind = "OnCpu" THEN From(SkipBefore(samples, acc.cursor, i.start))
     ELSE IF Keep(filter, i.start, i.stack)
          THEN [acc EXCEPT !.credits = Append(@, OffCredit(i))]
          ELSE acc

AggregateThread(t, filter) ==
  LET pass[n \in 0..Len(intervals[t])] ==
        IF n = 0 THEN [cursor |-> 1, on |-> 0, credits |-> <<>>]
        ELSE CreditInterval(pass[n - 1], intervals[t][n], petSamples[t], filter)
  IN pass[Len(intervals[t])]

\* total_on_cpu_ns and the credits of the threads in tids, which is Known for
\* a request for all threads.
Aggregated(tids, filter) ==
  LET Sum(each) ==
        [on      |-> SumBy(each, LAMBDA e : e.agg.on),
         credits |-> FlattenSeq([k \in DOMAIN each |-> each[k].agg.credits])]
  IN Sum(SetToSeq({[tid |-> t, agg |-> AggregateThread(t, filter)] :
                     t \in tids \cap Known}))

OffCredits(credits) == SelectSeq(credits, LAMBDA c : c.kind # "OnCpu")
OnCredits(credits)  == SelectSeq(credits, LAMBDA c : c.kind = "OnCpu")
Ns(credits)         == SumBy(credits, LAMBDA c : c.ns)

\* A node of the flame tree is the path from the root to it; its counters are
\* sums over the credits that pass through it.
RootFirst(stack) == Reverse(stack)
Through(credits, path) ==
  SelectSeq(credits, LAMBDA c : IsPrefix(path, RootFirst(c.stack)))
Paths(credits) ==
  UNION {{SubSeq(RootFirst(credits[k].stack), 1, n) :
            n \in 1..Len(credits[k].stack)} : k \in DOMAIN credits}

\* by_address: the leaf gets self, every address of the stack total, once.
SelfOf(credits, a)  ==
  SelectSeq(credits, LAMBDA c : c.stack # <<>> /\ Head(c.stack) = a)
TotalOf(credits, a) ==
  SelectSeq(credits, LAMBDA c : a \in ToSet(c.stack))
Addresses(credits) == UNION {ToSet(credits[k].stack) : k \in DOMAIN credits}

\* top_wakers: by waker and leaf.
TopWakers(t) ==
  [w \in ToSet(wakeups[t]) |->
     Cardinality({k \in DOMAIN wakeups[t] : wakeups[t][k] = w})]
=============================================================================
