------------------------------- MODULE Views --------------------------------
(***************************************************************************)
(* What the Profiler service computes from the aggregator and the binary   *)
(* registry for one request (stax-live/src/lib.rs).  The order of rows and *)
(* siblings, string tables, languages, PMU counters and the representative *)
(* address of a group are left out.                                        *)
(***************************************************************************)
EXTENDS Aggregator

CONSTANTS
  TargetBuckets,   \* TARGET_BUCKETS
  MinBucket,       \* MIN_BUCKET_NS
  PruneShare,      \* the part of a target's time a shown neighbour has, 2000
  EntryCap         \* DRILLDOWN_ENTRY_CAP

-----------------------------------------------------------------------------
(* group_top_entries.                                                      *)

\* An address without a symbol is a row of its own.
RowOf(address) ==
  LET Row(symbol) == IF symbol = <<>> THEN <<address>> ELSE symbol
  IN Row(SymbolOf(address))

SumOver(S, Of(_)) == FoldSet(LAMBDA x, acc : acc + Of(x), 0, S)

TopEntry(credits, row) ==
  LET Entry(of, on) ==
        [row      |-> row,
         self     |-> SumOver(of, LAMBDA a : Ns(SelfOf(credits, a))),
         total    |-> SumOver(of, LAMBDA a : Ns(TotalOf(credits, a))),
         selfOn   |-> SumOver(of, LAMBDA a : Ns(SelfOf(on, a))),
         totalOn  |-> SumOver(of, LAMBDA a : Ns(TotalOf(on, a))),
         hits     |-> SumOver(of, LAMBDA a : Len(TotalOf(on, a))),
         selfHits |-> SumOver(of, LAMBDA a : Len(SelfOf(on, a)))]
  IN Entry({a \in Addresses(credits) : RowOf(a) = row}, OnCredits(credits))

TopEntries(credits) ==
  {TopEntry(credits, RowOf(a)) : a \in Addresses(credits)}

-----------------------------------------------------------------------------
(* compute_flame_update: children grouped by symbol at every level, then   *)
(* recursion folded.                                                       *)

FlameNode(symbol, credits, paths, children) ==
  [symbol   |-> symbol,
   on       |-> SumOver(paths, LAMBDA p : Ns(OnCredits(Through(credits, p)))),
   off      |-> SumOver(paths, LAMBDA p : Ns(OffCredits(Through(credits, p)))),
   hits     |-> SumOver(paths, LAMBDA p : Len(OnCredits(Through(credits, p)))),
   children |-> children]

\* sources are the nodes of the tree whose children are taken together.
RECURSIVE BuildChildren(_, _)
BuildChildren(credits, sources) ==
  LET below    == {p \in Paths(credits) : Front(p) \in sources}
      symbols  == {SymbolOf(Last(p)) : p \in below}
      group(s) == {p \in below : SymbolOf(Last(p)) = s}
  IN SetToSeq({FlameNode(s, credits, group(s), BuildChildren(credits, group(s))) :
                 s \in symbols})

\* Mutant: a folded child takes its callees with it.
Splice_DropsCallees(symbol, children) ==
  SelectSeq(children, LAMBDA c : symbol = <<>> \/ c.symbol # symbol)

\* A child of the same symbol is replaced by its children, which are looked
\* at in turn.
RECURSIVE Splice(_, _)
Splice(symbol, children) ==
  IF children = <<>> THEN <<>>
  ELSE LET c == Head(children)
       IN IF symbol # <<>> /\ c.symbol = symbol
          THEN Splice(symbol, c.children \o Tail(children))
          ELSE <<c>> \o Splice(symbol, Tail(children))

RECURSIVE FoldRecursion(_)
FoldRecursion(node) ==
  LET kept == Splice(node.symbol, node.children)
  IN [node EXCEPT !.children = [k \in DOMAIN kept |-> FoldRecursion(kept[k])]]

\* The root carries the totals of the aggregation.
Flame(agg) ==
  LET Root(top) ==
        [symbol   |-> <<"(all)">>,
         on       |-> agg.on,
         off      |-> Ns(OffCredits(agg.credits)),
         hits     |-> SumBy(top, LAMBDA c : c.hits),
         children |-> [k \in DOMAIN top |-> FoldRecursion(top[k])]]
  IN Root(BuildChildren(agg.credits, {<<>>}))

-----------------------------------------------------------------------------
(* compute_neighbors_update.                                               *)

SymbolsOf(path) == [k \in DOMAIN path |-> SymbolOf(path[k])]

\* The nodes of the tree that are the target.
Matching(credits, symbol) ==
  {p \in Paths(credits) : SymbolOf(Last(p)) = symbol}

\* Everything that passes through those nodes, once for each of them.
Own(credits, symbol) ==
  SumOver(Matching(credits, symbol), LAMBDA p : Ns(Through(credits, p)))

\* What walk adds to the node of callers that chain leads to, innermost caller
\* first.
Called(credits, symbol, chain) ==
  SumOver({p \in Matching(credits, symbol) :
             IsPrefix(chain, SymbolsOf(Reverse(Front(p))))},
          LAMBDA p : Ns(Through(credits, p)))

\* What merge_descendants adds to the node of callees that chain leads to,
\* outermost callee first.
Calling(credits, symbol, chain) ==
  SumOver({<<p, q>> \in Matching(credits, symbol) \X Paths(credits) :
             /\ IsStrictPrefix(p, q)
             /\ SymbolsOf(SubSeq(q, Len(p) + 1, Len(q))) = chain},
          LAMBDA pq : Ns(Through(credits, pq[2])))

\* to_flame_node shows a node that takes its share of the target's time, under
\* a node it shows.
Threshold(credits, symbol) == Max({Own(credits, symbol) \div PruneShare, 1})

Shown(credits, symbol, times) ==
  \A k \in DOMAIN times : times[k] >= Threshold(credits, symbol)

\* The time at the end of chain in callers_tree and in callees_tree, 0 where
\* they do not reach.
Callers(credits, symbol, chain) ==
  LET times == [k \in DOMAIN chain |-> Called(credits, symbol, SubSeq(chain, 1, k))]
  IN IF Shown(credits, symbol, times) THEN Last(times) ELSE 0

Callees(credits, symbol, chain) ==
  LET times == [k \in DOMAIN chain |-> Calling(credits, symbol, SubSeq(chain, 1, k))]
  IN IF Shown(credits, symbol, times) THEN Last(times) ELSE 0

-----------------------------------------------------------------------------
(* build_timeline_update.                                                  *)

Recording == Minus(lastEvent, sessionStart)

BucketSize ==
  IF Recording = 0 THEN MinBucket
  ELSE Max({Recording \div TargetBuckets, MinBucket})

Buckets == 0..(Recording \div BucketSize)

TimelineEnd(i) == IF i.end = 0 THEN lastEvent ELSE i.end
\* Mutant: an interval is taken to reach into the bucket it ends at only.
LastBucket_Ends(i) == Minus(i.start, sessionStart) \div BucketSize

LastBucket(i) ==
  Minus(Minus(TimelineEnd(i), sessionStart), 1) \div BucketSize

\* The nanoseconds of interval i that bucket b shows.
Share(i, b) ==
  LET start == Minus(i.start, sessionStart)
      end   == Minus(TimelineEnd(i), sessionStart)
  IN IF /\ TimelineEnd(i) > i.start
        /\ b \in (start \div BucketSize)..LastBucket(i)
     THEN Minus(Min({(b + 1) * BucketSize, end}), Max({b * BucketSize, start}))
     ELSE 0

IntervalsOf(tids, kind) ==
  {<<t, k>> \in tids \X (1..MaxEventsPerThread) :
     k \in DOMAIN intervals[t] /\ intervals[t][k].kind = kind}

\* The height of a bucket, for one kind of interval.
Bucket(tids, kind, b) ==
  SumOver(IntervalsOf(tids, kind), LAMBDA x : Share(intervals[x[1]][x[2]], b))

TimelineTotal(tids, kind) ==
  SumOver(Buckets, LAMBDA b : Bucket(tids, kind, b))

-----------------------------------------------------------------------------
(* The lists behind a cell, and the list of threads.                       *)

\* build_intervals_update reads the off-CPU intervals itself: it looks at the
\* range of the filter only, and an open interval has no duration yet.
IntervalList(tids, filter) ==
  LET listed == {x \in IntervalsOf(tids, "OffCpu") :
                   LET i == intervals[x[1]][x[2]]
                   IN InRange(filter, i.start) /\ i.end > i.start}
  IN [count    |-> Cardinality(listed),
      duration |-> SumOver(listed, LAMBDA x : Minus(intervals[x[1]][x[2]].end,
                                               intervals[x[1]][x[2]].start)),
      entries  |-> Min({Cardinality(listed), EntryCap})]

\* build_pet_samples_update.
SampleList(tids, filter) ==
  LET listed == {<<t, k>> \in tids \X (1..MaxEventsPerThread) :
                   /\ k \in DOMAIN petSamples[t]
                   /\ InRange(filter, petSamples[t][k].ts)}
  IN [count |-> Cardinality(listed), entries |-> Min({Cardinality(listed), EntryCap})]

\* build_threads_update.
ThreadInfo(t) ==
  LET Info(agg) ==
        [tid |-> t, on |-> agg.on, off |-> Ns(OffCredits(agg.credits)),
         samples |-> Len(petSamples[t])]
  IN Info(Aggregated({t}, NoFilter))

ThreadsUpdate == {ThreadInfo(t) : t \in Known}
=============================================================================
