----------------------------- MODULE LiveViews ------------------------------
(***************************************************************************)
(* The views of the Profiler service over everything LiveStore can hold.   *)
(***************************************************************************)
EXTENDS LiveStore, Views

ASSUME LiveViewsAssumption ==
  {MinBucket, TargetBuckets, PruneShare} \subseteq Nat \ {0}

(* build_children and fold_recursion lose no time and invent none: what a  *)
(* cell shows beyond its children is the time of the stacks that end       *)
(* there, once calls of a symbol to itself are taken out of them.          *)
Collapse(symbols) ==
  PickAt(symbols, {k \in DOMAIN symbols :
                     k = 1 \/ symbols[k] = <<>> \/ symbols[k] # symbols[k - 1]})

SelfTime(cell) ==
  cell.on + cell.off - SumBy(cell.children, LAMBDA c : c.on + c.off)

\* Cells of one symbol may stand side by side.
RECURSIVE CellsTime(_, _)
CellsTime(cells, path) ==
  LET here == SelectSeq(cells, LAMBDA c : c.symbol = Head(path))
  IN IF Len(path) = 1 THEN SumBy(here, SelfTime)
     ELSE SumBy(here, LAMBDA c : CellsTime(c.children, Tail(path)))

FlameShowsStacks ==
  LET Under(c) == Collapse(SymbolsOf(RootFirst(c.stack)))
      StacksShown(credits, flame) ==
        \A path \in {Under(c) : c \in ToSet(credits)} \ {<<>>} :
          CellsTime(flame.children, path)
            = Ns(SelectSeq(credits, LAMBDA c : Under(c) = path))
      ShownIn(agg) == StacksShown(agg.credits, Flame(agg))
  IN \A filter \in Filters : ShownIn(Aggregated(Known, filter))

(* Views computed along different ways agree: the list of off-CPU          *)
(* intervals, the list of threads and the timeline with the flame graph,   *)
(* and the family tree of a symbol with its row in the table, as long as   *)
(* no stack holds the symbol twice.  A call that two family trees show has *)
(* one time in both, and one that the callee's leaves out has less than    *)
(* its share of the callee's time.  The timeline starts with the session,  *)
(* and no thread has more time than has passed.                            *)
OncePerStack(credits, symbol) ==
  \A c \in ToSet(credits) :
    Cardinality({k \in DOMAIN c.stack : SymbolOf(c.stack[k]) = symbol}) < 2

Visible(tids, kind) ==
  SumOver(IntervalsOf(tids, kind),
          LAMBDA x : LET i == intervals[x[1]][x[2]]
                     IN Minus(i.end, Max({i.start, sessionStart})))

ViewsAgree ==
  LET ThreadsAgree(flame, threads) ==
        /\ flame.on = SumOver(threads, LAMBDA i : i.on)
        /\ flame.off = SumOver(threads, LAMBDA i : i.off)
        /\ \A i \in threads : i.on + i.off <= clock - 1
      RowsAgree(credits) ==
        \A row \in TopEntries(credits) :
          /\ row.self <= row.total
          /\ Len(row.row) = 2 /\ OncePerStack(credits, row.row) =>
               row.total = Own(credits, row.row)
      CallsAgree(credits) ==
        \A caller, callee \in {SymbolOf(a) : a \in Addresses(credits)} :
          LET up   == Callers(credits, callee, <<caller>>)
              down == Callees(credits, caller, <<callee>>)
          IN /\ up # 0 /\ down # 0 => up = down
             /\ up = 0 => down * PruneShare < Max({PruneShare, Own(credits, callee)})
      AllAgree(all) ==
        /\ ThreadsAgree(Flame(all), ThreadsUpdate)
        /\ RowsAgree(all.credits)
        /\ CallsAgree(all.credits)
  IN /\ \A filter \in {f \in Filters : f.exclude = {}} :
          IntervalList(Known, filter).duration
            = Ns(OffCredits(Aggregated(Known, filter).credits))
     /\ \A kind \in {"OnCpu", "OffCpu"} :
          TimelineTotal(Threads, kind) = Visible(Threads, kind)
     /\ AllAgree(Aggregated(Known, NoFilter))
=============================================================================
