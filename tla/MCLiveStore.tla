---------------------------- MODULE MCLiveStore -----------------------------
(* LiveStore on one executable with two functions, a piece of JIT code     *)
(* that is emitted again, at its address and inside its old range, and a   *)
(* library of the shared cache that waits for a lock.                      *)
EXTENDS LiveViews, TLC

ThreadSymmetry == Permutations(Threads)

Sym(start, end, name) == [start |-> start, end |-> end, name |-> name]
Image(base, text, path, main, syms, inline) ==
  [base |-> base, end |-> base + 4, text |-> text, path |-> path,
   main |-> main, syms |-> syms, inline |-> inline]

App  == Image(10, 100, "app", TRUE,
              <<Sym(102, 104, "g"), Sym(100, 102, "f")>>, 0)
Jit1 == Image(20, 0, "jit", FALSE, <<Sym(0, 2, "j1")>>, 4)
Jit2 == Image(20, 0, "jit", FALSE, <<Sym(0, 2, "j2")>>, 4)
Jit3 == Image(22, 0, "jit", FALSE, <<Sym(0, 2, "j3")>>, 4)
Lib  == Image(30, 0, "lib", FALSE, <<Sym(0, 2, "lock")>>, 0)

MCImages == {App, Jit1, Jit2, Jit3}
MCShared == {Lib}
MCKernel == [a \in {90} |-> [fn |-> <<"trap">>, bin |-> "kernel", main |-> FALSE]]
MCOnDisk == [p \in {"app"} |-> 100..103]
MCWaits  == <<[reason |-> "LockWait", names |-> {<<"lock">>}],
              [reason |-> "Sleep", names |-> {<<"lock">>, <<"j1">>}]>>
MCStacks == {<<12, 11, 10>>, <<12, 10>>, <<30, 20, 11>>}
MCFilters == {NoFilter, [range |-> <<1, 3>>, exclude |-> {}],
              [range |-> <<>>, exclude |-> {<<<<"g">>, "app">>}]}
=============================================================================
