------------------------------ MODULE Binaries ------------------------------
(***************************************************************************)
(* BinaryRegistry (stax-live/src/binaries.rs): which loaded image covers   *)
(* an address, which of its symbols, and where the bytes of the function   *)
(* come from.  The server never calls remove: an unloaded image stays, for *)
(* the samples taken while it was there.                                   *)
(*                                                                         *)
(* A loaded binary is [base, end, text, path, main, syms, inline]: AVMAs   *)
(* base..end-1, text the SVMA of its first byte, syms a sequence of        *)
(* [start, end, name] in SVMA, inline how many bytes the load event        *)
(* carried.  Addresses stay below the wrap-around of u64.  Files do not    *)
(* change, so the cache of opened images is not seen; demangling, the      *)
(* language and the architecture are left out.                             *)
(***************************************************************************)
EXTENDS Lists, SequencesExt

CONSTANTS
  Kernel,       \* external: kernel addresses, each with its symbol
  SharedCache,  \* external: images of the dyld shared cache, same shape
  OnDisk,       \* external: the SVMAs that can be read from each path's file
  Readable,     \* external: the addresses mach_vm_read answers for
  ByteSource    \* external: the addresses the shared cache has bytes for

VARIABLES
  byBase,       \* by_base
  byBaseIndex,  \* by_base_index; <<>> when it has to be built
  taskPort      \* target_task_port is known

registry == <<byBase, byBaseIndex, taskPort>>

LoadedBinary ==
  [base : Nat, end : Nat, text : Nat, path : STRING, main : BOOLEAN,
   syms : Seq([start : Nat, end : Nat, name : STRING]), inline : Nat]

\* As image_scan leaves them: addresses differ, and each symbol ends by the
\* start of the next.
SymbolsApart(syms) ==
  \A i, j \in DOMAIN syms :
    /\ syms[i].start = syms[j].start => i = j
    /\ syms[i].start < syms[j].start => syms[i].end <= syms[j].start

NoSymbol == [fn |-> <<>>, bin |-> "", main |-> FALSE]

RegistryInit ==
  /\ byBase = <<>>
  /\ byBaseIndex = <<>>
  /\ taskPort = FALSE

-----------------------------------------------------------------------------
(* Changes.                                                                *)

\* The images that stay when another is loaded at base.
Retained(base) == PickAt(byBase, {i \in DOMAIN byBase : byBase[i].base # base})

\* The symbols are sorted once.
Stored(binary) ==
  [binary EXCEPT !.syms = SortedBy(@, [k \in DOMAIN @ |-> @[k].start])]

\* Mutant: the index outlives the list it points into.
Insert_KeepsIndex(binary) ==
  /\ byBase' = Append(Retained(binary.base), Stored(binary))
  /\ UNCHANGED <<byBaseIndex, taskPort>>

Insert(binary) ==
  /\ byBase' = Append(Retained(binary.base), Stored(binary))
  /\ byBaseIndex' = <<>>
  /\ UNCHANGED taskPort

SetTarget(port) ==
  /\ taskPort' = (taskPort \/ port)
  /\ UNCHANGED <<byBase, byBaseIndex>>

-----------------------------------------------------------------------------
(* Address to binary to symbol.                                            *)

\* partition_point: how many leading elements satisfy P.
PartitionPoint(s, P(_)) == Cardinality({i \in DOMAIN s : P(s[i])})

BuiltIndex ==
  SortedBy([i \in DOMAIN byBase |->
              [base |-> byBase[i].base, end |-> byBase[i].end, at |-> i]],
           [i \in DOMAIN byBase |-> byBase[i].base])

\* What a look-up finds, or builds.
Index == IF byBaseIndex # <<>> THEN byBaseIndex ELSE BuiltIndex

\* The position in by_base, or 0.
BinaryForAddress(address) ==
  LET Find(index, n) ==
        IF n # 0 /\ address < index[n].end THEN index[n].at ELSE 0
  IN Find(Index, PartitionPoint(Index, LAMBDA e : e.base <= address))

SvmaFor(binary, address) == address - binary.base + binary.text
AvmaFor(binary, svma)    == svma - binary.text + binary.base

\* An address without a symbol is named after its image.
Named(binary, fn) ==
  [fn |-> fn, bin |-> binary.path, main |-> binary.main]

Covers(s, svma) == s.start <= svma /\ svma < s.end

LookupInSharedCache(address) ==
  LET over == {b \in SharedCache : b.base <= address /\ address < b.end}
  IN IF over = {} THEN NoSymbol
     ELSE LET b    == CHOOSE b \in over : TRUE
              svma == SvmaFor(b, address)
              hits == SelectSeq(b.syms, LAMBDA s : Covers(s, svma))
          IN Named([b EXCEPT !.main = FALSE],
                   IF hits = <<>> THEN <<b.path, svma>> ELSE <<hits[1].name>>)

LookupUnmapped(address) ==
  IF address \in DOMAIN Kernel THEN Kernel[address]
  ELSE LookupInSharedCache(address)

LookupIn(binary, svma) ==
  LET n == PartitionPoint(binary.syms, LAMBDA s : s.start <= svma)
  IN IF n # 0 /\ svma < binary.syms[n].end
     THEN Named(binary, <<binary.syms[n].name>>)
     ELSE Named(binary, <<binary.path, svma>>)

LookupSymbol(address) ==
  LET LookupAt(i) ==
        IF i = 0 THEN LookupUnmapped(address)
        ELSE LookupIn(byBase[i], SvmaFor(byBase[i], address))
  IN LookupAt(BinaryForAddress(address))

AnySymbolContains(name) ==
  \E i \in DOMAIN byBase : \E j \in DOMAIN byBase[i].syms :
    byBase[i].syms[j].name = name

-----------------------------------------------------------------------------
(* resolve: the function around an address, and its bytes.                 *)

Window     == 2    \* stands for 64 bytes around an address without a symbol
NoFunction == [fn |-> <<>>, base |-> 0, end |-> 0, from |-> "nowhere"]

Loadable(path) == path \in DOMAIN OnDisk

ResolveUnmapped(address) ==
  LET base == IF address < Window THEN 0 ELSE address - Window
      read == {a \in base..(base + 2 * Window - 1) : a \in Readable}
  IN IF taskPort /\ base \in Readable
     THEN [fn |-> <<address>>, base |-> base,
           end |-> base + Cardinality(read), from |-> "target"]
     ELSE NoFunction

\* The four places bytes may come from.
Holds(source, binary, start, end) ==
  LET avmas == AvmaFor(binary, start)..(AvmaFor(binary, end) - 1)
  IN CASE source = "disk"   -> /\ Loadable(binary.path)
                               /\ start..(end - 1) \subseteq OnDisk[binary.path]
       [] source = "target" -> taskPort /\ avmas \subseteq Readable
       [] source = "inline" -> start >= binary.text
                               /\ end - binary.text <= binary.inline
       [] source = "cache"  -> avmas \subseteq ByteSource

ResolveIn(binary, svma) ==
  LET hit   == SelectInSeq(binary.syms, LAMBDA s : Covers(s, svma))
      start == IF hit # 0 THEN binary.syms[hit].start
               ELSE IF svma < Window THEN 0 ELSE svma - Window
      end   == IF hit # 0 THEN binary.syms[hit].end ELSE svma + Window
      held  == SelectSeq(<<"disk", "target", "inline", "cache">>,
                         LAMBDA s : Holds(s, binary, start, end))
  IN IF held = <<>> THEN NoFunction
     ELSE [fn   |-> IF hit # 0 THEN <<binary.syms[hit].name>>
                    ELSE <<binary.path, svma>>,
           base |-> AvmaFor(binary, start), end |-> AvmaFor(binary, end),
           from |-> held[1]]

Resolve(address) ==
  LET i == BinaryForAddress(address)
  IN IF i = 0 THEN ResolveUnmapped(address)
     ELSE ResolveIn(byBase[i], SvmaFor(byBase[i], address))

\* A look-up leaves the index behind.
LookedUp == byBaseIndex' = Index /\ UNCHANGED <<byBase, taskPort>>
=============================================================================
