---------------------------- MODULE ImageScanner ----------------------------
(***************************************************************************)
(* stax-mac-kperf-parse/src/image_scan.rs: what the recorder knows of the  *)
(* images of a process that maps and unmaps them while it is scanned.  A   *)
(* scan walks the process's regions unless dyld's image count says that    *)
(* nothing changed since the last one.                                     *)
(***************************************************************************)
EXTENDS Integers, Sequences, FiniteSets, Functions, SequencesExt

CONSTANTS
  Images,      \* images the process may load, as [path, base]
  Executable,  \* the one it starts with
  OnDisk,      \* paths whose file is a Mach-O with a __TEXT segment
  InCache      \* paths found in the shared cache

VARIABLES
  hasTask,     \* the recorder holds a task port
  mapped,      \* the images whose executable region is mapped
  listed,      \* the images in dyld's list
  leaving,     \* those it has taken off the list and not yet unmapped
  changes,     \* bound: loads and unloads the process has left
  faults,      \* bound: walks that may still fail
  hidden,      \* since the count was last read for a walk, an image was unloaded or
               \* a walk failed: the count need not show what the sink is missing
  known,       \* ImageScanner.known: the images of the last walk
  lastAddr,    \* last_all_image_info_addr, 0 or 1
  lastCount,   \* last_image_count
  walkFrom,    \* the regions when the walk in progress began
  reported     \* what the sink has been told: the image at each base

dyldVars == <<mapped, listed, leaving, changes>>
scanVars == <<known, lastAddr, lastCount, walkFrom, reported>>
imageVars == <<hasTask, dyldVars, faults, hidden, scanVars>>

(* The process is launched with its executable mapped, before dyld ran.    *)
ImagesInit(budget, failing) ==
  /\ hasTask \in BOOLEAN
  /\ mapped = {Executable} /\ listed = {} /\ leaving = {}
  /\ changes = budget /\ faults = failing
  /\ hidden = FALSE
  /\ known = {} /\ lastAddr = 0 /\ lastCount = 0
  /\ walkFrom = {} /\ reported = <<>>

-----------------------------------------------------------------------------
(* The process: dyld maps an image before it lists it, and takes it off    *)
(* the list before it unmaps it (external).                                *)
Map(i) ==
  /\ changes > 0
  /\ \A j \in mapped : i.base # j.base
  /\ mapped' = mapped \union {i}
  /\ changes' = changes - 1
  /\ UNCHANGED <<hasTask, listed, leaving, faults, hidden, scanVars>>

List(i) ==
  /\ i \in mapped \ (listed \union leaving)
  /\ listed' = listed \union {i}
  /\ UNCHANGED <<hasTask, mapped, leaving, changes, faults, hidden, scanVars>>

Unlist(i) ==
  /\ changes > 0
  /\ i \in listed \ {Executable}
  /\ listed' = listed \ {i} /\ leaving' = leaving \union {i}
  /\ changes' = changes - 1
  /\ hidden' = TRUE
  /\ UNCHANGED <<hasTask, mapped, faults, scanVars>>

Unmap(i) ==
  /\ i \in leaving
  /\ mapped' = mapped \ {i} /\ leaving' = leaving \ {i}
  /\ hidden' = TRUE
  /\ UNCHANGED <<hasTask, listed, changes, faults, scanVars>>

-----------------------------------------------------------------------------
(* No task port, or dyld_images_changed gets no answer from task_info or no *)
(* structure of dyld's: walk.                                              *)
NoDyldInfo == UNCHANGED <<lastAddr, lastCount, hidden>>

(* The count cannot be read: walk, and forget the address.                 *)
CountUnreadable ==
  /\ hasTask /\ listed # {}
  /\ lastAddr' = 0 /\ hidden' = FALSE
  /\ UNCHANGED lastCount

NoteCount == lastAddr' = 1 /\ lastCount' = Cardinality(listed)

CountChanged ==
  /\ hasTask /\ listed # {}
  /\ lastAddr = 0 \/ lastCount # Cardinality(listed)
  /\ NoteCount /\ hidden' = FALSE

CountSame ==
  /\ hasTask /\ listed # {}
  /\ lastAddr = 1 /\ lastCount = Cardinality(listed)
  /\ NoteCount

(* rescan begins: the count is read before the regions are walked.         *)
BeginWalk ==
  /\ NoDyldInfo \/ CountUnreadable \/ CountChanged
  /\ walkFrom' = mapped
  /\ UNCHANGED <<hasTask, dyldVars, faults, known, reported>>

SkipWalk ==
  /\ CountSame
  /\ UNCHANGED <<hasTask, dyldVars, faults, hidden, known, walkFrom, reported>>

(* build_image: the file, else the shared cache, else the region alone.    *)
BuildImage(i) ==
  [path |-> i.path,
   from |-> IF i.path \in OnDisk THEN "disk" ELSE IF i.path \in InCache THEN "cache" ELSE "region"]

Unload(sink, i) == Restrict(sink, DOMAIN sink \ {i.base})
Load(sink, i) == (i.base :> BuildImage(i)) @@ sink

(* Mutant: images that appeared are announced before those that vanished.  *)
Announce_LoadsFirst(sink, gone, new) ==
  FoldLeft(Unload, FoldLeft(Load, sink, SetToSeq(new)), SetToSeq(gone))

(* BinaryUnloaded for what vanished, then BinaryLoaded for what is new.    *)
Announce(sink, gone, new) ==
  FoldLeft(Load, FoldLeft(Unload, sink, SetToSeq(gone)), SetToSeq(new))

(* A walk sees what was mapped throughout, and some of what was mapped or  *)
(* unmapped while it ran.                                                  *)
RegionsSeen ==
  {seen \in SUBSET (walkFrom \union mapped) :
     /\ walkFrom \intersect mapped \subseteq seen
     /\ \A i, j \in seen : i.base = j.base => i = j}

Diff(current) ==
  /\ known' = current
  /\ reported' = Announce(reported, known \ current, current \ known)

(* enumerate_regions asks for one region after the other, by address; when *)
(* an answer fails it returns those before, and rescan takes them for all. *)
EndWalk ==
  /\ \E seen \in RegionsSeen :
       \/ Diff(seen) /\ UNCHANGED <<faults, hidden>>
       \/ /\ faults > 0
          /\ \E i \in seen : Diff({j \in seen : j.base < i.base})
          /\ faults' = faults - 1 /\ hidden' = TRUE
  /\ walkFrom' = {}
  /\ UNCHANGED <<hasTask, dyldVars, lastAddr, lastCount>>
=============================================================================
