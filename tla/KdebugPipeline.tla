--------------------------- MODULE KdebugPipeline ---------------------------
(***************************************************************************)
(* stax-mac-kperf-parse/src/pipeline.rs: the recorder's single thread that *)
(* feeds kdebug records to the parser and, between batches, rescans the    *)
(* process's images and tails its jitdump.  The scheduler records it hands *)
(* to the CPU interval tracker are the subject of CpuIntervals.            *)
(***************************************************************************)
EXTENDS KdebugParser, KernelSlide, JitdumpTailer, ImageScanner

CONSTANTS
  Workloads,   \* what happens while recording: [walks, dump, changes, faults], where
               \* walks are the samples taken, [tid, user, main, kernel, pmc] with a thread
               \* each, dump is how much of the jitdump is written, changes bounds loads and
               \* unloads, and faults the region walks that fail
  MaxLost      \* bound: records lost on their way

(* Any address but the null that ends a stack: code of the kernel itself,  *)
(* of its extensions, or neither.                                          *)
KernelAddresses == Nat \ {Null}

Walk == [tid : Nat \ {NoThread}, user : Seq(Frames), main : Nat,
         kernel : Seq(KernelAddresses), pmc : Seq(Nat)]

NoFile == -1

ASSUME WorkloadsAssumption ==
  \A w \in Workloads :
    /\ w.walks \in Seq(Walk)
    /\ \A i, j \in DOMAIN w.walks : w.walks[i].tid = w.walks[j].tid => i = j
    /\ \A i \in DOMAIN w.walks : w.walks[i].main <= Len(w.walks[i].user)
    /\ w.dump \in NoFile..DumpLength

(* Every segment is small enough to vote. *)
ASSUME SlideAssumption ==
  \A s \in ExecSegments : (s[2] - s[1]) \div SlideAlignment <= MaxPerObs

VARIABLES
  workload,    \* the one of Workloads that happens
  walk, rec,   \* the next record: its sample and its place in it
  lost,        \* records lost so far
  damaged,     \* samples that lost a record
  parser,      \* Pipeline.parser
  seenTids,    \* Pipeline.seen_tids
  votes,       \* Pipeline.slide_est: its votes
  observed,    \* and the addresses it has observed; the code keeps their number
  samples,     \* SampleEvents given to the sink
  dumpLen,     \* length of the jitdump, or NoFile
  jitEmitted,  \* jitdump_emitted
  tailer,      \* jitdump_tailer, or NoTailer
  jitLoads,    \* functions announced from the jitdump
  pc,          \* what tick does next; "ready" between its calls
  slide        \* the slide that finish derived, or NoSlide

streamVars ==
  <<workload, walk, rec, lost, damaged, parser, seenTids, votes, observed, samples>>
jitVars == <<dumpLen, jitEmitted, tailer, jitLoads>>
vars == <<streamVars, jitVars, imageVars, pc, slide>>

Walks == workload.walks

NoTailer == [offset |-> -1, header |-> FALSE]
NoSlide == -1

TypeOK ==
  /\ walk \in 1..(Len(Walks) + 1) /\ rec \in Nat
  /\ parser.userLeft \in Nat /\ parser.kernelLeft \in Nat
  /\ dumpLen \in NoFile..DumpLength
  /\ pc \in {"new", "ready", "walk", "jit", "finished"}

Init ==
  /\ workload \in Workloads
  /\ ImagesInit(workload.changes, workload.faults)
  /\ walk = 1 /\ rec = 1 /\ lost = 0 /\ damaged = {}
  /\ parser = ParserInit /\ seenTids = {} /\ votes = <<>> /\ observed = <<>>
  /\ samples = <<>>
  /\ dumpLen = NoFile /\ jitEmitted = FALSE /\ tailer = NoTailer /\ jitLoads = <<>>
  /\ pc = "new"
  /\ slide = NoSlide

-----------------------------------------------------------------------------
(* process_records, one record a step.                                     *)
Current == WalkRecords(Walks[walk])[rec]

Advance ==
  IF rec = Len(WalkRecords(Walks[walk])) THEN walk' = walk + 1 /\ rec' = 1
  ELSE rec' = rec + 1 /\ UNCHANGED walk

(* A sample without user frames only votes: its thread was blocked.        *)
OnSample(s) ==
  /\ seenTids' = seenTids \union {s.tid}
  /\ votes' = ObserveAll(votes, s.kernel) /\ observed' = observed \o s.kernel
  /\ samples' = IF s.user = <<>> THEN samples ELSE Append(samples, s)

ProcessRecord ==
  /\ pc = "ready"
  /\ walk <= Len(Walks)
  /\ parser' = Feed(parser, Current)
  /\ IF Current.kind = "end" /\ parser.tid # NoThread
     THEN OnSample(Sample(parser))
     ELSE UNCHANGED <<seenTids, votes, observed, samples>>
  /\ Advance
  /\ UNCHANGED <<workload, lost, damaged, jitVars, imageVars, pc, slide>>

(* The kernel's buffer wrapped, or a queue on the way was full.            *)
LoseRecord ==
  /\ walk <= Len(Walks)
  /\ lost < MaxLost
  /\ lost' = lost + 1
  /\ damaged' = damaged \union {walk}
  /\ Advance
  /\ UNCHANGED <<workload, parser, seenTids, votes, observed, samples, jitVars, imageVars,
                 pc, slide>>

-----------------------------------------------------------------------------
(* tick: images, then the jitdump, each when its timer is due.  Pipeline's *)
(* constructor makes the first scan.                                       *)
RescanDue ==
  /\ pc \in {"new", "ready"}
  /\ \/ BeginWalk /\ pc' = "walk"
     \/ SkipWalk /\ pc' = "jit"
  /\ UNCHANGED <<streamVars, jitVars, slide>>

WalkRegions ==
  /\ pc = "walk"
  /\ EndWalk
  /\ pc' = "jit"
  /\ UNCHANGED <<streamVars, jitVars, slide>>

RescanNotDue ==
  /\ pc = "ready"
  /\ pc' = "jit"
  /\ UNCHANGED <<streamVars, jitVars, imageVars, slide>>

(* The probe announces the file once; an open that fails is not retried.   *)
Probe(opened) ==
  \/ opened = tailer /\ UNCHANGED jitEmitted
  \/ /\ ~jitEmitted /\ dumpLen # NoFile
     /\ opened \in {TailerInit, NoTailer}
     /\ jitEmitted' = TRUE

TickJitdump ==
  /\ pc = "jit"
  /\ \E opened \in {tailer, TailerInit, NoTailer} :
       /\ Probe(opened)
       /\ tailer' = IF opened = NoTailer THEN opened ELSE TailerTick(opened, dumpLen)
       /\ jitLoads' = IF opened = NoTailer THEN jitLoads ELSE jitLoads \o NewLoads(opened, dumpLen)
  /\ pc' = "ready"
  /\ UNCHANGED <<streamVars, imageVars, dumpLen, slide>>

(* finish: the slide is derived if anything voted.                         *)
Finish ==
  /\ pc = "ready"
  /\ pc' = "finished"
  /\ slide' \in (IF DOMAIN votes = {} THEN {NoSlide} ELSE Finalists(votes))
  /\ UNCHANGED <<streamVars, jitVars, imageVars>>

-----------------------------------------------------------------------------
(* The recorded process (external): it writes its jitdump a unit at a time *)
(* and loads and unloads images.                                           *)
AppendDump ==
  /\ dumpLen < workload.dump
  /\ dumpLen' = dumpLen + 1
  /\ UNCHANGED <<streamVars, jitEmitted, tailer, jitLoads, imageVars, pc, slide>>

Process ==
  \/ AppendDump
  \/ /\ \E i \in Images : Map(i) \/ List(i) \/ Unlist(i) \/ Unmap(i)
     /\ UNCHANGED <<streamVars, jitVars, pc, slide>>

Next ==
  \/ ProcessRecord
  \/ LoseRecord
  \/ RescanDue
  \/ WalkRegions
  \/ RescanNotDue
  \/ TickJitdump
  \/ Finish
  \/ Process

Spec == Init /\ [][Next]_vars

(* The drain loop ticks for ever and its timers expire: a scan that is due *)
(* again and again is eventually made.  The process finishes what it began.*)
Fairness ==
  /\ SF_vars(RescanDue)
  /\ WF_vars(WalkRegions)
  /\ WF_vars(RescanNotDue)
  /\ WF_vars(TickJitdump)
  /\ WF_vars((\E i \in Images : List(i) \/ Unmap(i)) /\ UNCHANGED <<streamVars, jitVars, pc, slide>>)

FairSpec == Spec /\ Fairness

-----------------------------------------------------------------------------
(* A sample that lost no record is reported once, with the stack its walk  *)
(* stands for, whatever the losses around it left in the parser            *)
(* (Parser::feed, normalize_user_fixup).                                   *)
WholeWalksEmerge ==
  \A w \in 1..(walk - 1) :
    w \notin damaged =>
      LET stack == IF Walks[w].user = <<>> THEN <<>> ELSE CallStack(Walks[w])
          emitted == {n \in DOMAIN samples : samples[n].tid = Walks[w].tid}
          whole == [tid |-> Walks[w].tid, user |-> stack, kernel |-> Walks[w].kernel,
                    pmc |-> TrimZeros(Walks[w].pmc)]
      IN IF stack = <<>> THEN emitted = {}
         ELSE \E n \in emitted : emitted = {n} /\ samples[n] = whole

(* Every function of the jitdump is announced once, in the file's order,   *)
(* however the runtime's writes fall between the ticks; none of a file     *)
(* with another magic (JitdumpTailer::tick: partial records are not        *)
(* consumed).                                                              *)
LoadsFollowTheDump ==
  LET loads == {i \in DOMAIN Dump : GoodMagic /\ Dump[i].load /\ EndOf[i] <= tailer.offset}
  IN /\ Len(jitLoads) = Cardinality(loads)
     /\ \A n \in DOMAIN jitLoads :
          \E i \in loads : /\ jitLoads[n] = Dump[i].name
                           /\ Cardinality({j \in loads : j <= i}) = n
     /\ tailer.offset <= dumpLen \/ tailer.offset <= 0

(* The slide that finish reports explains as many of the observed kernel   *)
(* addresses as any aligned slide does, and it reports none only if none   *)
(* explains anything (SlideEstimator::observe, finalize).  A slide beyond  *)
(* every address explains nothing.                                         *)
SlideExplainsMost ==
  pc = "finished" =>
    \A n \in DOMAIN observed : \A s \in 0..observed[n] :
      s % SlideAlignment = 0 =>
        Explained(s, observed) <= IF slide = NoSlide THEN 0 ELSE Explained(slide, observed)

(* The sink knows the images the process has, each at its base.            *)
ImagesKnown ==
  reported = [b \in {i.base : i \in mapped} |-> BuildImage(CHOOSE i \in mapped : i.base = b)]

(* The sink ends up with the images the process has.  With a task port a   *)
(* scan that finds the image count unchanged is skipped, so that an unload *)
(* after the count was last read for a walk, or a walk that failed, may    *)
(* stay hidden; whatever else happened before that reading, and every load *)
(* after it, reaches the sink (ImageScanner::rescan).                      *)
ImagesCatchUp == <>[](pc = "finished" \/ ImagesKnown \/ (hasTask /\ hidden))

(* Not kept: dyld_images_changed is said to tell whenever the list of      *)
(* images has changed; the count does not.                                 *)
ImagesAlwaysCatchUp == <>[](pc = "finished" \/ ImagesKnown)
=============================================================================
