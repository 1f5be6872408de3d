----------------------------- MODULE KernelSlide -----------------------------
(***************************************************************************)
(* SlideEstimator (stax-mac-kperf-parse/src/kernel_symbols.rs): the KASLR  *)
(* slide of the kernel is not readable, so every sampled kernel address    *)
(* votes for each aligned slide that would put it inside an executable     *)
(* segment of the kernel image.                                            *)
(***************************************************************************)
EXTENDS Integers, Sequences, FiniteSets

CONSTANTS
  ExecSegments,   \* executable segments of the kernel file, as <<lo, hi>> pairs
  SlideAlignment, \* 16 KB
  MaxPerObs       \* a segment that allows more slides than this does not vote

ASSUME SegmentsAssumption ==
  /\ SlideAlignment \in Nat \ {0} /\ MaxPerObs \in Nat
  /\ IsFiniteSet(ExecSegments) /\ ExecSegments \subseteq Nat \X Nat
  /\ \A s \in ExecSegments : s[1] < s[2]
  /\ \A s, t \in ExecSegments : s = t \/ s[2] <= t[1] \/ t[2] <= s[1]

AlignDown(n) == (n \div SlideAlignment) * SlideAlignment
AlignUp(n) == AlignDown(n + SlideAlignment - 1)

(* Mutant: the segment's end counts as inside it. *)
SlidesFor_EndIncluded(seg, avma) ==
  LET hi == AlignDown(avma - seg[1])
      lo == AlignUp(IF avma >= seg[2] THEN avma - seg[2] ELSE 0)
  IN IF avma < seg[1] THEN {} ELSE {s \in lo..hi : s % SlideAlignment = 0}

(* The slides that put avma inside the segment: svma = avma - slide.       *)
SlidesFor(seg, avma) ==
  LET hi == AlignDown(avma - seg[1])
      lo == AlignUp(IF avma >= seg[2] THEN avma - seg[2] + 1 ELSE 0)
  IN IF avma < seg[1] \/ (hi - lo) \div SlideAlignment > MaxPerObs THEN {}
     ELSE {s \in lo..hi : s % SlideAlignment = 0}

(* observe: one vote per segment and slide. *)
Observe(votes, avma) ==
  LET slides == UNION {SlidesFor(seg, avma) : seg \in ExecSegments}
  IN [s \in DOMAIN votes \union slides |->
        (IF s \in DOMAIN votes THEN votes[s] ELSE 0)
          + Cardinality({seg \in ExecSegments : s \in SlidesFor(seg, avma)})]

ObserveAll(votes, avmas) ==
  LET after[n \in 0..Len(avmas)] ==
        IF n = 0 THEN votes ELSE Observe(after[n - 1], avmas[n])
  IN after[Len(avmas)]

(* finalize: any slide with the most votes (the order of a hash map).      *)
Finalists(votes) == {s \in DOMAIN votes : \A t \in DOMAIN votes : votes[t] <= votes[s]}

(* The slide explains the address: it is inside the kernel's code.         *)
Explains(slide, avma) ==
  \E seg \in ExecSegments : seg[1] <= avma - slide /\ avma - slide < seg[2]

Explained(slide, avmas) == Cardinality({n \in DOMAIN avmas : Explains(slide, avmas[n])})
=============================================================================
