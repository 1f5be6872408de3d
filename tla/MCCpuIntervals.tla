--------------------------- MODULE MCCpuIntervals ---------------------------
(* Instances of CpuIntervals for TLC. *)
EXTENDS CpuIntervals, TLC

\* The CPUs are interchangeable; the threads are numbers and are not declared so.
CpuSymmetry == Permutations(Cpus)
=============================================================================
