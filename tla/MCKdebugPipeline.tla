-------------------------- MODULE MCKdebugPipeline --------------------------
(* A small process: three images of which two share a base, four samples   *)
(* and a jitdump of three records.                                         *)
EXTENDS KdebugPipeline

MCImages ==
  {[path |-> "exe", base |-> 1], [path |-> "plugin", base |-> 2], [path |-> "other", base |-> 2]}

MCExecutable == [path |-> "exe", base |-> 1]

MCDump ==
  <<[name |-> "f", load |-> TRUE, size |-> 2],
    [name |-> "debug", load |-> FALSE, size |-> 1],
    [name |-> "g", load |-> TRUE, size |-> 2]>>

MCSegments == {<<4, 8>>, <<12, 14>>}

(* Frames: 1000 and above are signed pointers, 0 ends a walk.  40 is an    *)
(* address of a kernel extension.                                          *)
MCWalks ==
  <<[tid |-> 1, user |-> <<11, 12, 13, 19>>, main |-> 4, kernel |-> <<9>>, pmc |-> <<5, 0>>],
    [tid |-> 2, user |-> <<>>, main |-> 0, kernel |-> <<16, 40>>, pmc |-> <<0, 0>>],
    [tid |-> 3, user |-> <<31, 32, 1032, 35>>, main |-> 3, kernel |-> <<40>>, pmc |-> <<7, 8>>],
    [tid |-> 4, user |-> <<41, 42, 0, 1049>>, main |-> 4, kernel |-> <<>>, pmc |-> <<1, 0>>]>>

(* Each part at its full size with the others small.                       *)
MCWorkloads ==
  {[walks |-> MCWalks, dump |-> -1, changes |-> 0, faults |-> 0],
   [walks |-> SubSeq(MCWalks, 1, 1), dump |-> -1, changes |-> 1, faults |-> 0],
   [walks |-> <<>>, dump |-> DumpLength, changes |-> 0, faults |-> 0],
   [walks |-> <<>>, dump |-> -1, changes |-> 5, faults |-> 2]}
=============================================================================
