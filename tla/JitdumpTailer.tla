---------------------------- MODULE JitdumpTailer ----------------------------
(***************************************************************************)
(* The incremental reader of /tmp/jit-<pid>.dump                           *)
(* (stax-mac-kperf-parse/src/jitdump_tail.rs).  The file grows while it is *)
(* read; lengths are in units of which a record's header takes one.        *)
(***************************************************************************)
EXTENDS Integers, Sequences

CONSTANTS
  Dump,         \* the records the runtime writes, as [name, load, size]
  HeaderUnits,  \* size of the file's global header
  GoodMagic     \* whether that header starts with a jitdump magic

ASSUME DumpAssumption ==
  /\ Dump \in Seq([name : STRING, load : BOOLEAN, size : Nat \ {0}])
  /\ HeaderUnits \in Nat
  /\ GoodMagic \in BOOLEAN

(* Where the first n records end. *)
EndOf[n \in 0..Len(Dump)] ==
  IF n = 0 THEN HeaderUnits ELSE EndOf[n - 1] + Dump[n].size

DumpLength == EndOf[Len(Dump)]

TailerInit == [offset |-> 0, header |-> FALSE]

(* Records that lie between the position and the end of the bytes read.    *)
Complete(from, len) == {i \in DOMAIN Dump : from <= EndOf[i - 1] /\ EndOf[i] <= len}

Start(tailer) == IF tailer.header THEN tailer.offset ELSE HeaderUnits

(* Mutant: everything that was read counts as consumed. *)
TailerTick_ToTheEnd(tailer, len) ==
  IF len <= tailer.offset \/ (~tailer.header /\ len - tailer.offset < HeaderUnits)
  THEN tailer
  ELSE [offset |-> len, header |-> tailer.header \/ GoodMagic]

(* tick: read what was appended; a header or a record that is not complete *)
(* stays for the next tick, a file with another magic is skipped.          *)
TailerTick(tailer, len) ==
  LET whole == Complete(Start(tailer), len)
      last == CHOOSE i \in whole : \A j \in whole : j <= i
  IN IF len <= tailer.offset \/ (~tailer.header /\ len - tailer.offset < HeaderUnits)
     THEN tailer
     ELSE IF ~tailer.header /\ ~GoodMagic THEN [tailer EXCEPT !.offset = len]
     ELSE [offset |-> IF whole = {} THEN Start(tailer) ELSE EndOf[last], header |-> TRUE]

(* The functions among some records, in the file's order. *)
CodeLoads(records) ==
  LET loads[n \in 0..Len(Dump)] ==
        IF n = 0 THEN <<>>
        ELSE IF n \in records /\ Dump[n].load THEN Append(loads[n - 1], Dump[n].name)
        ELSE loads[n - 1]
  IN loads[Len(Dump)]

(* The code loads that tick returns; records of another kind are skipped.  *)
NewLoads(tailer, len) ==
  IF TailerTick(tailer, len).header THEN CodeLoads(Complete(Start(tailer), len)) ELSE <<>>
=============================================================================
