---------------------------- MODULE KdebugParser ----------------------------
(***************************************************************************)
(* The kperf half of the kdebug stream: stax-mac-kperf-parse/src/parser.rs *)
(* turns START, stack headers, stack chunks, counters and END into one     *)
(* sample.  The stream carries no sequence numbers: what a lost record     *)
(* leaves behind in the parser is visible to the next one.                 *)
(***************************************************************************)
EXTENDS Integers, Sequences, SequencesExt

CONSTANTS
  ChunkWidth,   \* frames one data record carries (4: arg1..arg4)
  Signed        \* pointer-authentication bits: a signed pointer is its address plus Signed

ASSUME ParserAssumption ==
  /\ ChunkWidth \in Nat \ {0}
  /\ Signed \in Nat \ {0}

NoThread == 0
Null == 0       \* the NULL frame that ends a walk

(* strip_code_ptr: xpaci removes the authentication bits. *)
StripCodePtr(ptr) == ptr % Signed

ParserInit ==
  [tid |-> NoThread, user |-> <<>>, kernel |-> <<>>, pmc |-> <<>>,
   userMain |-> 0, userLeft |-> 0, kernelLeft |-> 0]

(* Mutant: a new sample keeps what an unfinished one has collected. *)
StartSample_Keeps(p, rec) == [p EXCEPT !.tid = rec.tid]

StartSample(p, rec) == [ParserInit EXCEPT !.tid = rec.tid]

EndSample(p, rec) == [p EXCEPT !.tid = NoThread]

Counters(p, rec) == [p EXCEPT !.pmc = @ \o rec.frames]

UserHeader(p, rec) == [p EXCEPT !.userMain = rec.main, !.userLeft = rec.main + rec.async]

KernelHeader(p, rec) == [p EXCEPT !.kernelLeft = rec.main + rec.async]

(* append_chunk: the header's count says how much of the chunk is frames. *)
Chunk(rec, left) == SubSeq(rec.frames, 1, IF left < ChunkWidth THEN left ELSE ChunkWidth)
Left(left) == IF left < ChunkWidth THEN 0 ELSE left - ChunkWidth

UserChunk(p, rec) ==
  [p EXCEPT !.user = @ \o Chunk(rec, p.userLeft), !.userLeft = Left(@)]

KernelChunk(p, rec) ==
  [p EXCEPT !.kernel = @ \o Chunk(rec, p.kernelLeft), !.kernelLeft = Left(@)]

(* feed: only START is heeded outside a sample; END closes it either way. *)
Feed(p, rec) ==
  IF rec.kind = "start" THEN StartSample(p, rec)
  ELSE IF p.tid = NoThread THEN p
  ELSE
    CASE rec.kind = "end" -> EndSample(p, rec)
      [] rec.kind = "uhdr" -> UserHeader(p, rec)
      [] rec.kind = "udata" -> UserChunk(p, rec)
      [] rec.kind = "khdr" -> KernelHeader(p, rec)
      [] rec.kind = "kdata" -> KernelChunk(p, rec)
      [] rec.kind = "kpc" -> Counters(p, rec)

(* normalize_user_fixup: XNU appends the saved link register after the main *)
(* chain; it belongs after the pc, unless the chain already has it there.   *)
NormalizeUserFixup(p) ==
  LET main == IF p.userMain < Len(p.user) THEN p.userMain ELSE Len(p.user)
      fixup == StripCodePtr(p.user[main])
      chain == RemoveAt(p.user, main)
  IN IF main < 2 THEN p.user
     ELSE IF fixup = Null THEN p.user
     ELSE IF main > 2 /\ StripCodePtr(p.user[2]) = fixup THEN chain
     ELSE InsertAt(chain, 2, fixup)

(* Everything from the first NULL frame on is unreliable. *)
UpToNull(frames) ==
  LET nulls == {i \in DOMAIN frames : frames[i] = Null}
  IN IF nulls = {} THEN frames
     ELSE SubSeq(frames, 1, (CHOOSE i \in nulls : \A j \in nulls : i <= j) - 1)

(* Padding after the last counter that is not zero is dropped. *)
TrimZeros(pmc) ==
  LET counts == {i \in DOMAIN pmc : pmc[i] # 0}
  IN IF counts = {} THEN <<>>
     ELSE SubSeq(pmc, 1, CHOOSE i \in counts : \A j \in counts : j <= i)

(* The sample END emits. *)
Sample(p) ==
  [tid |-> p.tid, user |-> UpToNull(NormalizeUserFixup(p)), kernel |-> UpToNull(p.kernel),
   pmc |-> TrimZeros(p.pmc)]

-----------------------------------------------------------------------------
(* A frame of a walk is NULL or points to something.                        *)
Frames == {f \in Nat : f = Null \/ StripCodePtr(f) # Null}

(* What kperf writes for one sample of a thread (external): the walk's     *)
(* frames in chunks padded with zeros.                                     *)
Chunks(frames, kind) ==
  [c \in 1..((Len(frames) + ChunkWidth - 1) \div ChunkWidth) |->
     [kind |-> kind,
      frames |-> [i \in 1..ChunkWidth |->
                    LET at == (c - 1) * ChunkWidth + i
                    IN IF at <= Len(frames) THEN frames[at] ELSE 0]]]

WalkRecords(w) ==
  <<[kind |-> "start", tid |-> w.tid]>>
    \o <<[kind |-> "kpc", frames |-> w.pmc]>>
    \o (IF w.user = <<>> THEN <<>>
        ELSE <<[kind |-> "uhdr", main |-> w.main, async |-> Len(w.user) - w.main]>>
               \o Chunks(w.user, "udata"))
    \o (IF w.kernel = <<>> THEN <<>>
        ELSE <<[kind |-> "khdr", main |-> Len(w.kernel), async |-> 0]>>
               \o Chunks(w.kernel, "kdata"))
    \o <<[kind |-> "end"]>>

(* The call stack the walk stands for, stated on the walk itself: the pc,  *)
(* the link register unless the caller repeats it, the chain, the frames   *)
(* of the awaiting tasks; nothing from a NULL on.                          *)
CallStack(w) ==
  LET lr == StripCodePtr(w.user[w.main])
      chain == SubSeq(w.user, 2, w.main - 1)
      callee == IF lr = Null \/ (chain # <<>> /\ StripCodePtr(Head(chain)) = lr)
                THEN <<>> ELSE <<lr>>
      rest == IF lr = Null THEN <<>> ELSE SubSeq(w.user, w.main + 1, Len(w.user))
      stack == <<Head(w.user)>> \o callee \o chain \o rest
  IN IF w.main < 2 THEN UpToNull(w.user) ELSE UpToNull(stack)
=============================================================================
