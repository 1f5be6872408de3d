------------------------ MODULE KdebugPipelineProofs ------------------------
(***************************************************************************)
(* Proofs about KdebugPipeline, for every workload, set of images, jitdump *)
(* and number of lost records: the functions of the jitdump are announced  *)
(* once each and in order, the slide that finish reports explains as many  *)
(* of the observed kernel addresses as any other, and a sample that lost   *)
(* no record comes out as the call stack its walk stands for.              *)
(***************************************************************************)
EXTENDS KdebugPipeline, SequenceLemmas

-----------------------------------------------------------------------------
(* The jitdump: where its records end, and the functions among them.       *)

LEMMA DumpTyped ==
  /\ Len(Dump) \in Nat /\ DOMAIN Dump = 1..Len(Dump)
  /\ \A i \in 1..Len(Dump) : /\ Dump[i].name \in STRING
                             /\ Dump[i].load \in BOOLEAN
                             /\ Dump[i].size \in Nat /\ Dump[i].size > 0
<1>1. /\ Len(Dump) \in Nat /\ DOMAIN Dump = 1..Len(Dump)
      /\ \A i \in 1..Len(Dump) :
           Dump[i] \in [name : STRING, load : BOOLEAN, size : Nat \ {0}]
  BY DumpAssumption, LenProperties, ElementOfSeq
<1> QED BY <1>1

LEMMA Ends ==
  /\ EndOf \in [0..Len(Dump) -> Nat]
  /\ EndOf[0] = HeaderUnits
  /\ \A n \in 1..Len(Dump) : EndOf[n] = EndOf[n - 1] + Dump[n].size
<1> DEFINE N == Len(Dump)
           step == [p \in (1..N) \X Nat |-> p[2] + Dump[p[1]].size]
           IsEnd(f) == f = [n \in 0..N |-> IF n = 0 THEN HeaderUnits
                                            ELSE f[n - 1] + Dump[n].size]
<1>1. step \in [(1..N) \X Nat -> Nat]
  BY DumpTyped
<1>2. \A n \in 1..N, v \in Nat : step[<<n, v>>] = v + Dump[n].size
  BY DumpTyped
<1>3. N \in Nat /\ HeaderUnits \in Nat
  BY DumpTyped, DumpAssumption
<1>4. \E f : IsEnd(f)
  <2> HIDE DEF step, N
  <2>0. PICK f : IsRecursion(f, step, HeaderUnits, N, Nat)
    BY <1>1, <1>3, RecursionExists DEF IsStep
  <2>1. /\ f \in [0..N -> Nat] /\ f[0] = HeaderUnits
        /\ \A n \in 1..N : f[n] = step[<<n, f[n - 1]>>]
    BY <2>0 DEF IsRecursion
  <2>2. ASSUME NEW n \in 0..N, n # 0 PROVE f[n] = f[n - 1] + Dump[n].size
    <3>1. n \in 1..N /\ n - 1 \in 0..N
      BY <1>3, <2>2
    <3>2. f[n - 1] \in Nat
      BY <2>1, <3>1
    <3> QED BY <1>2, <2>1, <3>1, <3>2
  <2>3. f = [n \in 0..N |-> f[n]]
    BY <2>1
  <2>4. IsEnd(f)
    BY <2>1, <2>2, <2>3
  <2> QED BY <2>4
<1>5. IsEnd(EndOf)
  <2>1. EndOf = CHOOSE f : IsEnd(f)
    BY DEF EndOf
  <2> HIDE DEF IsEnd
  <2> QED BY <1>4, <2>1
<1> HIDE DEF step
<1>6. /\ EndOf[0] = HeaderUnits
      /\ \A n \in 1..N : EndOf[n] = EndOf[n - 1] + Dump[n].size
  <2>1. 0 \in 0..N /\ \A n \in 1..N : n \in 0..N /\ n # 0
    BY <1>3
  <2> QED BY <1>5, <2>1
<1>7. 0..N \subseteq {n \in 0..N : EndOf[n] \in Nat}
  <2> DEFINE T == {n \in 0..N : EndOf[n] \in Nat}
  <2>1. 0 \in T
    BY <1>3, <1>6
  <2>2. ASSUME NEW n \in 1..N, n - 1 \in T PROVE n \in T
    <3>1. EndOf[n - 1] \in Nat /\ Dump[n].size \in Nat /\ n \in 0..N
      BY <1>3, <2>2, DumpTyped
    <3> QED BY <1>6, <3>1
  <2> HIDE DEF T, N
  <2>3. 0..N \subseteq T
    BY <1>3, <2>1, <2>2, UpToInduction
  <2> QED BY <2>3 DEF T
<1>8. DOMAIN EndOf = 0..N /\ EndOf = [n \in 0..N |-> EndOf[n]]
  BY <1>5
<1> QED BY <1>6, <1>7, <1>8

(* Records follow one another: every one takes some space.                 *)
LEMMA EndsIncrease ==
  \A i, j \in 0..Len(Dump) : i < j => EndOf[i] < EndOf[j]
<1> DEFINE N == Len(Dump)
           T == {n \in 0..N : \A i \in 0..N : i < n => EndOf[i] < EndOf[n]}
<1>1. N \in Nat
  BY DumpTyped
<1>2. 0 \in T
  BY <1>1
<1>3. ASSUME NEW n \in 1..N, n - 1 \in T PROVE n \in T
  <2> SUFFICES ASSUME NEW i \in 0..N, i < n PROVE EndOf[i] < EndOf[n]
    BY <1>1
  <2>1. /\ EndOf[n] = EndOf[n - 1] + Dump[n].size /\ Dump[n].size \in Nat
        /\ Dump[n].size > 0 /\ n - 1 \in 0..N
        /\ EndOf[n - 1] \in Nat /\ EndOf[i] \in Nat
    BY <1>1, DumpTyped, Ends
  <2>2. i = n - 1 \/ i < n - 1
    BY <1>1
  <2>3. EndOf[i] <= EndOf[n - 1]
    BY <1>3, <2>1, <2>2
  <2> HIDE DEF T, N
  <2> QED BY <2>1, <2>3
<1> HIDE DEF T
<1>4. 0..N \subseteq T
  BY <1>1, <1>2, <1>3, UpToInduction
<1> QED BY <1>4 DEF T

(* What CodeLoads has collected after each record.                         *)
IsLoads(f, records) ==
  /\ f \in [0..Len(Dump) -> Seq(STRING)]
  /\ f[0] = <<>>
  /\ \A n \in 1..Len(Dump) :
       f[n] = IF n \in records /\ Dump[n].load THEN Append(f[n - 1], Dump[n].name)
              ELSE f[n - 1]

LEMMA LoadsDefined ==
  ASSUME NEW records
  PROVE  \E f : IsLoads(f, records) /\ CodeLoads(records) = f[Len(Dump)]
<1> DEFINE N == Len(Dump)
           Step(n, v) == IF n \in records /\ Dump[n].load THEN Append(v, Dump[n].name) ELSE v
           step == [p \in (1..N) \X Seq(STRING) |-> Step(p[1], p[2])]
           Is(f) == f = [n \in 0..N |-> IF n = 0 THEN <<>>
                          ELSE IF n \in records /\ Dump[n].load
                               THEN Append(f[n - 1], Dump[n].name)
                               ELSE f[n - 1]]
           f0 == CHOOSE f : Is(f)
<1>0. N \in Nat
  BY DumpTyped
<1>1. \A n \in 1..N, v \in Seq(STRING) : Step(n, v) \in Seq(STRING)
  BY DumpTyped, AppendProperties
<1>2. step \in [(1..N) \X Seq(STRING) -> Seq(STRING)]
  <2> HIDE DEF Step
  <2> QED BY <1>1
<1>3. \A n \in 1..N, v \in Seq(STRING) : step[<<n, v>>] = Step(n, v)
  <2> HIDE DEF Step
  <2> QED OBVIOUS
<1>4. <<>> \in Seq(STRING)
  OBVIOUS
<1>5. \E f : Is(f)
  <2> HIDE DEF step, N, Step
  <2>0. PICK f : IsRecursion(f, step, <<>>, N, Seq(STRING))
    BY <1>0, <1>2, <1>4, RecursionExists DEF IsStep
  <2>1. /\ f \in [0..N -> Seq(STRING)] /\ f[0] = <<>>
        /\ \A n \in 1..N : f[n] = step[<<n, f[n - 1]>>]
    BY <2>0 DEF IsRecursion
  <2>2. ASSUME NEW n \in 0..N, n # 0 PROVE f[n] = Step(n, f[n - 1])
    <3>1. n \in 1..N /\ n - 1 \in 0..N
      BY <1>0, <2>2
    <3>2. f[n - 1] \in Seq(STRING)
      BY <2>1, <3>1
    <3> QED BY <1>3, <2>1, <3>1, <3>2
  <2>3. f = [n \in 0..N |-> f[n]]
    BY <2>1
  <2>4. Is(f)
    BY <2>1, <2>2, <2>3, Zenon DEF Step
  <2> QED BY <2>4
<1>6. Is(f0)
  <2> HIDE DEF Is
  <2> QED BY <1>5
<1>7. CodeLoads(records) = f0[Len(Dump)]
  BY DEF CodeLoads
<1> HIDE DEF f0, step
<1>8. /\ f0[0] = <<>>
      /\ \A n \in 1..N : f0[n] = Step(n, f0[n - 1])
  <2>1. 0 \in 0..N /\ \A n \in 1..N : n \in 0..N /\ n # 0
    BY <1>0
  <2> QED BY <1>6, <2>1
<1> HIDE DEF Step
<1>9. 0..N \subseteq {n \in 0..N : f0[n] \in Seq(STRING)}
  <2> DEFINE T == {n \in 0..N : f0[n] \in Seq(STRING)}
  <2>0. f0[0] \in Seq(STRING)
    BY <1>4, <1>8, Zenon
  <2>1. 0 \in T
    BY <1>0, <2>0
  <2>2. ASSUME NEW n \in 1..N, n - 1 \in T PROVE n \in T
    <3>1. f0[n - 1] \in Seq(STRING) /\ n \in 0..N
      BY <1>0, <2>2
    <3> HIDE DEF Step
    <3> QED BY <1>1, <1>8, <3>1
  <2> HIDE DEF T, N
  <2>3. 0..N \subseteq T
    BY <1>0, <2>1, <2>2, UpToInduction
  <2> QED BY <2>3 DEF T
<1>10. DOMAIN f0 = 0..N /\ f0 = [n \in 0..N |-> f0[n]]
  BY <1>6
<1>11. IsLoads(f0, records)
  <2>1. \A n \in 1..N : f0[n] = IF n \in records /\ Dump[n].load
                                 THEN Append(f0[n - 1], Dump[n].name) ELSE f0[n - 1]
    BY <1>8 DEF Step
  <2>2. f0 \in [0..N -> Seq(STRING)]
    BY <1>9, <1>10
  <2> QED BY <1>8, <2>1, <2>2 DEF IsLoads
<1> QED BY <1>7, <1>11

(* Reading the first k records is being at place k of reading them all.    *)
LEMMA LoadsUpTo ==
  ASSUME NEW F, IsLoads(F, 1..Len(Dump)), NEW k \in 0..Len(Dump)
  PROVE  CodeLoads(1..k) = F[k]
<1> DEFINE N == Len(Dump)
<1>0. N \in Nat
  BY DumpTyped
<1>1. PICK g : IsLoads(g, 1..k) /\ CodeLoads(1..k) = g[N]
  BY LoadsDefined
<1>2. /\ F[0] = <<>> /\ g[0] = <<>>
      /\ \A n \in 1..N : F[n] = IF n \in 1..N /\ Dump[n].load
                                THEN Append(F[n - 1], Dump[n].name) ELSE F[n - 1]
      /\ \A n \in 1..N : g[n] = IF n \in 1..k /\ Dump[n].load
                                THEN Append(g[n - 1], Dump[n].name) ELSE g[n - 1]
  BY <1>1 DEF IsLoads
<1> DEFINE P(n) == (n <= k => g[n] = F[n]) /\ (k <= n => g[n] = F[k])
           T == {n \in 0..N : P(n)}
<1>3. 0 \in T
  <2>1. k = 0 \/ ~ (k <= 0)
    OBVIOUS
  <2> QED BY <1>0, <1>2, <2>1
<1>4. ASSUME NEW n \in 1..N, n - 1 \in T PROVE n \in T
  <2>1. P(n - 1)
    BY <1>4
  <2>2. CASE n <= k
    <3>1. n \in 1..k /\ n - 1 <= k /\ (k <= n => n = k)
      BY <2>2
    <3>2. g[n] = F[n]
      BY <1>2, <2>1, <3>1
    <3> QED BY <3>1, <3>2
  <2>3. CASE ~ (n <= k)
    <3>1. n \notin 1..k /\ k <= n - 1
      BY <2>3
    <3>2. g[n] = F[k]
      BY <1>2, <2>1, <3>1
    <3> QED BY <2>3, <3>2
  <2> QED BY <2>2, <2>3
<1> HIDE DEF T
<1>5. 0..N \subseteq T
  BY <1>0, <1>3, <1>4, UpToInduction
<1>6. N \in T /\ k <= N
  BY <1>0, <1>5
<1> QED BY <1>1, <1>6 DEF T

LEMMA NothingLoaded == CodeLoads({}) = <<>>
<1> DEFINE N == Len(Dump)
<1>0. N \in Nat
  BY DumpTyped
<1>1. PICK g : IsLoads(g, {}) /\ CodeLoads({}) = g[N]
  BY LoadsDefined
<1>2. g[0] = <<>> /\ \A n \in 1..N : g[n] = g[n - 1]
  BY <1>1 DEF IsLoads
<1> DEFINE T == {n \in 0..N : g[n] = <<>>}
<1>3. 0 \in T
  BY <1>0, <1>2
<1>4. ASSUME NEW n \in 1..N, n - 1 \in T PROVE n \in T
  BY <1>2, <1>4
<1> HIDE DEF T
<1>5. 0..N \subseteq T
  BY <1>0, <1>3, <1>4, UpToInduction
<1>6. N \in T
  BY <1>0, <1>5
<1> QED BY <1>1, <1>6 DEF T

LEMMA AppendToStrings ==
  \A s, t \in Seq(STRING), e \in STRING : s \o Append(t, e) = Append(s \o t, e)
<1> DEFINE S == STRING
<1> SUFFICES \A s, t \in Seq(S), e \in S : s \o Append(t, e) = Append(s \o t, e)
  OBVIOUS
<1> HIDE DEF S
<1> QED BY AppendToSecond

(* The functions of the first m records are those of the first k, followed *)
(* by those of the records after them.                                     *)
LEMMA LoadsSplit ==
  ASSUME NEW k \in 0..Len(Dump), NEW m \in 0..Len(Dump), k <= m
  PROVE  CodeLoads(1..k) \o CodeLoads((k + 1)..m) = CodeLoads(1..m)
<1> DEFINE N == Len(Dump)
<1>0. N \in Nat
  BY DumpTyped
<1>1. PICK F : IsLoads(F, 1..N)
  BY LoadsDefined
<1>2. CodeLoads(1..k) = F[k] /\ CodeLoads(1..m) = F[m]
  BY <1>1, LoadsUpTo
<1>3. PICK g : IsLoads(g, (k + 1)..m) /\ CodeLoads((k + 1)..m) = g[N]
  BY LoadsDefined
<1>4. /\ F \in [0..N -> Seq(STRING)] /\ g \in [0..N -> Seq(STRING)]
      /\ g[0] = <<>>
      /\ \A n \in 1..N : F[n] = IF Dump[n].load
                                THEN Append(F[n - 1], Dump[n].name) ELSE F[n - 1]
      /\ \A n \in 1..N : g[n] = IF n \in (k + 1)..m /\ Dump[n].load
                                THEN Append(g[n - 1], Dump[n].name) ELSE g[n - 1]
  BY <1>1, <1>3 DEF IsLoads
<1>5. k \in 0..N /\ F[k] \in Seq(STRING)
  BY <1>4
<1> DEFINE Both(n) == F[k] \o g[n]
<1>6. /\ \A n \in 0..N : g[n] = <<>> => Both(n) = F[k]
      /\ \A n \in 1..N : g[n] = g[n - 1] => Both(n) = Both(n - 1)
  <2>1. F[k] \o <<>> = F[k]
    BY <1>5, ConcatEmptySeq
  <2> QED BY <2>1, Zenon
<1>7. ASSUME NEW n \in 1..N, g[n] = Append(g[n - 1], Dump[n].name), g[n - 1] \in Seq(STRING)
      PROVE  Both(n) = Append(Both(n - 1), Dump[n].name)
  <2>1. Dump[n].name \in STRING
    BY DumpTyped
  <2>2. F[k] \o Append(g[n - 1], Dump[n].name) = Append(F[k] \o g[n - 1], Dump[n].name)
    BY <1>5, <1>7, <2>1, AppendToStrings, Zenon
  <2> QED BY <1>7, <2>2, Zenon
<1> HIDE DEF Both
<1> DEFINE P(n) == /\ n <= k => g[n] = <<>>
                   /\ k <= n /\ n <= m => Both(n) = F[n]
                   /\ m <= n => Both(n) = F[m]
           T == {n \in 0..N : P(n)}
<1>8. 0 \in T
  <2>1. 0 \in 0..N /\ k \in Nat /\ m \in Nat
    BY <1>0
  <2>2. (k <= 0 => k = 0) /\ (m <= 0 => m = 0 /\ k = 0)
    BY <2>1
  <2>3. Both(0) = F[k]
    BY <1>4, <1>6, <2>1
  <2> QED BY <1>4, <2>1, <2>2, <2>3
<1>9. ASSUME NEW n \in 1..N, n - 1 \in T PROVE n \in T
  <2>0. n - 1 \in 0..N /\ n \in 0..N
    BY <1>0
  <2>1. P(n - 1) /\ g[n - 1] \in Seq(STRING)
    BY <1>4, <1>9, <2>0
  <2>2. CASE n <= k
    <3>1. n \notin (k + 1)..m /\ n - 1 <= k
      BY <2>2
    <3>2. g[n] = <<>>
      BY <1>4, <2>1, <3>1
    <3>3. (k <= n => n = k) /\ (m <= n => n = k /\ m = k)
      BY <2>2
    <3>4. Both(n) = F[k]
      BY <1>6, <2>0, <3>2
    <3> QED BY <2>0, <3>2, <3>3, <3>4
  <2>3. CASE ~ (n <= k) /\ n <= m
    <3>1. n \in (k + 1)..m /\ k <= n - 1 /\ n - 1 <= m /\ (m <= n => n = m)
      BY <2>3
    <3>2. Both(n - 1) = F[n - 1]
      BY <2>1, <3>1
    <3>3. CASE Dump[n].load
      <4>1. g[n] = Append(g[n - 1], Dump[n].name) /\ F[n] = Append(F[n - 1], Dump[n].name)
        BY <1>4, <3>1, <3>3
      <4>2. Both(n) = Append(Both(n - 1), Dump[n].name)
        BY <1>7, <2>1, <4>1
      <4>3. Both(n) = F[n]
        BY <3>2, <4>1, <4>2, Zenon
      <4> QED BY <2>0, <2>3, <3>1, <4>3
    <3>4. CASE ~ Dump[n].load
      <4>1. g[n] = g[n - 1] /\ F[n] = F[n - 1]
        BY <1>4, <3>4
      <4>2. Both(n) = F[n]
        BY <1>6, <3>2, <4>1
      <4> QED BY <2>0, <2>3, <3>1, <4>2
    <3> QED BY <3>3, <3>4
  <2>4. CASE ~ (n <= m)
    <3>1. n \notin (k + 1)..m /\ m <= n - 1 /\ ~ (n <= k)
      BY <2>4
    <3>2. g[n] = g[n - 1] /\ Both(n - 1) = F[m]
      BY <1>4, <2>1, <3>1
    <3>3. Both(n) = F[m]
      BY <1>6, <3>2
    <3> QED BY <2>0, <2>4, <3>1, <3>3
  <2> QED BY <2>2, <2>3, <2>4
<1> HIDE DEF T
<1>10. 0..N \subseteq T
  BY <1>0, <1>8, <1>9, UpToInduction
<1>11. N \in T /\ m <= N
  BY <1>0, <1>10
<1> QED BY <1>2, <1>3, <1>11 DEF T, Both

LEMMA LoadsTyped ==
  ASSUME NEW records
  PROVE  CodeLoads(records) \in Seq(STRING)
<1>1. PICK f : IsLoads(f, records) /\ CodeLoads(records) = f[Len(Dump)]
  BY LoadsDefined
<1>2. f \in [0..Len(Dump) -> Seq(STRING)] /\ Len(Dump) \in 0..Len(Dump)
  BY <1>1, DumpTyped DEF IsLoads
<1> QED BY <1>1, <1>2

(* The functions among the first k records.                                *)
FunctionsUpTo(k) == {i \in 1..Len(Dump) : Dump[i].load /\ i <= k}

LEMMA FunctionsFinite ==
  ASSUME NEW k
  PROVE  IsFiniteSet(FunctionsUpTo(k)) /\ Cardinality(FunctionsUpTo(k)) \in Nat
<1>1. IsFiniteSet(1..Len(Dump))
  BY DumpTyped, FS_Interval
<1>2. IsFiniteSet(FunctionsUpTo(k))
  <2>1. FunctionsUpTo(k) \subseteq 1..Len(Dump)
    BY DEF FunctionsUpTo
  <2> QED BY <1>1, <2>1, FS_Subset
<1> QED BY <1>2, FS_CardinalityType

(* CodeLoads lists them in the file's order.                               *)
LEMMA LoadsInOrder ==
  ASSUME NEW k \in 0..Len(Dump)
  PROVE  /\ Len(CodeLoads(1..k)) = Cardinality(FunctionsUpTo(k))
         /\ \A n \in 1..Len(CodeLoads(1..k)) :
              \E i \in FunctionsUpTo(k) : /\ CodeLoads(1..k)[n] = Dump[i].name
                                          /\ Cardinality(FunctionsUpTo(i)) = n
<1> DEFINE N == Len(Dump)
<1>0. N \in Nat
  BY DumpTyped
<1>1. PICK F : IsLoads(F, 1..N)
  BY LoadsDefined
<1>2. /\ F \in [0..N -> Seq(STRING)] /\ F[0] = <<>>
      /\ \A n \in 1..N : F[n] = IF Dump[n].load
                                THEN Append(F[n - 1], Dump[n].name) ELSE F[n - 1]
  BY <1>1 DEF IsLoads
<1> DEFINE P(c) == /\ Len(F[c]) = Cardinality(FunctionsUpTo(c))
                   /\ \A n \in 1..Len(F[c]) :
                        \E i \in FunctionsUpTo(c) : /\ F[c][n] = Dump[i].name
                                                    /\ Cardinality(FunctionsUpTo(i)) = n
           T == {c \in 0..N : P(c)}
<1>3. 0 \in T
  <2>1. FunctionsUpTo(0) = {}
    BY <1>0 DEF FunctionsUpTo
  <2>2. Len(F[0]) = 0
    BY <1>2
  <2>3. Cardinality(FunctionsUpTo(0)) = 0
    BY <2>1, FS_EmptySet
  <2>4. 1..Len(F[0]) = {}
    BY <2>2
  <2>5. P(0)
    BY <2>2, <2>3, <2>4
  <2> QED BY <1>0, <2>5
<1>4. ASSUME NEW c \in 1..N, c - 1 \in T PROVE c \in T
  <2>1. P(c - 1) /\ c - 1 \in 0..N /\ c \in 0..N
    BY <1>0, <1>4
  <2>2. F[c - 1] \in Seq(STRING) /\ Len(F[c - 1]) \in Nat
    BY <1>2, <2>1, LenProperties
  <2>3. CASE ~ Dump[c].load
    <3>1. FunctionsUpTo(c) = FunctionsUpTo(c - 1)
      BY <1>0, <2>3 DEF FunctionsUpTo
    <3>2. F[c] = F[c - 1]
      BY <1>2, <2>3
    <3> QED BY <2>1, <3>1, <3>2
  <2>4. CASE Dump[c].load
    <3>1. FunctionsUpTo(c) = FunctionsUpTo(c - 1) \cup {c} /\ c \notin FunctionsUpTo(c - 1)
      BY <1>0, <2>4 DEF FunctionsUpTo
    <3>2. Cardinality(FunctionsUpTo(c)) = Cardinality(FunctionsUpTo(c - 1)) + 1
      BY <3>1, FunctionsFinite, FS_AddElement
    <3>3. F[c] = Append(F[c - 1], Dump[c].name) /\ Dump[c].name \in STRING
      BY <1>2, <2>4, DumpTyped
    <3>4. /\ Len(F[c]) = Len(F[c - 1]) + 1
          /\ \A n \in 1..Len(F[c - 1]) : F[c][n] = F[c - 1][n]
          /\ F[c][Len(F[c - 1]) + 1] = Dump[c].name
      <4> DEFINE S == STRING
      <4>1. F[c - 1] \in Seq(S) /\ Dump[c].name \in S
        BY <2>2, <3>3
      <4> HIDE DEF S
      <4> QED BY <3>3, <4>1, AppendProperties
    <3>5. Len(F[c]) = Cardinality(FunctionsUpTo(c))
      BY <2>1, <3>2, <3>4
    <3>6. ASSUME NEW n \in 1..Len(F[c])
          PROVE  \E i \in FunctionsUpTo(c) : /\ F[c][n] = Dump[i].name
                                             /\ Cardinality(FunctionsUpTo(i)) = n
      <4>1. CASE n \in 1..Len(F[c - 1])
        <5>1. PICK i \in FunctionsUpTo(c - 1) : /\ F[c - 1][n] = Dump[i].name
                                                /\ Cardinality(FunctionsUpTo(i)) = n
          BY <2>1, <4>1
        <5>2. i \in FunctionsUpTo(c) /\ F[c][n] = Dump[i].name
          BY <3>1, <3>4, <4>1, <5>1
        <5> QED BY <5>1, <5>2
      <4>2. CASE n = Len(F[c - 1]) + 1
        <5>1. c \in FunctionsUpTo(c) /\ F[c][n] = Dump[c].name
          BY <3>1, <3>4, <4>2
        <5>2. Cardinality(FunctionsUpTo(c)) = n
          BY <3>4, <3>5, <4>2
        <5> QED BY <5>1, <5>2
      <4>3. n \in 1..Len(F[c - 1]) \/ n = Len(F[c - 1]) + 1
        BY <2>2, <3>4
      <4> QED BY <4>1, <4>2, <4>3
    <3> QED BY <2>1, <3>5, <3>6
  <2> QED BY <2>3, <2>4
<1> HIDE DEF T
<1>5. 0..N \subseteq T
  BY <1>0, <1>3, <1>4, UpToInduction
<1>6. k \in T
  BY <1>5
<1>7. CodeLoads(1..k) = F[k]
  BY <1>1, LoadsUpTo
<1> QED BY <1>6, <1>7 DEF T

-----------------------------------------------------------------------------
(* One tick of the tailer.                                                 *)

(* The last record that ends in the bytes there are.                       *)
LEMMA LastEnd ==
  ASSUME NEW len \in Int, NEW k \in 0..Len(Dump), EndOf[k] <= len
  PROVE  \E m \in 0..Len(Dump) : /\ k <= m
                                 /\ \A i \in 0..Len(Dump) : EndOf[i] <= len <=> i <= m
<1> DEFINE N == Len(Dump)
           T == {r \in Nat : \E i \in 0..N : r = N - i /\ EndOf[i] <= len}
<1>0. N \in Nat /\ \A i \in 0..N : EndOf[i] \in Nat
  BY DumpTyped, Ends
<1>1. N - k \in T
  BY <1>0
<1>2. PICK r \in T : \A q \in T : ~ (q < r)
  <2>1. T \subseteq Nat /\ T # {}
    BY <1>1
  <2> HIDE DEF T
  <2> QED BY <2>1, LeastNumber
<1>3. PICK m \in 0..N : r = N - m /\ EndOf[m] <= len
  BY <1>2
<1>4. k <= m
  <2>1. ~ (N - k < r)
    BY <1>1, <1>2
  <2> HIDE DEF T
  <2> QED BY <1>0, <1>3, <2>1
<1>5. ASSUME NEW i \in 0..N PROVE EndOf[i] <= len <=> i <= m
  <2>1. CASE i <= m
    <3>1. EndOf[i] <= EndOf[m]
      <4>1. i = m \/ i < m
        BY <2>1
      <4>2. EndOf[i] \in Nat /\ EndOf[m] \in Nat
        BY <1>0
      <4> QED BY <4>1, <4>2, EndsIncrease
    <3> QED BY <1>0, <1>3, <2>1, <3>1
  <2>2. CASE ~ (i <= m)
    <3>1. ~ (EndOf[i] <= len)
      <4> SUFFICES ASSUME EndOf[i] <= len PROVE FALSE
        OBVIOUS
      <4>1. N - i \in T
        BY <1>0
      <4>2. N - i < r
        BY <1>0, <1>3, <2>2
      <4> QED BY <1>2, <4>1, <4>2
    <3> QED BY <2>2, <3>1
  <2> QED BY <2>1, <2>2
<1> QED BY <1>4, <1>5

(* What lies between two places in the file.                               *)
LEMMA CompleteRecords ==
  ASSUME NEW len \in Int, NEW k \in 0..Len(Dump), NEW m \in 0..Len(Dump), k <= m,
         \A i \in 0..Len(Dump) : EndOf[i] <= len <=> i <= m
  PROVE  Complete(EndOf[k], len) = (k + 1)..m
<1> DEFINE N == Len(Dump)
<1>0. N \in Nat /\ DOMAIN Dump = 1..N /\ \A i \in 0..N : EndOf[i] \in Nat
  BY DumpTyped, Ends
<1>1. ASSUME NEW i \in 1..N
      PROVE  (EndOf[k] <= EndOf[i - 1] /\ EndOf[i] <= len) <=> i \in (k + 1)..m
  <2>1. i - 1 \in 0..N /\ i \in 0..N
    BY <1>0
  <2>2. EndOf[k] <= EndOf[i - 1] <=> k <= i - 1
    <3>1. EndOf[k] \in Nat /\ EndOf[i - 1] \in Nat
      BY <1>0, <2>1
    <3>2. k < i - 1 \/ k = i - 1 \/ i - 1 < k
      OBVIOUS
    <3> QED BY <2>1, <3>1, <3>2, EndsIncrease
  <2>3. EndOf[i] <= len <=> i <= m
    BY <2>1
  <2> QED BY <2>2, <2>3
<1>2. (k + 1)..m \subseteq 1..N
  BY <1>0
<1> QED BY <1>0, <1>1, <1>2 DEF Complete

(* The tailer has announced the functions up to where it stands: at the    *)
(* end of some record.                                                     *)
AtRecord(t, loads, k) == t.offset = EndOf[k] /\ loads = CodeLoads(1..k)

TailerOK(t, loads) ==
  /\ t \in [offset : Nat, header : BOOLEAN]
  /\ ~ t.header => loads = <<>> /\ (GoodMagic => t.offset = 0)
  /\ t.header => GoodMagic /\ \E k \in 0..Len(Dump) : AtRecord(t, loads, k)

(* tick keeps it there, whatever the length it finds.                      *)
LEMMA TickKeeps ==
  ASSUME NEW t, NEW loads, TailerOK(t, loads), NEW len \in Int
  PROVE  /\ TailerOK(TailerTick(t, len), loads \o NewLoads(t, len))
         /\ t.offset <= len => TailerTick(t, len).offset <= len
<1> DEFINE N == Len(Dump)
           u == TailerTick(t, len)
           whole == Complete(Start(t), len)
<1>0. /\ N \in Nat /\ \A i \in 0..N : EndOf[i] \in Nat
      /\ EndOf[0] = HeaderUnits /\ HeaderUnits \in Nat /\ GoodMagic \in BOOLEAN
      /\ \A i, j \in 0..N : i < j => EndOf[i] < EndOf[j]
  BY DumpTyped, Ends, DumpAssumption, EndsIncrease
<1>1. t \in [offset : Nat, header : BOOLEAN] /\ t.offset \in Nat /\ t.header \in BOOLEAN
  BY DEF TailerOK
<1>2. CASE ~ t.header /\ (len <= t.offset \/ len - t.offset < HeaderUnits \/ ~ GoodMagic)
  <2>1. /\ u \in [offset : Nat, header : BOOLEAN] /\ ~ u.header
        /\ GoodMagic => u.offset = t.offset
        /\ t.offset <= len => u.offset <= len
    <3>1. CASE len <= t.offset \/ len - t.offset < HeaderUnits
      <4>1. u = t
        BY <1>2, <3>1 DEF TailerTick
      <4> HIDE DEF u
      <4> QED BY <1>1, <1>2, <4>1
    <3>2. CASE ~ (len <= t.offset \/ len - t.offset < HeaderUnits)
      <4>1. u = [t EXCEPT !.offset = len]
        BY <1>2, <3>2 DEF TailerTick
      <4>2. len \in Nat
        BY <1>1, <3>2
      <4> HIDE DEF u
      <4> QED BY <1>1, <1>2, <3>2, <4>1, <4>2
    <3> QED BY <3>1, <3>2
  <2>2. NewLoads(t, len) = <<>>
    BY <2>1 DEF NewLoads
  <2>3. loads = <<>> /\ (GoodMagic => t.offset = 0)
    BY <1>2 DEF TailerOK
  <2>4. loads \o NewLoads(t, len) = <<>>
    <3>1. <<>> \o <<>> = <<>>
      BY ConcatEmptySeq
    <3> QED BY <2>2, <2>3, <3>1, Zenon
  <2> HIDE DEF u
  <2>5. TailerOK(u, loads \o NewLoads(t, len))
    <3> DEFINE after == loads \o NewLoads(t, len)
    <3>1. after = <<>>
      BY <2>4
    <3> HIDE DEF after
    <3>2. TailerOK(u, after)
      BY <2>1, <2>3, <3>1 DEF TailerOK
    <3> QED BY <3>2 DEF after
  <2> QED BY <2>1, <2>5 DEF u
(* The header is read, now or before: the records start at place k.        *)
<1>3. ASSUME NEW k \in 0..N, Start(t) = EndOf[k], loads = CodeLoads(1..k), GoodMagic,
             EndOf[k] <= len, ~ (len <= t.offset), t.header \/ ~ (len - t.offset < HeaderUnits)
      PROVE  /\ TailerOK(u, loads \o NewLoads(t, len))
             /\ u.offset <= len
  <2>1. PICK m \in 0..N : k <= m /\ \A i \in 0..N : EndOf[i] <= len <=> i <= m
    BY <1>3, LastEnd
  <2>2. whole = (k + 1)..m
    BY <1>3, <2>1, CompleteRecords
  <2>3. u = [offset |-> IF whole = {} THEN Start(t)
                        ELSE EndOf[CHOOSE i \in whole : \A j \in whole : j <= i],
             header |-> TRUE]
    BY <1>3 DEF TailerTick
  <2>4. (IF whole = {} THEN Start(t)
         ELSE EndOf[CHOOSE i \in whole : \A j \in whole : j <= i]) = EndOf[m]
    <3>1. CASE k = m
      <4>1. whole = {}
        BY <2>2, <3>1
      <4> HIDE DEF whole
      <4> QED BY <1>3, <3>1, <4>1
    <3>2. CASE k < m
      <4> DEFINE last == CHOOSE i \in whole : \A j \in whole : j <= i
      <4>1. m \in whole /\ \A j \in whole : j <= m
        BY <2>2, <3>2
      <4>2. last \in whole /\ \A j \in whole : j <= last
        <5> HIDE DEF whole
        <5> QED BY <4>1
      <4>3. last \in Int /\ last <= m /\ m <= last
        <5>1. whole \subseteq Int
          BY <2>2
        <5> HIDE DEF whole, last
        <5> QED BY <4>1, <4>2, <5>1
      <4>4. last = m
        <5> HIDE DEF whole, last
        <5> QED BY <4>3
      <4>5. whole # {}
        BY <4>1
      <4> HIDE DEF whole
      <4> QED BY <4>4, <4>5
    <3> QED BY <2>1, <3>1, <3>2
  <2>5. u = [offset |-> EndOf[m], header |-> TRUE]
    <3> HIDE DEF u, whole
    <3> QED BY <2>3, <2>4
  <2>6. NewLoads(t, len) = CodeLoads((k + 1)..m)
    <3>1. u.header
      <4> HIDE DEF u
      <4> QED BY <2>5
    <3> QED BY <2>2, <3>1 DEF NewLoads
  <2>7. loads \o NewLoads(t, len) = CodeLoads(1..m)
    <3>1. CodeLoads(1..k) \o CodeLoads((k + 1)..m) = CodeLoads(1..m)
      BY <2>1, LoadsSplit
    <3> QED BY <1>3, <2>6, <3>1, Zenon
  <2> HIDE DEF u
  <2>8. EndOf[m] \in Nat /\ EndOf[m] <= len
    BY <1>0, <2>1
  <2>9. TailerOK(u, CodeLoads(1..m))
    BY <1>3, <2>5, <2>8 DEF TailerOK, AtRecord
  <2>10. TailerOK(u, loads \o NewLoads(t, len))
    BY <2>7, <2>9, Zenon
  <2> QED BY <2>5, <2>8, <2>10
<1>4. CASE ~ t.header /\ ~ (len <= t.offset \/ len - t.offset < HeaderUnits \/ ~ GoodMagic)
  <2>1. loads = <<>> /\ t.offset = 0
    BY <1>4 DEF TailerOK
  <2>2. Start(t) = EndOf[0] /\ EndOf[0] <= len /\ 0 \in 0..N
    BY <1>0, <1>1, <1>4, <2>1 DEF Start
  <2>3. CodeLoads(1..0) = <<>>
    <3>1. 1..0 = {}
      OBVIOUS
    <3> QED BY <3>1, NothingLoaded
  <2> HIDE DEF u
  <2> QED BY <1>3, <1>4, <2>1, <2>2, <2>3 DEF u
<1>5. CASE t.header
  <2>1. PICK k \in 0..N : AtRecord(t, loads, k)
    BY <1>5 DEF TailerOK
  <2>2. Start(t) = EndOf[k] /\ t.offset = EndOf[k] /\ loads = CodeLoads(1..k) /\ GoodMagic
    BY <1>5, <2>1 DEF Start, AtRecord, TailerOK
  <2>3. CASE len <= t.offset
    <3>1. u = t
      BY <2>3 DEF TailerTick
    <3>2. whole = {}
      <4> SUFFICES ASSUME NEW i \in 1..N, EndOf[k] <= EndOf[i - 1], EndOf[i] <= len
                   PROVE  FALSE
        BY <2>2, DumpTyped DEF Complete
      <4>1. i - 1 \in 0..N /\ i \in 0..N /\ i - 1 < i
        BY <1>0
      <4>2. EndOf[i - 1] < EndOf[i] /\ EndOf[i - 1] \in Nat /\ EndOf[i] \in Nat /\ EndOf[k] \in Nat
        BY <1>0, <4>1
      <4> QED BY <2>2, <2>3, <4>2
    <3>3. NewLoads(t, len) = <<>>
      BY <1>5, <3>1, <3>2, NothingLoaded DEF NewLoads
    <3>4. loads \o NewLoads(t, len) = loads
      <4>1. CodeLoads(1..k) \in Seq(STRING)
        BY LoadsTyped
      <4>2. loads \o <<>> = loads
        BY <2>2, <4>1, ConcatEmptySeq
      <4> QED BY <3>3, <4>2, Zenon
    <3> HIDE DEF u
    <3>5. TailerOK(u, loads \o NewLoads(t, len))
      BY <3>1, <3>4, Zenon
    <3>6. t.offset <= len => u.offset <= len
      BY <3>1
    <3> QED BY <3>5, <3>6 DEF u
  <2>4. CASE ~ (len <= t.offset)
    <3>1. EndOf[k] <= len
      BY <1>1, <2>2, <2>4
    <3> HIDE DEF u
    <3> QED BY <1>3, <1>5, <2>2, <2>4, <3>1 DEF u
  <2> QED BY <2>3, <2>4
<1> QED BY <1>1, <1>2, <1>4, <1>5

-----------------------------------------------------------------------------
(* The jitdump's half of the pipeline.                                     *)

JitInv ==
  /\ dumpLen \in Int /\ dumpLen >= NoFile
  /\ jitEmitted \in BOOLEAN
  /\ ~ jitEmitted => tailer = NoTailer
  /\ tailer = NoTailer => jitLoads = <<>>
  /\ tailer # NoTailer => TailerOK(tailer, jitLoads) /\ (tailer.offset <= dumpLen)

LEMMA JitInit == Init => JitInv
<1> SUFFICES ASSUME Init PROVE JitInv
  OBVIOUS
<1>1. dumpLen = -1 /\ jitEmitted = FALSE /\ tailer = NoTailer /\ jitLoads = <<>>
  BY DEF Init, NoFile
<1>2. dumpLen \in Int /\ dumpLen >= NoFile
  BY <1>1 DEF NoFile
<1> QED BY <1>1, <1>2, Zenon DEF JitInv

(* The file that is opened is read from its start, with nothing announced. *)
LEMMA OpenedOK == TailerOK(TailerInit, <<>>)
BY DEF TailerOK, TailerInit

LEMMA TickKeepsJit ==
  ASSUME JitInv, TickJitdump
  PROVE  JitInv'
<1>1. PICK opened \in {tailer, TailerInit, NoTailer} :
        /\ Probe(opened)
        /\ tailer' = IF opened = NoTailer THEN opened ELSE TailerTick(opened, dumpLen)
        /\ jitLoads' = IF opened = NoTailer THEN jitLoads ELSE jitLoads \o NewLoads(opened, dumpLen)
  BY DEF TickJitdump
<1>2. dumpLen' = dumpLen /\ dumpLen \in Int /\ dumpLen >= NoFile
  BY DEF TickJitdump, JitInv
<1>3. jitEmitted' \in BOOLEAN /\ (opened # NoTailer => jitEmitted')
      /\ (jitEmitted => jitEmitted')
  <2>1. CASE opened = tailer /\ UNCHANGED jitEmitted
    BY <2>1 DEF JitInv
  <2>2. CASE jitEmitted' = TRUE
    BY <2>2
  <2> QED BY <1>1, <2>1, <2>2 DEF Probe
<1>4. CASE opened = NoTailer
  <2>1. tailer' = NoTailer /\ jitLoads' = jitLoads
    BY <1>1, <1>4
  <2>2. jitLoads = <<>>
    <3>1. CASE opened = tailer
      BY <1>4, <3>1 DEF JitInv
    <3>2. CASE ~ jitEmitted
      BY <3>2 DEF JitInv
    <3> QED BY <1>1, <3>1, <3>2 DEF Probe
  <2> QED BY <1>2, <1>3, <2>1, <2>2 DEF JitInv, NoFile
<1>5. CASE opened # NoTailer
  <2>1. tailer' = TailerTick(opened, dumpLen) /\ jitLoads' = jitLoads \o NewLoads(opened, dumpLen)
    BY <1>1, <1>5
  <2>2. TailerOK(opened, jitLoads) /\ opened.offset <= dumpLen
    <3>1. CASE opened = tailer
      BY <1>5, <3>1 DEF JitInv
    <3>2. CASE opened = TailerInit /\ ~ jitEmitted /\ dumpLen # NoFile
      <4>1. jitLoads = <<>>
        BY <3>2 DEF JitInv
      <4>2. dumpLen >= 0
        BY <1>2, <3>2 DEF NoFile
      <4>3. opened.offset = 0
        BY <3>2 DEF TailerInit
      <4>4. TailerOK(opened, jitLoads)
        BY <3>2, <4>1, OpenedOK, Zenon
      <4> QED BY <1>2, <4>2, <4>3, <4>4
    <3> QED BY <1>1, <1>5, <3>1, <3>2 DEF Probe
  <2>3. /\ TailerOK(TailerTick(opened, dumpLen), jitLoads \o NewLoads(opened, dumpLen))
        /\ TailerTick(opened, dumpLen).offset <= dumpLen
    BY <1>2, <2>2, TickKeeps
  <2>4. TailerOK(tailer', jitLoads') /\ tailer'.offset <= dumpLen'
    BY <1>2, <2>1, <2>3, Zenon
  <2>5. tailer' # NoTailer
    <3>1. tailer'.offset \in Nat
      BY <2>4 DEF TailerOK
    <3> QED BY <3>1 DEF NoTailer
  <2> QED BY <1>2, <1>3, <1>5, <2>4, <2>5 DEF JitInv, NoFile, TailerOK, AtRecord
<1> QED BY <1>4, <1>5

LEMMA JitNext == JitInv /\ [Next]_vars => JitInv'
<1> SUFFICES ASSUME JitInv, [Next]_vars PROVE JitInv'
  OBVIOUS
<1>1. CASE UNCHANGED jitVars
  BY <1>1 DEF JitInv, jitVars, NoFile, NoTailer, TailerOK, AtRecord
<1>2. CASE TickJitdump
  BY <1>2, TickKeepsJit
<1>3. CASE AppendDump
  <2>1. dumpLen' = dumpLen + 1 /\ UNCHANGED <<jitEmitted, tailer, jitLoads>>
    BY <1>3 DEF AppendDump
  <2>2. dumpLen' \in Int /\ dumpLen' >= NoFile
    BY <2>1 DEF JitInv, NoFile
  <2>3. tailer # NoTailer => tailer.offset <= dumpLen'
    <3> SUFFICES ASSUME tailer # NoTailer PROVE tailer.offset <= dumpLen'
      OBVIOUS
    <3>1. tailer.offset \in Nat /\ tailer.offset <= dumpLen /\ dumpLen \in Int
      BY DEF JitInv, TailerOK
    <3> QED BY <2>1, <3>1
  <2> QED BY <2>1, <2>2, <2>3 DEF JitInv, NoFile, NoTailer, TailerOK, AtRecord
<1>4. ~ UNCHANGED jitVars => TickJitdump \/ AppendDump
  BY DEF Next, ProcessRecord, LoseRecord, RescanDue, WalkRegions, RescanNotDue,
         Finish, Process, vars, jitVars
<1> QED BY <1>1, <1>2, <1>3, <1>4

LEMMA JitSafe == JitInv => LoadsFollowTheDump
<1> SUFFICES ASSUME JitInv PROVE LoadsFollowTheDump
  OBVIOUS
<1> DEFINE N == Len(Dump)
           loads == {i \in DOMAIN Dump : GoodMagic /\ Dump[i].load /\ EndOf[i] <= tailer.offset}
<1>0. /\ N \in Nat /\ \A i \in 0..N : EndOf[i] \in Nat
      /\ \A i, j \in 0..N : i < j => EndOf[i] < EndOf[j]
      /\ DOMAIN Dump = 1..N
  BY DumpTyped, Ends, EndsIncrease
<1>1. CASE jitLoads = <<>> /\ (GoodMagic => tailer.offset \in Int /\ tailer.offset <= 0)
  <2>1. loads = {}
    <3> SUFFICES ASSUME NEW i \in 1..N, GoodMagic, EndOf[i] <= tailer.offset PROVE FALSE
      BY <1>0
    <3>1. EndOf[0] < EndOf[i] /\ EndOf[0] \in Nat /\ EndOf[i] \in Nat
      BY <1>0
    <3> QED BY <1>1, <3>1
  <2> HIDE DEF loads
  <2>2. Len(jitLoads) = Cardinality(loads) /\ DOMAIN jitLoads = {}
    BY <1>1, <2>1, FS_EmptySet
  <2>3. tailer.offset <= dumpLen \/ tailer.offset <= 0
    <3>1. CASE tailer = NoTailer
      BY <3>1 DEF NoTailer
    <3> QED BY <3>1 DEF JitInv
  <2> QED BY <2>2, <2>3 DEF LoadsFollowTheDump, loads
<1>2. CASE tailer # NoTailer /\ tailer.header
  <2>1. PICK k \in 0..N : AtRecord(tailer, jitLoads, k)
    BY <1>2 DEF JitInv, TailerOK
  <2>2. tailer.offset = EndOf[k] /\ jitLoads = CodeLoads(1..k) /\ GoodMagic
        /\ tailer.offset <= dumpLen
    BY <1>2, <2>1 DEF AtRecord, JitInv, TailerOK
  <2>3. ASSUME NEW c \in 0..N PROVE \A i \in 1..N : EndOf[i] <= EndOf[c] <=> i <= c
    <3> SUFFICES ASSUME NEW i \in 1..N PROVE EndOf[i] <= EndOf[c] <=> i <= c
      OBVIOUS
    <3>1. i \in 0..N /\ EndOf[i] \in Nat /\ EndOf[c] \in Nat
      BY <1>0
    <3>2. i < c \/ i = c \/ c < i
      OBVIOUS
    <3> QED BY <1>0, <3>1, <3>2
  <2>4. loads = FunctionsUpTo(k)
    BY <1>0, <2>2, <2>3 DEF FunctionsUpTo
  <2>5. \A i \in FunctionsUpTo(k) : {j \in loads : j <= i} = FunctionsUpTo(i)
    <3> HIDE DEF loads
    <3> QED BY <1>0, <2>4 DEF FunctionsUpTo
  <2>6. Len(jitLoads) = Cardinality(loads)
    BY <2>2, <2>4, LoadsInOrder
  <2>7. DOMAIN jitLoads = 1..Len(jitLoads)
    <3>1. CodeLoads(1..k) \in Seq(STRING)
      BY LoadsTyped
    <3>2. jitLoads \in Seq(STRING)
      BY <2>2, <3>1, Zenon
    <3> QED BY <3>2, LenProperties
  <2>8. \A n \in DOMAIN jitLoads :
          \E i \in loads : /\ jitLoads[n] = Dump[i].name
                           /\ Cardinality({j \in loads : j <= i}) = n
    <3> HIDE DEF loads
    <3> SUFFICES ASSUME NEW n \in 1..Len(jitLoads)
                 PROVE  \E i \in loads : /\ jitLoads[n] = Dump[i].name
                                         /\ Cardinality({j \in loads : j <= i}) = n
      BY <2>7
    <3>1. PICK i \in FunctionsUpTo(k) : /\ CodeLoads(1..k)[n] = Dump[i].name
                                        /\ Cardinality(FunctionsUpTo(i)) = n
      BY <2>2, LoadsInOrder
    <3>2. {j \in loads : j <= i} = FunctionsUpTo(i)
      BY <2>5
    <3> QED BY <2>2, <2>4, <3>1, <3>2
  <2> HIDE DEF loads
  <2> QED BY <2>2, <2>6, <2>8 DEF LoadsFollowTheDump, loads
<1>3. (tailer # NoTailer /\ tailer.header)
      \/ (jitLoads = <<>> /\ (GoodMagic => tailer.offset \in Int /\ tailer.offset <= 0))
  <2>1. CASE tailer = NoTailer
    <3>1. tailer.offset = -1
      BY <2>1 DEF NoTailer
    <3> QED BY <2>1, <3>1 DEF JitInv
  <2>2. CASE tailer # NoTailer /\ ~ tailer.header
    BY <2>2 DEF JitInv, TailerOK
  <2> QED BY <2>1, <2>2
<1> QED BY <1>1, <1>2, <1>3

(* Every function of the jitdump up to where the tailer stands is          *)
(* announced exactly once and in the file's order, for every dump and      *)
(* every way its writes fall between the ticks (JitdumpTailer::tick).      *)
THEOREM EveryFunctionOnce == Spec => []LoadsFollowTheDump
<1>1. JitInv /\ [Next]_vars => JitInv'
  BY JitNext
<1>2. Init => JitInv
  BY JitInit
<1>3. JitInv => LoadsFollowTheDump
  BY JitSafe
<1> QED BY <1>1, <1>2, <1>3, PTL DEF Spec

-----------------------------------------------------------------------------
(* The records of the kdebug stream that one walk makes.                   *)

\* How many chunks n frames take.
NumChunks(n) == (n + ChunkWidth - 1) \div ChunkWidth

LEMMA DivBounds ==
  ASSUME NEW n \in Nat, NEW d \in Nat \ {0}
  PROVE  n \div d \in Nat /\ d * (n \div d) <= n /\ n < d * (n \div d) + d
OBVIOUS

LEMMA ChunkCount ==
  ASSUME NEW n \in Nat
  PROVE  /\ NumChunks(n) \in Nat
         /\ n <= ChunkWidth * NumChunks(n)
         /\ \A c \in 1..NumChunks(n) : ChunkWidth * (c - 1) < n
         /\ n > 0 => NumChunks(n) > 0
<1> DEFINE W == ChunkWidth
           a == n + W - 1
           q == a \div W
<1>1. W \in Nat \ {0} /\ a \in Nat
  BY ParserAssumption
<1>2. q \in Nat /\ W * q <= a /\ a < W * q + W
  <2> HIDE DEF W, a
  <2> QED BY <1>1, DivBounds
<1>3. NumChunks(n) = q
  BY DEF NumChunks
<1> HIDE DEF W, q
<1>4. n <= W * q
  <2> DEFINE p == W * q
  <2>1. p \in Nat
    BY <1>1, <1>2
  <2>2. n + W - 1 < p + W
    BY <1>2
  <2> HIDE DEF p
  <2>3. n <= p
    BY <1>1, <2>1, <2>2
  <2> QED BY <2>3 DEF p
<1>5. ASSUME NEW c \in 1..q PROVE W * (c - 1) < n
  <2>1. W * (c - 1) <= W * (q - 1)
    BY <1>1, <1>2
  <2>2. W * (q - 1) = W * q - W
    BY <1>1, <1>2
  <2> DEFINE p == W * q
             r == W * (c - 1)
  <2>3. p \in Nat /\ r \in Nat /\ r <= p - W /\ p <= n + W - 1
    BY <1>1, <1>2, <2>1, <2>2
  <2> HIDE DEF p, r
  <2>4. r < n
    BY <1>1, <2>3
  <2> QED BY <2>4 DEF r
<1>6. n > 0 => q > 0
  <2> SUFFICES ASSUME n > 0, q = 0 PROVE FALSE
    BY <1>2
  <2>1. W * q = 0
    BY <1>1
  <2> QED BY <1>4, <2>1
<1> QED BY <1>2, <1>3, <1>4, <1>5, <1>6 DEF W

(* The records of one walk, by their places.                               *)
StartRecord(w) == [kind |-> "start", tid |-> w.tid]
CountersRecord(w) == [kind |-> "kpc", frames |-> w.pmc]
UserHeaderRecord(w) == [kind |-> "uhdr", main |-> w.main, async |-> Len(w.user) - w.main]
KernelHeaderRecord(w) == [kind |-> "khdr", main |-> Len(w.kernel), async |-> 0]
EndRecord == [kind |-> "end"]

\* Chunk c of some frames.
ChunkRecord(frames, kind, c) ==
  [kind |-> kind,
   frames |-> [i \in 1..ChunkWidth |->
                 LET at == (c - 1) * ChunkWidth + i
                 IN IF at <= Len(frames) THEN frames[at] ELSE 0]]

StackRecords(frames, header, kind) ==
  IF frames = <<>> THEN <<>> ELSE <<header>> \o Chunks(frames, kind)

\* How many records a stack takes.
StackLen(frames) == IF frames = <<>> THEN 0 ELSE 1 + NumChunks(Len(frames))

LEMMA StackAt ==
  ASSUME NEW frames, Len(frames) \in Nat, NEW header, NEW kind, NEW R,
         header \in R, \A c \in 1..NumChunks(Len(frames)) : ChunkRecord(frames, kind, c) \in R
  PROVE  /\ StackRecords(frames, header, kind) \in Seq(R)
         /\ Len(StackRecords(frames, header, kind)) = StackLen(frames)
         /\ StackLen(frames) \in Nat
         /\ frames # <<>> =>
              /\ StackRecords(frames, header, kind)[1] = header
              /\ \A c \in 1..NumChunks(Len(frames)) :
                   StackRecords(frames, header, kind)[c + 1] = ChunkRecord(frames, kind, c)
<1> DEFINE n == NumChunks(Len(frames))
           chunks == Chunks(frames, kind)
<1>1. Len(frames) \in Nat /\ n \in Nat
  BY ChunkCount
<1>2. chunks = [c \in 1..n |-> ChunkRecord(frames, kind, c)]
  BY DEF Chunks, NumChunks, ChunkRecord
<1> HIDE DEF n, chunks
<1>3. chunks \in [1..n -> R]
  BY <1>2 DEF n
<1>4. chunks \in Seq(R) /\ Len(chunks) = n
  <2>1. chunks \in Seq(R)
    BY <1>1, <1>3, IsASeq
  <2> QED BY <1>1, <1>3, <2>1, LenProperties
<1>5. CASE frames = <<>>
  <2> DEFINE s == StackRecords(frames, header, kind)
  <2>1. s = <<>> /\ StackLen(frames) = 0
    BY <1>5 DEF StackRecords, StackLen
  <2> HIDE DEF s
  <2>2. s \in Seq(R) /\ Len(s) = 0
    BY <2>1
  <2> QED BY <1>5, <2>1, <2>2 DEF s
<1>6. CASE frames # <<>>
  <2> DEFINE s == <<header>> \o chunks
  <2>1. StackRecords(frames, header, kind) = s /\ StackLen(frames) = 1 + n
    BY <1>6 DEF StackRecords, StackLen, n, chunks
  <2>2. <<header>> \in Seq(R) /\ Len(<<header>>) = 1 /\ <<header>>[1] = header
    OBVIOUS
  <2>3. /\ s \in Seq(R) /\ Len(s) = 1 + n
        /\ \A i \in 1..(1 + n) : s[i] = IF i <= 1 THEN <<header>>[i] ELSE chunks[i - 1]
    BY <1>4, <2>2, ConcatProperties
  <2> HIDE DEF s
  <2>4. s[1] = header
    BY <1>1, <2>2, <2>3
  <2>5. ASSUME NEW c \in 1..n PROVE s[c + 1] = ChunkRecord(frames, kind, c)
    <3>1. c + 1 \in 1..(1 + n) /\ ~ (c + 1 <= 1) /\ (c + 1) - 1 = c
      BY <1>1
    <3>2. s[c + 1] = chunks[c]
      BY <2>3, <3>1
    <3> QED BY <1>2, <3>2
  <2> QED BY <1>1, <2>1, <2>3, <2>4, <2>5 DEF n
<1> QED BY <1>5, <1>6

UserLen(w) == StackLen(w.user)
KernelLen(w) == StackLen(w.kernel)

\* What each record of a walk is.
IsRecordOf(w, r, i) ==
  \/ i = 1 /\ r = StartRecord(w)
  \/ i = 2 /\ r = CountersRecord(w)
  \/ w.user # <<>> /\ i = 3 /\ r = UserHeaderRecord(w)
  \/ \E c \in 1..NumChunks(Len(w.user)) :
       w.user # <<>> /\ i = 3 + c /\ r = ChunkRecord(w.user, "udata", c)
  \/ w.kernel # <<>> /\ i = 3 + UserLen(w) /\ r = KernelHeaderRecord(w)
  \/ \E c \in 1..NumChunks(Len(w.kernel)) :
       w.kernel # <<>> /\ i = 3 + UserLen(w) + c /\ r = ChunkRecord(w.kernel, "kdata", c)
  \/ i = 3 + UserLen(w) + KernelLen(w) /\ r = EndRecord

LEMMA RecordsOfWalk ==
  ASSUME NEW w \in Walk
  PROVE  /\ UserLen(w) \in Nat /\ KernelLen(w) \in Nat
         /\ Len(WalkRecords(w)) = 3 + UserLen(w) + KernelLen(w)
         /\ \A i \in 1..(3 + UserLen(w) + KernelLen(w)) : IsRecordOf(w, WalkRecords(w)[i], i)
<1> DEFINE US == StackRecords(w.user, UserHeaderRecord(w), "udata")
           KS == StackRecords(w.kernel, KernelHeaderRecord(w), "kdata")
           R == {StartRecord(w), CountersRecord(w), EndRecord, UserHeaderRecord(w), KernelHeaderRecord(w)}
                 \cup {ChunkRecord(w.user, "udata", c) : c \in 1..NumChunks(Len(w.user))}
                 \cup {ChunkRecord(w.kernel, "kdata", c) : c \in 1..NumChunks(Len(w.kernel))}
           s1 == <<StartRecord(w)>>
           s2 == <<CountersRecord(w)>>
           s5 == <<EndRecord>>
<1>1. WalkRecords(w) = s1 \o s2 \o US \o KS \o s5
  BY DEF WalkRecords, StackRecords, StartRecord, CountersRecord, UserHeaderRecord,
         KernelHeaderRecord, EndRecord
<1>2. Len(w.user) \in Nat /\ Len(w.kernel) \in Nat
  <2>1. w.user \in Seq(Frames) /\ w.kernel \in Seq(KernelAddresses)
    BY DEF Walk
  <2> HIDE DEF Walk
  <2> QED BY <2>1, LenProperties
<1>3. /\ UserHeaderRecord(w) \in R /\ KernelHeaderRecord(w) \in R
      /\ \A c \in 1..NumChunks(Len(w.user)) : ChunkRecord(w.user, "udata", c) \in R
      /\ \A c \in 1..NumChunks(Len(w.kernel)) : ChunkRecord(w.kernel, "kdata", c) \in R
      /\ StartRecord(w) \in R /\ CountersRecord(w) \in R /\ EndRecord \in R
  OBVIOUS
<1>4. /\ US \in Seq(R) /\ Len(US) = UserLen(w) /\ UserLen(w) \in Nat
      /\ w.user # <<>> =>
           /\ US[1] = UserHeaderRecord(w)
           /\ \A c \in 1..NumChunks(Len(w.user)) : US[c + 1] = ChunkRecord(w.user, "udata", c)
  <2> HIDE DEF R
  <2> QED BY <1>2, <1>3, StackAt DEF UserLen
<1>5. /\ KS \in Seq(R) /\ Len(KS) = KernelLen(w) /\ KernelLen(w) \in Nat
      /\ w.kernel # <<>> =>
           /\ KS[1] = KernelHeaderRecord(w)
           /\ \A c \in 1..NumChunks(Len(w.kernel)) : KS[c + 1] = ChunkRecord(w.kernel, "kdata", c)
  <2> HIDE DEF R
  <2> QED BY <1>2, <1>3, StackAt DEF KernelLen
<1>6. /\ s1 \in Seq(R) /\ Len(s1) = 1 /\ s1[1] = StartRecord(w)
      /\ s2 \in Seq(R) /\ Len(s2) = 1 /\ s2[1] = CountersRecord(w)
      /\ s5 \in Seq(R) /\ Len(s5) = 1 /\ s5[1] = EndRecord
  <2> HIDE DEF R
  <2> QED BY <1>3
<1> HIDE DEF US, KS, R, s1, s2, s5
<1> DEFINE a == s1 \o s2
           b == a \o US
           c1 == b \o KS
           d == c1 \o s5
<1>7. /\ a \in Seq(R) /\ Len(a) = 2 /\ a[1] = StartRecord(w) /\ a[2] = CountersRecord(w)
  <2>1. /\ a \in Seq(R) /\ Len(a) = 1 + 1
        /\ \A i \in 1..(1 + 1) : a[i] = IF i <= 1 THEN s1[i] ELSE s2[i - 1]
    BY <1>6, ConcatProperties
  <2> HIDE DEF a
  <2>2. 1 \in 1..(1 + 1) /\ 2 \in 1..(1 + 1) /\ ~ (2 <= 1) /\ 2 - 1 = 1 /\ 1 + 1 = 2
    OBVIOUS
  <2>3. a[1] = s1[1] /\ a[2] = s2[2 - 1]
    BY <2>1, <2>2
  <2> QED BY <1>6, <2>1, <2>2, <2>3
<1> HIDE DEF a
<1>8. /\ b \in Seq(R) /\ Len(b) = 2 + UserLen(w)
      /\ \A i \in 1..(2 + UserLen(w)) : b[i] = IF i <= 2 THEN a[i] ELSE US[i - 2]
  <2>1. /\ b \in Seq(R) /\ Len(b) = Len(a) + Len(US)
        /\ \A i \in 1..(Len(a) + Len(US)) : b[i] = IF i <= Len(a) THEN a[i] ELSE US[i - Len(a)]
    BY <1>4, <1>7, ConcatProperties
  <2> QED BY <1>4, <1>7, <2>1
<1> HIDE DEF b
<1>9. /\ c1 \in Seq(R) /\ Len(c1) = 2 + UserLen(w) + KernelLen(w)
      /\ \A i \in 1..(2 + UserLen(w) + KernelLen(w)) :
           c1[i] = IF i <= 2 + UserLen(w) THEN b[i] ELSE KS[i - (2 + UserLen(w))]
  <2>1. /\ c1 \in Seq(R) /\ Len(c1) = Len(b) + Len(KS)
        /\ \A i \in 1..(Len(b) + Len(KS)) : c1[i] = IF i <= Len(b) THEN b[i] ELSE KS[i - Len(b)]
    BY <1>5, <1>8, ConcatProperties
  <2> HIDE DEF c1
  <2> QED BY <1>5, <1>8, <2>1
<1> HIDE DEF c1
<1>10. /\ d \in Seq(R) /\ Len(d) = 2 + UserLen(w) + KernelLen(w) + 1
       /\ \A i \in 1..(2 + UserLen(w) + KernelLen(w) + 1) :
            d[i] = IF i <= 2 + UserLen(w) + KernelLen(w) THEN c1[i]
                   ELSE s5[i - (2 + UserLen(w) + KernelLen(w))]
  <2>1. /\ d \in Seq(R) /\ Len(d) = Len(c1) + Len(s5)
        /\ \A i \in 1..(Len(c1) + Len(s5)) :
             d[i] = IF i <= Len(c1) THEN c1[i] ELSE s5[i - Len(c1)]
    BY <1>6, <1>9, ConcatProperties
  <2> HIDE DEF d
  <2> QED BY <1>6, <1>9, <2>1
<1>11. WalkRecords(w) = d
  BY <1>1 DEF a, b, c1
<1> HIDE DEF d
<1>12. ASSUME NEW i \in 1..(3 + UserLen(w) + KernelLen(w)) PROVE IsRecordOf(w, d[i], i)
  <2>1. i \in 1..(2 + UserLen(w) + KernelLen(w) + 1)
    BY <1>4, <1>5
  <2>2. CASE i <= 2
    <3>1. d[i] = a[i]
      BY <1>4, <1>5, <1>8, <1>9, <1>10, <2>2
    <3>2. i = 1 \/ i = 2
      BY <2>2
    <3> QED BY <1>7, <3>1, <3>2 DEF IsRecordOf
  <2>3. CASE 2 < i /\ i <= 2 + UserLen(w)
    <3>1. d[i] = US[i - 2] /\ i - 2 \in 1..UserLen(w)
      BY <1>4, <1>5, <1>8, <1>9, <1>10, <2>3
    <3>2. w.user # <<>> /\ UserLen(w) = 1 + NumChunks(Len(w.user))
      BY <2>3 DEF UserLen, StackLen
    <3>3. NumChunks(Len(w.user)) \in Nat
      BY <1>2, ChunkCount
    <3>4. CASE i = 3
      BY <1>4, <3>1, <3>2, <3>4 DEF IsRecordOf
    <3>5. CASE i # 3
      <4> DEFINE c == i - 3
      <4>1. c \in 1..NumChunks(Len(w.user)) /\ i - 2 = c + 1 /\ i = 3 + c
        BY <3>1, <3>2, <3>3, <3>5
      <4>2. d[i] = ChunkRecord(w.user, "udata", c)
        BY <1>4, <3>1, <3>2, <4>1
      <4> HIDE DEF c
      <4> QED BY <3>2, <4>1, <4>2 DEF IsRecordOf
    <3> QED BY <3>4, <3>5
  <2>4. CASE 2 + UserLen(w) < i /\ i <= 2 + UserLen(w) + KernelLen(w)
    <3> DEFINE j == i - (2 + UserLen(w))
    <3>1. d[i] = KS[j] /\ j \in 1..KernelLen(w) /\ i = 2 + UserLen(w) + j
      BY <1>4, <1>5, <1>9, <1>10, <2>4
    <3> HIDE DEF j
    <3>2. w.kernel # <<>> /\ KernelLen(w) = 1 + NumChunks(Len(w.kernel))
      BY <1>4, <3>1 DEF KernelLen, StackLen
    <3>3. NumChunks(Len(w.kernel)) \in Nat
      BY <1>2, ChunkCount
    <3>4. CASE j = 1
      <4>1. i = 3 + UserLen(w)
        BY <1>4, <3>1, <3>4
      <4> QED BY <1>5, <3>1, <3>2, <3>4, <4>1 DEF IsRecordOf
    <3>5. CASE j # 1
      <4> DEFINE c == j - 1
      <4>1. c \in 1..NumChunks(Len(w.kernel)) /\ j = c + 1 /\ i = 3 + UserLen(w) + c
        BY <1>4, <3>1, <3>2, <3>3, <3>5
      <4>2. d[i] = ChunkRecord(w.kernel, "kdata", c)
        BY <1>5, <3>1, <3>2, <4>1
      <4> HIDE DEF c
      <4> QED BY <3>2, <4>1, <4>2 DEF IsRecordOf
    <3> QED BY <3>4, <3>5
  <2>5. CASE ~ (i <= 2 + UserLen(w) + KernelLen(w))
    <3>1. i = 3 + UserLen(w) + KernelLen(w) /\ i - (2 + UserLen(w) + KernelLen(w)) = 1
      BY <1>4, <1>5, <2>5
    <3>2. d[i] = EndRecord
      BY <1>6, <1>10, <2>1, <2>5, <3>1
    <3> QED BY <3>1, <3>2 DEF IsRecordOf
  <2> QED BY <1>4, <1>5, <2>2, <2>3, <2>4, <2>5
<1>13. Len(d) = 3 + UserLen(w) + KernelLen(w)
  BY <1>4, <1>5, <1>10
<1> QED BY <1>4, <1>5, <1>11, <1>12, <1>13

-----------------------------------------------------------------------------
(* What the parser holds, whatever was lost.                               *)

KernelFrames == KernelAddresses \cup {Null}

ParserStates ==
  [tid : Nat, user : Seq(Nat), kernel : Seq(KernelFrames), pmc : Seq(Nat),
   userMain : Nat, userLeft : Nat, kernelLeft : Nat]

LEMMA InitialParser == ParserInit \in ParserStates
<1>1. <<>> \in Seq(Nat) /\ <<>> \in Seq(KernelFrames)
  OBVIOUS
<1> QED BY <1>1 DEF ParserInit, ParserStates, NoThread

\* What a chunk adds.
Taken(left) == IF left < ChunkWidth THEN left ELSE ChunkWidth

ChunkIs(S, frames, kind, c, left) ==
  /\ Chunk(ChunkRecord(frames, kind, c), left) \in Seq(S \cup {Null})
  /\ Len(Chunk(ChunkRecord(frames, kind, c), left)) = Taken(left)
  /\ \A i \in 1..Taken(left) :
       Chunk(ChunkRecord(frames, kind, c), left)[i] =
         IF ChunkWidth * (c - 1) + i <= Len(frames)
         THEN frames[ChunkWidth * (c - 1) + i] ELSE 0
  /\ Taken(left) \in Nat /\ Left(left) \in Nat /\ Left(left) = left - Taken(left)

LEMMA ChunkFrames ==
  \A S : \A frames \in Seq(S) : \A kind : \A c \in Nat \ {0} : \A left \in Nat :
    ChunkIs(S, frames, kind, c, left)
<1> SUFFICES ASSUME NEW S, NEW frames \in Seq(S), NEW kind, NEW c \in Nat \ {0}, NEW left \in Nat
             PROVE  ChunkIs(S, frames, kind, c, left)
  OBVIOUS
<1> DEFINE W == ChunkWidth
           T == S \cup {Null}
           base == (c - 1) * W
           f == ChunkRecord(frames, kind, c).frames
           n == Taken(left)
<1>1. W \in Nat \ {0} /\ base \in Nat /\ base = W * (c - 1)
  BY ParserAssumption
<1>2. f = [i \in 1..W |-> LET at == base + i IN IF at <= Len(frames) THEN frames[at] ELSE 0]
  BY DEF ChunkRecord
<1>3. n \in Nat /\ n <= W /\ Left(left) \in Nat /\ Left(left) = left - n
  BY <1>1 DEF Taken, Left
<1>4. Chunk(ChunkRecord(frames, kind, c), left) = SubSeq(f, 1, n)
  BY DEF Chunk, Taken
<1>5. Len(frames) \in Nat /\ \A i \in 1..Len(frames) : frames[i] \in S
  BY LenProperties, ElementOfSeq
<1> HIDE DEF W, base, f, n
<1>6. \A i \in 1..W : f[i] = IF base + i <= Len(frames) THEN frames[base + i] ELSE 0
  BY <1>2
<1>7. \A i \in 1..W : f[i] \in T
  <2> SUFFICES ASSUME NEW i \in 1..W PROVE f[i] \in T
    OBVIOUS
  <2>1. CASE base + i <= Len(frames)
    <3>1. base + i \in 1..Len(frames)
      BY <1>1, <1>5, <2>1
    <3> QED BY <1>5, <1>6, <2>1, <3>1
  <2>2. CASE ~ (base + i <= Len(frames))
    BY <1>6, <2>2 DEF Null
  <2> QED BY <2>1, <2>2
<1>8. f \in Seq(T) /\ Len(f) = W
  <2>1. DOMAIN f = 1..W /\ f = [i \in 1..W |-> f[i]]
    BY <1>2
  <2>2. f \in [1..W -> T]
    <3> HIDE DEF T
    <3> QED BY <1>7, <2>1
  <2> HIDE DEF T
  <2>3. f \in Seq(T)
    BY <1>1, <2>2, IsASeq
  <2> QED BY <1>1, <2>1, <2>3, LenProperties
<1> HIDE DEF T
<1> DEFINE g == SubSeq(f, 1, n)
<1>9. g \in Seq(T) /\ Len(g) = n /\ \A i \in 1..n : g[i] = f[i]
  <2>1. CASE n = 0
    <3>1. g = <<>>
      BY <2>1, SubSeqEmpty
    <3> HIDE DEF g
    <3> QED BY <2>1, <3>1
  <2>2. CASE n # 0
    <3>1. \A i \in 1..n : f[i] \in T
      BY <1>1, <1>3, <1>7
    <3>2. /\ g \in Seq(T)
          /\ Len(g) = IF 1 <= n THEN n - 1 + 1 ELSE 0
          /\ \A i \in 1..(n - 1 + 1) : g[i] = f[1 + i - 1]
      BY <1>3, <1>8, <3>1, SubSeqProperties
    <3> HIDE DEF g
    <3>3. \A i \in 1..n : 1 + i - 1 = i
      BY <1>3
    <3> QED BY <1>3, <2>2, <3>2, <3>3
  <2> QED BY <2>1, <2>2
<1> HIDE DEF g
<1>10. \A i \in 1..n : g[i] = IF base + i <= Len(frames) THEN frames[base + i] ELSE 0
  <2> SUFFICES ASSUME NEW i \in 1..n
               PROVE  g[i] = IF base + i <= Len(frames) THEN frames[base + i] ELSE 0
    OBVIOUS
  <2>1. i \in 1..W
    BY <1>1, <1>3
  <2> QED BY <1>6, <1>9, <2>1
<1> QED BY <1>1, <1>3, <1>4, <1>9, <1>10 DEF ChunkIs, n, g, base, W, T

LEMMA WalkTyped ==
  ASSUME NEW w \in Walk
  PROVE  /\ w.tid \in Nat /\ w.tid # NoThread /\ w.main \in Nat
         /\ w.user \in Seq(Nat) /\ Len(w.user) \in Nat
         /\ w.kernel \in Seq(KernelAddresses) /\ Len(w.kernel) \in Nat
         /\ w.pmc \in Seq(Nat)
<1>1. /\ w.tid \in Nat /\ w.tid # NoThread /\ w.main \in Nat
      /\ w.user \in Seq(Frames) /\ w.kernel \in Seq(KernelAddresses) /\ w.pmc \in Seq(Nat)
  BY DEF Walk
<1>2. \A s \in Seq(Frames) : s \in Seq(Nat)
  <2>1. Frames \subseteq Nat
    BY DEF Frames
  <2> SUFFICES ASSUME NEW s \in Seq(Frames) PROVE s \in Seq(Nat)
    OBVIOUS
  <2>2. Len(s) \in Nat /\ s \in [1..Len(s) -> Frames]
    BY LenProperties
  <2>3. s \in [1..Len(s) -> Nat]
    BY <2>1, <2>2
  <2> QED BY <2>2, <2>3, IsASeq
<1> QED BY <1>1, <1>2, LenProperties

(* What feed does with each kind of record, field by field.                *)
ParserState(tid, user, kernel, pmc, userMain, userLeft, kernelLeft) ==
  [tid |-> tid, user |-> user, kernel |-> kernel, pmc |-> pmc,
   userMain |-> userMain, userLeft |-> userLeft, kernelLeft |-> kernelLeft]

FeedCases(p, r) ==
  /\ r.kind = "start" => Feed(p, r) = ParserState(r.tid, <<>>, <<>>, <<>>, 0, 0, 0)
  /\ r.kind # "start" /\ p.tid = NoThread => Feed(p, r) = p
  /\ r.kind = "end" /\ p.tid # NoThread =>
       Feed(p, r) = ParserState(NoThread, p.user, p.kernel, p.pmc,
                                p.userMain, p.userLeft, p.kernelLeft)
  /\ r.kind = "uhdr" /\ p.tid # NoThread =>
       Feed(p, r) = ParserState(p.tid, p.user, p.kernel, p.pmc,
                                r.main, r.main + r.async, p.kernelLeft)
  /\ r.kind = "udata" /\ p.tid # NoThread =>
       Feed(p, r) = ParserState(p.tid, p.user \o Chunk(r, p.userLeft), p.kernel, p.pmc,
                                p.userMain, Left(p.userLeft), p.kernelLeft)
  /\ r.kind = "khdr" /\ p.tid # NoThread =>
       Feed(p, r) = ParserState(p.tid, p.user, p.kernel, p.pmc,
                                p.userMain, p.userLeft, r.main + r.async)
  /\ r.kind = "kdata" /\ p.tid # NoThread =>
       Feed(p, r) = ParserState(p.tid, p.user, p.kernel \o Chunk(r, p.kernelLeft), p.pmc,
                                p.userMain, p.userLeft, Left(p.kernelLeft))
  /\ r.kind = "kpc" /\ p.tid # NoThread =>
       Feed(p, r) = ParserState(p.tid, p.user, p.kernel, p.pmc \o r.frames,
                                p.userMain, p.userLeft, p.kernelLeft)

LEMMA FeedByKind == \A p \in ParserStates : \A r : FeedCases(p, r)
<1> SUFFICES ASSUME NEW p \in ParserStates, NEW r
             PROVE  FeedCases(p, r)
  OBVIOUS
<1>1. r.kind = "start" => Feed(p, r) = ParserState(r.tid, <<>>, <<>>, <<>>, 0, 0, 0)
  BY DEF Feed, StartSample, ParserInit, ParserState
<1>2. r.kind # "start" /\ p.tid = NoThread => Feed(p, r) = p
  BY DEF Feed
<1>3. r.kind = "end" /\ p.tid # NoThread =>
        Feed(p, r) = ParserState(NoThread, p.user, p.kernel, p.pmc,
                                 p.userMain, p.userLeft, p.kernelLeft)
  <2>1. r.kind = "end" /\ p.tid # NoThread => Feed(p, r) = EndSample(p, r)
    BY DEF Feed
  <2> QED BY <2>1 DEF EndSample, ParserState, ParserStates
<1>4. r.kind = "uhdr" /\ p.tid # NoThread =>
        Feed(p, r) = ParserState(p.tid, p.user, p.kernel, p.pmc,
                                 r.main, r.main + r.async, p.kernelLeft)
  <2>1. r.kind = "uhdr" /\ p.tid # NoThread => Feed(p, r) = UserHeader(p, r)
    BY DEF Feed
  <2> QED BY <2>1 DEF UserHeader, ParserState, ParserStates
<1>5. r.kind = "udata" /\ p.tid # NoThread =>
        Feed(p, r) = ParserState(p.tid, p.user \o Chunk(r, p.userLeft), p.kernel, p.pmc,
                                 p.userMain, Left(p.userLeft), p.kernelLeft)
  <2>1. r.kind = "udata" /\ p.tid # NoThread => Feed(p, r) = UserChunk(p, r)
    BY DEF Feed
  <2> QED BY <2>1 DEF UserChunk, ParserState, ParserStates
<1>6. r.kind = "khdr" /\ p.tid # NoThread =>
        Feed(p, r) = ParserState(p.tid, p.user, p.kernel, p.pmc,
                                 p.userMain, p.userLeft, r.main + r.async)
  <2>1. r.kind = "khdr" /\ p.tid # NoThread => Feed(p, r) = KernelHeader(p, r)
    BY DEF Feed
  <2> QED BY <2>1 DEF KernelHeader, ParserState, ParserStates
<1>7. r.kind = "kdata" /\ p.tid # NoThread =>
        Feed(p, r) = ParserState(p.tid, p.user, p.kernel \o Chunk(r, p.kernelLeft), p.pmc,
                                 p.userMain, p.userLeft, Left(p.kernelLeft))
  <2>1. r.kind = "kdata" /\ p.tid # NoThread => Feed(p, r) = KernelChunk(p, r)
    BY DEF Feed
  <2> QED BY <2>1 DEF KernelChunk, ParserState, ParserStates
<1>8. r.kind = "kpc" /\ p.tid # NoThread =>
        Feed(p, r) = ParserState(p.tid, p.user, p.kernel, p.pmc \o r.frames,
                                 p.userMain, p.userLeft, p.kernelLeft)
  <2>1. r.kind = "kpc" /\ p.tid # NoThread => Feed(p, r) = Counters(p, r)
    BY DEF Feed
  <2> QED BY <2>1 DEF Counters, ParserState, ParserStates
<1> QED
  BY <1>1, <1>2, <1>3, <1>4, <1>5, <1>6, <1>7, <1>8, Zenon DEF FeedCases

LEMMA FeedTyped ==
  ASSUME NEW p \in ParserStates, NEW w \in Walk, w.main <= Len(w.user), NEW r, NEW i,
         IsRecordOf(w, r, i)
  PROVE  Feed(p, r) \in ParserStates
<1>0. /\ w.tid \in Nat /\ w.main \in Nat /\ Len(w.user) \in Nat /\ Len(w.kernel) \in Nat
      /\ w.pmc \in Seq(Nat) /\ w.user \in Seq(Nat) /\ w.kernel \in Seq(KernelAddresses)
  BY WalkTyped
<1>1. /\ p.user \in Seq(Nat) /\ p.kernel \in Seq(KernelFrames) /\ p.pmc \in Seq(Nat)
      /\ p.userLeft \in Nat /\ p.kernelLeft \in Nat /\ p.userMain \in Nat /\ p.tid \in Nat
  BY DEF ParserStates
<1>2. FeedCases(p, r)
  BY FeedByKind
<1>3. CASE r = StartRecord(w)
  <2>1. r.kind = "start" /\ r.tid = w.tid
    BY <1>3 DEF StartRecord
  <2>2. <<>> \in Seq(Nat) /\ <<>> \in Seq(KernelFrames) /\ r.tid \in Nat
    BY <1>0, <2>1
  <2>3. Feed(p, r) = ParserState(r.tid, <<>>, <<>>, <<>>, 0, 0, 0)
    BY <1>2, <2>1 DEF FeedCases
  <2> QED BY <2>2, <2>3 DEF ParserState, ParserStates
<1>4. CASE p.tid = NoThread /\ r.kind # "start"
  BY <1>2, <1>4 DEF FeedCases
<1>5. CASE p.tid # NoThread /\ r = CountersRecord(w)
  <2>1. r.kind = "kpc" /\ r.frames = w.pmc
    BY <1>5 DEF CountersRecord
  <2>2. p.pmc \o r.frames \in Seq(Nat)
    BY <1>0, <1>1, <2>1, ConcatProperties
  <2>8. Feed(p, r) = ParserState(p.tid, p.user, p.kernel, p.pmc \o r.frames,
                                p.userMain, p.userLeft, p.kernelLeft)
    BY <1>2, <1>5, <2>1, Zenon DEF FeedCases
  <2> QED BY <1>1, <2>2, <2>8 DEF ParserState, ParserStates
<1>6. CASE p.tid # NoThread /\ r = UserHeaderRecord(w)
  <2>1. r.kind = "uhdr" /\ r.main = w.main /\ r.async = Len(w.user) - w.main
    BY <1>6 DEF UserHeaderRecord
  <2>2. r.main \in Nat /\ r.main + r.async \in Nat
    BY <1>0, <2>1
  <2>8. Feed(p, r) = ParserState(p.tid, p.user, p.kernel, p.pmc,
                                r.main, r.main + r.async, p.kernelLeft)
    BY <1>2, <1>6, <2>1, Zenon DEF FeedCases
  <2> QED BY <1>1, <2>2, <2>8 DEF ParserState, ParserStates
<1>7. CASE p.tid # NoThread /\ r = KernelHeaderRecord(w)
  <2>1. r.kind = "khdr" /\ r.main = Len(w.kernel) /\ r.async = 0
    BY <1>7 DEF KernelHeaderRecord
  <2>2. r.main + r.async \in Nat
    BY <1>0, <2>1
  <2>8. Feed(p, r) = ParserState(p.tid, p.user, p.kernel, p.pmc,
                                p.userMain, p.userLeft, r.main + r.async)
    BY <1>2, <1>7, <2>1, Zenon DEF FeedCases
  <2> QED BY <1>1, <2>2, <2>8 DEF ParserState, ParserStates
<1>8. ASSUME p.tid # NoThread, NEW c \in 1..NumChunks(Len(w.user)),
             r = ChunkRecord(w.user, "udata", c)
      PROVE  Feed(p, r) \in ParserStates
  <2>1. r.kind = "udata"
    BY <1>8 DEF ChunkRecord
  <2>2. c \in Nat \ {0}
    BY <1>0, ChunkCount
  <2>3. Chunk(r, p.userLeft) \in Seq(Nat \cup {Null}) /\ Left(p.userLeft) \in Nat
    BY <1>0, <1>1, <1>8, <2>2, ChunkFrames DEF ChunkIs
  <2>4. Nat \cup {Null} = Nat
    BY DEF Null
  <2>5. p.user \o Chunk(r, p.userLeft) \in Seq(Nat)
    BY <1>1, <2>3, <2>4, ConcatProperties
  <2>8. Feed(p, r) = ParserState(p.tid, p.user \o Chunk(r, p.userLeft), p.kernel, p.pmc,
                                p.userMain, Left(p.userLeft), p.kernelLeft)
    BY <1>2, <1>8, <2>1, Zenon DEF FeedCases
  <2> QED BY <1>1, <2>3, <2>5, <2>8 DEF ParserState, ParserStates
<1>9. ASSUME p.tid # NoThread, NEW c \in 1..NumChunks(Len(w.kernel)),
             r = ChunkRecord(w.kernel, "kdata", c)
      PROVE  Feed(p, r) \in ParserStates
  <2>1. r.kind = "kdata"
    BY <1>9 DEF ChunkRecord
  <2>2. c \in Nat \ {0}
    BY <1>0, ChunkCount
  <2>3. Chunk(r, p.kernelLeft) \in Seq(KernelAddresses \cup {Null}) /\ Left(p.kernelLeft) \in Nat
    BY <1>0, <1>1, <1>9, <2>2, ChunkFrames DEF ChunkIs
  <2>4. p.kernel \o Chunk(r, p.kernelLeft) \in Seq(KernelFrames)
    <3>1. Chunk(r, p.kernelLeft) \in Seq(KernelFrames)
      BY <2>3 DEF KernelFrames
    <3> QED BY <1>1, <3>1, ConcatProperties
  <2>8. Feed(p, r) = ParserState(p.tid, p.user, p.kernel \o Chunk(r, p.kernelLeft), p.pmc,
                                p.userMain, p.userLeft, Left(p.kernelLeft))
    BY <1>2, <1>9, <2>1, Zenon DEF FeedCases
  <2> QED BY <1>1, <2>3, <2>4, <2>8 DEF ParserState, ParserStates
<1>10. CASE p.tid # NoThread /\ r = EndRecord
  <2>1. r.kind = "end"
    BY <1>10 DEF EndRecord
  <2> QED BY <1>1, <1>2, <1>10, <2>1 DEF FeedCases, NoThread, ParserState, ParserStates
<1>11. r.kind = "start" => r = StartRecord(w)
  BY DEF IsRecordOf, StartRecord, CountersRecord, UserHeaderRecord, KernelHeaderRecord,
         ChunkRecord, EndRecord
<1> QED BY <1>3, <1>4, <1>5, <1>6, <1>7, <1>8, <1>9, <1>10, <1>11 DEF IsRecordOf

-----------------------------------------------------------------------------
(* Slides and votes.                                                       *)

LEMMA Divide ==
  ASSUME NEW d \in Nat \ {0}
  PROVE  /\ \A n \in Nat : /\ n \div d \in Nat /\ d * (n \div d) <= n
                           /\ n < d * (n \div d) + d
         /\ \A n \in Nat : n % d = 0 => n = d * (n \div d)
         /\ \A m, n \in Nat : m <= n => m \div d <= n \div d
<1>1. \A n \in Nat : n \div d \in Nat /\ d * (n \div d) <= n /\ n < d * (n \div d) + d
  OBVIOUS
<1>2. \A n \in Nat : n % d = 0 => n = d * (n \div d)
  OBVIOUS
<1>3. ASSUME NEW m \in Nat, NEW n \in Nat, m <= n PROVE m \div d <= n \div d
  <2> DEFINE p == m \div d
             q == n \div d
  <2>1. p \in Nat /\ q \in Nat /\ d * p <= m /\ n < d * q + d
    BY <1>1
  <2> HIDE DEF p, q
  <2> SUFFICES ASSUME q + 1 <= p PROVE FALSE
    BY <2>1 DEF p, q
  <2>2. d * (q + 1) <= d * p
    BY <2>1
  <2>3. d * (q + 1) = d * q + d
    BY <2>1
  <2> DEFINE x == d * q
             y == d * p
  <2>4. x \in Nat /\ y \in Nat /\ x + d <= y /\ y <= m /\ n < x + d
    BY <2>1, <2>2, <2>3
  <2> HIDE DEF x, y
  <2> QED BY <1>3, <2>4
<1> QED BY <1>1, <1>2, <1>3

LEMMA Aligned ==
  ASSUME NEW n \in Nat
  PROVE  /\ AlignDown(n) \in Nat /\ AlignDown(n) <= n
         /\ AlignUp(n) \in Nat /\ n <= AlignUp(n)
         /\ \A m \in Nat : m % SlideAlignment = 0 =>
              (m <= n => m <= AlignDown(n)) /\ (n <= m => AlignUp(n) <= m)
<1> DEFINE d == SlideAlignment
<1>0. d \in Nat \ {0}
  BY SegmentsAssumption
<1>1. ASSUME NEW k \in Nat PROVE AlignDown(k) \in Nat /\ AlignDown(k) <= k /\ k < AlignDown(k) + d
  <2> DEFINE q == k \div d
  <2>1. q \in Nat /\ d * q <= k /\ k < d * q + d
    BY <1>0, Divide
  <2>2. AlignDown(k) = q * d
    BY DEF AlignDown
  <2> HIDE DEF q, d
  <2>3. q * d = d * q /\ q * d \in Nat
    BY <1>0, <2>1
  <2> QED BY <2>1, <2>2, <2>3
<1>2. ASSUME NEW k \in Nat, NEW m \in Nat, m % d = 0, m <= k PROVE m <= AlignDown(k)
  <2> DEFINE q == k \div d
             p == m \div d
  <2>1. q \in Nat /\ p \in Nat /\ p <= q /\ m = d * p
    BY <1>0, <1>2, Divide
  <2>2. AlignDown(k) = q * d
    BY DEF AlignDown
  <2> HIDE DEF q, p, d
  <2>3. d * p <= d * q /\ q * d = d * q
    BY <1>0, <2>1
  <2> QED BY <2>1, <2>2, <2>3
<1>3. /\ AlignUp(n) = AlignDown(n + d - 1) /\ n + d - 1 \in Nat
  BY <1>0 DEF AlignUp
<1>4. AlignUp(n) \in Nat /\ n <= AlignUp(n)
  <2> DEFINE k == n + d - 1
  <2>1. AlignDown(k) \in Nat /\ k < AlignDown(k) + d
    BY <1>1, <1>3
  <2> QED BY <1>0, <1>3, <2>1
<1>5. ASSUME NEW m \in Nat, m % d = 0, n <= m PROVE AlignUp(n) <= m
  <2> DEFINE k == n + d - 1
             q == k \div d
             p == m \div d
  <2>1. q \in Nat /\ p \in Nat /\ m = d * p /\ d * q <= k /\ k \in Nat
    BY <1>0, <1>3, <1>5, Divide
  <2>2. AlignUp(n) = q * d
    BY <1>3 DEF AlignDown
  <2>3. q <= p
    <3> SUFFICES ASSUME p + 1 <= q PROVE FALSE
      BY <2>1
    <3> HIDE DEF q, p, d
    <3>1. d * (p + 1) <= d * q
      BY <1>0, <2>1
    <3>2. d * (p + 1) = d * p + d
      BY <1>0, <2>1
    <3> DEFINE x == d * p
               y == d * q
    <3>3. x \in Nat /\ y \in Nat /\ x + d <= y /\ y <= n + d - 1 /\ m = x
      BY <1>0, <2>1, <3>1, <3>2
    <3> HIDE DEF x, y
    <3> QED BY <1>0, <1>5, <3>3
  <2> HIDE DEF q, p, d
  <2>4. d * q <= d * p /\ q * d = d * q
    BY <1>0, <2>1, <2>3
  <2> QED BY <2>1, <2>2, <2>4
<1> QED BY <1>1, <1>2, <1>4, <1>5

Slides == {s \in Nat : s % SlideAlignment = 0}

LEMMA SlidesInside ==
  ASSUME NEW seg \in ExecSegments, NEW a \in Nat, NEW s \in SlidesFor(seg, a)
  PROVE  s \in Slides /\ seg[1] <= a - s /\ a - s < seg[2]
<1> DEFINE from == IF a >= seg[2] THEN a - seg[2] + 1 ELSE 0
<1>1. seg[1] \in Nat /\ seg[2] \in Nat
  BY SegmentsAssumption
<1>2. /\ ~ (a < seg[1]) /\ s \in AlignUp(from)..AlignDown(a - seg[1])
      /\ s % SlideAlignment = 0
  BY DEF SlidesFor
<1>3. a - seg[1] \in Nat /\ from \in Nat
  BY <1>1, <1>2
<1>4. /\ AlignDown(a - seg[1]) \in Nat /\ AlignDown(a - seg[1]) <= a - seg[1]
      /\ AlignUp(from) \in Nat /\ from <= AlignUp(from)
  <2> HIDE DEF from
  <2> QED BY <1>3, Aligned
<1> QED BY <1>1, <1>2, <1>3, <1>4 DEF Slides

LEMMA EveryFitVotes ==
  ASSUME NEW a \in Nat, NEW fit \in Slides, Explains(fit, a)
  PROVE  \E seg \in ExecSegments : fit \in SlidesFor(seg, a)
<1>1. a \in Nat
  OBVIOUS
<1>2. PICK seg \in ExecSegments : seg[1] <= a - fit /\ a - fit < seg[2]
  BY DEF Explains
<1> DEFINE from == IF a >= seg[2] THEN a - seg[2] + 1 ELSE 0
           lo == AlignUp(from)
           hi == AlignDown(a - seg[1])
<1>3. seg[1] \in Nat /\ seg[2] \in Nat /\ fit \in Nat /\ fit % SlideAlignment = 0
  BY SegmentsAssumption DEF Slides
<1>4. ~ (a < seg[1]) /\ a - seg[1] \in Nat /\ from \in Nat
      /\ fit <= a - seg[1] /\ from <= fit
  BY <1>1, <1>2, <1>3
<1> HIDE DEF from
<1>5. /\ hi \in Nat /\ hi <= a - seg[1] /\ lo \in Nat /\ from <= lo
      /\ fit <= hi /\ lo <= fit
  BY <1>3, <1>4, Aligned
<1> HIDE DEF lo, hi
<1>6. hi - lo \in Nat /\ seg[2] - seg[1] \in Nat /\ hi - lo <= seg[2] - seg[1]
  BY <1>1, <1>2, <1>3, <1>4, <1>5 DEF from
<1>7. (hi - lo) \div SlideAlignment <= MaxPerObs
  <2> DEFINE m == hi - lo
             n == seg[2] - seg[1]
  <2>1. m \div SlideAlignment <= n \div SlideAlignment /\ m \div SlideAlignment \in Nat
        /\ n \div SlideAlignment \in Nat
    <3>1. m \in Nat /\ n \in Nat /\ m <= n /\ SlideAlignment \in Nat \ {0}
      BY <1>6, SegmentsAssumption
    <3> HIDE DEF m, n
    <3> QED BY <3>1, Divide
  <2>2. n \div SlideAlignment <= MaxPerObs /\ MaxPerObs \in Nat
    BY SlideAssumption, SegmentsAssumption
  <2> HIDE DEF m, n
  <2>3. m \div SlideAlignment <= MaxPerObs
    BY <2>1, <2>2
  <2> QED BY <2>3 DEF m
<1>8. fit \in {s \in lo..hi : s % SlideAlignment = 0}
  BY <1>3, <1>5
<1>9. fit \in SlidesFor(seg, a)
  <2>1. ~ (a < seg[1] \/ (hi - lo) \div SlideAlignment > MaxPerObs)
    <3>1. (hi - lo) \div SlideAlignment \in Nat /\ MaxPerObs \in Nat
      <4> DEFINE m == hi - lo
      <4>1. m \in Nat /\ SlideAlignment \in Nat \ {0}
        BY <1>6, SegmentsAssumption
      <4> HIDE DEF m
      <4>2. m \div SlideAlignment \in Nat
        BY <4>1, Divide
      <4> QED BY <4>2, SegmentsAssumption DEF m
    <3> DEFINE x == (hi - lo) \div SlideAlignment
    <3>2. x \in Nat /\ x <= MaxPerObs /\ MaxPerObs \in Nat
      BY <1>7, <3>1
    <3> HIDE DEF x
    <3>3. ~ (x > MaxPerObs)
      BY <3>2
    <3> QED BY <1>4, <3>3 DEF x
  <2>2. SlidesFor(seg, a) =
          IF a < seg[1] \/ (hi - lo) \div SlideAlignment > MaxPerObs THEN {}
          ELSE {s \in lo..hi : s % SlideAlignment = 0}
    BY DEF SlidesFor, lo, hi, from
  <2> QED BY <1>8, <2>1, <2>2, Zenon
<1> QED BY <1>9

\* One segment at most has a given slide: segments do not overlap.
Voters(a, s) == {seg \in ExecSegments : s \in SlidesFor(seg, a)}

LEMMA OneVote ==
  ASSUME NEW a \in Nat, NEW s
  PROVE  /\ Cardinality(Voters(a, s)) \in {0, 1}
         /\ s \in Slides =>
              Cardinality(Voters(a, s)) = IF Explains(s, a) THEN 1 ELSE 0
<1>1. IsFiniteSet(Voters(a, s))
  <2>1. Voters(a, s) \subseteq ExecSegments
    BY DEF Voters
  <2> QED BY <2>1, SegmentsAssumption, FS_Subset
<1>2. CASE Voters(a, s) = {}
  <2>1. s \in Slides => ~ Explains(s, a)
    BY <1>2, EveryFitVotes DEF Voters
  <2> QED BY <1>2, <2>1, FS_EmptySet
<1>3. CASE Voters(a, s) # {}
  <2>1. PICK seg \in ExecSegments : s \in SlidesFor(seg, a)
    BY <1>3 DEF Voters
  <2>2. s \in Slides /\ s \in Nat /\ seg[1] <= a - s /\ a - s < seg[2]
    BY <2>1, SlidesInside DEF Slides
  <2>3. ASSUME NEW other \in ExecSegments, s \in SlidesFor(other, a) PROVE other = seg
    <3>1. other[1] <= a - s /\ a - s < other[2]
      BY <2>3, SlidesInside
    <3>2. seg[1] \in Nat /\ seg[2] \in Nat /\ other[1] \in Nat /\ other[2] \in Nat
      BY SegmentsAssumption
    <3>3. other = seg \/ other[2] <= seg[1] \/ seg[2] <= other[1]
      BY SegmentsAssumption
    <3> QED BY <2>2, <3>1, <3>2, <3>3
  <2>4. Voters(a, s) = {seg}
    BY <2>1, <2>3 DEF Voters
  <2>5. Cardinality(Voters(a, s)) = 1
    BY <2>4, FS_Singleton
  <2> QED BY <1>3, <2>1, <2>2, <2>5 DEF Explains
<1> QED BY <1>2, <1>3

(* The votes after the first m of some addresses: every slide has one vote *)
(* for each of them that it explains.                                      *)
VotesOf(v, s) == IF s \in DOMAIN v THEN v[s] ELSE 0

VoteTables == UNION {[D -> Nat] : D \in SUBSET Slides}

Fits(s, avmas, m) == {n \in 1..m : Explains(s, avmas[n])}

VotesOK(v, avmas, m) ==
  /\ v \in VoteTables
  /\ \A s \in Slides : VotesOf(v, s) = Cardinality(Fits(s, avmas, m))

LEMMA VoteTable ==
  \A v : v \in VoteTables <=> /\ v = [s \in DOMAIN v |-> v[s]] /\ DOMAIN v \subseteq Slides
                              /\ \A s \in DOMAIN v : v[s] \in Nat
<1> SUFFICES ASSUME NEW v
             PROVE  v \in VoteTables <=> /\ v = [s \in DOMAIN v |-> v[s]] /\ DOMAIN v \subseteq Slides
                                         /\ \A s \in DOMAIN v : v[s] \in Nat
  OBVIOUS
<1>1. ASSUME v \in VoteTables
      PROVE  /\ v = [s \in DOMAIN v |-> v[s]] /\ DOMAIN v \subseteq Slides
             /\ \A s \in DOMAIN v : v[s] \in Nat
  <2>1. PICK D \in SUBSET Slides : v \in [D -> Nat]
    BY <1>1 DEF VoteTables
  <2> QED BY <2>1
<1>2. ASSUME v = [s \in DOMAIN v |-> v[s]], DOMAIN v \subseteq Slides,
             \A s \in DOMAIN v : v[s] \in Nat
      PROVE  v \in VoteTables
  <2>1. v \in [DOMAIN v -> Nat]
    BY <1>2
  <2> QED BY <1>2, <2>1 DEF VoteTables
<1> QED BY <1>1, <1>2

LEMMA ObserveCounts ==
  ASSUME NEW v \in VoteTables, NEW a \in Nat
  PROVE  /\ Observe(v, a) \in VoteTables
         /\ \A s : VotesOf(Observe(v, a), s) = VotesOf(v, s) + Cardinality(Voters(a, s))
         /\ \A s : VotesOf(v, s) \in Nat
<1> DEFINE slides == UNION {SlidesFor(seg, a) : seg \in ExecSegments}
           D == DOMAIN v \cup slides
           w == Observe(v, a)
<1>1. w = [s \in D |-> VotesOf(v, s) + Cardinality(Voters(a, s))]
  BY DEF Observe, VotesOf, Voters
<1>2. DOMAIN v \subseteq Slides /\ \A s \in DOMAIN v : v[s] \in Nat
  BY VoteTable
<1>3. \A s : VotesOf(v, s) \in Nat
  BY <1>2 DEF VotesOf
<1>4. \A s : Cardinality(Voters(a, s)) \in Nat
  BY OneVote
<1>5. slides \subseteq Slides
  BY SlidesInside
<1>6. \A s : s \in slides <=> Voters(a, s) # {}
  BY DEF Voters
<1> HIDE DEF slides, w
<1>7. DOMAIN w = D /\ D \subseteq Slides /\ w = [s \in DOMAIN w |-> w[s]]
      /\ \A s \in D : w[s] = VotesOf(v, s) + Cardinality(Voters(a, s))
  BY <1>1, <1>2, <1>5
<1>8. w \in VoteTables
  <2>1. \A s \in DOMAIN w : w[s] \in Nat
    BY <1>3, <1>4, <1>7
  <2> QED BY <1>7, <2>1, VoteTable
<1>9. ASSUME NEW s PROVE VotesOf(w, s) = VotesOf(v, s) + Cardinality(Voters(a, s))
  <2>1. CASE s \in D
    BY <1>7, <2>1 DEF VotesOf
  <2>2. CASE s \notin D
    <3>1. Voters(a, s) = {}
      BY <1>6, <2>2
    <3>2. Cardinality(Voters(a, s)) = 0
      BY <3>1, FS_EmptySet
    <3>3. VotesOf(w, s) = 0 /\ VotesOf(v, s) = 0
      BY <1>7, <2>2 DEF VotesOf
    <3> QED BY <3>2, <3>3
  <2> QED BY <2>1, <2>2
<1> QED BY <1>3, <1>8, <1>9 DEF w

LEMMA ObserveKeeps ==
  ASSUME NEW v, NEW avmas, NEW m \in Nat, VotesOK(v, avmas, m), avmas[m + 1] \in Nat
  PROVE  VotesOK(Observe(v, avmas[m + 1]), avmas, m + 1)
<1> DEFINE a == avmas[m + 1]
           w == Observe(v, a)
<1>1. a \in Nat /\ v \in VoteTables
  BY DEF VotesOK
<1> HIDE DEF a
<1>2. w \in VoteTables /\ \A s : VotesOf(w, s) = VotesOf(v, s) + Cardinality(Voters(a, s))
  BY <1>1, ObserveCounts
<1> HIDE DEF w
<1>3. ASSUME NEW s \in Slides
      PROVE  VotesOf(w, s) = Cardinality(Fits(s, avmas, m + 1))
  <2> DEFINE F == Fits(s, avmas, m)
  <2>1. VotesOf(w, s) = Cardinality(F) + IF Explains(s, a) THEN 1 ELSE 0
    BY <1>1, <1>2, OneVote DEF VotesOK
  <2>2. IsFiniteSet(F) /\ m + 1 \notin F
    <3>1. IsFiniteSet(1..m)
      BY FS_Interval
    <3>2. F \subseteq 1..m
      BY DEF Fits
    <3>3. m + 1 \notin 1..m
      OBVIOUS
    <3> HIDE DEF F
    <3>4. IsFiniteSet(F)
      BY <3>1, <3>2, FS_Subset
    <3> QED BY <3>2, <3>3, <3>4
  <2>3. Fits(s, avmas, m + 1) = IF Explains(s, a) THEN F \cup {m + 1} ELSE F
    <3>1. 1..(m + 1) = 1..m \cup {m + 1}
      OBVIOUS
    <3> QED BY <3>1 DEF Fits, a
  <2> HIDE DEF F
  <2>4. Cardinality(F) \in Nat /\ Cardinality(F \cup {m + 1}) = Cardinality(F) + 1
    BY <2>2, FS_CardinalityType, FS_AddElement
  <2> QED BY <2>1, <2>3, <2>4
<1> QED BY <1>2, <1>3 DEF VotesOK, w, a

(* The addresses of one sample vote one after the other.                   *)
LEMMA ObserveAllDefined ==
  ASSUME NEW v \in VoteTables, NEW avmas \in Seq(KernelAddresses)
  PROVE  \E f : /\ ObserveAll(v, avmas) = f[Len(avmas)] /\ f[0] = v
                /\ \A n \in 1..Len(avmas) : f[n] = Observe(f[n - 1], avmas[n])
<1> DEFINE N == Len(avmas)
           step == [p \in (1..N) \X VoteTables |-> Observe(p[2], avmas[p[1]])]
           Is(f) == f = [n \in 0..N |-> IF n = 0 THEN v ELSE Observe(f[n - 1], avmas[n])]
           f0 == CHOOSE f : Is(f)
<1>0. N \in Nat /\ \A n \in 1..N : avmas[n] \in Nat
  <2>1. N \in Nat /\ \A n \in 1..N : avmas[n] \in KernelAddresses
    BY LenProperties, ElementOfSeq
  <2> QED BY <2>1 DEF KernelAddresses
<1>1. \A n \in 1..N, u \in VoteTables : Observe(u, avmas[n]) \in VoteTables
  BY <1>0, ObserveCounts
<1>2. step \in [(1..N) \X VoteTables -> VoteTables]
  <2> HIDE DEF N
  <2> QED BY <1>1
<1>3. \A n \in 1..N, u \in VoteTables : step[<<n, u>>] = Observe(u, avmas[n])
  OBVIOUS
<1>4. \E f : Is(f)
  <2> HIDE DEF step, N
  <2>0. PICK f : IsRecursion(f, step, v, N, VoteTables)
    BY <1>0, <1>2, RecursionExists DEF IsStep
  <2>1. /\ f \in [0..N -> VoteTables] /\ f[0] = v
        /\ \A n \in 1..N : f[n] = step[<<n, f[n - 1]>>]
    BY <2>0 DEF IsRecursion
  <2>2. ASSUME NEW n \in 0..N, n # 0 PROVE f[n] = Observe(f[n - 1], avmas[n])
    <3>1. n \in 1..N /\ n - 1 \in 0..N
      BY <1>0, <2>2
    <3>2. f[n - 1] \in VoteTables
      BY <2>1, <3>1
    <3> QED BY <1>3, <2>1, <3>1, <3>2
  <2>3. f = [n \in 0..N |-> f[n]]
    BY <2>1
  <2>4. Is(f)
    BY <2>1, <2>2, <2>3, Zenon
  <2> QED BY <2>4
<1>5. Is(f0)
  <2> HIDE DEF Is
  <2> QED BY <1>4
<1>6. ObserveAll(v, avmas) = f0[Len(avmas)]
  BY DEF ObserveAll
<1> HIDE DEF f0, step
<1>7. /\ f0[0] = v
      /\ \A n \in 1..N : f0[n] = Observe(f0[n - 1], avmas[n])
  <2>1. 0 \in 0..N /\ \A n \in 1..N : n \in 0..N /\ n # 0
    BY <1>0
  <2> QED BY <1>5, <2>1
<1> QED BY <1>6, <1>7

LEMMA ObserveAllKeeps ==
  ASSUME NEW v, NEW obs \in Seq(KernelAddresses), NEW avmas \in Seq(KernelAddresses),
         VotesOK(v, obs, Len(obs))
  PROVE  /\ obs \o avmas \in Seq(KernelAddresses)
         /\ VotesOK(ObserveAll(v, avmas), obs \o avmas, Len(obs \o avmas))
<1> DEFINE all == obs \o avmas
           M == Len(obs)
           N == Len(avmas)
<1>0. M \in Nat /\ N \in Nat
  BY LenProperties
<1>1. /\ all \in Seq(KernelAddresses) /\ Len(all) = M + N
      /\ \A n \in 1..M : all[n] = obs[n]
      /\ \A k \in 1..N : all[M + k] = avmas[k]
  <2>1. /\ all \in Seq(KernelAddresses) /\ Len(all) = M + N
        /\ \A i \in 1..(M + N) : all[i] = IF i <= M THEN obs[i] ELSE avmas[i - M]
    BY ConcatProperties
  <2> HIDE DEF all, M, N
  <2> QED BY <1>0, <2>1
<1>2. \A k \in 1..N : avmas[k] \in Nat
  BY ElementOfSeq DEF KernelAddresses
<1>3. PICK f : /\ ObserveAll(v, avmas) = f[N] /\ f[0] = v
               /\ \A k \in 1..N : f[k] = Observe(f[k - 1], avmas[k])
  BY ObserveAllDefined DEF VotesOK
<1> HIDE DEF all, M, N
<1> DEFINE T == {k \in 0..N : VotesOK(f[k], all, M + k)}
<1>4. 0 \in T
  <2>1. \A s : Fits(s, all, M + 0) = Fits(s, obs, M)
    BY <1>0, <1>1 DEF Fits
  <2>2. VotesOK(v, obs, M)
    BY DEF M
  <2>3. VotesOK(v, all, M + 0)
    BY <2>1, <2>2 DEF VotesOK
  <2> QED BY <1>0, <1>3, <2>3
<1>5. ASSUME NEW k \in 1..N, k - 1 \in T PROVE k \in T
  <2> DEFINE m == M + (k - 1)
  <2>1. VotesOK(f[k - 1], all, m) /\ m \in Nat /\ m + 1 = M + k
    BY <1>0, <1>5
  <2>2. all[M + k] = avmas[k] /\ avmas[k] \in Nat
    BY <1>1, <1>2
  <2> HIDE DEF m
  <2>3. VotesOK(Observe(f[k - 1], all[m + 1]), all, m + 1)
    BY <2>1, <2>2, ObserveKeeps
  <2>4. VotesOK(f[k], all, M + k)
    BY <1>3, <2>1, <2>2, <2>3
  <2> QED BY <1>0, <2>4
<1> HIDE DEF T
<1>6. 0..N \subseteq T
  BY <1>0, <1>4, <1>5, UpToInduction
<1>7. VotesOK(f[N], all, M + N)
  BY <1>0, <1>6 DEF T
<1> QED BY <1>1, <1>3, <1>7 DEF all

(* What is left before the first NULL.                                     *)
LEMMA UpToNullClean ==
  ASSUME NEW S, NEW frames \in Seq(S \cup {Null}), Null \notin S
  PROVE  UpToNull(frames) \in Seq(S)
<1> DEFINE N == Len(frames)
           nulls == {i \in DOMAIN frames : frames[i] = Null}
<1>1. N \in Nat /\ DOMAIN frames = 1..N /\ \A i \in 1..N : frames[i] \in S \cup {Null}
      /\ frames \in [1..N -> S \cup {Null}]
  BY LenProperties, ElementOfSeq
<1>2. CASE nulls = {}
  <2>1. frames \in [1..N -> S]
    BY <1>1, <1>2
  <2>2. UpToNull(frames) = frames
    BY <1>2 DEF UpToNull
  <2>3. frames \in Seq(S)
    BY <1>1, <2>1, IsASeq
  <2> QED BY <2>2, <2>3
<1>3. CASE nulls # {}
  <2> DEFINE k == CHOOSE i \in nulls : \A j \in nulls : i <= j
  <2>1. nulls \subseteq Nat
    BY <1>1
  <2>2. k \in nulls /\ \A j \in nulls : k <= j
    <3> HIDE DEF nulls
    <3>1. PICK i \in nulls : \A j \in nulls : ~ (j < i)
      BY <1>3, <2>1, LeastNumber
    <3>2. \A j \in nulls : i <= j
      BY <2>1, <3>1
    <3> QED BY <3>1, <3>2
  <2>3. UpToNull(frames) = SubSeq(frames, 1, k - 1)
    BY <1>3 DEF UpToNull
  <2> HIDE DEF k
  <2>4. k \in 1..N
    BY <1>1, <2>2
  <2>5. \A i \in 1..(k - 1) : frames[i] \in S
    <3> SUFFICES ASSUME NEW i \in 1..(k - 1) PROVE frames[i] \in S
      OBVIOUS
    <3>1. i \in 1..N /\ ~ (k <= i)
      BY <1>1, <2>4
    <3> QED BY <1>1, <2>2, <3>1
  <2>6. SubSeq(frames, 1, k - 1) \in Seq(S)
    <3>1. k - 1 \in Int
      BY <1>1, <2>4
    <3> QED BY <2>5, <3>1, SubSeqProperties
  <2> QED BY <2>3, <2>6
<1> QED BY <1>2, <1>3

-----------------------------------------------------------------------------
(* The stream of records: the place in it, what the parser holds, and what *)
(* has been sampled and voted.                                             *)

IsList(s) == Len(s) \in Nat /\ s = [n \in 1..Len(s) |-> s[n]]

LEMMA AppendList ==
  ASSUME NEW s, IsList(s), NEW e
  PROVE  /\ IsList(Append(s, e)) /\ Len(Append(s, e)) = Len(s) + 1
         /\ \A n \in 1..Len(s) : Append(s, e)[n] = s[n]
         /\ Append(s, e)[Len(s) + 1] = e
         /\ DOMAIN s = 1..Len(s)
<1> DEFINE S == {s[n] : n \in 1..Len(s)} \cup {e}
           t == Append(s, e)
<1>1. Len(s) \in Nat /\ s = [n \in 1..Len(s) |-> s[n]]
  BY DEF IsList
<1>2. s \in Seq(S)
  <2>1. s \in [1..Len(s) -> S]
    BY <1>1
  <2> HIDE DEF S
  <2> QED BY <1>1, <2>1, IsASeq
<1>3. e \in S
  OBVIOUS
<1> HIDE DEF S
<1>4. /\ t \in Seq(S) /\ Len(t) = Len(s) + 1
      /\ \A n \in 1..Len(s) : t[n] = s[n]
      /\ t[Len(s) + 1] = e
  BY <1>2, <1>3, AppendProperties
<1> HIDE DEF t
<1>5. IsList(t)
  <2>1. Len(t) \in Nat /\ t \in [1..Len(t) -> S]
    BY <1>4, LenProperties
  <2> QED BY <2>1 DEF IsList
<1>6. DOMAIN s = 1..Len(s)
  BY <1>1
<1> QED BY <1>4, <1>5, <1>6 DEF t

PlaceOK ==
  /\ workload \in Workloads
  /\ walk \in 1..(Len(Walks) + 1)
  /\ rec \in Nat \ {0}
  /\ walk <= Len(Walks) => rec <= Len(WalkRecords(Walks[walk]))

StreamInv ==
  /\ PlaceOK
  /\ parser \in ParserStates
  /\ IsList(samples)
  /\ observed \in Seq(KernelAddresses)
  /\ VotesOK(votes, observed, Len(observed))

\* The number of observed addresses that the slide explains.
Support(s) == Cardinality(Fits(s, observed, Len(observed)))

SlideInv ==
  pc = "finished" =>
    \A s \in Slides : Support(s) <= IF slide = NoSlide THEN 0 ELSE Support(slide)

LEMMA WalksOK ==
  ASSUME workload \in Workloads
  PROVE  /\ Len(Walks) \in Nat /\ DOMAIN Walks = 1..Len(Walks)
         /\ \A w \in 1..Len(Walks) : Walks[w] \in Walk /\ Walks[w].main <= Len(Walks[w].user)
         /\ \A v, w \in 1..Len(Walks) : Walks[v].tid = Walks[w].tid => v = w
<1> DEFINE s == workload.walks
<1>1. /\ s \in Seq(Walk)
      /\ \A i, j \in DOMAIN s : s[i].tid = s[j].tid => i = j
      /\ \A i \in DOMAIN s : s[i].main <= Len(s[i].user)
  BY WorkloadsAssumption
<1>2. Walks = s
  BY DEF Walks
<1> HIDE DEF s
<1>3. Len(s) \in Nat /\ DOMAIN s = 1..Len(s) /\ \A i \in 1..Len(s) : s[i] \in Walk
  BY <1>1, LenProperties, ElementOfSeq
<1> QED BY <1>1, <1>2, <1>3

(* The record to come is one of its walk's.                                *)
LEMMA CurrentRecord ==
  ASSUME PlaceOK, walk <= Len(Walks)
  PROVE  /\ Walks[walk] \in Walk /\ Walks[walk].main <= Len(Walks[walk].user)
         /\ IsRecordOf(Walks[walk], Current, rec)
         /\ Len(WalkRecords(Walks[walk]))
              = 3 + UserLen(Walks[walk]) + KernelLen(Walks[walk])
         /\ UserLen(Walks[walk]) \in Nat /\ KernelLen(Walks[walk]) \in Nat
<1> DEFINE w == Walks[walk]
<1>1. w \in Walk /\ w.main <= Len(w.user)
  <2>1. walk \in 1..Len(Walks)
    BY WalksOK DEF PlaceOK
  <2> QED BY <2>1, WalksOK DEF PlaceOK
<1>2. Current = WalkRecords(w)[rec] /\ rec \in Nat \ {0} /\ rec <= Len(WalkRecords(w))
  BY DEF Current, PlaceOK
<1> HIDE DEF w
<1>3. /\ UserLen(w) \in Nat /\ KernelLen(w) \in Nat
      /\ Len(WalkRecords(w)) = 3 + UserLen(w) + KernelLen(w)
      /\ \A i \in 1..(3 + UserLen(w) + KernelLen(w)) : IsRecordOf(w, WalkRecords(w)[i], i)
  BY <1>1, RecordsOfWalk
<1>4. rec \in 1..(3 + UserLen(w) + KernelLen(w))
  BY <1>2, <1>3
<1> QED BY <1>1, <1>2, <1>3, <1>4 DEF w

LEMMA AdvanceKeepsPlace ==
  ASSUME PlaceOK, walk <= Len(Walks), Advance, workload' = workload
  PROVE  PlaceOK'
<1>0. Len(Walks) \in Nat /\ Walks' = Walks
  BY WalksOK DEF PlaceOK, Walks
<1> DEFINE N == Len(WalkRecords(Walks[walk]))
<1>1. N \in Nat
  BY CurrentRecord
<1>2. CASE rec = N
  <2>1. walk' = walk + 1 /\ rec' = 1
    BY <1>2 DEF Advance
  <2>2. workload' \in Workloads /\ walk' \in 1..(Len(Walks') + 1) /\ rec' \in Nat \ {0}
    BY <1>0, <2>1 DEF PlaceOK
  <2>3. ASSUME walk' <= Len(Walks) PROVE 1 <= Len(WalkRecords(Walks[walk']))
    <3> DEFINE w == Walks[walk']
    <3>1. walk' \in 1..Len(Walks)
      BY <1>0, <2>1, <2>3 DEF PlaceOK
    <3>2. w \in Walk
      BY <3>1, WalksOK DEF PlaceOK
    <3> HIDE DEF w
    <3>3. /\ UserLen(w) \in Nat /\ KernelLen(w) \in Nat
          /\ Len(WalkRecords(w)) = 3 + UserLen(w) + KernelLen(w)
      BY <3>2, RecordsOfWalk
    <3> QED BY <3>3 DEF w
  <2> QED BY <1>0, <2>1, <2>2, <2>3 DEF PlaceOK
<1>3. CASE rec # N
  <2>1. walk' = walk /\ rec' = rec + 1
    BY <1>3 DEF Advance
  <2>2. rec' \in Nat \ {0} /\ rec' <= N
    BY <1>1, <1>3, <2>1 DEF PlaceOK
  <2> QED BY <1>0, <2>1, <2>2 DEF PlaceOK
<1> QED BY <1>2, <1>3

LEMMA StreamInit == Init => StreamInv /\ SlideInv
<1> SUFFICES ASSUME Init PROVE StreamInv /\ SlideInv
  OBVIOUS
<1>1. /\ workload \in Workloads /\ walk = 1 /\ rec = 1 /\ parser = ParserInit
      /\ votes = <<>> /\ observed = <<>> /\ samples = <<>> /\ pc = "new"
  BY DEF Init
<1>2. PlaceOK
  <2>1. Len(Walks) \in Nat
    BY <1>1, WalksOK
  <2>2. ASSUME walk <= Len(Walks) PROVE rec <= Len(WalkRecords(Walks[walk]))
    <3> DEFINE w == Walks[walk]
    <3>1. w \in Walk
      BY <1>1, <2>1, <2>2, WalksOK
    <3> HIDE DEF w
    <3>2. /\ UserLen(w) \in Nat /\ KernelLen(w) \in Nat
          /\ Len(WalkRecords(w)) = 3 + UserLen(w) + KernelLen(w)
      BY <3>1, RecordsOfWalk
    <3> QED BY <1>1, <3>2 DEF w
  <2> QED BY <1>1, <2>1, <2>2 DEF PlaceOK
<1>3. parser \in ParserStates
  BY <1>1, InitialParser
<1>4. IsList(samples) /\ observed \in Seq(KernelAddresses) /\ Len(observed) = 0
  <2>1. IsList(samples)
    BY <1>1 DEF IsList
  <2> QED BY <1>1, <2>1, EmptySeq
<1>5. VotesOK(votes, observed, 0)
  <2>1. \A s : VotesOf(votes, s) = 0
    BY <1>1 DEF VotesOf
  <2>2. votes \in VoteTables
    <3>1. DOMAIN votes = {} /\ votes = [s \in DOMAIN votes |-> votes[s]]
      BY <1>1
    <3> QED BY <3>1, VoteTable
  <2>3. \A s : Cardinality(Fits(s, observed, 0)) = 0
    <3>1. \A s : Fits(s, observed, 0) = {}
      BY DEF Fits
    <3> QED BY <3>1, FS_EmptySet
  <2> QED BY <2>1, <2>2, <2>3 DEF VotesOK
<1> QED BY <1>1, <1>2, <1>3, <1>4, <1>5 DEF StreamInv, SlideInv

(* Every address of a sample votes, whether the sample is reported or not. *)
LEMMA SampleKeeps ==
  ASSUME StreamInv, NEW s, s.kernel \in Seq(KernelAddresses), OnSample(s)
  PROVE  /\ IsList(samples')
         /\ observed' \in Seq(KernelAddresses)
         /\ VotesOK(votes', observed', Len(observed'))
<1>1. votes' = ObserveAll(votes, s.kernel) /\ observed' = observed \o s.kernel
  BY DEF OnSample
<1>2. /\ observed' \in Seq(KernelAddresses)
      /\ VotesOK(votes', observed', Len(observed'))
  BY <1>1, ObserveAllKeeps DEF StreamInv
<1>3. IsList(samples')
  <2>1. samples' = samples \/ samples' = Append(samples, s)
    BY DEF OnSample
  <2>2. IsList(samples)
    BY DEF StreamInv
  <2>3. CASE samples' = samples
    BY <2>2, <2>3 DEF IsList
  <2>4. CASE samples' = Append(samples, s)
    BY <2>2, <2>4, AppendList
  <2> QED BY <2>1, <2>3, <2>4
<1> QED BY <1>2, <1>3

LEMMA SampledAddresses ==
  ASSUME parser \in ParserStates
  PROVE  Sample(parser).kernel \in Seq(KernelAddresses)
<1>1. parser.kernel \in Seq(KernelAddresses \cup {Null})
  BY DEF ParserStates, KernelFrames
<1>2. Null \notin KernelAddresses
  BY DEF KernelAddresses
<1>3. UpToNull(parser.kernel) \in Seq(KernelAddresses)
  BY <1>1, <1>2, UpToNullClean
<1>4. Sample(parser).kernel = UpToNull(parser.kernel)
  BY DEF Sample
<1> QED BY <1>3, <1>4

LEMMA StreamNext == StreamInv /\ [Next]_vars => StreamInv'
<1> SUFFICES ASSUME StreamInv, [Next]_vars PROVE StreamInv'
  OBVIOUS
<1>1. CASE UNCHANGED streamVars
  BY <1>1 DEF StreamInv, streamVars, PlaceOK, Walks
<1>2. CASE ProcessRecord
  <2>1. PlaceOK' /\ workload' = workload
    BY <1>2, AdvanceKeepsPlace DEF ProcessRecord, StreamInv
  <2>2. parser' \in ParserStates
    <3>1. parser' = Feed(parser, Current) /\ walk <= Len(Walks)
      BY <1>2 DEF ProcessRecord
    <3>2. Feed(parser, Current) \in ParserStates
      BY <3>1, CurrentRecord, FeedTyped DEF StreamInv
    <3> QED BY <3>1, <3>2
  <2>3. CASE Current.kind = "end" /\ parser.tid # NoThread
    <3>1. OnSample(Sample(parser))
      BY <1>2, <2>3 DEF ProcessRecord
    <3>2. Sample(parser).kernel \in Seq(KernelAddresses)
      BY SampledAddresses DEF StreamInv
    <3>3. /\ IsList(samples')
          /\ observed' \in Seq(KernelAddresses)
          /\ VotesOK(votes', observed', Len(observed'))
      BY <3>1, <3>2, SampleKeeps
    <3> QED BY <2>1, <2>2, <3>3 DEF StreamInv
  <2>4. CASE UNCHANGED <<votes, observed, samples>>
    BY <2>1, <2>2, <2>4 DEF StreamInv
  <2> QED BY <1>2, <2>3, <2>4 DEF ProcessRecord
<1>3. CASE LoseRecord
  <2>1. PlaceOK'
    BY <1>3, AdvanceKeepsPlace DEF LoseRecord, StreamInv
  <2>2. UNCHANGED <<parser, votes, observed, samples>>
    BY <1>3 DEF LoseRecord
  <2> QED BY <2>1, <2>2 DEF StreamInv
<1>4. ~ UNCHANGED streamVars => ProcessRecord \/ LoseRecord
  BY DEF Next, RescanDue, WalkRegions, RescanNotDue, TickJitdump, Finish, Process,
         AppendDump, vars
<1> QED BY <1>1, <1>2, <1>3, <1>4

LEMMA SlideNext == StreamInv /\ SlideInv /\ [Next]_vars => SlideInv'
<1> SUFFICES ASSUME StreamInv, SlideInv, [Next]_vars, pc' = "finished" PROVE SlideInv'
  BY DEF SlideInv
<1>1. CASE Finish
  <2>1. /\ observed' = observed /\ votes' = votes
        /\ slide' \in (IF DOMAIN votes = {} THEN {NoSlide} ELSE Finalists(votes))
    BY <1>1 DEF Finish, streamVars
  <2>2. /\ DOMAIN votes \subseteq Slides /\ \A s \in DOMAIN votes : votes[s] \in Nat
        /\ \A s \in Slides : Support(s) = VotesOf(votes, s)
    BY VoteTable DEF StreamInv, VotesOK, Support
  <2>3. \A s : Support(s)' = Cardinality(Fits(s, observed', Len(observed')))
    BY DEF Support
  <2>4. \A s : Cardinality(Fits(s, observed', Len(observed'))) = Support(s)
    BY <2>1 DEF Support
  <2>5. Support(slide)' = Support(slide')
    BY <2>1 DEF Support
  <2>6. ASSUME NEW s \in Slides
        PROVE  Support(s) <= IF slide' = NoSlide THEN 0 ELSE Support(slide')
    <3>1. CASE DOMAIN votes = {}
      BY <2>1, <2>2, <3>1 DEF VotesOf
    <3>2. CASE DOMAIN votes # {}
      <4>1. /\ slide' \in DOMAIN votes
            /\ \A t \in DOMAIN votes : votes[t] <= votes[slide']
        BY <2>1, <3>2 DEF Finalists
      <4>2. slide' \in Slides /\ Support(slide') = votes[slide'] /\ votes[slide'] \in Nat
        BY <2>2, <4>1 DEF VotesOf
      <4>3. slide' # NoSlide
        BY <4>2 DEF NoSlide, Slides
      <4>4. VotesOf(votes, s) <= votes[slide']
        BY <4>1, <4>2 DEF VotesOf
      <4> QED BY <2>2, <4>2, <4>3, <4>4
    <3> QED BY <3>1, <3>2
  <2> QED BY <2>3, <2>4, <2>5, <2>6 DEF SlideInv, NoSlide
<1>2. CASE UNCHANGED <<observed, slide>> /\ pc = "finished"
  BY <1>2 DEF SlideInv, NoSlide, Support
<1>3. Finish \/ (UNCHANGED <<observed, slide>> /\ pc = "finished")
  BY DEF Next, ProcessRecord, LoseRecord, RescanDue, WalkRegions, RescanNotDue, TickJitdump,
         Process, AppendDump, vars, streamVars
<1> QED BY <1>1, <1>2, <1>3

LEMMA SlideSafe == StreamInv /\ SlideInv => SlideExplainsMost
<1> SUFFICES ASSUME StreamInv, SlideInv, pc = "finished",
                    NEW n \in DOMAIN observed, NEW s \in 0..observed[n],
                    s % SlideAlignment = 0
             PROVE  Explained(s, observed) <=
                      IF slide = NoSlide THEN 0 ELSE Explained(slide, observed)
  BY DEF SlideExplainsMost
<1>1. s \in Slides
  BY DEF Slides
<1>2. \A t : Explained(t, observed) = Support(t)
  <2>1. DOMAIN observed = 1..Len(observed)
    BY LenProperties DEF StreamInv
  <2> QED BY <2>1 DEF Explained, Support, Fits
<1> QED BY <1>1, <1>2 DEF SlideInv

(* The slide that finish reports explains as many of the observed kernel   *)
(* addresses as any aligned slide does, the true one among them, wherever  *)
(* the addresses lie, whatever records were lost and however many voted;   *)
(* none is reported only if none explains anything                         *)
(* (SlideEstimator::observe, finalize).                                    *)
THEOREM TheSlideFitsBest == Spec => []SlideExplainsMost
<1>1. StreamInv /\ SlideInv /\ [Next]_vars => StreamInv' /\ SlideInv'
  BY StreamNext, SlideNext
<1>2. Init => StreamInv /\ SlideInv
  BY StreamInit
<1>3. StreamInv /\ SlideInv => SlideExplainsMost
  BY SlideSafe
<1> QED BY <1>1, <1>2, <1>3, PTL DEF Spec

-----------------------------------------------------------------------------
(* A walk that lost no record, as far as it has been read.                 *)

\* The frames read of a stack of which j records have been read: its header
\* and j - 1 chunks.
Seen(frames, j) ==
  IF j <= 0 THEN 0
  ELSE IF ChunkWidth * (j - 1) < Len(frames) THEN ChunkWidth * (j - 1) ELSE Len(frames)

ReadSoFar(frames, j, got, left) ==
  /\ Len(got) = Seen(frames, j)
  /\ \A i \in 1..Len(got) : got[i] = frames[i]
  /\ frames # <<>> /\ j > 0 => left = Len(frames) - Seen(frames, j)

LEMMA SeenAll ==
  ASSUME NEW frames, Len(frames) \in Nat, NEW j \in Int
  PROVE  /\ Seen(frames, j) \in 0..Len(frames)
         /\ j > NumChunks(Len(frames)) => Seen(frames, j) = Len(frames)
         /\ \A c \in 1..NumChunks(Len(frames)) :
              j = c => /\ Seen(frames, j) = ChunkWidth * (c - 1)
                       /\ Seen(frames, j + 1) = Seen(frames, j) + Taken(Len(frames) - Seen(frames, j))
<1> DEFINE W == ChunkWidth
           N == Len(frames)
           K == NumChunks(N)
<1>1. W \in Nat \ {0} /\ N \in Nat
  BY ParserAssumption
<1>2. K \in Nat /\ N <= W * K /\ \A c \in 1..K : W * (c - 1) < N
  BY <1>1, ChunkCount
<1> HIDE DEF W, N, K
<1>3. ASSUME NEW k \in Nat PROVE W * k \in Nat
  BY <1>1
<1>4. Seen(frames, j) = IF j <= 0 THEN 0 ELSE IF W * (j - 1) < N THEN W * (j - 1) ELSE N
  BY DEF Seen, W, N
<1>5. Seen(frames, j) \in 0..N
  <2>1. CASE j <= 0
    BY <1>1, <1>4, <2>1
  <2>2. CASE ~ (j <= 0)
    <3> DEFINE p == W * (j - 1)
    <3>1. p \in Nat
      BY <1>3, <2>2
    <3>2. Seen(frames, j) = IF p < N THEN p ELSE N
      BY <1>4, <2>2
    <3> HIDE DEF p
    <3> QED BY <1>1, <3>1, <3>2
  <2> QED BY <2>1, <2>2
<1>6. ASSUME j > K PROVE Seen(frames, j) = N
  <2> DEFINE p == W * (j - 1)
             q == W * K
  <2>1. q <= p /\ q \in Nat /\ p \in Nat
    BY <1>1, <1>2, <1>6
  <2>2. Seen(frames, j) = IF p < N THEN p ELSE N
    BY <1>2, <1>4, <1>6
  <2>3. N <= q
    BY <1>2
  <2> HIDE DEF p, q
  <2> QED BY <1>1, <2>1, <2>2, <2>3
<1>7. ASSUME NEW c \in 1..K, j = c
      PROVE  /\ Seen(frames, j) = W * (c - 1)
             /\ Seen(frames, j + 1) = Seen(frames, j) + Taken(N - Seen(frames, j))
  <2> DEFINE p == W * (c - 1)
             q == W * c
  <2>0. c - 1 \in Nat /\ c \in Nat
    BY <1>2
  <2>1. p \in Nat /\ q = p + W /\ p < N
    <3>1. p \in Nat
      BY <1>3, <2>0
    <3>2. p < N
      BY <1>2
    <3>3. W * c = W * (c - 1) + W
      BY <1>1, <2>0
    <3> QED BY <3>1, <3>2, <3>3
  <2>2. Seen(frames, j) = p
    <3>1. ~ (j <= 0) /\ W * (j - 1) = p
      BY <1>7
    <3> HIDE DEF p
    <3> QED BY <1>4, <2>1, <3>1
  <2>3. Seen(frames, j + 1) = IF q < N THEN q ELSE N
    <3>1. ~ (j + 1 <= 0) /\ W * ((j + 1) - 1) = q
      BY <1>7
    <3> HIDE DEF q
    <3> QED BY <3>1 DEF Seen, W, N
  <2>4. Taken(N - p) = IF N - p < W THEN N - p ELSE W
    BY DEF Taken, W
  <2> HIDE DEF p, q
  <2> QED BY <1>1, <2>1, <2>2, <2>3, <2>4 DEF p
<1> QED BY <1>5, <1>6, <1>7 DEF K, N, W

\* A chunk in its turn.
LEMMA ReadChunk ==
  ASSUME NEW S, NEW frames \in Seq(S), NEW kind, NEW c \in 1..NumChunks(Len(frames)),
         NEW T, NEW got \in Seq(T), S \cup {Null} \subseteq T,
         NEW left \in Nat, frames # <<>>, ReadSoFar(frames, c, got, left)
  PROVE  ReadSoFar(frames, c + 1, got \o Chunk(ChunkRecord(frames, kind, c), left), Left(left))
<1> DEFINE chunk == Chunk(ChunkRecord(frames, kind, c), left)
           n == Seen(frames, c)
           m == Taken(left)
           all == got \o chunk
<1>0. Len(frames) \in Nat /\ c \in Nat \ {0} /\ c \in Int
  <2>1. Len(frames) \in Nat
    BY LenProperties
  <2> QED BY <2>1, ChunkCount
<1>1. /\ chunk \in Seq(S \cup {Null}) /\ Len(chunk) = m
      /\ \A i \in 1..m : chunk[i] = IF ChunkWidth * (c - 1) + i <= Len(frames)
                                    THEN frames[ChunkWidth * (c - 1) + i] ELSE 0
      /\ m \in Nat /\ Left(left) = left - m
  <2>1. c \in Nat \ {0}
    BY <1>0
  <2>2. frames \in Seq(S) /\ left \in Nat
    OBVIOUS
  <2>3. ChunkIs(S, frames, kind, c, left)
    BY <2>1, <2>2, ChunkFrames, Zenon
  <2> QED BY <2>3, Zenon DEF ChunkIs
<1>2. /\ Len(got) = n /\ \A i \in 1..n : got[i] = frames[i]
      /\ left = Len(frames) - n
  BY <1>0 DEF ReadSoFar
<1>3. /\ n = ChunkWidth * (c - 1) /\ n \in 0..Len(frames)
      /\ Seen(frames, c + 1) = n + m
      /\ Seen(frames, c + 1) \in 0..Len(frames)
  <2>1. c + 1 \in Int
    BY <1>0
  <2> QED BY <1>0, <1>2, <2>1, SeenAll
<1> HIDE DEF chunk, n, m
<1>4. chunk \in Seq(T)
  <2>1. \A i \in 1..Len(chunk) : chunk[i] \in T
    BY <1>1, ElementOfSeq
  <2>2. Len(chunk) \in Nat /\ chunk \in [1..Len(chunk) -> S \cup {Null}]
    BY <1>1, LenProperties
  <2>3. chunk \in [1..Len(chunk) -> T]
    BY <2>1, <2>2
  <2> QED BY <2>2, <2>3, IsASeq
<1>5. /\ Len(all) = Len(got) + Len(chunk)
      /\ \A i \in 1..(Len(got) + Len(chunk)) :
           all[i] = IF i <= Len(got) THEN got[i] ELSE chunk[i - Len(got)]
  BY <1>4, ConcatProperties
<1> HIDE DEF all
<1>6. Len(all) = Seen(frames, c + 1)
  BY <1>1, <1>2, <1>3, <1>5
<1>7. ASSUME NEW i \in 1..Len(all) PROVE all[i] = frames[i]
  <2>0. i \in 1..(n + m) /\ n \in Nat
    BY <1>1, <1>2, <1>3, <1>5
  <2>1. all[i] = IF i <= n THEN got[i] ELSE chunk[i - n]
    BY <1>1, <1>2, <1>5, <2>0
  <2>2. CASE i <= n
    BY <1>2, <2>0, <2>1, <2>2
  <2>3. CASE ~ (i <= n)
    <3>1. i - n \in 1..m /\ n + (i - n) = i
      BY <1>1, <2>0, <2>3
    <3>2. i <= Len(frames)
      BY <1>0, <1>1, <1>3, <2>0
    <3>3. chunk[i - n] = IF n + (i - n) <= Len(frames) THEN frames[n + (i - n)] ELSE 0
      BY <1>1, <1>3, <3>1
    <3> QED BY <2>1, <2>3, <3>1, <3>2, <3>3
  <2> QED BY <2>2, <2>3
<1>8. Left(left) = Len(frames) - Seen(frames, c + 1)
  BY <1>0, <1>1, <1>2, <1>3
<1> QED BY <1>6, <1>7, <1>8 DEF ReadSoFar, all, chunk

\* A record of another part of the walk.
LEMMA ReadOther ==
  ASSUME NEW frames, Len(frames) \in Nat, NEW j \in Int, NEW got, NEW left,
         ReadSoFar(frames, j, got, left),
         frames = <<>> \/ j < 0 \/ j > NumChunks(Len(frames))
  PROVE  ReadSoFar(frames, j + 1, got, left)
<1>0. NumChunks(Len(frames)) \in Nat
  BY ChunkCount
<1>1. CASE frames = <<>>
  <2>1. Len(frames) = 0
    BY <1>1
  <2>2. Seen(frames, j) \in 0..0 /\ Seen(frames, j + 1) \in 0..0
    BY <2>1, SeenAll
  <2>3. Seen(frames, j) = Seen(frames, j + 1)
    BY <2>2
  <2> QED BY <1>1, <2>3 DEF ReadSoFar
<1>2. CASE j < 0
  <2>1. Seen(frames, j) = 0 /\ Seen(frames, j + 1) = 0 /\ ~ (j + 1 > 0)
    BY <1>2 DEF Seen
  <2> QED BY <2>1 DEF ReadSoFar
<1>3. CASE j > NumChunks(Len(frames))
  <2>1. j + 1 \in Int /\ j + 1 > NumChunks(Len(frames)) /\ j > 0
    BY <1>0, <1>3
  <2>2. Seen(frames, j) = Seen(frames, j + 1)
    BY <1>3, <2>1, SeenAll
  <2> QED BY <2>1, <2>2 DEF ReadSoFar
<1> QED BY <1>1, <1>2, <1>3

\* The whole stack.
LEMMA ReadWhole ==
  ASSUME NEW S, NEW frames \in Seq(S), NEW T, NEW got \in Seq(T), NEW j \in Int, NEW left,
         ReadSoFar(frames, j, got, left), frames = <<>> \/ j > NumChunks(Len(frames))
  PROVE  got = frames
<1>1. Len(frames) \in Nat
  BY LenProperties
<1>2. Seen(frames, j) = Len(frames)
  <2>1. CASE frames = <<>>
    <3>1. Len(frames) = 0
      BY <2>1
    <3>2. Seen(frames, j) \in 0..0
      BY <1>1, <3>1, SeenAll
    <3> QED BY <3>1, <3>2
  <2> QED BY <1>1, <2>1, SeenAll
<1>3. Len(got) = Len(frames) /\ \A i \in 1..Len(got) : got[i] = frames[i]
  BY <1>2 DEF ReadSoFar
<1>4. got = [i \in 1..Len(got) |-> got[i]] /\ frames = [i \in 1..Len(frames) |-> frames[i]]
  BY LenProperties
<1>5. [i \in 1..Len(got) |-> got[i]] = [i \in 1..Len(frames) |-> frames[i]]
  BY <1>3
<1> QED BY <1>4, <1>5, Zenon

LEMMA ReadNothing ==
  ASSUME NEW frames, NEW j \in Int, j <= 0, NEW left
  PROVE  ReadSoFar(frames, j, <<>>, left)
<1>1. Seen(frames, j) = 0 /\ Len(<<>>) = 0
  BY DEF Seen
<1> QED BY <1>1 DEF ReadSoFar

LEMMA ReadHeader ==
  ASSUME NEW frames, Len(frames) \in Nat, NEW got, NEW left,
         ReadSoFar(frames, 0, got, left)
  PROVE  ReadSoFar(frames, 1, got, Len(frames))
<1>1. Seen(frames, 0) = 0 /\ Seen(frames, 1) = 0
  <2>1. ChunkWidth * (1 - 1) = 0
    BY ParserAssumption
  <2> QED BY <2>1 DEF Seen
<1>2. Len(got) = 0
  BY <1>1 DEF ReadSoFar
<1> QED BY <1>1, <1>2 DEF ReadSoFar

(* The parser after j records of a walk, none of which was lost.           *)
Expected(w, p, j) ==
  /\ p.tid = w.tid
  /\ p.pmc = IF j < 2 THEN <<>> ELSE w.pmc
  /\ p.userMain = IF w.user = <<>> \/ j < 3 THEN 0 ELSE w.main
  /\ ReadSoFar(w.user, j - 2, p.user, p.userLeft)
  /\ ReadSoFar(w.kernel, j - 2 - UserLen(w), p.kernel, p.kernelLeft)

\* How long the records of a stack are.
LEMMA StackLenOf ==
  \A frames : Len(frames) \in Nat =>
    /\ StackLen(frames) \in Nat /\ NumChunks(Len(frames)) \in Nat
    /\ frames = <<>> => StackLen(frames) = 0
    /\ frames # <<>> => StackLen(frames) = 1 + NumChunks(Len(frames))
<1> SUFFICES ASSUME NEW frames, Len(frames) \in Nat
             PROVE  /\ StackLen(frames) \in Nat /\ NumChunks(Len(frames)) \in Nat
                    /\ frames = <<>> => StackLen(frames) = 0
                    /\ frames # <<>> => StackLen(frames) = 1 + NumChunks(Len(frames))
  OBVIOUS
<1>1. NumChunks(Len(frames)) \in Nat
  BY ChunkCount
<1> QED BY <1>1 DEF StackLen

LEMMA ExpectedStart ==
  ASSUME NEW w \in Walk, NEW p \in ParserStates
  PROVE  Expected(w, Feed(p, StartRecord(w)), 1)
<1> DEFINE r == StartRecord(w)
           q == ParserState(w.tid, <<>>, <<>>, <<>>, 0, 0, 0)
<1>1. FeedCases(p, r)
  BY FeedByKind
<1>2. r.kind = "start" /\ r.tid = w.tid
  BY DEF StartRecord
<1>3. Feed(p, r) = q
  BY <1>1, <1>2 DEF FeedCases
<1>4. /\ q.tid = w.tid /\ q.user = <<>> /\ q.kernel = <<>> /\ q.pmc = <<>>
      /\ q.userMain = 0 /\ q.userLeft = 0 /\ q.kernelLeft = 0
  BY DEF ParserState
<1> HIDE DEF q, r
<1>5. UserLen(w) \in Nat
  BY WalkTyped, StackLenOf DEF UserLen
<1>6. /\ ReadSoFar(w.user, 1 - 2, q.user, q.userLeft)
      /\ ReadSoFar(w.kernel, 1 - 2 - UserLen(w), q.kernel, q.kernelLeft)
  <2>1. 1 - 2 \in Int /\ 1 - 2 <= 0 /\ 1 - 2 - UserLen(w) \in Int /\ 1 - 2 - UserLen(w) <= 0
    BY <1>5
  <2> QED BY <1>4, <2>1, ReadNothing
<1> QED BY <1>3, <1>4, <1>6 DEF Expected, r

LEMMA ExpectedNext ==
  ASSUME NEW w \in Walk, w.main <= Len(w.user), NEW p \in ParserStates, NEW r,
         NEW i \in 2..(2 + UserLen(w) + KernelLen(w)), IsRecordOf(w, r, i),
         Expected(w, p, i - 1)
  PROVE  Expected(w, Feed(p, r), i)
<1> DEFINE U == UserLen(w)
           K == KernelLen(w)
           q == Feed(p, r)
<1>0. /\ w.tid \in Nat /\ w.tid # NoThread /\ w.main \in Nat /\ w.pmc \in Seq(Nat)
      /\ Len(w.user) \in Nat /\ Len(w.kernel) \in Nat
      /\ w.user \in Seq(Nat) /\ w.kernel \in Seq(KernelAddresses)
  BY WalkTyped
<1>1. /\ U \in Nat /\ NumChunks(Len(w.user)) \in Nat
      /\ w.user = <<>> => U = 0
      /\ w.user # <<>> => U = 1 + NumChunks(Len(w.user))
      /\ K \in Nat /\ NumChunks(Len(w.kernel)) \in Nat
      /\ w.kernel = <<>> => K = 0
      /\ w.kernel # <<>> => K = 1 + NumChunks(Len(w.kernel))
  BY <1>0, StackLenOf DEF UserLen, KernelLen
<1>2. FeedCases(p, r)
  BY FeedByKind
<1>3. /\ p.tid = w.tid /\ p.tid # NoThread
      /\ p.pmc = IF i - 1 < 2 THEN <<>> ELSE w.pmc
      /\ p.userMain = IF w.user = <<>> \/ i - 1 < 3 THEN 0 ELSE w.main
      /\ ReadSoFar(w.user, i - 1 - 2, p.user, p.userLeft)
      /\ ReadSoFar(w.kernel, i - 1 - 2 - U, p.kernel, p.kernelLeft)
  BY <1>0 DEF Expected
<1>4. /\ p.user \in Seq(Nat) /\ p.kernel \in Seq(KernelFrames) /\ p.pmc \in Seq(Nat)
      /\ p.userLeft \in Nat /\ p.kernelLeft \in Nat
  BY DEF ParserStates
<1>14. i \in 2..(2 + U + K)
  OBVIOUS
<1> HIDE DEF U, K
<1>5. /\ i \in Int /\ i >= 2 /\ i <= 2 + U + K
      /\ i - 1 - 2 \in Int /\ i - 1 - 2 - U \in Int
      /\ (i - 1 - 2) + 1 = i - 2 /\ (i - 1 - 2 - U) + 1 = i - 2 - U
  BY <1>1, <1>14
<1>6. ASSUME w.user = <<>> \/ i - 1 - 2 < 0 \/ i - 1 - 2 > NumChunks(Len(w.user))
      PROVE  ReadSoFar(w.user, i - 2, p.user, p.userLeft)
  BY <1>0, <1>3, <1>5, <1>6, ReadOther
<1>7. ASSUME w.kernel = <<>> \/ i - 1 - 2 - U < 0 \/ i - 1 - 2 - U > NumChunks(Len(w.kernel))
      PROVE  ReadSoFar(w.kernel, i - 2 - U, p.kernel, p.kernelLeft)
  BY <1>0, <1>3, <1>5, <1>7, ReadOther
<1>8. CASE i = 2 /\ r = CountersRecord(w)
  <2> DEFINE got == p.pmc \o r.frames
  <2>1. r.kind = "kpc" /\ r.frames = w.pmc
    BY <1>8 DEF CountersRecord
  <2>2. q = ParserState(p.tid, p.user, p.kernel, got,
                        p.userMain, p.userLeft, p.kernelLeft)
    BY <1>2, <1>3, <2>1, Zenon DEF FeedCases
  <2>3. p.pmc = <<>> /\ p.userMain = 0
    BY <1>3, <1>8
  <2>4. <<>> \o w.pmc = w.pmc
    <3> HIDE DEF q
    <3> QED BY <1>0, ConcatEmptySeq
  <2> HIDE DEF got
  <2>5. /\ q.tid = p.tid /\ q.user = p.user /\ q.kernel = p.kernel /\ q.pmc = got
        /\ q.userMain = p.userMain /\ q.userLeft = p.userLeft /\ q.kernelLeft = p.kernelLeft
    BY <2>2 DEF ParserState
  <2> HIDE DEF q
  <2>6. /\ ReadSoFar(w.user, i - 2, q.user, q.userLeft)
        /\ ReadSoFar(w.kernel, i - 2 - U, q.kernel, q.kernelLeft)
    BY <1>1, <1>6, <1>7, <1>8, <2>5
  <2>7. q.pmc = w.pmc
    BY <2>1, <2>3, <2>4, <2>5 DEF got
  <2> QED BY <1>3, <1>8, <2>3, <2>5, <2>6, <2>7 DEF Expected, q, U
<1>9. CASE w.user # <<>> /\ i = 3 /\ r = UserHeaderRecord(w)
  <2>1. r.kind = "uhdr" /\ r.main = w.main /\ r.async = Len(w.user) - w.main
    BY <1>9 DEF UserHeaderRecord
  <2>2. q = ParserState(p.tid, p.user, p.kernel, p.pmc, r.main, r.main + r.async, p.kernelLeft)
    BY <1>2, <1>3, <2>1, Zenon DEF FeedCases
  <2>3. r.main + r.async = Len(w.user)
    BY <1>0, <2>1
  <2>4. /\ q.tid = p.tid /\ q.user = p.user /\ q.kernel = p.kernel /\ q.pmc = p.pmc
        /\ q.userMain = w.main /\ q.userLeft = Len(w.user) /\ q.kernelLeft = p.kernelLeft
    BY <2>1, <2>2, <2>3 DEF ParserState
  <2> HIDE DEF q
  <2>5. ReadSoFar(w.user, i - 2, q.user, q.userLeft)
    <3>1. i - 1 - 2 = 0 /\ i - 2 = 1
      BY <1>9
    <3> QED BY <1>0, <1>3, <2>4, <3>1, ReadHeader
  <2>6. ReadSoFar(w.kernel, i - 2 - U, q.kernel, q.kernelLeft)
    BY <1>1, <1>7, <1>9, <2>4
  <2> QED BY <1>3, <1>9, <2>4, <2>5, <2>6 DEF Expected, q, U
<1>10. ASSUME w.user # <<>>, NEW c \in 1..NumChunks(Len(w.user)), i = 3 + c,
              r = ChunkRecord(w.user, "udata", c)
       PROVE  Expected(w, q, i)
  <2> DEFINE got == p.user \o Chunk(r, p.userLeft)
             left == Left(p.userLeft)
  <2>1. r.kind = "udata"
    BY <1>10 DEF ChunkRecord
  <2>2. q = ParserState(p.tid, got, p.kernel, p.pmc,
                        p.userMain, left, p.kernelLeft)
    BY <1>2, <1>3, <2>1, Zenon DEF FeedCases
  <2> HIDE DEF q, got, left
  <2>3. /\ q.tid = p.tid /\ q.user = got /\ q.kernel = p.kernel /\ q.pmc = p.pmc
        /\ q.userMain = p.userMain /\ q.userLeft = left /\ q.kernelLeft = p.kernelLeft
    BY <2>2 DEF ParserState
  <2>4. c \in Int /\ c >= 1 /\ c <= NumChunks(Len(w.user)) /\ i - 1 - 2 = c /\ i - 2 = c + 1
    <3> DEFINE n == NumChunks(Len(w.user))
    <3>1. n \in Nat /\ c \in 1..n /\ i = 3 + c
      BY <1>1, <1>10
    <3> HIDE DEF n
    <3> QED BY <3>1 DEF n
  <2>5. ReadSoFar(w.user, c + 1, got, left)
    <3>1. Nat \cup {Null} \subseteq Nat
      BY DEF Null
    <3>2. ReadSoFar(w.user, c, p.user, p.userLeft)
      BY <1>3, <2>4
    <3> QED BY <1>0, <1>4, <1>10, <3>1, <3>2, ReadChunk DEF got, left
  <2>6. ReadSoFar(w.user, i - 2, q.user, q.userLeft)
    BY <2>3, <2>4, <2>5
  <2>7. ReadSoFar(w.kernel, i - 2 - U, q.kernel, q.kernelLeft)
    BY <1>1, <1>7, <1>10, <2>3, <2>4
  <2> QED BY <1>3, <1>10, <2>3, <2>4, <2>6, <2>7 DEF Expected, q, U
<1>11. CASE w.kernel # <<>> /\ i = 3 + U /\ r = KernelHeaderRecord(w)
  <2>1. r.kind = "khdr" /\ r.main = Len(w.kernel) /\ r.async = 0
    BY <1>11 DEF KernelHeaderRecord
  <2>2. q = ParserState(p.tid, p.user, p.kernel, p.pmc,
                        p.userMain, p.userLeft, r.main + r.async)
    BY <1>2, <1>3, <2>1, Zenon DEF FeedCases
  <2>3. r.main + r.async = Len(w.kernel)
    BY <1>0, <2>1
  <2>4. /\ q.tid = p.tid /\ q.user = p.user /\ q.kernel = p.kernel /\ q.pmc = p.pmc
        /\ q.userMain = p.userMain /\ q.userLeft = p.userLeft /\ q.kernelLeft = Len(w.kernel)
    BY <2>2, <2>3 DEF ParserState
  <2> HIDE DEF q
  <2>5. ReadSoFar(w.kernel, i - 2 - U, q.kernel, q.kernelLeft)
    <3>1. i - 1 - 2 - U = 0 /\ i - 2 - U = 1
      BY <1>1, <1>11
    <3> QED BY <1>0, <1>3, <2>4, <3>1, ReadHeader
  <2>6. ReadSoFar(w.user, i - 2, q.user, q.userLeft)
    BY <1>1, <1>6, <1>11, <2>4
  <2>7. (w.user # <<>> => ~ (i - 1 < 3) /\ ~ (i < 3)) /\ ~ (i < 2) /\ ~ (i - 1 < 2)
    BY <1>1, <1>11
  <2>8. q.userMain = IF w.user = <<>> \/ i < 3 THEN 0 ELSE w.main
    BY <1>3, <2>4, <2>7
  <2>9. q.pmc = IF i < 2 THEN <<>> ELSE w.pmc
    BY <1>3, <2>4, <2>7
  <2>10. q.tid = w.tid
    BY <1>3, <2>4
  <2> QED BY <2>5, <2>6, <2>8, <2>9, <2>10, Zenon DEF Expected, q, U
<1>12. ASSUME w.kernel # <<>>, NEW c \in 1..NumChunks(Len(w.kernel)), i = 3 + U + c,
              r = ChunkRecord(w.kernel, "kdata", c)
       PROVE  Expected(w, q, i)
  <2> DEFINE got == p.kernel \o Chunk(r, p.kernelLeft)
             left == Left(p.kernelLeft)
  <2>1. r.kind = "kdata"
    BY <1>12 DEF ChunkRecord
  <2>2. q = ParserState(p.tid, p.user, got, p.pmc,
                        p.userMain, p.userLeft, left)
    BY <1>2, <1>3, <2>1, Zenon DEF FeedCases
  <2> HIDE DEF q, got, left
  <2>3. /\ q.tid = p.tid /\ q.kernel = got /\ q.user = p.user /\ q.pmc = p.pmc
        /\ q.userMain = p.userMain /\ q.kernelLeft = left /\ q.userLeft = p.userLeft
    BY <2>2 DEF ParserState
  <2>4. /\ c \in Int /\ c >= 1 /\ c <= NumChunks(Len(w.kernel))
        /\ i - 1 - 2 - U = c /\ i - 2 - U = c + 1
    BY <1>1, <1>12
  <2>5. ReadSoFar(w.kernel, c + 1, got, left)
    <3>1. KernelAddresses \cup {Null} \subseteq KernelFrames
      BY DEF KernelFrames
    <3>2. ReadSoFar(w.kernel, c, p.kernel, p.kernelLeft)
      BY <1>3, <2>4
    <3> QED BY <1>0, <1>4, <1>12, <3>1, <3>2, ReadChunk DEF got, left
  <2>6. ReadSoFar(w.kernel, i - 2 - U, q.kernel, q.kernelLeft)
    BY <2>3, <2>4, <2>5
  <2>7. ReadSoFar(w.user, i - 2, q.user, q.userLeft)
    BY <1>1, <1>6, <1>12, <2>3, <2>4
  <2>8. (w.user # <<>> => ~ (i - 1 < 3) /\ ~ (i < 3)) /\ ~ (i < 2) /\ ~ (i - 1 < 2)
    BY <1>1, <1>5, <2>4
  <2>9. q.userMain = IF w.user = <<>> \/ i < 3 THEN 0 ELSE w.main
    BY <1>3, <2>3, <2>8
  <2>10. q.pmc = IF i < 2 THEN <<>> ELSE w.pmc
    BY <1>3, <2>3, <2>8
  <2>11. q.tid = w.tid
    BY <1>3, <2>3
  <2> QED BY <2>6, <2>7, <2>9, <2>10, <2>11, Zenon DEF Expected, q, U
<1>13. i # 1 /\ i # 3 + U + K
  <2>1. U \in Nat /\ K \in Nat /\ i \in Int /\ i >= 2 /\ i <= 2 + U + K
    BY <1>1, <1>5
  <2> QED BY <2>1
<1> QED BY <1>8, <1>9, <1>10, <1>11, <1>12, <1>13 DEF IsRecordOf, q, U, K

(* What END finds in the parser.                                           *)
LEMMA ExpectedWhole ==
  ASSUME NEW w \in Walk, NEW p \in ParserStates,
         Expected(w, p, 2 + UserLen(w) + KernelLen(w))
  PROVE  /\ p.tid = w.tid /\ p.user = w.user /\ p.kernel = w.kernel /\ p.pmc = w.pmc
         /\ p.userMain = IF w.user = <<>> THEN 0 ELSE w.main
<1> DEFINE U == UserLen(w)
           K == KernelLen(w)
           j == 2 + U + K
<1>0. /\ Len(w.user) \in Nat /\ Len(w.kernel) \in Nat
      /\ w.user \in Seq(Nat) /\ w.kernel \in Seq(KernelAddresses)
  BY WalkTyped
<1>1. /\ U \in Nat /\ NumChunks(Len(w.user)) \in Nat
      /\ w.user = <<>> => U = 0
      /\ w.user # <<>> => U = 1 + NumChunks(Len(w.user))
      /\ K \in Nat /\ NumChunks(Len(w.kernel)) \in Nat
      /\ w.kernel = <<>> => K = 0
      /\ w.kernel # <<>> => K = 1 + NumChunks(Len(w.kernel))
  BY <1>0, StackLenOf DEF UserLen, KernelLen
<1>2. p.user \in Seq(Nat) /\ p.kernel \in Seq(KernelFrames)
  BY DEF ParserStates
<1>3. /\ p.tid = w.tid /\ p.pmc = IF j < 2 THEN <<>> ELSE w.pmc
      /\ p.userMain = IF w.user = <<>> \/ j < 3 THEN 0 ELSE w.main
      /\ ReadSoFar(w.user, j - 2, p.user, p.userLeft)
      /\ ReadSoFar(w.kernel, j - 2 - U, p.kernel, p.kernelLeft)
  BY DEF Expected
<1> HIDE DEF U, K
<1>4. p.user = w.user
  <2>1. j - 2 \in Int /\ (w.user = <<>> \/ j - 2 > NumChunks(Len(w.user)))
    BY <1>1
  <2> HIDE DEF j
  <2> QED BY <1>0, <1>2, <1>3, <2>1, ReadWhole
<1>5. p.kernel = w.kernel
  <2>1. j - 2 - U \in Int /\ (w.kernel = <<>> \/ j - 2 - U > NumChunks(Len(w.kernel)))
    BY <1>1
  <2> HIDE DEF j
  <2> QED BY <1>0, <1>2, <1>3, <2>1, ReadWhole
<1>6. ~ (j < 2) /\ (w.user # <<>> => ~ (j < 3))
  BY <1>1
<1> QED BY <1>3, <1>4, <1>5, <1>6

-----------------------------------------------------------------------------
(* The call stack of a walk that was read whole.                           *)

LEMMA Part ==
  \A s \in Seq(Nat) : \A a, b \in Nat :
    a > 0 /\ a <= b + 1 /\ b <= Len(s) =>
      /\ SubSeq(s, a, b) \in Seq(Nat)
      /\ Len(SubSeq(s, a, b)) = (b - a) + 1
      /\ \A i \in 1..((b - a) + 1) : SubSeq(s, a, b)[i] = s[(a + i) - 1]
<1> SUFFICES ASSUME NEW s \in Seq(Nat), NEW a \in Nat, NEW b \in Nat,
                    a > 0, a <= b + 1, b <= Len(s)
             PROVE  /\ SubSeq(s, a, b) \in Seq(Nat)
                    /\ Len(SubSeq(s, a, b)) = (b - a) + 1
                    /\ \A i \in 1..((b - a) + 1) : SubSeq(s, a, b)[i] = s[(a + i) - 1]
  OBVIOUS
<1>1. Len(s) \in Nat /\ \A i \in 1..Len(s) : s[i] \in Nat
  BY LenProperties, ElementOfSeq
<1>2. \A i \in a..b : s[i] \in Nat
  BY <1>1
<1> DEFINE t == SubSeq(s, a, b)
<1>3. /\ t \in Seq(Nat)
      /\ Len(t) = IF a <= b THEN b - a + 1 ELSE 0
      /\ \A i \in 1..(b - a + 1) : t[i] = s[a + i - 1]
  BY <1>2, SubSeqProperties
<1> HIDE DEF t
<1>4. Len(t) = (b - a) + 1
  BY <1>3
<1> QED BY <1>3, <1>4 DEF t

LEMMA JoinNumbers ==
  \A s, t \in Seq(Nat) :
    /\ s \o t \in Seq(Nat) /\ Len(s \o t) = Len(s) + Len(t)
    /\ Len(s) \in Nat /\ Len(t) \in Nat
    /\ \A i \in 1..(Len(s) + Len(t)) :
         (s \o t)[i] = IF i <= Len(s) THEN s[i] ELSE t[i - Len(s)]
BY ConcatProperties, LenProperties

LEMMA EmptyJoin == \A s \in Seq(Nat) : s \o <<>> = s /\ <<>> \o s = s
BY ConcatEmptySeq

LEMMA NoNull ==
  \A frames : (\A i \in DOMAIN frames : frames[i] # Null) => UpToNull(frames) = frames
BY DEF UpToNull

LEMMA FirstNull ==
  \A frames \in Seq(Nat) : \A k \in 1..Len(frames) :
    frames[k] = Null /\ (\A i \in 1..(k - 1) : frames[i] # Null)
      => UpToNull(frames) = SubSeq(frames, 1, k - 1)
<1> SUFFICES ASSUME NEW frames \in Seq(Nat), NEW k \in 1..Len(frames),
                    frames[k] = Null, \A i \in 1..(k - 1) : frames[i] # Null
             PROVE  UpToNull(frames) = SubSeq(frames, 1, k - 1)
  OBVIOUS
<1> DEFINE nulls == {i \in DOMAIN frames : frames[i] = Null}
           first == CHOOSE i \in nulls : \A j \in nulls : i <= j
<1>1. Len(frames) \in Nat /\ DOMAIN frames = 1..Len(frames)
  BY LenProperties
<1>2. k \in nulls /\ \A j \in nulls : k <= j
  <2>1. ASSUME NEW j \in nulls PROVE k <= j
    <3>1. j \in 1..Len(frames) /\ frames[j] = Null
      BY <1>1
    <3>2. j \notin 1..(k - 1)
      BY <3>1
    <3> QED BY <1>1, <3>1, <3>2
  <2> QED BY <1>1, <2>1
<1>3. first \in nulls /\ \A j \in nulls : first <= j
  <2> HIDE DEF nulls
  <2> QED BY <1>2
<1>4. UpToNull(frames) = SubSeq(frames, 1, first - 1)
  <2>1. nulls # {}
    BY <1>2
  <2> QED BY <2>1 DEF UpToNull
<1>5. nulls \subseteq Nat
  BY <1>1
<1> HIDE DEF nulls, first
<1>6. first = k
  <2>1. first \in Nat /\ k \in Nat /\ first <= k /\ k <= first
    BY <1>2, <1>3, <1>5
  <2> QED BY <2>1
<1> QED BY <1>4, <1>6

\* What is before a NULL is all that counts.
LEMMA BeforeNull ==
  \A frames \in Seq(Nat) : \A m \in 1..Len(frames) :
    frames[m] = Null => UpToNull(frames) = UpToNull(SubSeq(frames, 1, m - 1))
<1> SUFFICES ASSUME NEW frames \in Seq(Nat), NEW m \in 1..Len(frames), frames[m] = Null
             PROVE  UpToNull(frames) = UpToNull(SubSeq(frames, 1, m - 1))
  OBVIOUS
<1> DEFINE g == SubSeq(frames, 1, m - 1)
           T == {i \in 1..m : frames[i] = Null}
<1>0. Len(frames) \in Nat /\ m \in Nat /\ m >= 1 /\ m <= Len(frames)
  BY LenProperties
<1>1. T # {} /\ T \subseteq Nat
  BY <1>0
<1>2. PICK k \in T : \A i \in T : ~ (i < k)
  BY <1>1, LeastNumber
<1>3. /\ k \in 1..m /\ k \in 1..Len(frames) /\ k \in Nat /\ k >= 1 /\ k <= m
      /\ frames[k] = Null /\ \A i \in 1..(k - 1) : frames[i] # Null
  <2>1. k \in 1..m /\ frames[k] = Null
    BY <1>2
  <2>2. ASSUME NEW i \in 1..(k - 1) PROVE frames[i] # Null
    <3>1. i \in 1..m /\ i < k
      BY <1>0, <2>1
    <3> QED BY <1>2, <3>1
  <2> QED BY <1>0, <2>1, <2>2
<1> HIDE DEF T
<1>4. UpToNull(frames) = SubSeq(frames, 1, k - 1)
  BY <1>3, FirstNull
<1>5. /\ g \in Seq(Nat) /\ Len(g) = m - 1
      /\ \A i \in 1..(m - 1) : g[i] = frames[i]
  <2> DEFINE b == m - 1
  <2>1. b \in Nat /\ 1 <= b + 1 /\ b <= Len(frames) /\ (b - 1) + 1 = b
    BY <1>0
  <2>2. \A i \in 1..b : (1 + i) - 1 = i
    BY <2>1
  <2> HIDE DEF b
  <2>3. /\ SubSeq(frames, 1, b) \in Seq(Nat) /\ Len(SubSeq(frames, 1, b)) = b
        /\ \A i \in 1..b : SubSeq(frames, 1, b)[i] = frames[(1 + i) - 1]
    BY <2>1, Part
  <2> QED BY <2>2, <2>3 DEF b
<1> HIDE DEF g
<1>6. CASE k = m
  <2>1. DOMAIN g = 1..Len(g)
    BY <1>5, LenProperties
  <2>2. \A i \in DOMAIN g : g[i] # Null
    BY <1>3, <1>5, <1>6, <2>1
  <2>3. UpToNull(g) = g
    BY <2>2, NoNull
  <2> QED BY <1>4, <1>6, <2>3 DEF g
<1>7. CASE k # m
  <2>1. k \in 1..Len(g)
    BY <1>0, <1>3, <1>5, <1>7
  <2>2. g[k] = Null /\ \A i \in 1..(k - 1) : g[i] # Null
    <3>1. k \in 1..(m - 1) /\ \A i \in 1..(k - 1) : i \in 1..(m - 1)
      BY <1>0, <1>3, <1>7
    <3> QED BY <1>3, <1>5, <3>1
  <2>3. UpToNull(g) = SubSeq(g, 1, k - 1)
    BY <1>5, <2>1, <2>2, FirstNull
  <2>4. SubSeq(g, 1, k - 1) = SubSeq(frames, 1, k - 1)
    <3> DEFINE b == k - 1
               s == SubSeq(g, 1, b)
               t == SubSeq(frames, 1, b)
    <3>1. b \in Nat /\ 1 <= b + 1 /\ b <= Len(frames) /\ b <= Len(g) /\ (b - 1) + 1 = b /\ 1 > 0
      BY <1>0, <1>3, <1>5, <2>1
    <3>2. \A i \in 1..b : (1 + i) - 1 \in 1..(m - 1)
      BY <1>0, <1>3, <3>1
    <3> HIDE DEF b
    <3>3. /\ s \in Seq(Nat) /\ Len(s) = b
          /\ \A i \in 1..b : s[i] = g[(1 + i) - 1]
      BY <1>5, <3>1, Part
    <3>4. /\ t \in Seq(Nat) /\ Len(t) = b
          /\ \A i \in 1..b : t[i] = frames[(1 + i) - 1]
      BY <3>1, Part
    <3> HIDE DEF s, t
    <3>5. \A i \in 1..Len(s) : s[i] = t[i]
      BY <1>5, <3>2, <3>3, <3>4
    <3> QED BY <3>3, <3>4, <3>5, SeqEqual DEF b, s, t
  <2> QED BY <1>4, <2>3, <2>4 DEF g
<1> QED BY <1>6, <1>7

\* The frames before the saved link register, and the chain without it.
LEMMA ChainParts ==
  ASSUME NEW u \in Seq(Nat), NEW m \in 2..Len(u)
  PROVE  /\ <<Head(u)>> \in Seq(Nat) /\ SubSeq(u, 2, m - 1) \in Seq(Nat)
         /\ SubSeq(u, m + 1, Len(u)) \in Seq(Nat)
         /\ <<Head(u)>> \o SubSeq(u, 2, m - 1) = SubSeq(u, 1, m - 1)
         /\ (SubSeq(u, 2, m - 1) = <<>>) <=> m = 2
         /\ m > 2 => Head(SubSeq(u, 2, m - 1)) = u[2]
<1> DEFINE N == Len(u)
           a == SubSeq(u, 2, m - 1)
           b == SubSeq(u, m + 1, N)
           c == SubSeq(u, 1, m - 1)
           h == <<Head(u)>>
<1>1. N \in Nat /\ m \in Nat /\ m >= 2 /\ m <= N
  BY LenProperties
<1>2. Head(u) = u[1] /\ Head(u) \in Nat
  <2>1. u # <<>>
    BY <1>1
  <2> QED BY <2>1, TailMembers
<1>3. h \in Seq(Nat) /\ Len(h) = 1 /\ h[1] = u[1]
  <2>1. \A e \in Nat : <<e>> \in Seq(Nat) /\ Len(<<e>>) = 1 /\ <<e>>[1] = e
    OBVIOUS
  <2> QED BY <1>2, <2>1
<1>4. /\ a \in Seq(Nat) /\ Len(a) = m - 2
      /\ \A i \in 1..(m - 2) : a[i] = u[i + 1]
  <2> DEFINE d == m - 1
  <2>1. d \in Nat /\ 2 <= d + 1 /\ d <= N /\ (d - 2) + 1 = m - 2 /\ 2 > 0
    BY <1>1
  <2>2. \A i \in 1..(m - 2) : (2 + i) - 1 = i + 1
    BY <1>1
  <2> HIDE DEF d
  <2>3. /\ SubSeq(u, 2, d) \in Seq(Nat) /\ Len(SubSeq(u, 2, d)) = (d - 2) + 1
        /\ \A i \in 1..((d - 2) + 1) : SubSeq(u, 2, d)[i] = u[(2 + i) - 1]
    BY <2>1, Part
  <2> QED BY <2>1, <2>2, <2>3 DEF d
<1>5. b \in Seq(Nat)
  <2>1. m + 1 \in Nat /\ m + 1 > 0 /\ m + 1 <= N + 1 /\ N <= N
    BY <1>1
  <2> QED BY <1>1, <2>1, Part
<1>6. /\ c \in Seq(Nat) /\ Len(c) = m - 1
      /\ \A i \in 1..(m - 1) : c[i] = u[i]
  <2> DEFINE d == m - 1
  <2>1. d \in Nat /\ 1 <= d + 1 /\ d <= N /\ (d - 1) + 1 = m - 1 /\ 1 > 0
    BY <1>1
  <2>2. \A i \in 1..(m - 1) : (1 + i) - 1 = i
    BY <1>1
  <2> HIDE DEF d
  <2>3. /\ SubSeq(u, 1, d) \in Seq(Nat) /\ Len(SubSeq(u, 1, d)) = (d - 1) + 1
        /\ \A i \in 1..((d - 1) + 1) : SubSeq(u, 1, d)[i] = u[(1 + i) - 1]
    BY <2>1, Part
  <2> QED BY <2>1, <2>2, <2>3 DEF d
<1> HIDE DEF N, a, b, c, h
<1>7. h \o a = c
  <2> DEFINE s == h \o a
  <2>1. /\ s \in Seq(Nat) /\ Len(s) = Len(h) + Len(a)
        /\ \A i \in 1..(Len(h) + Len(a)) : s[i] = IF i <= Len(h) THEN h[i] ELSE a[i - Len(h)]
    BY <1>3, <1>4, JoinNumbers
  <2> HIDE DEF s
  <2>2. Len(s) = m - 1
    BY <1>1, <1>3, <1>4, <2>1
  <2>3. ASSUME NEW i \in 1..Len(s) PROVE s[i] = c[i]
    <3>1. i \in 1..(m - 1) /\ i \in Nat
      BY <1>1, <2>2
    <3>2. s[i] = IF i <= 1 THEN h[i] ELSE a[i - 1]
      BY <1>3, <2>1, <2>3
    <3>3. CASE i = 1
      BY <1>3, <1>6, <3>1, <3>2, <3>3
    <3>4. CASE i # 1
      <4>1. i - 1 \in 1..(m - 2) /\ (i - 1) + 1 = i /\ ~ (i <= 1)
        BY <1>1, <3>1, <3>4
      <4>2. a[i - 1] = u[i]
        BY <1>4, <4>1
      <4> QED BY <1>6, <3>1, <3>2, <4>1, <4>2
    <3> QED BY <3>3, <3>4
  <2> QED BY <1>6, <2>1, <2>2, <2>3, SeqEqual DEF s
<1>8. (a = <<>>) <=> m = 2
  <2>1. a = <<>> <=> Len(a) = 0
    BY <1>4, EmptySeq
  <2> QED BY <1>1, <1>4, <2>1
<1>9. ASSUME m > 2 PROVE Head(a) = u[2]
  <2>1. a # <<>> /\ 1 \in 1..(m - 2) /\ 1 + 1 = 2
    BY <1>1, <1>8, <1>9
  <2>2. Head(a) = a[1]
    BY <1>4, <2>1, TailMembers
  <2>3. a[1] = u[1 + 1]
    BY <1>4, <2>1
  <2> QED BY <2>1, <2>2, <2>3
<1> QED BY <1>3, <1>4, <1>5, <1>7, <1>8, <1>9 DEF N, a, b, c, h

\* A frame put after the first one.
LEMMA InsertSecond ==
  ASSUME NEW e \in Nat, NEW f \in Nat, NEW s \in Seq(Nat)
  PROVE  InsertAt(<<e>> \o s, 2, f) = (<<e>> \o <<f>>) \o s
<1> DEFINE h == <<e>>
           t == h \o s
<1>1. h \in Seq(Nat) /\ Len(h) = 1 /\ h[1] = e /\ <<f>> \in Seq(Nat)
  OBVIOUS
<1> HIDE DEF h
<1>2. /\ t \in Seq(Nat) /\ Len(t) = 1 + Len(s) /\ Len(s) \in Nat
      /\ \A i \in 1..(1 + Len(s)) : t[i] = IF i <= 1 THEN h[i] ELSE s[i - 1]
  <2>1. /\ t \in Seq(Nat) /\ Len(t) = Len(h) + Len(s) /\ Len(s) \in Nat
        /\ \A i \in 1..(Len(h) + Len(s)) : t[i] = IF i <= Len(h) THEN h[i] ELSE s[i - Len(h)]
    BY <1>1, JoinNumbers
  <2> HIDE DEF t
  <2> QED BY <1>1, <2>1
<1> HIDE DEF t
<1> DEFINE x == SubSeq(t, 1, 1)
           y == SubSeq(t, 2, Len(t))
<1>3. x = h
  <2>1. 1 \in Nat /\ 1 > 0 /\ 1 <= 1 + 1 /\ 1 <= Len(t) /\ (1 - 1) + 1 = 1 /\ (1 + 1) - 1 = 1
    BY <1>2
  <2>2. x \in Seq(Nat) /\ Len(x) = 1 /\ x[1] = t[1]
    <3>1. /\ x \in Seq(Nat) /\ Len(x) = (1 - 1) + 1
          /\ \A i \in 1..((1 - 1) + 1) : x[i] = t[(1 + i) - 1]
      BY <1>2, <2>1, Part
    <3> HIDE DEF x
    <3> QED BY <2>1, <3>1
  <2> HIDE DEF x
  <2>3. t[1] = h[1]
    BY <1>2
  <2>4. \A i \in 1..Len(x) : x[i] = h[i]
    BY <2>2, <2>3
  <2> QED BY <1>1, <2>2, <2>4, SeqEqual
<1>4. y = s
  <2>1. Len(t) \in Nat /\ 2 > 0 /\ 2 <= Len(t) + 1 /\ (Len(t) - 2) + 1 = Len(s)
    BY <1>2
  <2>2. /\ y \in Seq(Nat) /\ Len(y) = Len(s)
        /\ \A i \in 1..Len(s) : y[i] = t[(2 + i) - 1]
    BY <1>2, <2>1, Part
  <2> HIDE DEF y
  <2>3. ASSUME NEW i \in 1..Len(y) PROVE y[i] = s[i]
    <3>1. /\ i \in 1..Len(s) /\ (2 + i) - 1 = i + 1 /\ i + 1 \in 1..(1 + Len(s))
          /\ ~ (i + 1 <= 1) /\ (i + 1) - 1 = i
      BY <1>2, <2>2
    <3>2. y[i] = t[i + 1]
      BY <2>2, <3>1
    <3>3. t[i + 1] = s[(i + 1) - 1]
      BY <1>2, <3>1
    <3> QED BY <3>1, <3>2, <3>3
  <2> QED BY <2>2, <2>3, SeqEqual
<1>5. InsertAt(t, 2, f) = SubSeq(t, 1, 2 - 1) \o <<f>> \o SubSeq(t, 2, Len(t))
  BY DEF InsertAt
<1>6. 2 - 1 = 1
  OBVIOUS
<1> HIDE DEF x, y
<1>7. InsertAt(t, 2, f) = x \o <<f>> \o y
  BY <1>5, <1>6, Zenon DEF x, y
<1> QED BY <1>3, <1>4, <1>7, Zenon DEF t, h

LEMMA FixupIsCallStack ==
  ASSUME NEW w \in Walk, w.user # <<>>, w.main <= Len(w.user),
         NEW p, p.user = w.user, p.userMain = w.main
  PROVE  UpToNull(NormalizeUserFixup(p)) = CallStack(w)
<1> DEFINE u == w.user
           m == w.main
           N == Len(u)
           lr == StripCodePtr(u[m])
           chain == SubSeq(u, 2, m - 1)
           rest == SubSeq(u, m + 1, N)
           h == <<Head(u)>>
<1>1. u \in Seq(Nat) /\ N \in Nat /\ m \in Nat /\ m <= N
  BY WalkTyped
<1>2. (IF p.userMain < Len(p.user) THEN p.userMain ELSE Len(p.user)) = m
  BY <1>1
<1>3. NormalizeUserFixup(p) =
        IF m < 2 THEN u
        ELSE IF lr = Null THEN u
        ELSE IF m > 2 /\ StripCodePtr(u[2]) = lr THEN RemoveAt(u, m)
        ELSE InsertAt(RemoveAt(u, m), 2, lr)
  BY <1>2, Zenon DEF NormalizeUserFixup
<1>4. CallStack(w) =
        IF m < 2 THEN UpToNull(u)
        ELSE UpToNull(h \o (IF lr = Null \/ (chain # <<>> /\ StripCodePtr(Head(chain)) = lr)
                            THEN <<>> ELSE <<lr>>)
                        \o chain
                        \o (IF lr = Null THEN <<>> ELSE rest))
  BY Zenon DEF CallStack
<1>5. CASE m < 2
  BY <1>3, <1>4, <1>5, Zenon
<1>6. CASE ~ (m < 2)
  <2>1. m \in 2..N
    BY <1>1, <1>6
  <2>2. /\ h \in Seq(Nat) /\ chain \in Seq(Nat) /\ rest \in Seq(Nat)
        /\ h \o chain = SubSeq(u, 1, m - 1)
        /\ (chain = <<>>) <=> m = 2
        /\ m > 2 => Head(chain) = u[2]
    BY <1>1, <2>1, ChainParts
  <2>3. u[m] \in Frames /\ lr \in Nat
    <3>1. w.user \in Seq(Frames) /\ m \in 1..N
      BY <1>1, <2>1 DEF Walk
    <3>2. u[m] \in Frames
      BY <3>1, ElementOfSeq
    <3>3. \A a \in Nat, s \in Nat \ {0} : a % s \in Nat
      OBVIOUS
    <3> QED BY <3>2, <3>3, ParserAssumption DEF Frames, StripCodePtr
  <2>4. Head(u) \in Nat
    BY <1>1, TailMembers
  <2>5. RemoveAt(u, m) = (h \o chain) \o rest
    BY <2>2, Zenon DEF RemoveAt
  <2> HIDE DEF u, m, N, lr, chain, rest, h
  <2>6. CASE lr = Null
    <3>1. u[m] = Null
      BY <2>3, <2>6 DEF Frames, lr
    <3>2. UpToNull(u) = UpToNull(SubSeq(u, 1, m - 1))
      <4>1. m \in 1..Len(u)
        BY <1>1, <2>1 DEF N
      <4> QED BY <1>1, <3>1, <4>1, BeforeNull
    <3>3. h \o <<>> \o chain \o <<>> = h \o chain
      <4>1. h \o <<>> = h
        BY <2>2, EmptyJoin, Zenon
      <4>2. h \o chain \in Seq(Nat)
        BY <2>2, JoinNumbers, Zenon
      <4>3. (h \o chain) \o <<>> = h \o chain
        BY <4>2, EmptyJoin, Zenon
      <4> QED BY <4>1, <4>3, Zenon
    <3>4. CallStack(w) = UpToNull(h \o <<>> \o chain \o <<>>)
      BY <1>4, <1>6, <2>6, Zenon
    <3>5. NormalizeUserFixup(p) = u
      BY <1>3, <1>6, <2>6, Zenon
    <3> QED BY <2>2, <3>2, <3>3, <3>4, <3>5, Zenon
  <2>7. CASE lr # Null /\ m > 2 /\ StripCodePtr(u[2]) = lr
    <3>1. chain # <<>> /\ Head(chain) = u[2]
      BY <1>1, <2>2, <2>7
    <3>2. CallStack(w) = UpToNull(h \o <<>> \o chain \o rest)
      BY <1>4, <1>6, <2>7, <3>1, Zenon
    <3>3. h \o <<>> = h
      BY <2>2, EmptyJoin, Zenon
    <3>4. NormalizeUserFixup(p) = RemoveAt(u, m)
      BY <1>3, <1>6, <2>7, Zenon
    <3> QED BY <2>5, <3>2, <3>3, <3>4, Zenon
  <2>8. CASE lr # Null /\ ~ (m > 2 /\ StripCodePtr(u[2]) = lr)
    <3>1. ~ (chain # <<>> /\ StripCodePtr(Head(chain)) = lr)
      <4>1. CASE m = 2
        BY <2>2, <4>1
      <4>2. CASE m > 2
        BY <2>2, <2>8, <4>2
      <4> QED BY <1>1, <1>6, <4>1, <4>2
    <3>2. CallStack(w) = UpToNull(h \o <<lr>> \o chain \o rest)
      BY <1>4, <1>6, <2>8, <3>1, Zenon
    <3>3. NormalizeUserFixup(p) = InsertAt(RemoveAt(u, m), 2, lr)
      BY <1>3, <1>6, <2>8, Zenon
    <3>4. (h \o chain) \o rest = h \o (chain \o rest)
      BY <2>2, NumbersAssociative, Zenon
    <3>5. chain \o rest \in Seq(Nat)
      BY <2>2, JoinNumbers, Zenon
    <3>6. InsertAt(h \o (chain \o rest), 2, lr) = (h \o <<lr>>) \o (chain \o rest)
      BY <2>3, <2>4, <3>5, InsertSecond DEF h
    <3>7. h \o <<lr>> \in Seq(Nat)
      <4>1. <<lr>> \in Seq(Nat)
        BY <2>3
      <4> QED BY <2>2, <4>1, JoinNumbers, Zenon
    <3>8. ((h \o <<lr>>) \o chain) \o rest = (h \o <<lr>>) \o (chain \o rest)
      BY <2>2, <3>7, NumbersAssociative, Zenon
    <3>9. NormalizeUserFixup(p) = ((h \o <<lr>>) \o chain) \o rest
      BY <2>5, <3>3, <3>4, <3>6, <3>8, Zenon
    <3> QED BY <3>2, <3>9, Zenon
  <2> QED BY <2>6, <2>7, <2>8
<1> QED BY <1>5, <1>6

-----------------------------------------------------------------------------
(* Samples of whole walks.                                                 *)
StackOf(w) == IF w.user = <<>> THEN <<>> ELSE CallStack(w)

WholeOf(w) == [tid |-> w.tid, user |-> StackOf(w), kernel |-> w.kernel, pmc |-> TrimZeros(w.pmc)]

\* What WholeWalksEmerge says of one walk.
Emerged(w, list) ==
  LET emitted == {n \in DOMAIN list : list[n].tid = w.tid}
  IN IF StackOf(w) = <<>> THEN emitted = {}
     ELSE \E n \in emitted : emitted = {n} /\ list[n] = WholeOf(w)

LEMMA EachEmerges ==
  WholeWalksEmerge <=> \A x \in 1..(walk - 1) : x \notin damaged => Emerged(Walks[x], samples)
BY DEF WholeWalksEmerge, Emerged, StackOf, WholeOf

LEMMA WholeSample ==
  ASSUME NEW w \in Walk, w.main <= Len(w.user), NEW p \in ParserStates,
         Expected(w, p, 2 + UserLen(w) + KernelLen(w))
  PROVE  Sample(p) = WholeOf(w)
<1>1. /\ p.tid = w.tid /\ p.user = w.user /\ p.kernel = w.kernel /\ p.pmc = w.pmc
      /\ p.userMain = IF w.user = <<>> THEN 0 ELSE w.main
  BY ExpectedWhole
<1>2. UpToNull(w.kernel) = w.kernel
  <2>1. w.kernel \in Seq(KernelAddresses)
    BY WalkTyped
  <2>2. DOMAIN w.kernel = 1..Len(w.kernel) /\ \A i \in 1..Len(w.kernel) : w.kernel[i] \in KernelAddresses
    BY <2>1, LenProperties, ElementOfSeq
  <2>3. \A i \in DOMAIN w.kernel : w.kernel[i] # Null
    BY <2>2 DEF KernelAddresses
  <2> QED BY <2>3, NoNull
<1>3. UpToNull(NormalizeUserFixup(p)) = StackOf(w)
  <2>1. CASE w.user = <<>>
    <3>1. p.user = <<>> /\ p.userMain = 0 /\ Len(p.user) = 0
      BY <1>1, <2>1
    <3>2. (IF p.userMain < Len(p.user) THEN p.userMain ELSE Len(p.user)) = 0
      BY <3>1
    <3>3. 0 < 2
      OBVIOUS
    <3>4. NormalizeUserFixup(p) = p.user
      BY <3>2, <3>3, Zenon DEF NormalizeUserFixup
    <3>5. UpToNull(<<>>) = <<>>
      <4>1. \A i \in DOMAIN <<>> : <<>>[i] # Null
        OBVIOUS
      <4> QED BY <4>1, NoNull
    <3> QED BY <2>1, <3>1, <3>4, <3>5 DEF StackOf
  <2>2. CASE w.user # <<>>
    <3>1. UpToNull(NormalizeUserFixup(p)) = CallStack(w)
      BY <1>1, <2>2, FixupIsCallStack
    <3> QED BY <2>2, <3>1 DEF StackOf
  <2> QED BY <2>1, <2>2
<1> QED BY <1>1, <1>2, <1>3, Zenon DEF Sample, WholeOf

LEMMA EmergedOther ==
  \A w, list, e : IsList(list) /\ Emerged(w, list) /\ e.tid # w.tid => Emerged(w, Append(list, e))
<1> SUFFICES ASSUME NEW w, NEW list, NEW e, IsList(list), Emerged(w, list), e.tid # w.tid
             PROVE  Emerged(w, Append(list, e))
  OBVIOUS
<1> DEFINE more == Append(list, e)
           old == {n \in DOMAIN list : list[n].tid = w.tid}
           new == {n \in DOMAIN more : more[n].tid = w.tid}
<1>1. /\ IsList(more) /\ Len(more) = Len(list) + 1 /\ Len(list) \in Nat
      /\ \A n \in 1..Len(list) : more[n] = list[n]
      /\ more[Len(list) + 1] = e
      /\ DOMAIN list = 1..Len(list)
  BY AppendList DEF IsList
<1> HIDE DEF more
<1>2. DOMAIN more = 1..(Len(list) + 1)
  BY <1>1 DEF IsList
<1>3. new = old
  <2>1. \A n \in 1..(Len(list) + 1) : n \in 1..Len(list) \/ n = Len(list) + 1
    BY <1>1
  <2>2. \A n \in 1..Len(list) : n \in 1..(Len(list) + 1)
    BY <1>1
  <2> QED BY <1>1, <1>2, <2>1, <2>2
<1>4. \A n \in old : more[n] = list[n]
  BY <1>1
<1>5. IF StackOf(w) = <<>> THEN old = {} ELSE \E n \in old : old = {n} /\ list[n] = WholeOf(w)
  BY DEF Emerged
<1> HIDE DEF old
<1>6. IF StackOf(w) = <<>> THEN new = {} ELSE \E n \in new : new = {n} /\ more[n] = WholeOf(w)
  BY <1>3, <1>4, <1>5
<1> QED BY <1>6, Zenon DEF Emerged, more

LEMMA EmergedNew ==
  \A w, list : /\ IsList(list) /\ StackOf(w) # <<>>
               /\ \A n \in 1..Len(list) : list[n].tid # w.tid
               => Emerged(w, Append(list, WholeOf(w)))
<1> SUFFICES ASSUME NEW w, NEW list, IsList(list), StackOf(w) # <<>>,
                    \A n \in 1..Len(list) : list[n].tid # w.tid
             PROVE  Emerged(w, Append(list, WholeOf(w)))
  OBVIOUS
<1> DEFINE e == WholeOf(w)
           more == Append(list, e)
           last == Len(list) + 1
           new == {n \in DOMAIN more : more[n].tid = w.tid}
<1>0. e.tid = w.tid
  BY DEF WholeOf
<1> HIDE DEF e
<1>1. /\ IsList(more) /\ Len(more) = last /\ Len(list) \in Nat
      /\ \A n \in 1..Len(list) : more[n] = list[n]
      /\ more[last] = e
  BY AppendList DEF IsList
<1> HIDE DEF more
<1>2. DOMAIN more = 1..last
  BY <1>1 DEF IsList
<1>3. new = {last}
  <2>1. \A n \in 1..last : n \in 1..Len(list) \/ n = last
    BY <1>1
  <2>2. last \in 1..last
    BY <1>1
  <2> QED BY <1>0, <1>1, <1>2, <2>1, <2>2
<1>4. \E n \in new : new = {n} /\ more[n] = WholeOf(w)
  <2>1. last \in new /\ new = {last} /\ more[last] = WholeOf(w)
    BY <1>1, <1>3 DEF e
  <2> HIDE DEF new, last
  <2> QED BY <2>1
<1> QED BY <1>4, Zenon DEF Emerged, more, e

LEMMA EmergedNot ==
  \A w, list : /\ IsList(list) /\ StackOf(w) = <<>>
               /\ \A n \in 1..Len(list) : list[n].tid # w.tid
               => Emerged(w, list)
<1> SUFFICES ASSUME NEW w, NEW list, IsList(list), StackOf(w) = <<>>,
                    \A n \in 1..Len(list) : list[n].tid # w.tid
             PROVE  Emerged(w, list)
  OBVIOUS
<1>1. DOMAIN list = 1..Len(list)
  BY DEF IsList
<1>2. {n \in DOMAIN list : list[n].tid = w.tid} = {}
  BY <1>1
<1> QED BY <1>2 DEF Emerged

\* An unfinished sample is of the walk being read, or of one that lost a record.
OpenSample ==
  parser.tid # NoThread =>
    \E v \in 1..walk : /\ v <= Len(Walks) /\ parser.tid = Walks[v].tid
                       /\ v < walk => v \in damaged

SamplesAreRead ==
  \A n \in 1..Len(samples) : \E v \in 1..(walk - 1) : v <= Len(Walks) /\ samples[n].tid = Walks[v].tid

ReadAsExpected ==
  walk <= Len(Walks) /\ walk \notin damaged /\ rec > 1 => Expected(Walks[walk], parser, rec - 1)

WalksInv == OpenSample /\ SamplesAreRead /\ ReadAsExpected /\ WholeWalksEmerge

LEMMA WalksInit == Init => WalksInv
<1> SUFFICES ASSUME Init PROVE WalksInv
  OBVIOUS
<1>1. walk = 1 /\ rec = 1 /\ parser = ParserInit /\ samples = <<>>
  BY DEF Init
<1>2. OpenSample
  BY <1>1 DEF OpenSample, ParserInit
<1>3. SamplesAreRead
  <2>1. Len(samples) = 0
    BY <1>1
  <2> QED BY <2>1 DEF SamplesAreRead
<1>4. ReadAsExpected
  BY <1>1 DEF ReadAsExpected
<1>5. WholeWalksEmerge
  <2>1. 1..(walk - 1) = {}
    BY <1>1
  <2> QED BY <2>1 DEF WholeWalksEmerge
<1> QED BY <1>2, <1>3, <1>4, <1>5 DEF WalksInv

\* Where a record leaves the stream.
LEMMA AdvancePlaces ==
  ASSUME PlaceOK, walk <= Len(Walks), Advance
  PROVE  /\ walk \in Nat /\ walk >= 1 /\ rec \in Nat /\ rec >= 1
         /\ UserLen(Walks[walk]) \in Nat /\ KernelLen(Walks[walk]) \in Nat
         /\ \/ /\ rec = 3 + UserLen(Walks[walk]) + KernelLen(Walks[walk])
               /\ walk' = walk + 1 /\ rec' = 1
            \/ /\ rec < 3 + UserLen(Walks[walk]) + KernelLen(Walks[walk])
               /\ walk' = walk /\ rec' = rec + 1
<1> DEFINE L == 3 + UserLen(Walks[walk]) + KernelLen(Walks[walk])
<1>1. /\ Len(WalkRecords(Walks[walk])) = L
      /\ UserLen(Walks[walk]) \in Nat /\ KernelLen(Walks[walk]) \in Nat
  BY CurrentRecord
<1>2. /\ rec \in Nat /\ rec >= 1 /\ rec <= Len(WalkRecords(Walks[walk]))
      /\ walk \in Nat /\ walk >= 1
  <2>1. Len(Walks) \in Nat
    BY WalksOK DEF PlaceOK
  <2> QED BY <2>1 DEF PlaceOK
<1>3. L \in Nat /\ rec <= L
  BY <1>1, <1>2
<1>4. IF rec = L THEN walk' = walk + 1 /\ rec' = 1 ELSE rec' = rec + 1 /\ walk' = walk
  BY <1>1 DEF Advance
<1> HIDE DEF L
<1>5. \/ rec = L /\ walk' = walk + 1 /\ rec' = 1
      \/ rec < L /\ walk' = walk /\ rec' = rec + 1
  BY <1>2, <1>3, <1>4
<1> QED BY <1>1, <1>2, <1>5 DEF L

LEMMA LoseKeeps == StreamInv /\ WalksInv /\ LoseRecord => WalksInv'
<1> SUFFICES ASSUME StreamInv, WalksInv, LoseRecord PROVE WalksInv'
  OBVIOUS
<1>1. /\ damaged' = damaged \union {walk} /\ Walks' = Walks /\ walk <= Len(Walks)
      /\ UNCHANGED <<parser, samples>> /\ Advance
  BY DEF LoseRecord, Walks
<1>2. /\ walk \in Nat /\ walk >= 1 /\ rec \in Nat
      /\ walk' = walk \/ (walk' = walk + 1 /\ rec' = 1)
  BY <1>1, AdvancePlaces DEF StreamInv
<1>3. OpenSample'
  <2> SUFFICES ASSUME parser.tid # NoThread
               PROVE  \E v \in 1..walk' : /\ v <= Len(Walks) /\ parser.tid = Walks[v].tid
                                          /\ v < walk' => v \in damaged'
    BY <1>1 DEF OpenSample
  <2>1. PICK v \in 1..walk : /\ v <= Len(Walks) /\ parser.tid = Walks[v].tid
                             /\ v < walk => v \in damaged
    BY DEF WalksInv, OpenSample
  <2>2. v \in 1..walk'
    BY <1>2
  <2>3. v < walk' => v \in damaged'
    BY <1>1, <1>2, <2>1
  <2> QED BY <2>1, <2>2, <2>3
<1>4. SamplesAreRead'
  <2>1. \A v \in 1..(walk - 1) : v \in 1..(walk' - 1)
    BY <1>2
  <2> QED BY <1>1, <2>1 DEF WalksInv, SamplesAreRead
<1>5. ReadAsExpected'
  BY <1>1, <1>2 DEF ReadAsExpected
<1>6. WholeWalksEmerge'
  <2>1. \A x \in 1..(walk' - 1) : x \notin damaged' => x \in 1..(walk - 1) /\ x \notin damaged
    BY <1>1, <1>2
  <2>2. \A x \in 1..(walk - 1) : x \notin damaged => Emerged(Walks[x], samples)
    BY EachEmerges DEF WalksInv
  <2>3. \A x \in 1..(walk' - 1) : x \notin damaged' => Emerged(Walks'[x], samples')
    BY <1>1, <2>1, <2>2
  <2>4. WholeWalksEmerge' <=> \A x \in 1..(walk' - 1) : x \notin damaged' => Emerged(Walks'[x], samples')
    BY DEF WholeWalksEmerge, Emerged, StackOf, WholeOf
  <2> QED BY <2>3, <2>4
<1> QED BY <1>3, <1>4, <1>5, <1>6 DEF WalksInv

LEMMA InnerKeepsTid ==
  \A p \in ParserStates : \A r :
    p.tid # NoThread /\ r.kind \in {"uhdr", "udata", "khdr", "kdata", "kpc"}
      => Feed(p, r).tid = p.tid
<1> SUFFICES ASSUME NEW p \in ParserStates, NEW r, p.tid # NoThread,
                    r.kind \in {"uhdr", "udata", "khdr", "kdata", "kpc"}
             PROVE  Feed(p, r).tid = p.tid
  OBVIOUS
<1>1. \/ Feed(p, r) = UserHeader(p, r)
      \/ Feed(p, r) = UserChunk(p, r)
      \/ Feed(p, r) = KernelHeader(p, r)
      \/ Feed(p, r) = KernelChunk(p, r)
      \/ Feed(p, r) = Counters(p, r)
  BY DEF Feed
<1>2. /\ UserHeader(p, r).tid = p.tid /\ UserChunk(p, r).tid = p.tid
      /\ KernelHeader(p, r).tid = p.tid /\ KernelChunk(p, r).tid = p.tid
      /\ Counters(p, r).tid = p.tid
  BY DEF ParserStates, UserHeader, UserChunk, KernelHeader, KernelChunk, Counters
<1> QED BY <1>1, <1>2

\* A record that is not a walk's last one leaves the samples alone.
LEMMA InsideAWalk ==
  ASSUME StreamInv, WalksInv, ProcessRecord,
         rec < 3 + UserLen(Walks[walk]) + KernelLen(Walks[walk])
  PROVE  WalksInv'
<1> DEFINE w == Walks[walk]
           r == Current
           U == UserLen(w)
           K == KernelLen(w)
<1>1. /\ walk <= Len(Walks) /\ parser' = Feed(parser, r) /\ Walks' = Walks
      /\ damaged' = damaged /\ Advance /\ PlaceOK /\ parser \in ParserStates
      /\ r.kind # "end" => samples' = samples
  BY DEF ProcessRecord, Walks, StreamInv
<1>2. /\ w \in Walk /\ w.main <= Len(w.user) /\ IsRecordOf(w, r, rec)
      /\ U \in Nat /\ K \in Nat
  BY <1>1, CurrentRecord
<1>3. /\ walk \in Nat /\ walk >= 1 /\ rec \in Nat /\ rec >= 1
      /\ walk' = walk /\ rec' = rec + 1
  BY <1>1, <1>2, AdvancePlaces
<1>4. FeedCases(parser, r)
  BY <1>1, FeedByKind
<1>5. rec < 3 + U + K
  OBVIOUS
<1> HIDE DEF w, r, U, K
<1>6. r.kind # "end"
  <2>1. rec # 3 + UserLen(w) + KernelLen(w)
    BY <1>2, <1>3, <1>5 DEF U, K
  <2> QED BY <1>2, <2>1 DEF IsRecordOf, StartRecord, CountersRecord, UserHeaderRecord,
                            KernelHeaderRecord, ChunkRecord
<1>7. samples' = samples
  BY <1>1, <1>6
<1>8. r.kind = "start" => r = StartRecord(w)
  BY <1>2 DEF IsRecordOf, StartRecord, CountersRecord, UserHeaderRecord, KernelHeaderRecord,
              ChunkRecord, EndRecord
<1>9. IsRecordOf(w, r, rec) /\ rec = 1 => r = StartRecord(w)
  <2>1. ~ \E c \in 1..NumChunks(Len(w.user)) : 1 = 3 + c
    OBVIOUS
  <2>2. ~ \E c \in 1..NumChunks(Len(w.kernel)) : 1 = 3 + UserLen(w) + c
    BY <1>2 DEF U
  <2>3. 1 # 2 /\ 1 # 3 /\ 1 # 3 + UserLen(w) /\ 1 # 3 + UserLen(w) + KernelLen(w)
    BY <1>2 DEF U, K
  <2> QED BY <2>1, <2>2, <2>3 DEF IsRecordOf
<1>10. OpenSample'
  <2> SUFFICES ASSUME parser'.tid # NoThread
               PROVE  \E v \in 1..walk : /\ v <= Len(Walks) /\ parser'.tid = Walks[v].tid
                                         /\ v < walk => v \in damaged
    BY <1>1, <1>3 DEF OpenSample
  <2>1. CASE r.kind = "start"
    <3>1. parser' = ParserState(r.tid, <<>>, <<>>, <<>>, 0, 0, 0)
      BY <1>1, <1>4, <2>1 DEF FeedCases
    <3>2. parser'.tid = w.tid
      BY <1>8, <2>1, <3>1 DEF ParserState, StartRecord
    <3>3. walk \in 1..walk
      BY <1>3
    <3>4. ~ (walk < walk)
      BY <1>3
    <3> QED BY <1>1, <3>2, <3>3, <3>4 DEF w
  <2>2. CASE r.kind # "start"
    <3>1. parser'.tid = parser.tid
      <4>1. CASE parser.tid = NoThread
        BY <1>1, <1>4, <2>2, <4>1 DEF FeedCases
      <4>2. CASE parser.tid # NoThread
        <5>1. r.kind \in {"uhdr", "udata", "khdr", "kdata", "kpc"}
          BY <1>2, <1>6, <2>2
             DEF IsRecordOf, StartRecord, CountersRecord, UserHeaderRecord,
                 KernelHeaderRecord, ChunkRecord, EndRecord
        <5> QED BY <1>1, <4>2, <5>1, InnerKeepsTid
      <4> QED BY <4>1, <4>2
    <3> QED BY <3>1 DEF WalksInv, OpenSample
  <2> QED BY <2>1, <2>2
<1>11. SamplesAreRead'
  BY <1>1, <1>3, <1>7 DEF WalksInv, SamplesAreRead
<1>12. ReadAsExpected'
  <2> SUFFICES ASSUME walk \notin damaged
               PROVE  Expected(w, parser', rec)
    <3>1. rec' - 1 = rec /\ walk' = walk
      BY <1>3
    <3> QED BY <1>1, <3>1 DEF ReadAsExpected, w
  <2>1. CASE rec = 1
    BY <1>1, <1>2, <1>9, <2>1, ExpectedStart
  <2>2. CASE rec # 1
    <3>1. rec > 1 /\ rec \in 2..(2 + UserLen(w) + KernelLen(w))
      BY <1>2, <1>3, <1>5, <2>2 DEF U, K
    <3>2. Expected(w, parser, rec - 1)
      BY <1>1, <3>1 DEF WalksInv, ReadAsExpected, w
    <3> QED BY <1>1, <1>2, <3>1, <3>2, ExpectedNext
  <2> QED BY <2>1, <2>2
<1>13. WholeWalksEmerge'
  <2>1. WholeWalksEmerge
    BY DEF WalksInv
  <2> QED BY <1>1, <1>3, <1>7, <2>1 DEF WholeWalksEmerge
<1> QED BY <1>10, <1>11, <1>12, <1>13 DEF WalksInv

\* The last record of a walk is its END.
LEMMA EndOfAWalk ==
  ASSUME StreamInv, WalksInv, ProcessRecord,
         rec = 3 + UserLen(Walks[walk]) + KernelLen(Walks[walk])
  PROVE  WalksInv'
<1> DEFINE w == Walks[walk]
           r == Current
           s == Sample(parser)
<1>1. /\ walk <= Len(Walks) /\ parser' = Feed(parser, r) /\ Walks' = Walks
      /\ damaged' = damaged /\ Advance /\ PlaceOK /\ parser \in ParserStates
      /\ IsList(samples)
      /\ IF r.kind = "end" /\ parser.tid # NoThread
         THEN samples' = IF s.user = <<>> THEN samples ELSE Append(samples, s)
         ELSE samples' = samples
  BY DEF ProcessRecord, Walks, StreamInv, OnSample
<1>2. /\ w \in Walk /\ w.main <= Len(w.user) /\ IsRecordOf(w, r, rec)
      /\ UserLen(w) \in Nat /\ KernelLen(w) \in Nat
  BY <1>1, CurrentRecord
<1>3. /\ walk \in Nat /\ walk >= 1 /\ rec \in Nat /\ rec >= 1
      /\ walk' = walk + 1 /\ rec' = 1
  BY <1>1, <1>2, AdvancePlaces
<1>4. FeedCases(parser, r)
  BY <1>1, FeedByKind
<1>5. rec = 3 + UserLen(w) + KernelLen(w)
  OBVIOUS
<1>6. s.tid = parser.tid
  BY DEF Sample
<1>7. /\ Len(Walks) \in Nat
      /\ \A x \in 1..Len(Walks) : Walks[x].tid # NoThread
      /\ \A x, y \in 1..Len(Walks) : Walks[x].tid = Walks[y].tid => x = y
  <2>1. \A x \in 1..Len(Walks) : Walks[x].tid # NoThread
    BY <1>1, WalksOK, WalkTyped DEF PlaceOK
  <2> QED BY <1>1, <2>1, WalksOK DEF PlaceOK
<1>8. walk \in 1..Len(Walks)
  BY <1>1, <1>3, <1>7
<1> HIDE DEF w, r, s
<1>9. r = EndRecord
  <2> DEFINE UL == UserLen(w)
             KL == KernelLen(w)
  <2>1. /\ Len(w.user) \in Nat /\ Len(w.kernel) \in Nat
    BY <1>2, WalkTyped
  <2>2. /\ NumChunks(Len(w.user)) \in Nat /\ NumChunks(Len(w.kernel)) \in Nat
        /\ w.user # <<>> => UL = 1 + NumChunks(Len(w.user))
        /\ w.kernel # <<>> => KL = 1 + NumChunks(Len(w.kernel))
        /\ UL \in Nat /\ KL \in Nat
    BY <2>1, StackLenOf DEF UserLen, KernelLen
  <2>3. IsRecordOf(w, r, 3 + UL + KL)
    BY <1>2, <1>5
  <2> HIDE DEF UL, KL
  <2>4. 3 + UL + KL # 1 /\ 3 + UL + KL # 2
    BY <2>2
  <2>5. w.user # <<>> => 3 + UL + KL # 3
    BY <2>2
  <2>6. w.user # <<>> => \A c \in 1..NumChunks(Len(w.user)) : 3 + UL + KL # 3 + c
    BY <2>2
  <2>7. w.kernel # <<>> => 3 + UL + KL # 3 + UL
    BY <2>2
  <2>8. w.kernel # <<>> => \A c \in 1..NumChunks(Len(w.kernel)) : 3 + UL + KL # 3 + UL + c
    BY <2>2
  <2> QED BY <2>3, <2>4, <2>5, <2>6, <2>7, <2>8 DEF IsRecordOf, UL, KL
<1>10. r.kind = "end"
  BY <1>9 DEF EndRecord
<1>11. walk \notin damaged => s = WholeOf(w) /\ parser.tid = w.tid
  <2> SUFFICES ASSUME walk \notin damaged PROVE s = WholeOf(w) /\ parser.tid = w.tid
    OBVIOUS
  <2>1. rec > 1 /\ rec - 1 = 2 + UserLen(w) + KernelLen(w)
    BY <1>2, <1>5
  <2>2. Expected(w, parser, 2 + UserLen(w) + KernelLen(w))
    BY <1>1, <2>1 DEF WalksInv, ReadAsExpected, w
  <2>3. parser.tid = w.tid
    BY <2>2 DEF Expected
  <2> QED BY <1>1, <1>2, <2>2, <2>3, WholeSample DEF s
<1>12. parser'.tid = NoThread
  <2>1. CASE parser.tid = NoThread
    BY <1>1, <1>4, <1>10, <2>1 DEF FeedCases
  <2>2. CASE parser.tid # NoThread
    BY <1>1, <1>4, <1>10, <2>2 DEF FeedCases, ParserState
  <2> QED BY <2>1, <2>2
<1>13. OpenSample'
  BY <1>12 DEF OpenSample
<1>14. ReadAsExpected'
  BY <1>3 DEF ReadAsExpected
<1>15. \A n \in 1..Len(samples) : samples[n].tid # w.tid
  <2> SUFFICES ASSUME NEW n \in 1..Len(samples), samples[n].tid = w.tid PROVE FALSE
    OBVIOUS
  <2>1. PICK v \in 1..(walk - 1) : v <= Len(Walks) /\ samples[n].tid = Walks[v].tid
    BY DEF WalksInv, SamplesAreRead
  <2>2. v \in 1..Len(Walks) /\ v # walk
    BY <1>3, <1>7, <2>1
  <2> QED BY <1>7, <1>8, <2>1, <2>2 DEF w
<1>16. \A v \in 1..(walk - 1) : v \in 1..(walk' - 1)
  BY <1>3
<1>17. \A x \in 1..(walk - 1) : x \notin damaged => Emerged(Walks[x], samples)
  BY EachEmerges DEF WalksInv
<1>18. WholeWalksEmerge' <=> \A x \in 1..(walk' - 1) : x \notin damaged' => Emerged(Walks'[x], samples')
  BY DEF WholeWalksEmerge, Emerged, StackOf, WholeOf
<1>19. \A x \in 1..(walk' - 1) : x \in 1..(walk - 1) \/ x = walk
  BY <1>3
<1>20. StackOf(w) = WholeOf(w).user
  BY DEF WholeOf
<1>21. CASE samples' = samples
  <2>1. SamplesAreRead'
    BY <1>1, <1>16, <1>21 DEF WalksInv, SamplesAreRead
  <2>2. ASSUME walk \notin damaged PROVE Emerged(w, samples)
    <3>1. s = WholeOf(w) /\ parser.tid = w.tid
      BY <1>11, <2>2
    <3>2. parser.tid # NoThread
      BY <1>7, <1>8, <3>1 DEF w
    <3>3. samples' = IF s.user = <<>> THEN samples ELSE Append(samples, s)
      BY <1>1, <1>10, <3>2
    <3>4. Append(samples, s) # samples
      <4>1. Len(Append(samples, s)) = Len(samples) + 1 /\ Len(samples) \in Nat
        BY <1>1, AppendList DEF IsList
      <4> QED BY <4>1
    <3>5. s.user = <<>>
      BY <1>21, <3>3, <3>4
    <3> QED BY <1>1, <1>15, <1>20, <3>1, <3>5, EmergedNot
  <2>3. WholeWalksEmerge'
    BY <1>1, <1>17, <1>18, <1>19, <1>21, <2>2 DEF w
  <2> QED BY <1>13, <1>14, <2>1, <2>3 DEF WalksInv
<1>22. CASE samples' # samples
  <2>1. parser.tid # NoThread /\ s.user # <<>> /\ samples' = Append(samples, s)
    BY <1>1, <1>22
  <2>2. PICK v \in 1..walk : /\ v <= Len(Walks) /\ parser.tid = Walks[v].tid
                             /\ v < walk => v \in damaged
    BY <2>1 DEF WalksInv, OpenSample
  <2>3. v \in 1..Len(Walks) /\ v \in 1..(walk' - 1) /\ (v = walk \/ v \in damaged)
    BY <1>3, <1>7, <2>2
  <2>4. /\ Len(samples') = Len(samples) + 1 /\ Len(samples) \in Nat
        /\ \A n \in 1..Len(samples) : samples'[n] = samples[n]
        /\ samples'[Len(samples) + 1] = s
    <3>1. /\ Len(Append(samples, s)) = Len(samples) + 1
          /\ \A n \in 1..Len(samples) : Append(samples, s)[n] = samples[n]
          /\ Append(samples, s)[Len(samples) + 1] = s
      BY <1>1, AppendList
    <3>2. Len(samples) \in Nat
      BY <1>1 DEF IsList
    <3> QED BY <2>1, <3>1, <3>2
  <2>5. SamplesAreRead'
    <3> SUFFICES ASSUME NEW n \in 1..Len(samples')
                 PROVE  \E y \in 1..(walk' - 1) : y <= Len(Walks) /\ samples'[n].tid = Walks[y].tid
      BY <1>1 DEF SamplesAreRead
    <3>1. n \in 1..Len(samples) \/ n = Len(samples) + 1
      BY <2>4
    <3>2. CASE n \in 1..Len(samples)
      BY <1>16, <2>4, <3>2 DEF WalksInv, SamplesAreRead
    <3>3. CASE n = Len(samples) + 1
      BY <1>6, <2>2, <2>3, <2>4, <3>3
    <3> QED BY <3>1, <3>2, <3>3
  <2>6. ASSUME NEW x \in 1..(walk - 1), x \notin damaged PROVE Emerged(Walks[x], samples')
    <3>1. x \in 1..Len(Walks) /\ x # walk /\ x # v
      BY <1>3, <1>7, <1>8, <2>3, <2>6
    <3>2. s.tid # Walks[x].tid
      BY <1>6, <1>7, <2>2, <2>3, <3>1
    <3> QED BY <1>1, <1>17, <2>1, <2>6, <3>2, EmergedOther
  <2>7. ASSUME walk \notin damaged PROVE Emerged(w, samples')
    <3>1. s = WholeOf(w)
      BY <1>11, <2>7
    <3>2. StackOf(w) # <<>>
      BY <1>20, <2>1, <3>1
    <3> QED BY <1>1, <1>15, <2>1, <3>1, <3>2, EmergedNew
  <2>8. WholeWalksEmerge'
    BY <1>1, <1>18, <1>19, <2>6, <2>7 DEF w
  <2> QED BY <1>13, <1>14, <2>5, <2>8 DEF WalksInv
<1> QED BY <1>21, <1>22

LEMMA WalksNext == StreamInv /\ WalksInv /\ [Next]_vars => WalksInv'
<1> SUFFICES ASSUME StreamInv, WalksInv, [Next]_vars PROVE WalksInv'
  OBVIOUS
<1>1. CASE ProcessRecord
  <2>1. PlaceOK /\ walk <= Len(Walks) /\ Advance
    BY <1>1 DEF ProcessRecord, StreamInv
  <2>2. \/ rec = 3 + UserLen(Walks[walk]) + KernelLen(Walks[walk])
        \/ rec < 3 + UserLen(Walks[walk]) + KernelLen(Walks[walk])
    BY <2>1, AdvancePlaces
  <2> QED BY <1>1, <2>2, InsideAWalk, EndOfAWalk
<1>2. CASE LoseRecord
  BY <1>2, LoseKeeps
<1>3. CASE UNCHANGED streamVars
  <2>1. Walks' = Walks /\ UNCHANGED <<walk, rec, damaged, parser, samples>>
    BY <1>3 DEF streamVars, Walks
  <2> QED BY <2>1 DEF WalksInv, OpenSample, SamplesAreRead, ReadAsExpected, WholeWalksEmerge
<1>4. ~ UNCHANGED streamVars => ProcessRecord \/ LoseRecord
  BY DEF Next, RescanDue, WalkRegions, RescanNotDue, TickJitdump, Finish, Process,
         AppendDump, vars
<1> QED BY <1>1, <1>2, <1>3, <1>4

(* A sample that lost no record is reported once, with the stack its walk  *)
(* stands for, whatever the losses around it left in the parser            *)
(* (Parser::feed, normalize_user_fixup): for any walks of any length.      *)
THEOREM EveryWholeWalk == Spec => []WholeWalksEmerge
<1>1. Init => StreamInv /\ WalksInv
  BY StreamInit, WalksInit
<1>2. StreamInv /\ WalksInv /\ [Next]_vars => StreamInv' /\ WalksInv'
  BY StreamNext, WalksNext
<1>3. WalksInv => WholeWalksEmerge
  BY DEF WalksInv
<1> QED BY <1>1, <1>2, <1>3, PTL DEF Spec

-----------------------------------------------------------------------------
(* Types.                                                                  *)
LEMMA DumpEnds == DumpLength \in Nat
<1>1. Len(Dump) \in 0..Len(Dump)
  BY DumpTyped
<1> QED BY <1>1, Ends DEF DumpLength

LEMMA TypesInit == Init => TypeOK
<1> SUFFICES ASSUME Init PROVE TypeOK
  OBVIOUS
<1>1. StreamInv
  BY StreamInit
<1>2. walk \in 1..(Len(Walks) + 1) /\ rec \in Nat /\ parser.userLeft \in Nat /\ parser.kernelLeft \in Nat
  BY <1>1 DEF StreamInv, PlaceOK, ParserStates
<1>3. dumpLen \in NoFile..DumpLength
  BY DumpEnds DEF Init, NoFile
<1> QED BY <1>2, <1>3 DEF Init, TypeOK

LEMMA TypesNext == StreamInv /\ TypeOK /\ [Next]_vars => TypeOK'
<1> SUFFICES ASSUME StreamInv, TypeOK, [Next]_vars PROVE TypeOK'
  OBVIOUS
<1>1. StreamInv'
  BY StreamNext
<1>2. /\ walk' \in 1..(Len(Walks') + 1) /\ rec' \in Nat
      /\ parser'.userLeft \in Nat /\ parser'.kernelLeft \in Nat
  BY <1>1 DEF StreamInv, PlaceOK, ParserStates
<1>3. dumpLen' \in NoFile..DumpLength
  <2>1. CASE AppendDump
    <3>1. workload.dump \in NoFile..DumpLength
      BY WorkloadsAssumption DEF StreamInv, PlaceOK
    <3>2. dumpLen' = dumpLen + 1 /\ dumpLen < workload.dump /\ dumpLen \in NoFile..DumpLength
      BY <2>1 DEF AppendDump, TypeOK
    <3> QED BY <3>1, <3>2, DumpEnds DEF NoFile
  <2>2. CASE UNCHANGED dumpLen
    BY <2>2 DEF TypeOK
  <2>3. AppendDump \/ UNCHANGED dumpLen
    BY DEF Next, ProcessRecord, LoseRecord, RescanDue, WalkRegions, RescanNotDue, TickJitdump,
           Finish, Process, vars, jitVars
  <2> QED BY <2>1, <2>2, <2>3
<1>4. pc' \in {"new", "ready", "walk", "jit", "finished"}
  BY DEF Next, ProcessRecord, LoseRecord, RescanDue, WalkRegions, RescanNotDue, TickJitdump,
         Finish, Process, AppendDump, vars, TypeOK
<1> QED BY <1>2, <1>3, <1>4 DEF TypeOK

(* Every variable of the recorder's thread keeps its type: the place in    *)
(* the stream stays inside the walks and the counts that the headers leave *)
(* never go below zero (Parser::append_chunk).                             *)
THEOREM PipelineTypes == Spec => []TypeOK
<1>1. Init => StreamInv /\ TypeOK
  BY StreamInit, TypesInit
<1>2. StreamInv /\ TypeOK /\ [Next]_vars => StreamInv' /\ TypeOK'
  BY StreamNext, TypesNext
<1> QED BY <1>1, <1>2, PTL DEF Spec
=============================================================================
