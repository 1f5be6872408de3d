----------------------------- MODULE LiveProofs -----------------------------
(***************************************************************************)
(* Proofs about what the server of the live view keeps and shows.          *)
(*                                                                         *)
(* Lists, sums and sorting come first: what is retained or picked out of a *)
(* list, what adds up, and that sorting by a key puts every element in a   *)
(* place of its own.                                                       *)
(*                                                                         *)
(* The registry of LiveStore keeps its images and their symbols in order   *)
(* and its index, when there is one, is the one that would be built: both  *)
(* searches then find the image an address is in and its symbol.           *)
(*                                                                         *)
(* The queues of LiveStore hold samples in the order of time and intervals *)
(* one after the other.  So the two cursors of Aggregator::aggregate miss  *)
(* nothing: the samples behind the first are behind every interval to      *)
(* come, and what has been credited after n intervals is what the first n  *)
(* owe.                                                                    *)
(*                                                                         *)
(* Subscription is last, for any number of writers, subscriptions and      *)
(* changes.  A skipped tick hides nothing because the revision a task has  *)
(* seen cannot come back: with no bump owed, the snapshot in its hand, or  *)
(* already sent, is then as new as the data.                               *)
(***************************************************************************)
EXTENDS LiveStore, Subscription, SequenceLemmas

-----------------------------------------------------------------------------
(* Lists.                                                                  *)

(* PickAt collects element by element (Vec::retain, Iterator::filter).     *)
IsPick(f, s, P, S) ==
  /\ f \in [0..Len(s) -> Seq(S)]
  /\ f[0] = <<>>
  /\ \A n \in 1..Len(s) :
       f[n] = IF n \in P THEN Append(f[n - 1], s[n]) ELSE f[n - 1]

(* The recursion has a value: PickAt is the last of its collections.       *)
LEMMA PickDefined ==
  ASSUME NEW S, NEW s \in Seq(S), NEW P
  PROVE  \E f : IsPick(f, s, P, S) /\ PickAt(s, P) = f[Len(s)]
<1> DEFINE N == Len(s)
           Step(n, v) == IF n \in P THEN Append(v, s[n]) ELSE v
           step == [p \in (1..N) \X Seq(S) |-> Step(p[1], p[2])]
           Is(f) == f = [n \in 0..N |-> IF n = 0 THEN <<>>
                          ELSE IF n \in P THEN Append(f[n - 1], s[n])
                               ELSE f[n - 1]]
           f0 == CHOOSE f : Is(f)
<1>0. N \in Nat /\ \A n \in 1..N : s[n] \in S
  BY LenProperties, ElementOfSeq
<1>1. \A n \in 1..N, v \in Seq(S) : Step(n, v) \in Seq(S)
  BY <1>0, AppendProperties
<1>2. step \in [(1..N) \X Seq(S) -> Seq(S)]
  <2> HIDE DEF Step
  <2> QED BY <1>1
<1>3. \A n \in 1..N, v \in Seq(S) : step[<<n, v>>] = Step(n, v)
  <2> HIDE DEF Step
  <2> QED OBVIOUS
<1>4. <<>> \in Seq(S)
  OBVIOUS
<1>5. \E f : Is(f)
  <2> HIDE DEF step, N, Step
  <2>0. PICK f : IsRecursion(f, step, <<>>, N, Seq(S))
    BY <1>0, <1>2, <1>4, RecursionExists DEF IsStep
  <2>1. /\ f \in [0..N -> Seq(S)] /\ f[0] = <<>>
        /\ \A n \in 1..N : f[n] = step[<<n, f[n - 1]>>]
    BY <2>0 DEF IsRecursion
  <2>2. ASSUME NEW n \in 0..N, n # 0 PROVE f[n] = Step(n, f[n - 1])
    <3>1. n \in 1..N /\ n - 1 \in 0..N
      BY <1>0, <2>2
    <3>2. f[n - 1] \in Seq(S)
      BY <2>1, <3>1
    <3> QED BY <1>3, <2>1, <3>1, <3>2
  <2>3. f = [n \in 0..N |-> f[n]]
    BY <2>1
  <2>4. Is(f)
    BY <2>1, <2>2, <2>3, Zenon DEF Step
  <2> QED BY <2>4
<1>6. Is(f0)
  <2> HIDE DEF Is
  <2> QED BY <1>5
<1>7. PickAt(s, P) = f0[Len(s)]
  BY DEF PickAt
<1> HIDE DEF f0, step
<1>8. /\ f0[0] = <<>>
      /\ \A n \in 1..N : f0[n] = Step(n, f0[n - 1])
  <2>1. 0 \in 0..N /\ \A n \in 1..N : n \in 0..N /\ n # 0
    BY <1>0
  <2> QED BY <1>6, <2>1
<1> HIDE DEF Step
<1>9. 0..N \subseteq {n \in 0..N : f0[n] \in Seq(S)}
  <2> DEFINE T == {n \in 0..N : f0[n] \in Seq(S)}
  <2>0. f0[0] \in Seq(S)
    BY <1>4, <1>8, Zenon
  <2>1. 0 \in T
    BY <1>0, <2>0
  <2>2. ASSUME NEW n \in 1..N, n - 1 \in T PROVE n \in T
    <3>1. f0[n - 1] \in Seq(S) /\ n \in 0..N
      BY <1>0, <2>2
    <3> HIDE DEF Step
    <3> QED BY <1>1, <1>8, <3>1
  <2> HIDE DEF T, N
  <2>3. 0..N \subseteq T
    BY <1>0, <2>1, <2>2, UpToInduction
  <2> QED BY <2>3 DEF T
<1>10. DOMAIN f0 = 0..N /\ f0 = [n \in 0..N |-> f0[n]]
  BY <1>6
<1>11. IsPick(f0, s, P, S)
  <2>1. \A n \in 1..N : f0[n] = IF n \in P THEN Append(f0[n - 1], s[n]) ELSE f0[n - 1]
    BY <1>8 DEF Step
  <2>2. f0 \in [0..N -> Seq(S)]
    BY <1>9, <1>10
  <2> QED BY <1>8, <2>1, <2>2 DEF IsPick
<1> QED BY <1>7, <1>11

(* Where the n-th element of a selection comes from.                       *)
Enumerates(pos, r, s, Q) ==
  /\ pos \in [1..Len(r) -> Q]
  /\ \A j \in 1..Len(r) : r[j] = s[pos[j]]
  /\ \A i, j \in 1..Len(r) : i < j => pos[i] < pos[j]
  /\ \A k \in Q : \E j \in 1..Len(r) : pos[j] = k

(* An element picked after all others goes to the end.                     *)
LEMMA EnumerateNext ==
  ASSUME NEW S, NEW r \in Seq(S), NEW s \in Seq(S), NEW n \in 1..Len(s),
         NEW Q, Q \subseteq 1..(n - 1),
         NEW pos, Enumerates(pos, r, s, Q)
  PROVE  \E p : Enumerates(p, Append(r, s[n]), s, Q \cup {n})
<1> DEFINE t == Append(r, s[n])
           m == Len(r) + 1
           p == [j \in 1..m |-> IF j = m THEN n ELSE pos[j]]
<1>0. Len(s) \in Nat /\ s[n] \in S /\ Len(r) \in Nat
  BY LenProperties, ElementOfSeq
<1>1. /\ Len(t) = m /\ t[m] = s[n]
      /\ \A j \in 1..Len(r) : t[j] = r[j]
  BY <1>0, AppendProperties
<1>2. /\ pos \in [1..Len(r) -> Q]
      /\ \A j \in 1..Len(r) : r[j] = s[pos[j]]
      /\ \A i, j \in 1..Len(r) : i < j => pos[i] < pos[j]
      /\ \A k \in Q : \E j \in 1..Len(r) : pos[j] = k
  BY DEF Enumerates
<1> HIDE DEF t
<1>3. /\ m \in 1..m /\ p[m] = n
      /\ \A j \in 1..Len(r) : j \in 1..m /\ j < m /\ p[j] = pos[j] /\ p[j] \in Q
                              /\ p[j] \in Int /\ p[j] < n
      /\ \A j \in 1..m : j = m \/ j \in 1..Len(r)
  <2>1. /\ m \in 1..m
        /\ \A j \in 1..Len(r) : j \in 1..m /\ j < m
        /\ \A j \in 1..m : j = m \/ j \in 1..Len(r)
    BY <1>0
  <2>2. \A q \in Q : q \in Int /\ q < n
    BY <1>0
  <2>3. \A j \in 1..Len(r) : pos[j] \in Q
    BY <1>2
  <2> HIDE DEF m
  <2>4. p[m] = n /\ \A j \in 1..Len(r) : p[j] = pos[j]
    <3>1. \A j \in 1..Len(r) : j # m
      BY <1>0 DEF m
    <3> QED BY <2>1, <3>1
  <2> HIDE DEF p
  <2> QED BY <2>1, <2>2, <2>3, <2>4
<1> HIDE DEF m, p
<1>4. p \in [1..m -> Q \cup {n}]
  <2>1. \A j \in 1..m : p[j] \in Q \cup {n}
    BY <1>3
  <2> QED BY <2>1 DEF p
<1>5. \A j \in 1..m : t[j] = s[p[j]]
  BY <1>1, <1>2, <1>3
<1>6. \A i, j \in 1..m : i < j => p[i] < p[j]
  <2> SUFFICES ASSUME NEW i \in 1..m, NEW j \in 1..m, i < j PROVE p[i] < p[j]
    OBVIOUS
  <2>1. i \in 1..Len(r)
    BY <1>0, <1>3 DEF m
  <2> QED BY <1>2, <1>3, <2>1
<1>7. \A k \in Q \cup {n} : \E j \in 1..m : p[j] = k
  <2> SUFFICES ASSUME NEW k \in Q PROVE \E j \in 1..m : p[j] = k
    BY <1>3
  <2>1. PICK j \in 1..Len(r) : pos[j] = k
    BY <1>2
  <2> QED BY <1>3, <2>1
<1>8. Enumerates(p, t, s, Q \cup {n})
  BY <1>1, <1>4, <1>5, <1>6, <1>7 DEF Enumerates
<1> QED BY <1>8 DEF t

(* PickAt lists the elements at the positions in P, in their order.        *)
LEMMA PickEnumerates ==
  ASSUME NEW S, NEW s \in Seq(S), NEW P
  PROVE  /\ PickAt(s, P) \in Seq(S)
         /\ \E pos : Enumerates(pos, PickAt(s, P), s, P \cap (1..Len(s)))
<1> DEFINE N == Len(s)
<1>0. N \in Nat
  BY LenProperties
<1>1. PICK f : IsPick(f, s, P, S) /\ PickAt(s, P) = f[N]
  BY PickDefined
<1>2. /\ f \in [0..N -> Seq(S)] /\ f[0] = <<>>
      /\ \A n \in 1..N : f[n] = IF n \in P THEN Append(f[n - 1], s[n]) ELSE f[n - 1]
  BY <1>1 DEF IsPick
<1> DEFINE Good(n) == \E pos : Enumerates(pos, f[n], s, P \cap (1..n))
           T == {n \in 0..N : Good(n)}
<1>3. 0 \in T
  <2>1. Enumerates(<<>>, <<>>, s, P \cap (1..0))
    <3>1. Len(<<>>) = 0 /\ 1..0 = {} /\ P \cap {} = {}
      OBVIOUS
    <3>2. <<>> \in [1..0 -> {}]
      OBVIOUS
    <3> QED BY <3>1, <3>2 DEF Enumerates
  <2> QED BY <1>0, <1>2, <2>1
<1>4. ASSUME NEW n \in 1..N, n - 1 \in T PROVE n \in T
  <2>1. PICK pos : Enumerates(pos, f[n - 1], s, P \cap (1..(n - 1)))
    BY <1>4
  <2>2. n - 1 \in 0..N /\ n \in 0..N /\ f[n - 1] \in Seq(S)
    <3>1. n - 1 \in 0..N /\ n \in 0..N
      BY <1>0
    <3> HIDE DEF N
    <3> QED BY <1>2, <3>1
  <2>3. CASE n \in P
    <3>1. P \cap (1..n) = (P \cap (1..(n - 1))) \cup {n}
      BY <1>0, <2>3
    <3>2. \E p : Enumerates(p, Append(f[n - 1], s[n]), s, (P \cap (1..(n - 1))) \cup {n})
      <4> DEFINE r == f[n - 1]
                 Q == P \cap (1..(n - 1))
      <4>1. r \in Seq(S) /\ Q \subseteq 1..(n - 1) /\ Enumerates(pos, r, s, Q)
        BY <2>1, <2>2
      <4> HIDE DEF r, Q
      <4>2. \E p : Enumerates(p, Append(r, s[n]), s, Q \cup {n})
        BY <4>1, EnumerateNext
      <4> QED BY <4>2 DEF r, Q
    <3> QED BY <1>2, <2>2, <2>3, <3>1, <3>2
  <2>4. CASE n \notin P
    <3>1. P \cap (1..n) = P \cap (1..(n - 1))
      BY <1>0, <2>4
    <3> QED BY <1>2, <2>1, <2>2, <2>4, <3>1
  <2> QED BY <2>3, <2>4
<1> HIDE DEF T
<1>5. 0..N \subseteq T
  BY <1>0, <1>3, <1>4, UpToInduction
<1>6. N \in T /\ N \in 0..N
  BY <1>0, <1>5
<1> QED BY <1>1, <1>2, <1>6 DEF T

(* As many elements are picked as there are positions.                     *)
LEMMA PickCounts ==
  ASSUME NEW S, NEW s \in Seq(S), NEW P, P \subseteq 1..Len(s)
  PROVE  IsFiniteSet(P) /\ Len(PickAt(s, P)) = Cardinality(P)
<1> DEFINE r == PickAt(s, P)
<1>1. P \cap (1..Len(s)) = P
  OBVIOUS
<1>2. PICK pos : r \in Seq(S) /\ Enumerates(pos, r, s, P)
  BY <1>1, PickEnumerates
<1> HIDE DEF r
<1>3. Len(r) \in Nat /\ Len(s) \in Nat
  BY <1>2, LenProperties
<1>4. /\ pos \in [1..Len(r) -> P]
      /\ \A i, j \in 1..Len(r) : i < j => pos[i] < pos[j]
      /\ \A k \in P : \E j \in 1..Len(r) : pos[j] = k
  BY <1>2 DEF Enumerates
<1>5. \A i, j \in 1..Len(r) : pos[i] = pos[j] => i = j
  <2> SUFFICES ASSUME NEW i \in 1..Len(r), NEW j \in 1..Len(r), pos[i] = pos[j], i # j
               PROVE  FALSE
    OBVIOUS
  <2>1. pos[i] \in Int /\ pos[j] \in Int
    <3>1. \A k \in P : k \in Int
      BY <1>3
    <3> QED BY <1>4, <3>1
  <2>2. i < j \/ j < i
    BY <1>3
  <2> QED BY <1>4, <2>1, <2>2
<1>6. pos \in Bijection(1..Len(r), P)
  BY <1>4, <1>5 DEF Bijection, Injection, Surjection, IsInjective
<1>7. ExistsBijection(1..Len(r), P)
  BY <1>6 DEF ExistsBijection
<1>8. Cardinality(P) = Len(r) /\ IsFiniteSet(P)
  BY <1>3, <1>7, FS_CountingElements, FS_NatBijection
<1> QED BY <1>8 DEF r

(* Total adds element by element (Iterator::sum).                          *)
IsSum(f, w) ==
  /\ f \in [0..Len(w) -> Nat]
  /\ f[0] = 0
  /\ \A n \in 1..Len(w) : f[n] = f[n - 1] + w[n]

(* The partial sums of a list of naturals exist,                           *)
LEMMA SumExists ==
  ASSUME NEW w \in Seq(Nat)
  PROVE  \E f : IsSum(f, w)
<1> DEFINE N == Len(w)
           step == [p \in (1..N) \X Nat |-> p[2] + w[p[1]]]
<1>0. N \in Nat /\ \A n \in 1..N : w[n] \in Nat
  BY LenProperties, ElementOfSeq
<1>1. \A n \in 1..N, v \in Nat : v + w[n] \in Nat
  BY <1>0
<1>2. step \in [(1..N) \X Nat -> Nat]
  BY <1>1
<1>3. \A n \in 1..N, v \in Nat : step[<<n, v>>] = v + w[n]
  OBVIOUS
<1> HIDE DEF step
<1>4. PICK f : IsRecursion(f, step, 0, N, Nat)
  BY <1>0, <1>2, RecursionExists DEF IsStep
<1>5. /\ f \in [0..N -> Nat] /\ f[0] = 0
      /\ \A n \in 1..N : f[n] = step[<<n, f[n - 1]>>]
  BY <1>4 DEF IsRecursion
<1>6. \A n \in 1..N : f[n] = f[n - 1] + w[n]
  <2> SUFFICES ASSUME NEW n \in 1..N PROVE f[n] = f[n - 1] + w[n]
    OBVIOUS
  <2>1. n - 1 \in 0..N
    BY <1>0
  <2>2. f[n - 1] \in Nat
    BY <1>5, <2>1
  <2> QED BY <1>3, <1>5, <2>2
<1> QED BY <1>5, <1>6 DEF IsSum

(* and Total is the last of them.                                          *)
LEMMA SumUnique ==
  ASSUME NEW w \in Seq(Nat), NEW f, IsSum(f, w)
  PROVE  Total(w) = f[Len(w)]
<1> DEFINE N == Len(w)
           Is(g) == g = [n \in 0..N |-> IF n = 0 THEN 0 ELSE g[n - 1] + w[n]]
           g0 == CHOOSE g : Is(g)
<1>0. N \in Nat
  BY LenProperties
<1>1. /\ f \in [0..N -> Nat] /\ f[0] = 0
      /\ \A n \in 1..N : f[n] = f[n - 1] + w[n]
  BY DEF IsSum
<1>2. Is(f)
  <2>1. \A n \in 0..N : n # 0 => n \in 1..N
    BY <1>0
  <2>2. \A n \in 0..N : f[n] = IF n = 0 THEN 0 ELSE f[n - 1] + w[n]
    BY <1>1, <2>1
  <2>3. f = [n \in 0..N |-> f[n]]
    BY <1>1
  <2> QED BY <2>2, <2>3, Zenon
<1>3. Is(g0)
  <2> HIDE DEF Is
  <2> QED BY <1>2
<1>4. Total(w) = g0[N]
  BY DEF Total
<1> HIDE DEF g0
<1>5. g0[0] = 0 /\ \A n \in 1..N : g0[n] = g0[n - 1] + w[n]
  <2>1. 0 \in 0..N /\ \A n \in 1..N : n \in 0..N /\ n # 0
    BY <1>0
  <2> QED BY <1>3, <2>1
<1> DEFINE T == {n \in 0..N : g0[n] = f[n]}
<1>6. 0 \in T
  BY <1>0, <1>1, <1>5
<1>7. ASSUME NEW n \in 1..N, n - 1 \in T PROVE n \in T
  <2>1. g0[n - 1] = f[n - 1] /\ n \in 0..N
    BY <1>0, <1>7
  <2> QED BY <1>1, <1>5, <2>1
<1> HIDE DEF T
<1>8. 0..N \subseteq T
  BY <1>0, <1>6, <1>7, UpToInduction
<1>9. N \in T
  BY <1>0, <1>8
<1> QED BY <1>4, <1>9 DEF T

(* Total of naturals is a natural.                                         *)
LEMMA TotalTyped ==
  ASSUME NEW w \in Seq(Nat)
  PROVE  Total(w) \in Nat
<1>1. PICK f : IsSum(f, w)
  BY SumExists
<1>2. Len(w) \in 0..Len(w)
  BY LenProperties
<1>3. f[Len(w)] \in Nat
  BY <1>1, <1>2 DEF IsSum
<1> QED BY <1>1, <1>3, SumUnique

(* The empty list adds up to nothing.                                      *)
LEMMA TotalEmpty == Total(<<>>) = 0
<1>1. IsSum([n \in 0..0 |-> 0], <<>>)
  BY DEF IsSum
<1> QED BY <1>1, SumUnique

(* A list of zeros adds up to nothing.                                     *)
LEMMA TotalZero ==
  ASSUME NEW w \in Seq(Nat), \A n \in 1..Len(w) : w[n] = 0
  PROVE  Total(w) = 0
<1> DEFINE f == [n \in 0..Len(w) |-> 0]
<1>0. Len(w) \in Nat
  BY LenProperties
<1>1. IsSum(f, w)
  <2>1. \A n \in 1..Len(w) : n \in 0..Len(w) /\ n - 1 \in 0..Len(w)
    BY <1>0
  <2>2. \A n \in 1..Len(w) : f[n] = 0 /\ f[n - 1] = 0
    BY <2>1
  <2>3. f[0] = 0 /\ f \in [0..Len(w) -> Nat]
    BY <1>0
  <2> HIDE DEF f
  <2> QED BY <2>2, <2>3 DEF IsSum
<1>2. f[Len(w)] = 0
  BY <1>0
<1> HIDE DEF f
<1> QED BY <1>1, <1>2, SumUnique

(* Total of two lists in a row is the sum of their totals.                 *)
LEMMA TotalConcat ==
  ASSUME NEW a \in Seq(Nat), NEW b \in Seq(Nat)
  PROVE  Total(a \o b) = Total(a) + Total(b)
<1> DEFINE w == a \o b
           A == Len(a)
           B == Len(b)
<1>0. /\ w \in Seq(Nat) /\ Len(w) = A + B /\ A \in Nat /\ B \in Nat
      /\ \A i \in 1..(A + B) : w[i] = IF i <= A THEN a[i] ELSE b[i - A]
      /\ \A i \in 1..A : a[i] \in Nat
      /\ \A i \in 1..B : b[i] \in Nat
  BY ConcatProperties, LenProperties, ElementOfSeq
<1>1. PICK f : IsSum(f, a)
  BY SumExists
<1>2. PICK g : IsSum(g, b)
  BY SumExists
<1>3. Total(a) = f[A] /\ Total(b) = g[B]
  BY <1>1, <1>2, SumUnique
<1>4. /\ f \in [0..A -> Nat] /\ f[0] = 0
      /\ \A n \in 1..A : f[n] = f[n - 1] + a[n]
      /\ g \in [0..B -> Nat] /\ g[0] = 0
      /\ \A n \in 1..B : g[n] = g[n - 1] + b[n]
  BY <1>1, <1>2 DEF IsSum
<1> DEFINE h == [n \in 0..(A + B) |-> IF n <= A THEN f[n] ELSE f[A] + g[n - A]]
<1> HIDE DEF w, A, B
<1>5. /\ \A n \in 0..A : n \in 0..(A + B) /\ n <= A /\ f[n] \in Nat
      /\ \A n \in 0..(A + B) : n <= A => n \in 0..A
      /\ \A n \in 0..(A + B) : ~ (n <= A) => n - A \in 0..B /\ n - A \in 1..B
      /\ A \in 0..A
  BY <1>0, <1>4
<1>6. /\ \A n \in 0..A : h[n] = f[n]
      /\ \A n \in 0..(A + B) : ~ (n <= A) => h[n] = f[A] + g[n - A]
  BY <1>5
<1>7. h \in [0..(A + B) -> Nat]
  <2> SUFFICES ASSUME NEW n \in 0..(A + B)
               PROVE  (IF n <= A THEN f[n] ELSE f[A] + g[n - A]) \in Nat
    OBVIOUS
  <2>1. CASE n <= A
    BY <1>5, <2>1
  <2>2. CASE ~ (n <= A)
    BY <1>4, <1>5, <2>2
  <2> QED BY <2>1, <2>2
<1> HIDE DEF h
<1>8. \A n \in 1..(A + B) : h[n] = h[n - 1] + w[n]
  <2> SUFFICES ASSUME NEW n \in 1..(A + B) PROVE h[n] = h[n - 1] + w[n]
    OBVIOUS
  <2>1. CASE n <= A
    <3>1. n \in 1..A /\ n \in 0..A /\ n - 1 \in 0..A
      BY <1>0, <2>1
    <3> QED BY <1>0, <1>4, <1>6, <2>1, <3>1
  <2>2. CASE n = A + 1
    <3>1. n \in 0..(A + B) /\ ~ (n <= A) /\ n - A = 1 /\ n - 1 = A /\ 1 \in 1..B /\ 1 - 1 = 0
      BY <1>0, <2>2
    <3>2. h[n] = f[A] + g[1]
      BY <1>6, <3>1
    <3>3. w[n] = b[1]
      BY <1>0, <3>1
    <3>4. h[n - 1] = f[A]
      BY <1>5, <1>6, <3>1
    <3>5. g[1] = g[0] + b[1]
      BY <1>4, <3>1
    <3>6. g[0] = 0 /\ b[1] \in Nat /\ f[A] \in Nat
      BY <1>0, <1>4, <1>5, <3>1
    <3> QED BY <3>2, <3>3, <3>4, <3>5, <3>6
  <2>3. CASE ~ (n <= A) /\ n # A + 1
    <3>1. /\ n \in 0..(A + B) /\ n - 1 \in 0..(A + B) /\ ~ (n - 1 <= A)
          /\ n - A \in 1..B /\ (n - A) - 1 = (n - 1) - A /\ (n - 1) - A \in 0..B
      BY <1>0, <2>3
    <3>2. /\ h[n] = f[A] + g[n - A] /\ h[n - 1] = f[A] + g[(n - 1) - A]
          /\ w[n] = b[n - A]
      BY <1>0, <1>6, <2>3, <3>1
    <3>3. g[n - A] = g[(n - 1) - A] + b[n - A]
      BY <1>4, <3>1
    <3>4. /\ g[(n - 1) - A] \in Nat /\ f[A] \in Nat /\ b[n - A] \in Nat
      BY <1>0, <1>4, <1>5, <3>1
    <3> QED BY <3>2, <3>3, <3>4
  <2> QED BY <2>1, <2>2, <2>3
<1>9. h[0] = 0
  BY <1>0, <1>4, <1>6
<1>10. IsSum(h, w)
  BY <1>0, <1>7, <1>8, <1>9 DEF IsSum
<1>11. h[A + B] = f[A] + g[B]
  <2>1. CASE B = 0
    BY <1>0, <1>4, <1>5, <1>6, <2>1
  <2>2. CASE B # 0
    <3>1. A + B \in 0..(A + B) /\ ~ (A + B <= A) /\ (A + B) - A = B
      BY <1>0, <2>2
    <3> QED BY <1>6, <3>1
  <2> QED BY <2>1, <2>2
<1>12. Total(w) = h[A + B]
  BY <1>0, <1>10, SumUnique
<1> QED BY <1>3, <1>11, <1>12 DEF w, A, B

(* One more element adds itself.                                           *)
LEMMA TotalAppend ==
  ASSUME NEW w \in Seq(Nat), NEW x \in Nat
  PROVE  Total(Append(w, x)) = Total(w) + x
<1> DEFINE v == Append(w, x)
<1>0. /\ v \in Seq(Nat) /\ Len(v) = Len(w) + 1 /\ Len(w) \in Nat
      /\ \A i \in 1..Len(w) : v[i] = w[i]
      /\ v[Len(w) + 1] = x
      /\ Len(w) \in 0..Len(v) /\ Len(v) \in 1..Len(v) /\ Len(v) - 1 = Len(w)
  BY AppendProperties, LenProperties
<1> HIDE DEF v
<1>1. PICK f : IsSum(f, v)
  BY <1>0, SumExists
<1>2. /\ f \in [0..Len(v) -> Nat] /\ f[0] = 0
      /\ \A n \in 1..Len(v) : f[n] = f[n - 1] + v[n]
  BY <1>1 DEF IsSum
<1> DEFINE g == [n \in 0..Len(w) |-> f[n]]
<1>3. IsSum(g, w)
  <2>1. /\ \A n \in 0..Len(w) : n \in 0..Len(v)
        /\ \A n \in 1..Len(w) : n \in 1..Len(v) /\ n - 1 \in 0..Len(w) /\ n \in 0..Len(w)
    BY <1>0
  <2>2. g \in [0..Len(w) -> Nat]
    BY <1>2, <2>1
  <2>3. \A n \in 0..Len(w) : g[n] = f[n]
    OBVIOUS
  <2>4. 0 \in 0..Len(w)
    BY <1>0
  <2> HIDE DEF g
  <2>5. \A n \in 1..Len(w) : g[n] = g[n - 1] + w[n]
    BY <1>0, <1>2, <2>1, <2>3
  <2> QED BY <1>2, <2>2, <2>3, <2>4, <2>5 DEF IsSum
<1>4. g[Len(w)] = f[Len(w)]
  BY <1>0
<1> HIDE DEF g
<1>5. Total(w) = f[Len(w)] /\ Total(v) = f[Len(v)]
  BY <1>0, <1>1, <1>3, <1>4, SumUnique
<1> QED BY <1>0, <1>2, <1>5 DEF v

(* What the elements of a list add up to, each with its weight.            *)
Weights(r, g) == [j \in 1..Len(r) |-> g[r[j]]]

(* Weights of a list are as many as its elements.                          *)
LEMMA WeightsTyped ==
  ASSUME NEW S, NEW g \in [S -> Nat], NEW r \in Seq(S)
  PROVE  /\ Weights(r, g) \in Seq(Nat) /\ Len(Weights(r, g)) = Len(r)
         /\ \A j \in 1..Len(r) : Weights(r, g)[j] = g[r[j]]
<1>0. Len(r) \in Nat /\ \A n \in 1..Len(r) : r[n] \in S
  BY LenProperties, ElementOfSeq
<1>1. \A n \in 1..Len(r) : g[r[n]] \in Nat
  BY <1>0
<1>2. Weights(r, g) \in [1..Len(r) -> Nat]
  BY <1>1 DEF Weights
<1>3. Weights(r, g) \in Seq(Nat) /\ Len(Weights(r, g)) = Len(r)
  BY <1>0, <1>2, IsASeq, LenProperties
<1> QED BY <1>3 DEF Weights

WeightsOK(r, g, w) ==
  w \in Seq(Nat) /\ Len(w) = Len(r) /\ \A j \in 1..Len(r) : w[j] = g[r[j]]

(* The same, for provers that need it without a context.                   *)
LEMMA WeightsOfAll ==
  \A S : \A g \in [S -> Nat], r \in Seq(S) : WeightsOK(r, g, Weights(r, g))
<1> TAKE S
<1> TAKE g \in [S -> Nat], r \in Seq(S)
<1> QED BY WeightsTyped DEF WeightsOK

(* Lists of one length with the same elements are equal.                   *)
LEMMA SameSequence ==
  ASSUME NEW S, NEW s \in Seq(S), NEW t \in Seq(S), Len(s) = Len(t),
         \A i \in 1..Len(s) : s[i] = t[i]
  PROVE  s = t
BY SeqEqual

(* The weight of an appended element is appended.                          *)
LEMMA WeightsAppend ==
  ASSUME NEW S, NEW g \in [S -> Nat], NEW r \in Seq(S), NEW x \in S
  PROVE  Weights(Append(r, x), g) = Append(Weights(r, g), g[x])
<1> DEFINE t == Append(r, x)
           v == Weights(r, g)
           u == Weights(t, g)
           q == Append(v, g[x])
<1>0. /\ t \in Seq(S) /\ Len(t) = Len(r) + 1 /\ Len(r) \in Nat
      /\ \A i \in 1..Len(r) : t[i] = r[i]
      /\ t[Len(r) + 1] = x
  BY AppendProperties, LenProperties
<1> HIDE DEF t
<1>1. /\ v \in Seq(Nat) /\ Len(v) = Len(r) /\ \A j \in 1..Len(r) : v[j] = g[r[j]]
      /\ u \in Seq(Nat) /\ Len(u) = Len(t) /\ \A j \in 1..Len(t) : u[j] = g[t[j]]
  <2>1. v \in Seq(Nat) /\ Len(v) = Len(r) /\ \A j \in 1..Len(r) : v[j] = g[r[j]]
    BY WeightsTyped
  <2>2. u \in Seq(Nat) /\ Len(u) = Len(t) /\ \A j \in 1..Len(t) : u[j] = g[t[j]]
    BY <1>0, WeightsTyped
  <2> QED BY <2>1, <2>2
<1> HIDE DEF v, u
<1>2. g[x] \in Nat
  OBVIOUS
<1>3. /\ q \in Seq(Nat) /\ Len(q) = Len(v) + 1
      /\ \A i \in 1..Len(v) : q[i] = v[i]
      /\ q[Len(v) + 1] = g[x]
  BY <1>1, <1>2, AppendProperties
<1> HIDE DEF q
<1>4. Len(u) = Len(q)
  BY <1>0, <1>1, <1>3
<1>5. \A i \in 1..Len(u) : u[i] = q[i]
  <2> SUFFICES ASSUME NEW i \in 1..Len(u) PROVE u[i] = q[i]
    OBVIOUS
  <2>1. i \in 1..Len(r) \/ i = Len(r) + 1
    BY <1>0, <1>1
  <2> QED BY <1>0, <1>1, <1>3, <2>1
<1>6. u = q
  BY <1>1, <1>3, <1>4, <1>5, SeqEqual
<1> QED BY <1>6 DEF u, q, t, v

(* The weights of two lists in a row are in a row.                         *)
LEMMA WeightsConcat ==
  ASSUME NEW S, NEW g \in [S -> Nat], NEW a \in Seq(S), NEW b \in Seq(S)
  PROVE  Weights(a \o b, g) = Weights(a, g) \o Weights(b, g)
<1> DEFINE t == a \o b
           u == Weights(t, g)
           va == Weights(a, g)
           vb == Weights(b, g)
           q == va \o vb
<1>0. /\ t \in Seq(S) /\ Len(t) = Len(a) + Len(b) /\ Len(a) \in Nat /\ Len(b) \in Nat
      /\ \A i \in 1..(Len(a) + Len(b)) : t[i] = IF i <= Len(a) THEN a[i] ELSE b[i - Len(a)]
  BY ConcatProperties, LenProperties
<1> HIDE DEF t
<1>1. /\ u \in Seq(Nat) /\ Len(u) = Len(t) /\ \A j \in 1..Len(t) : u[j] = g[t[j]]
      /\ va \in Seq(Nat) /\ Len(va) = Len(a) /\ \A j \in 1..Len(a) : va[j] = g[a[j]]
      /\ vb \in Seq(Nat) /\ Len(vb) = Len(b) /\ \A j \in 1..Len(b) : vb[j] = g[b[j]]
  <2>1. g \in [S -> Nat] /\ a \in Seq(S) /\ b \in Seq(S) /\ t \in Seq(S)
    BY <1>0
  <2>2. WeightsOK(t, g, u) /\ WeightsOK(a, g, va) /\ WeightsOK(b, g, vb)
    BY <2>1, WeightsOfAll, Zenon
  <2> HIDE DEF u, va, vb
  <2> QED BY <2>2 DEF WeightsOK
<1> HIDE DEF va, vb, u
<1>2. /\ q \in Seq(Nat) /\ Len(q) = Len(va) + Len(vb)
      /\ \A i \in 1..(Len(va) + Len(vb)) : q[i] = IF i <= Len(va) THEN va[i] ELSE vb[i - Len(va)]
  BY <1>1, ConcatProperties
<1> HIDE DEF q
<1>3. \A i \in 1..Len(u) : u[i] = q[i]
  <2> SUFFICES ASSUME NEW i \in 1..Len(u) PROVE u[i] = q[i]
    OBVIOUS
  <2>0. i \in 1..(Len(a) + Len(b))
    BY <1>0, <1>1
  <2>1. CASE i <= Len(a)
    <3>1. i \in 1..Len(a)
      BY <1>0, <2>0, <2>1
    <3>2. u[i] = g[a[i]]
      <4>1. t[i] = a[i] /\ i \in 1..Len(t)
        BY <1>0, <2>0, <2>1
      <4> QED BY <1>1, <4>1
    <3>3. q[i] = va[i]
      BY <1>1, <1>2, <2>0, <2>1
    <3> QED BY <1>1, <3>1, <3>2, <3>3
  <2>2. CASE ~ (i <= Len(a))
    <3>1. i - Len(a) \in 1..Len(b)
      BY <1>0, <2>0, <2>2
    <3>2. u[i] = g[b[i - Len(a)]]
      <4>1. t[i] = b[i - Len(a)] /\ i \in 1..Len(t)
        BY <1>0, <2>0, <2>2
      <4> QED BY <1>1, <4>1
    <3>3. q[i] = vb[i - Len(a)]
      BY <1>1, <1>2, <2>0, <2>2
    <3> QED BY <1>1, <3>1, <3>2, <3>3
  <2> QED BY <2>1, <2>2
<1>4. Len(u) = Len(q)
  BY <1>0, <1>1, <1>2
<1>5. u = q
  BY <1>1, <1>2, <1>3, <1>4, SeqEqual
<1> QED BY <1>5 DEF u, q, t, va, vb

(* Adding up what was picked is adding up everything, with nothing for     *)
(* what was not.                                                           *)
Shown(s, P, g) == [k \in 1..Len(s) |-> IF k \in P THEN g[s[k]] ELSE 0]

LEMMA PickTotal ==
  ASSUME NEW S, NEW g \in [S -> Nat], NEW s \in Seq(S), NEW P
  PROVE  Total(Weights(PickAt(s, P), g)) = Total(Shown(s, P, g))
<1> DEFINE N == Len(s)
           w == Shown(s, P, g)
<1>0. N \in Nat /\ \A n \in 1..N : s[n] \in S /\ g[s[n]] \in Nat
  BY LenProperties, ElementOfSeq
<1>1. w \in Seq(Nat) /\ Len(w) = N /\ \A n \in 1..N : w[n] = IF n \in P THEN g[s[n]] ELSE 0
  <2>1. w \in [1..N -> Nat]
    BY <1>0 DEF Shown
  <2>2. w \in Seq(Nat) /\ Len(w) = N
    BY <1>0, <2>1, IsASeq, LenProperties
  <2> QED BY <2>2 DEF Shown
<1>2. PICK f : IsPick(f, s, P, S) /\ PickAt(s, P) = f[N]
  BY PickDefined
<1> HIDE DEF w
<1>3. PICK h : IsSum(h, w)
  BY <1>1, SumExists
<1>4. /\ f \in [0..N -> Seq(S)] /\ f[0] = <<>>
      /\ \A n \in 1..N : f[n] = IF n \in P THEN Append(f[n - 1], s[n]) ELSE f[n - 1]
      /\ h \in [0..N -> Nat] /\ h[0] = 0
      /\ \A n \in 1..N : h[n] = h[n - 1] + w[n]
  BY <1>1, <1>2, <1>3 DEF IsPick, IsSum
<1> HIDE DEF N
<1> DEFINE T == {n \in 0..N : Total(Weights(f[n], g)) = h[n]}
<1>5. 0 \in T
  <2>1. Weights(<<>>, g) = <<>>
    BY DEF Weights
  <2> QED BY <1>0, <1>4, <2>1, TotalEmpty
<1>6. ASSUME NEW n \in 1..N, n - 1 \in T PROVE n \in T
  <2>1. n - 1 \in 0..N /\ n \in 0..N
    BY <1>0
  <2>2. f[n - 1] \in Seq(S) /\ h[n - 1] \in Nat /\ Total(Weights(f[n - 1], g)) = h[n - 1]
    BY <1>4, <1>6, <2>1
  <2>3. CASE n \in P
    <3>1. Weights(Append(f[n - 1], s[n]), g) = Append(Weights(f[n - 1], g), g[s[n]])
      BY <1>0, <2>2, WeightsAppend
    <3>2. Weights(f[n - 1], g) \in Seq(Nat)
      BY <2>2, WeightsTyped
    <3>3. Total(Append(Weights(f[n - 1], g), g[s[n]])) = h[n - 1] + g[s[n]]
      BY <1>0, <2>2, <3>2, TotalAppend
    <3> QED BY <1>1, <1>4, <2>1, <2>3, <3>1, <3>3
  <2>4. CASE n \notin P
    BY <1>1, <1>4, <2>1, <2>2, <2>4
  <2> QED BY <2>3, <2>4
<1> HIDE DEF T
<1>7. 0..N \subseteq T
  BY <1>0, <1>5, <1>6, UpToInduction
<1>8. N \in T /\ Total(w) = h[N]
  <2>1. N \in 0..N
    BY <1>0
  <2> QED BY <1>1, <1>3, <1>7, <2>1, SumUnique
<1> QED BY <1>2, <1>8 DEF T, w

(* sort_by_key: every element has a place of its own.                      *)
Below(keys, i) ==
  {j \in DOMAIN keys : keys[j] < keys[i] \/ (keys[j] = keys[i] /\ j <= i)}

(* Ranks are positions, and an element with a larger key, or the same key  *)
(* at a later position, has a larger rank.                                 *)
LEMMA RankGrows ==
  ASSUME NEW keys \in Seq(Nat)
  PROVE  /\ \A i \in 1..Len(keys) : Rank(keys, i) \in 1..Len(keys)
         /\ \A i, j \in 1..Len(keys) :
              keys[i] < keys[j] \/ (keys[i] = keys[j] /\ i < j)
                => Rank(keys, i) < Rank(keys, j)
<1> DEFINE N == Len(keys)
<1>0. /\ N \in Nat /\ DOMAIN keys = 1..N /\ \A i \in 1..N : keys[i] \in Nat
      /\ IsFiniteSet(1..N) /\ Cardinality(1..N) = N
  <2>1. N \in Nat /\ DOMAIN keys = 1..N /\ \A i \in 1..N : keys[i] \in Nat
    BY LenProperties, ElementOfSeq
  <2>2. 0 \in Int /\ 1 \in Int /\ N \in Int
    BY <2>1
  <2>3. IsFiniteSet(1..N) /\ Cardinality(1..N) = IF 1 > N THEN 0 ELSE N - 1 + 1
    BY <2>2, FS_Interval
  <2> QED BY <2>1, <2>3
<1>1. \A i : Rank(keys, i) = Cardinality(Below(keys, i))
  BY DEF Rank, Below
<1>2. ASSUME NEW i \in 1..N
      PROVE  /\ Below(keys, i) \subseteq 1..N /\ i \in Below(keys, i)
             /\ IsFiniteSet(Below(keys, i)) /\ Cardinality(Below(keys, i)) \in 1..N
  <2>1. Below(keys, i) \in SUBSET (1..N) /\ i \in Below(keys, i)
    BY <1>0 DEF Below
  <2>2. IsFiniteSet(Below(keys, i)) /\ Cardinality(Below(keys, i)) <= N
    BY <1>0, <2>1, FS_Subset
  <2>3. Cardinality(Below(keys, i)) # 0
    BY <2>1, <2>2, FS_EmptySet
  <2>4. Cardinality(Below(keys, i)) \in Nat
    BY <2>2, FS_CardinalityType
  <2> QED BY <1>0, <2>1, <2>2, <2>3, <2>4
<1>3. ASSUME NEW i \in 1..N, NEW j \in 1..N,
             keys[i] < keys[j] \/ (keys[i] = keys[j] /\ i < j)
      PROVE  Cardinality(Below(keys, i)) < Cardinality(Below(keys, j))
  <2>1. Below(keys, i) \in SUBSET Below(keys, j)
    <3> SUFFICES ASSUME NEW k \in 1..N,
                        keys[k] < keys[i] \/ (keys[k] = keys[i] /\ k <= i)
                 PROVE  keys[k] < keys[j] \/ (keys[k] = keys[j] /\ k <= j)
      BY <1>0 DEF Below
    <3>1. keys[k] \in Nat /\ keys[i] \in Nat /\ keys[j] \in Nat
      BY <1>0
    <3> QED BY <1>3, <3>1
  <2>2. j \in Below(keys, j) /\ j \notin Below(keys, i)
    <3>1. keys[i] \in Nat /\ keys[j] \in Nat
      BY <1>0
    <3>2. ~ (keys[j] < keys[i] \/ (keys[j] = keys[i] /\ j <= i))
      BY <1>3, <3>1
    <3> QED BY <1>2, <3>2 DEF Below
  <2>3. IsFiniteSet(Below(keys, j))
    BY <1>2
  <2>4. /\ Cardinality(Below(keys, i)) <= Cardinality(Below(keys, j))
        /\ Cardinality(Below(keys, j)) = Cardinality(Below(keys, i))
             => Below(keys, j) = Below(keys, i)
    BY <2>1, <2>3, FS_Subset
  <2>5. Cardinality(Below(keys, j)) \in Nat /\ Cardinality(Below(keys, i)) \in Nat
    <3>1. \A n \in 1..N : n \in Nat
      BY <1>0
    <3>2. Cardinality(Below(keys, i)) \in 1..N
      BY <1>2
    <3>3. Cardinality(Below(keys, j)) \in 1..N
      BY <1>2
    <3> QED BY <3>1, <3>2, <3>3
  <2> QED BY <2>2, <2>4, <2>5
<1> QED BY <1>1, <1>2, <1>3

IsOrder(o, keys) ==
  /\ o \in [1..Len(keys) -> 1..Len(keys)]
  /\ \A n \in 1..Len(keys) : Rank(keys, o[n]) = n
  /\ \A i \in 1..Len(keys) : \E n \in 1..Len(keys) : o[n] = i
  /\ \A m, n \in 1..Len(keys) : m < n => keys[o[m]] <= keys[o[n]]
  /\ \A m, n \in 1..Len(keys) : o[m] = o[n] => m = n

(* Every position is the rank of an element.                               *)
LEMMA RankOnto ==
  ASSUME NEW keys \in Seq(Nat), NEW n \in 1..Len(keys)
  PROVE  \E i \in 1..Len(keys) : Rank(keys, i) = n
<1> DEFINE N == Len(keys)
           f == [i \in 1..N |-> Rank(keys, i)]
<1>0. /\ N \in Nat /\ \A i \in 1..N : keys[i] \in Nat
      /\ IsFiniteSet(1..N)
  <2>1. N \in Nat /\ \A i \in 1..N : keys[i] \in Nat
    BY LenProperties, ElementOfSeq
  <2>2. 1 \in Int /\ N \in Int
    BY <2>1
  <2> QED BY <2>1, <2>2, FS_Interval
<1>1. \A i \in 1..N : Rank(keys, i) \in 1..N
  BY RankGrows
<1>2. \A i, j \in 1..N : Rank(keys, i) = Rank(keys, j) => i = j
  <2> SUFFICES ASSUME NEW i \in 1..N, NEW j \in 1..N, Rank(keys, i) = Rank(keys, j), i # j
               PROVE  FALSE
    OBVIOUS
  <2>1. /\ keys[i] < keys[j] \/ (keys[i] = keys[j] /\ i < j)
           => Rank(keys, i) < Rank(keys, j)
        /\ keys[j] < keys[i] \/ (keys[j] = keys[i] /\ j < i)
           => Rank(keys, j) < Rank(keys, i)
    BY RankGrows
  <2>2. keys[i] \in Nat /\ keys[j] \in Nat /\ Rank(keys, i) \in Int /\ Rank(keys, j) \in Int
    BY <1>0, <1>1
  <2> QED BY <2>1, <2>2
<1>3. f \in Injection(1..N, 1..N)
  BY <1>1, <1>2 DEF Injection, IsInjective
<1>4. f \in Surjection(1..N, 1..N)
  <2> HIDE DEF f
  <2> QED BY <1>0, <1>3, FS_Injection
<1>5. \E i \in 1..N : f[i] = n
  <2> HIDE DEF f
  <2> QED BY <1>4 DEF Surjection
<1> QED BY <1>5

(* SortedBy lists every element once, by its key (slice::sort_by_key).     *)
LEMMA SortingOrder ==
  ASSUME NEW S, NEW s \in Seq(S), NEW keys \in Seq(Nat), Len(keys) = Len(s)
  PROVE  \E o : /\ IsOrder(o, keys)
                /\ SortedBy(s, keys) = [n \in 1..Len(s) |-> s[o[n]]]
<1> DEFINE N == Len(keys)
           At(n) == CHOOSE i \in 1..N : Rank(keys, i) = n
           o == [n \in 1..N |-> At(n)]
<1>0. N \in Nat /\ DOMAIN s = 1..N /\ \A i \in 1..N : keys[i] \in Nat
  BY LenProperties, ElementOfSeq
<1>1. \A n \in 1..N : At(n) \in 1..N /\ Rank(keys, At(n)) = n
  <2> SUFFICES ASSUME NEW n \in 1..N PROVE At(n) \in 1..N /\ Rank(keys, At(n)) = n
    OBVIOUS
  <2>1. \E i \in 1..N : Rank(keys, i) = n
    BY RankOnto
  <2> QED BY <2>1
<1>2. SortedBy(s, keys) = [n \in 1..N |-> s[At(n)]]
  BY <1>0 DEF SortedBy
<1> HIDE DEF At
<1>3. /\ o \in [1..N -> 1..N]
      /\ \A n \in 1..N : o[n] = At(n) /\ Rank(keys, o[n]) = n
  BY <1>1
<1>4. SortedBy(s, keys) = [n \in 1..N |-> s[o[n]]]
  BY <1>2
<1> HIDE DEF o
<1>5. \A i, j \in 1..N : keys[i] < keys[j] \/ (keys[i] = keys[j] /\ i < j)
                           => Rank(keys, i) < Rank(keys, j)
  BY RankGrows
<1>6. \A m, n \in 1..N : m < n => keys[o[m]] <= keys[o[n]]
  <2> SUFFICES ASSUME NEW m \in 1..N, NEW n \in 1..N, m < n, ~ (keys[o[m]] <= keys[o[n]])
               PROVE  FALSE
    OBVIOUS
  <2>1. o[m] \in 1..N /\ o[n] \in 1..N /\ Rank(keys, o[m]) = m /\ Rank(keys, o[n]) = n
    BY <1>3
  <2>2. keys[o[n]] < keys[o[m]]
    <3>1. keys[o[m]] \in Nat /\ keys[o[n]] \in Nat
      BY <1>0, <2>1
    <3> QED BY <3>1
  <2>3. Rank(keys, o[n]) < Rank(keys, o[m])
    BY <1>5, <2>1, <2>2
  <2> QED BY <1>0, <2>1, <2>3
<1>7. \A m, n \in 1..N : o[m] = o[n] => m = n
  BY <1>3
<1>8. \A i \in 1..N : \E n \in 1..N : o[n] = i
  <2> SUFFICES ASSUME NEW i \in 1..N PROVE \E n \in 1..N : o[n] = i
    OBVIOUS
  <2>1. Rank(keys, i) \in 1..N
    BY RankGrows
  <2>2. o[Rank(keys, i)] \in 1..N /\ Rank(keys, o[Rank(keys, i)]) = Rank(keys, i)
    BY <1>3, <2>1
  <2>3. ASSUME NEW j \in 1..N, Rank(keys, j) = Rank(keys, i), j # i PROVE FALSE
    <3>1. keys[i] \in Nat /\ keys[j] \in Nat /\ Rank(keys, i) \in Int
      BY <1>0, <2>1
    <3>2. /\ keys[i] < keys[j] \/ (keys[i] = keys[j] /\ i < j)
             => Rank(keys, i) < Rank(keys, j)
          /\ keys[j] < keys[i] \/ (keys[j] = keys[i] /\ j < i)
             => Rank(keys, j) < Rank(keys, i)
      BY <1>5
    <3> QED BY <2>3, <3>1, <3>2
  <2> QED BY <2>1, <2>2, <2>3
<1>9. IsOrder(o, keys)
  BY <1>3, <1>6, <1>7, <1>8 DEF IsOrder
<1> QED BY <1>4, <1>9

-----------------------------------------------------------------------------
(* The registry: images and their symbols in order.                        *)
InOrder(syms) ==
  \A i, j \in 1..Len(syms) :
    i < j => syms[i].start < syms[j].start /\ syms[i].end <= syms[j].start

RegistryOK ==
  /\ byBase \in Seq(LoadedBinary)
  /\ \A i \in 1..Len(byBase) : InOrder(byBase[i].syms)
  /\ \A i, j \in 1..Len(byBase) : byBase[i].base = byBase[j].base => i = j
  /\ byBaseIndex = <<>> \/ byBaseIndex = BuiltIndex

SymbolRow == [start : Nat, end : Nat, name : STRING]

(* Insert sorts the symbols of an image, whose addresses differ.           *)
LEMMA StoredInOrder ==
  ASSUME NEW b \in LoadedBinary, SymbolsApart(b.syms)
  PROVE  /\ Stored(b) \in LoadedBinary /\ Stored(b).base = b.base
         /\ InOrder(Stored(b).syms)
<1> DEFINE syms == b.syms
           N == Len(syms)
           keys == [k \in DOMAIN syms |-> syms[k].start]
           sorted == SortedBy(syms, keys)
<1>0. /\ syms \in Seq(SymbolRow) /\ N \in Nat /\ DOMAIN syms = 1..N
      /\ \A i \in 1..N : syms[i] \in SymbolRow
  <2>1. syms \in Seq(SymbolRow)
    BY DEF LoadedBinary, SymbolRow
  <2> HIDE DEF syms
  <2> QED BY <2>1, LenProperties, ElementOfSeq
<1>1. Stored(b) = [b EXCEPT !.syms = sorted]
  BY DEF Stored
<1>2. \A i, j \in 1..N : /\ syms[i].start = syms[j].start => i = j
                         /\ syms[i].start < syms[j].start => syms[i].end <= syms[j].start
  BY <1>0 DEF SymbolsApart
<1> HIDE DEF syms
<1>3. keys \in Seq(Nat) /\ Len(keys) = N /\ \A i \in 1..N : keys[i] = syms[i].start
  <2>1. \A i \in 1..N : syms[i].start \in Nat
    BY <1>0 DEF SymbolRow
  <2>2. keys \in [1..N -> Nat]
    BY <1>0, <2>1
  <2>3. keys \in Seq(Nat)
    BY <1>0, <2>2
  <2>4. Len(keys) = N
    BY <1>0, <2>2
  <2> QED BY <1>0, <2>3, <2>4
<1> HIDE DEF keys, N
<1>4. PICK o : /\ IsOrder(o, keys)
               /\ sorted = [n \in 1..Len(syms) |-> syms[o[n]]]
  BY <1>0, <1>3, SortingOrder DEF N
<1> HIDE DEF sorted
<1>5. /\ o \in [1..N -> 1..N]
      /\ \A m, n \in 1..N : m < n => keys[o[m]] <= keys[o[n]]
      /\ \A m, n \in 1..N : o[m] = o[n] => m = n
  BY <1>3, <1>4 DEF IsOrder
<1>6. /\ sorted \in Seq(SymbolRow) /\ Len(sorted) = N
      /\ \A n \in 1..N : sorted[n] = syms[o[n]]
  <2>1. sorted = [n \in 1..N |-> syms[o[n]]]
    BY <1>4 DEF N
  <2>2. sorted \in [1..N -> SymbolRow]
    BY <1>0, <1>5, <2>1
  <2> QED BY <1>0, <2>1, <2>2
<1>7. InOrder(sorted)
  <2> SUFFICES ASSUME NEW i \in 1..N, NEW j \in 1..N, i < j
               PROVE  sorted[i].start < sorted[j].start /\ sorted[i].end <= sorted[j].start
    BY <1>6 DEF InOrder
  <2>1. o[i] \in 1..N /\ o[j] \in 1..N /\ o[i] # o[j] /\ keys[o[i]] <= keys[o[j]]
    <3>1. i # j
      BY <1>0
    <3> QED BY <1>5, <3>1
  <2>2. /\ syms[o[i]].start # syms[o[j]].start
        /\ syms[o[i]].start <= syms[o[j]].start
        /\ syms[o[i]].start \in Nat /\ syms[o[j]].start \in Nat
    BY <1>0, <1>2, <1>3, <2>1 DEF SymbolRow
  <2>3. syms[o[i]].start < syms[o[j]].start
    BY <2>2
  <2>4. syms[o[i]].end <= syms[o[j]].start
    BY <1>2, <2>1, <2>3
  <2> QED BY <1>6, <2>3, <2>4
<1>8. /\ [b EXCEPT !.syms = sorted] \in LoadedBinary
      /\ [b EXCEPT !.syms = sorted].base = b.base
      /\ [b EXCEPT !.syms = sorted].syms = sorted
  BY <1>6 DEF LoadedBinary, SymbolRow
<1> QED BY <1>1, <1>7, <1>8

(* Insert keeps the registry in order: an image at the same base is gone,  *)
(* and so is the index.                                                    *)
LEMMA InsertKeepsOrder ==
  ASSUME RegistryOK, NEW b \in LoadedBinary, SymbolsApart(b.syms), Insert(b)
  PROVE  RegistryOK'
<1> DEFINE P == {i \in DOMAIN byBase : byBase[i].base # b.base}
           r == PickAt(byBase, P)
           x == Stored(b)
<1>0. /\ byBase \in Seq(LoadedBinary) /\ Len(byBase) \in Nat
      /\ DOMAIN byBase = 1..Len(byBase)
      /\ \A i \in 1..Len(byBase) : InOrder(byBase[i].syms)
      /\ \A i, j \in 1..Len(byBase) : byBase[i].base = byBase[j].base => i = j
  BY LenProperties DEF RegistryOK
<1>1. byBase' = Append(r, x) /\ byBaseIndex' = <<>>
  BY DEF Insert, Retained
<1>2. x \in LoadedBinary /\ x.base = b.base /\ InOrder(x.syms)
  BY StoredInOrder
<1> HIDE DEF x
<1>3. PICK pos : /\ r \in Seq(LoadedBinary)
                 /\ Enumerates(pos, r, byBase, P \cap (1..Len(byBase)))
  BY <1>0, PickEnumerates
<1> HIDE DEF r
<1>4. /\ Len(r) \in Nat
      /\ \A j \in 1..Len(r) : /\ pos[j] \in 1..Len(byBase)
                              /\ r[j] = byBase[pos[j]] /\ r[j].base # b.base
      /\ \A i, j \in 1..Len(r) : i < j => pos[i] < pos[j]
  <2>1. /\ pos \in [1..Len(r) -> P \cap (1..Len(byBase))]
        /\ \A j \in 1..Len(r) : r[j] = byBase[pos[j]]
        /\ \A i, j \in 1..Len(r) : i < j => pos[i] < pos[j]
    BY <1>3 DEF Enumerates
  <2>2. \A j \in 1..Len(r) : pos[j] \in P \cap (1..Len(byBase))
    BY <2>1
  <2> QED BY <1>3, <2>1, <2>2, LenProperties
<1>5. /\ Append(r, x) \in Seq(LoadedBinary) /\ Len(Append(r, x)) = Len(r) + 1
      /\ \A j \in 1..Len(r) : Append(r, x)[j] = r[j]
      /\ Append(r, x)[Len(r) + 1] = x
  BY <1>2, <1>3, <1>4, AppendProperties
<1> HIDE DEF P
<1>6. \A j \in 1..(Len(r) + 1) :
        \/ j = Len(r) + 1 /\ byBase'[j] = x
        \/ j \in 1..Len(r) /\ byBase'[j] = r[j]
  BY <1>1, <1>4, <1>5
<1>7. ASSUME NEW i \in 1..Len(byBase') PROVE InOrder(byBase'[i].syms)
  BY <1>0, <1>1, <1>2, <1>4, <1>5, <1>6
<1>8. ASSUME NEW i \in 1..Len(byBase'), NEW j \in 1..Len(byBase'),
             byBase'[i].base = byBase'[j].base
      PROVE  i = j
  <2>1. CASE i \in 1..Len(r) /\ j \in 1..Len(r)
    <3>1. byBase[pos[i]].base = byBase[pos[j]].base
      BY <1>1, <1>4, <1>5, <1>8, <2>1
    <3>2. pos[i] = pos[j]
      BY <1>0, <1>4, <2>1, <3>1
    <3> QED BY <1>0, <1>4, <2>1, <3>2
  <2> QED BY <1>1, <1>2, <1>4, <1>5, <1>6, <1>8, <2>1
<1> QED BY <1>1, <1>5, <1>7, <1>8 DEF RegistryOK

(* The index is a list of the images in the order of their addresses.      *)
Row == [base : Nat, end : Nat, at : Nat]

LEMMA IndexInOrder ==
  ASSUME RegistryOK
  PROVE  \E o : /\ o \in [1..Len(byBase) -> 1..Len(byBase)]
                /\ \A i \in 1..Len(byBase) : \E n \in 1..Len(byBase) : o[n] = i
                /\ \A m, n \in 1..Len(byBase) :
                     m < n => byBase[o[m]].base < byBase[o[n]].base
                /\ Index = [n \in 1..Len(byBase) |->
                              [base |-> byBase[o[n]].base,
                               end |-> byBase[o[n]].end, at |-> o[n]]]
<1> DEFINE N == Len(byBase)
           rows == [i \in DOMAIN byBase |->
                      [base |-> byBase[i].base, end |-> byBase[i].end, at |-> i]]
           keys == [i \in DOMAIN byBase |-> byBase[i].base]
<1>0. /\ byBase \in Seq(LoadedBinary) /\ N \in Nat /\ DOMAIN byBase = 1..N
      /\ \A i \in 1..N : byBase[i] \in LoadedBinary
      /\ \A i, j \in 1..N : byBase[i].base = byBase[j].base => i = j
  BY LenProperties, ElementOfSeq DEF RegistryOK
<1>1. Index = SortedBy(rows, keys)
  BY DEF RegistryOK, Index, BuiltIndex
<1>2. \A i \in 1..N : byBase[i].base \in Nat /\ byBase[i].end \in Nat
  BY <1>0 DEF LoadedBinary
<1>3. /\ rows \in Seq(Row) /\ Len(rows) = N
      /\ \A i \in 1..N : rows[i] = [base |-> byBase[i].base,
                                    end |-> byBase[i].end, at |-> i]
  <2>0. \A i \in 1..N : i \in Nat
    BY <1>0
  <2>1. \A i \in 1..N : [base |-> byBase[i].base, end |-> byBase[i].end, at |-> i] \in Row
    BY <1>2, <2>0 DEF Row
  <2>2. rows \in [1..N -> Row]
    BY <1>0, <2>1
  <2> QED BY <1>0, <2>2
<1>4. /\ keys \in Seq(Nat) /\ Len(keys) = N /\ \A i \in 1..N : keys[i] = byBase[i].base
  <2>1. keys \in [1..N -> Nat]
    BY <1>0, <1>2
  <2> QED BY <1>0, <2>1
<1> HIDE DEF rows, keys, N
<1>5. PICK o : /\ IsOrder(o, keys)
               /\ SortedBy(rows, keys) = [n \in 1..Len(rows) |-> rows[o[n]]]
  <2>1. rows \in Seq(Row) /\ keys \in Seq(Nat) /\ Len(keys) = Len(rows)
    BY <1>3, <1>4
  <2>2. \E o : /\ IsOrder(o, keys)
               /\ SortedBy(rows, keys) = [n \in 1..Len(rows) |-> rows[o[n]]]
    BY <2>1, SortingOrder
  <2> QED BY <2>2
<1>6. /\ o \in [1..N -> 1..N]
      /\ \A i \in 1..N : \E n \in 1..N : o[n] = i
      /\ \A m, n \in 1..N : m < n => keys[o[m]] <= keys[o[n]]
      /\ \A m, n \in 1..N : o[m] = o[n] => m = n
  BY <1>4, <1>5 DEF IsOrder
<1>7. \A m, n \in 1..N : m < n => byBase[o[m]].base < byBase[o[n]].base
  <2> SUFFICES ASSUME NEW m \in 1..N, NEW n \in 1..N, m < n
               PROVE  byBase[o[m]].base < byBase[o[n]].base
    OBVIOUS
  <2>1. o[m] \in 1..N /\ o[n] \in 1..N /\ keys[o[m]] <= keys[o[n]] /\ o[m] # o[n]
    <3>1. m # n
      BY <1>0
    <3> QED BY <1>6, <3>1
  <2>2. byBase[o[m]].base # byBase[o[n]].base
    BY <1>0, <2>1
  <2> QED BY <1>2, <1>4, <2>1, <2>2
<1>8. Index = [n \in 1..N |-> [base |-> byBase[o[n]].base,
                              end |-> byBase[o[n]].end, at |-> o[n]]]
  <2>1. \A n \in 1..N : rows[o[n]] = [base |-> byBase[o[n]].base,
                                     end |-> byBase[o[n]].end, at |-> o[n]]
    BY <1>3, <1>6
  <2>2. Index = [n \in 1..N |-> rows[o[n]]]
    BY <1>1, <1>3, <1>5
  <2> QED BY <2>1, <2>2
<1> QED BY <1>6, <1>7, <1>8 DEF N

(* How many leading elements satisfy P, where those that do come first.    *)
LEMMA UpToCount ==
  ASSUME NEW N \in Nat, NEW q \in 0..N, NEW T, T = {m \in 1..N : m <= q}
  PROVE  Cardinality(T) = q
<1>1. T = 1..q
  OBVIOUS
<1>2. 1 \in Int /\ q \in Int
  OBVIOUS
<1>3. Cardinality(1..q) = IF 1 > q THEN 0 ELSE q - 1 + 1
  BY <1>2, FS_Interval
<1>4. q = IF 1 > q THEN 0 ELSE q - 1 + 1
  OBVIOUS
<1> QED BY <1>1, <1>3, <1>4, Zenon

(* binary_for_address finds the image that owns the address.               *)
LEMMA OwnerIsFound ==
  ASSUME RegistryOK, NEW i \in 1..Len(byBase), NEW address \in Int,
         Owns(byBase[i], address)
  PROVE  BinaryForAddress(address) = i
<1> DEFINE N == Len(byBase)
<1>0. /\ N \in Nat /\ DOMAIN byBase = 1..N
      /\ \A k \in 1..N : byBase[k].base \in Nat /\ byBase[k].end \in Nat
  <2>1. /\ byBase \in Seq(LoadedBinary) /\ N \in Nat /\ DOMAIN byBase = 1..N
        /\ \A k \in 1..N : byBase[k] \in LoadedBinary
    BY LenProperties, ElementOfSeq DEF RegistryOK
  <2> QED BY <2>1 DEF LoadedBinary
<1>1. PICK o : /\ o \in [1..N -> 1..N]
               /\ \A k \in 1..N : \E n \in 1..N : o[n] = k
               /\ \A m, n \in 1..N :
                    m < n => byBase[o[m]].base < byBase[o[n]].base
               /\ Index = [n \in 1..N |->
                             [base |-> byBase[o[n]].base,
                              end |-> byBase[o[n]].end, at |-> o[n]]]
  BY IndexInOrder
<1>2. /\ DOMAIN Index = 1..N
      /\ \A n \in 1..N : /\ Index[n].base = byBase[o[n]].base
                        /\ Index[n].end = byBase[o[n]].end /\ Index[n].at = o[n]
  BY <1>1
<1>3. PICK q \in 1..N : o[q] = i
  BY <1>1
<1>4. /\ byBase[i].base <= address /\ address < byBase[i].end
      /\ \A k \in 1..N : byBase[k].base <= address => byBase[k].base <= byBase[i].base
  BY <1>0 DEF Owns
<1> DEFINE T == {n \in DOMAIN Index : Index[n].base <= address}
<1>5. T = {n \in 1..N : n <= q}
  <2>1. ASSUME NEW n \in 1..N PROVE Index[n].base <= address <=> n <= q
    <3>0. /\ o[n] \in 1..N /\ byBase[o[n]].base \in Nat /\ byBase[i].base \in Nat
          /\ Index[n].base = byBase[o[n]].base
      BY <1>0, <1>1, <1>2
    <3>1. CASE n < q
      <4>1. byBase[o[n]].base < byBase[i].base
        BY <1>1, <1>3, <3>1
      <4> QED BY <1>0, <1>4, <3>0, <3>1, <4>1
    <3>2. CASE n = q
      BY <1>0, <1>3, <1>4, <3>0, <3>2
    <3>3. CASE q < n
      <4>1. byBase[i].base < byBase[o[n]].base
        BY <1>1, <1>3, <3>3
      <4> QED BY <1>0, <1>4, <3>0, <3>3, <4>1
    <3> QED BY <1>0, <3>1, <3>2, <3>3
  <2> QED BY <1>2, <2>1
<1> HIDE DEF T
<1>6. Cardinality(T) = q
  <2>1. q \in 0..N
    BY <1>0
  <2> HIDE DEF N
  <2> QED BY <1>0, <1>5, <2>1, UpToCount
<1>7. PartitionPoint(Index, LAMBDA e : e.base <= address) = Cardinality(T)
  BY DEF PartitionPoint, T
<1>8. BinaryForAddress(address) =
        IF Cardinality(T) # 0 /\ address < Index[Cardinality(T)].end
        THEN Index[Cardinality(T)].at ELSE 0
  BY <1>7, Zenon DEF BinaryForAddress
<1>9. q # 0 /\ address < Index[q].end /\ Index[q].at = i
  BY <1>0, <1>2, <1>3, <1>4
<1> QED BY <1>6, <1>8, <1>9

(* In an image whose symbols are in order, both searches find the symbol.  *)
LEMMA SymbolIsFound ==
  ASSUME NEW b \in LoadedBinary, InOrder(b.syms), NEW j \in 1..Len(b.syms),
         NEW svma \in b.syms[j].start..(b.syms[j].end - 1)
  PROVE  /\ LookupIn(b, svma) = Named(b, <<b.syms[j].name>>)
         /\ SelectInSeq(b.syms, LAMBDA s : Covers(s, svma)) = j
<1> DEFINE syms == b.syms
           N == Len(syms)
<1>0. /\ N \in Nat /\ DOMAIN syms = 1..N /\ svma \in Int
      /\ \A k \in 1..N : syms[k].start \in Nat /\ syms[k].end \in Nat
  <2>1. syms \in Seq(SymbolRow)
    BY DEF LoadedBinary, SymbolRow
  <2> HIDE DEF syms
  <2>2. N \in Nat /\ DOMAIN syms = 1..N /\ \A k \in 1..N : syms[k] \in SymbolRow
    BY <2>1, LenProperties, ElementOfSeq
  <2>3. \A k \in 1..N : syms[k].start \in Nat /\ syms[k].end \in Nat
    BY <2>2 DEF SymbolRow
  <2>4. syms[j].start \in Nat /\ syms[j].end \in Nat
    BY <2>3 DEF syms
  <2> QED BY <2>2, <2>3, <2>4 DEF syms
<1>1. syms[j].start <= svma /\ svma < syms[j].end
  BY <1>0
<1>2. \A k, l \in 1..N : k < l => syms[k].start < syms[l].start /\ syms[k].end <= syms[l].start
  BY DEF InOrder
<1> DEFINE T == {k \in DOMAIN syms : syms[k].start <= svma}
<1>3. T = {k \in 1..N : k <= j}
  <2>1. ASSUME NEW k \in 1..N PROVE syms[k].start <= svma <=> k <= j
    <3> HIDE DEF syms
    <3>0. j \in 1..N /\ k \in Int /\ j \in Int /\ syms[k].start \in Nat /\ syms[j].start \in Nat
          /\ syms[j].end \in Nat
      BY <1>0 DEF syms
    <3>1. k < j => syms[k].start < syms[j].start
      BY <1>2, <3>0
    <3>2. j < k => syms[j].end <= syms[k].start
      BY <1>2, <3>0
    <3> QED BY <1>0, <1>1, <3>0, <3>1, <3>2
  <2> QED BY <1>0, <2>1
<1> HIDE DEF T
<1>4. Cardinality(T) = j
  <2>1. j \in 0..N
    BY <1>0
  <2> HIDE DEF N
  <2> QED BY <1>0, <1>3, <2>1, UpToCount
<1>5. PartitionPoint(b.syms, LAMBDA s : s.start <= svma) = Cardinality(T)
  BY DEF PartitionPoint, T
<1>6. LookupIn(b, svma) = Named(b, <<b.syms[j].name>>)
  <2>1. LookupIn(b, svma) =
          IF Cardinality(T) # 0 /\ svma < b.syms[Cardinality(T)].end
          THEN Named(b, <<b.syms[Cardinality(T)].name>>)
          ELSE Named(b, <<b.path, svma>>)
    BY <1>5, Zenon DEF LookupIn
  <2>2. j # 0
    BY <1>0
  <2> QED BY <1>1, <1>4, <2>1, <2>2
<1>7. SelectInSeq(b.syms, LAMBDA s : Covers(s, svma)) = j
  <2> DEFINE H == {k \in 1..Len(b.syms) : Covers(b.syms[k], svma)}
  <2>1. H = {j}
    <3>1. ASSUME NEW k \in 1..N PROVE Covers(syms[k], svma) <=> k = j
      <4> HIDE DEF syms
      <4>0. j \in 1..N /\ k \in Int /\ j \in Int /\ syms[k].start \in Nat /\ syms[j].start \in Nat
            /\ syms[j].end \in Nat /\ syms[k].end \in Nat
        BY <1>0 DEF syms
      <4>1. k < j => syms[k].end <= syms[j].start
        BY <1>2, <4>0
      <4>2. j < k => syms[j].end <= syms[k].start
        BY <1>2, <4>0
      <4>3. Covers(syms[k], svma) <=> syms[k].start <= svma /\ svma < syms[k].end
        BY DEF Covers
      <4> QED BY <1>0, <1>1, <4>0, <4>1, <4>2, <4>3
    <3> QED BY <3>1
  <2> HIDE DEF H
  <2>2. SelectInSeq(b.syms, LAMBDA s : Covers(s, svma)) = IF H = {} THEN 0 ELSE Min(H)
    BY DEF SelectInSeq, H
  <2>3. Min({j}) = j
    BY <1>0 DEF Min
  <2> QED BY <2>1, <2>2, <2>3
<1> QED BY <1>6, <1>7

(* lookup_symbol and resolve name the address after the symbol that holds  *)
(* it.                                                                     *)
LEMMA SymbolNamesTheAddress ==
  ASSUME RegistryOK, NEW i \in 1..Len(byBase), NEW j \in 1..Len(byBase[i].syms),
         NEW svma \in byBase[i].syms[j].start..(byBase[i].syms[j].end - 1),
         Owns(byBase[i], AvmaFor(byBase[i], svma))
  PROVE  NamedAfter(byBase[i], byBase[i].syms[j], AvmaFor(byBase[i], svma))
<1> DEFINE b == byBase[i]
           s == b.syms[j]
           address == AvmaFor(b, svma)
           found == Resolve(address)
<1>0. b \in LoadedBinary /\ InOrder(b.syms)
  BY ElementOfSeq DEF RegistryOK
<1>1. /\ b.base \in Nat /\ b.text \in Nat
      /\ s.start \in Nat /\ s.end \in Nat /\ svma \in Int
      /\ s.start <= svma /\ svma < s.end
  <2>1. b.syms \in Seq(SymbolRow) /\ b.base \in Nat /\ b.text \in Nat
    BY <1>0 DEF LoadedBinary, SymbolRow
  <2>2. s \in SymbolRow
    BY <2>1, ElementOfSeq
  <2>3. s.start \in Nat /\ s.end \in Nat
    BY <2>2 DEF SymbolRow
  <2> HIDE DEF s
  <2>4. svma \in s.start..(s.end - 1)
    BY DEF s
  <2> QED BY <2>1, <2>3, <2>4
<1>2. address = svma - b.text + b.base /\ address \in Int
  BY <1>1 DEF AvmaFor
<1>3. SvmaFor(b, address) = svma
  <2> HIDE DEF address, b
  <2>1. address - b.base + b.text = svma
    BY <1>1, <1>2
  <2> QED BY <2>1 DEF SvmaFor
<1>4. BinaryForAddress(address) = i
  BY <1>2, OwnerIsFound
<1>5. i # 0
  BY LenProperties DEF RegistryOK
<1>6. LookupIn(b, svma) = Named(b, <<s.name>>) /\ SelectInSeq(b.syms, LAMBDA r : Covers(r, svma)) = j
  BY <1>0, SymbolIsFound
<1>7. LookupSymbol(address) = Named(b, <<s.name>>)
  <2> HIDE DEF address
  <2>1. LookupSymbol(address) = LookupIn(byBase[i], SvmaFor(byBase[i], address))
    BY <1>4, <1>5 DEF LookupSymbol
  <2> QED BY <1>3, <1>6, <2>1
<1>8. found = ResolveIn(b, svma)
  <2> HIDE DEF address
  <2> QED BY <1>3, <1>4, <1>5, Zenon DEF Resolve, found, b
<1>9. ASSUME found # NoFunction
      PROVE  /\ found.fn = <<s.name>> /\ found.base = AvmaFor(b, s.start)
             /\ found.end = AvmaFor(b, s.end)
  <2> DEFINE hit   == SelectInSeq(b.syms, LAMBDA r : Covers(r, svma))
             start == IF hit # 0 THEN b.syms[hit].start
                      ELSE IF svma < Window THEN 0 ELSE svma - Window
             end   == IF hit # 0 THEN b.syms[hit].end ELSE svma + Window
             held  == SelectSeq(<<"disk", "target", "inline", "cache">>,
                                LAMBDA r : Holds(r, b, start, end))
             fn    == IF hit # 0 THEN <<b.syms[hit].name>> ELSE <<b.path, svma>>
             whole == [fn |-> fn, base |-> AvmaFor(b, start),
                       end |-> AvmaFor(b, end), from |-> held[1]]
  <2>1. ResolveIn(b, svma) = IF held = <<>> THEN NoFunction ELSE whole
    <3> HIDE DEF b
    <3> QED BY Zenon DEF ResolveIn, held, whole, start, end, fn, hit
  <2> HIDE DEF found, held
  <2>2. found = whole
    BY <1>8, <1>9, <2>1, Zenon
  <2>3. j # 0
    <3>1. Len(b.syms) \in Nat
      BY <1>0, LenProperties DEF LoadedBinary
    <3> QED BY <3>1
  <2>4. hit # 0 /\ hit = j
    BY <1>6, <2>3
  <2> HIDE DEF hit
  <2>5. start = s.start /\ end = s.end /\ fn = <<s.name>>
    BY <2>4
  <2>6. whole.fn = fn /\ whole.base = AvmaFor(b, start) /\ whole.end = AvmaFor(b, end)
    <3> HIDE DEF fn, start, end, b
    <3> QED OBVIOUS
  <2> HIDE DEF whole, start, end, fn
  <2> HIDE DEF b, s
  <2> QED BY <2>2, <2>5, <2>6, Zenon
<1>10. /\ AvmaFor(b, s.start) <= address /\ address < AvmaFor(b, s.end)
  <2> HIDE DEF b, s, address
  <2>1. /\ AvmaFor(b, s.start) = s.start - b.text + b.base
        /\ AvmaFor(b, s.end) = s.end - b.text + b.base
    BY DEF AvmaFor
  <2>2. \A base, text, start, end \in Nat :
          start <= svma /\ svma < end =>
            /\ start - text + base <= svma - text + base
            /\ svma - text + base < end - text + base
    BY <1>1
  <2> QED BY <1>1, <1>2, <2>1, <2>2
<1> QED BY <1>7, <1>9, <1>10 DEF NamedAfter

(* What a registry in order answers is what LookupNamesTheImage says.      *)
LEMMA OrderedRegistryNames ==
  ASSUME RegistryOK
  PROVE  LookupNamesTheImage
<1> SUFFICES ASSUME NEW i \in DOMAIN byBase, NEW j \in DOMAIN byBase[i].syms,
                    NEW svma \in byBase[i].syms[j].start..(byBase[i].syms[j].end - 1),
                    Owns(byBase[i], AvmaFor(byBase[i], svma))
             PROVE  NamedAfter(byBase[i], byBase[i].syms[j], AvmaFor(byBase[i], svma))
  BY Zenon DEF LookupNamesTheImage
<1>1. byBase \in Seq(LoadedBinary) /\ i \in 1..Len(byBase)
  BY LenProperties DEF RegistryOK
<1>2. byBase[i].syms \in Seq(SymbolRow)
  <2>1. byBase[i] \in LoadedBinary
    BY <1>1, ElementOfSeq
  <2> QED BY <2>1 DEF LoadedBinary, SymbolRow
<1>3. j \in 1..Len(byBase[i].syms)
  BY <1>2, LenProperties
<1> QED BY <1>1, <1>3, SymbolNamesTheAddress

(* An empty registry is in order.                                          *)
LEMMA EmptyRegistry ==
  ASSUME RegistryInit
  PROVE  RegistryOK
<1>1. byBase = <<>> /\ byBaseIndex = <<>> /\ Len(<<>>) = 0
  BY DEF RegistryInit
<1>2. 1..0 = {} /\ <<>> \in Seq(LoadedBinary)
  OBVIOUS
<1> QED BY <1>1, <1>2 DEF RegistryOK

(* Every step keeps the registry in order, and the index what would be     *)
(* built.                                                                  *)
LEMMA RegistryStep ==
  ASSUME RegistryOK, [Next]_vars
  PROVE  RegistryOK'
<1>0. ASSUME UNCHANGED byBase, byBaseIndex' = byBaseIndex \/ byBaseIndex' = Index
      PROVE  RegistryOK'
  <2>1. BuiltIndex' = BuiltIndex
    BY <1>0 DEF BuiltIndex
  <2>2. Index = BuiltIndex
    BY DEF RegistryOK, Index
  <2> QED BY <1>0, <2>1, <2>2 DEF RegistryOK
<1>1. ASSUME NEW t \in Threads, NEW stack \in Stacks, NEW now, ApplySample(t, stack, now)
      PROVE  RegistryOK'
  BY <1>0, <1>1 DEF ApplySample, registry
<1>2. ASSUME NEW t \in Threads, NEW now, ApplyInterval(t, now)
      PROVE  RegistryOK'
  BY <1>0, <1>2 DEF ApplyInterval, registry
<1>3. ASSUME NEW t \in Threads, NEW waker \in Threads, NEW now, ApplyWakeup(t, waker, now)
      PROVE  RegistryOK'
  BY <1>0, <1>3 DEF ApplyWakeup, registry
<1>4. ASSUME NEW binary \in Images, ApplyBinaryLoaded(binary)
      PROVE  RegistryOK'
  <2>1. binary \in LoadedBinary /\ SymbolsApart(binary.syms)
    BY LiveStoreAssumption
  <2>2. Insert(binary)
    BY <1>4 DEF ApplyBinaryLoaded
  <2> QED BY <2>1, <2>2, InsertKeepsOrder
<1>5. CASE ApplyTargetAttached
  BY <1>0, <1>5 DEF ApplyTargetAttached, SetTarget
<1>6. CASE Query
  BY <1>0, <1>6 DEF Query, LookedUp
<1>7. CASE UNCHANGED vars
  BY <1>0, <1>7 DEF vars, registry
<1> QED BY <1>1, <1>2, <1>3, <1>4, <1>5, <1>6, <1>7 DEF Next

(* binary_for_address, lookup_symbol and resolve of BinaryRegistry:        *)
(* whatever images are loaded, loaded again or overlap, an address inside  *)
(* an image and one of its symbols, with no other image starting between   *)
(* the base and the address, is named after them, and resolve disassembles *)
(* the same function.                                                      *)
THEOREM OneNameForAnAddress == Spec => []LookupNamesTheImage
<1>1. Init => RegistryOK
  BY EmptyRegistry DEF Init
<1>2. RegistryOK /\ [Next]_vars => RegistryOK'
  BY RegistryStep
<1>3. RegistryOK => LookupNamesTheImage
  BY OrderedRegistryNames
<1> QED BY <1>1, <1>2, <1>3, PTL DEF Spec

-----------------------------------------------------------------------------
(* What the queues hold: samples and intervals in the order of time, and   *)
(* the intervals of a thread one after the other.                          *)
SampleRow   == [ts : Nat, stack : Stacks]
IntervalRow == [start : Nat, end : Nat, kind : {"OnCpu", "OffCpu"},
                stack : Stacks \cup {<<>>}]

InTime(samples, now) ==
  /\ samples \in Seq(SampleRow)
  /\ \A k \in 1..Len(samples) : samples[k].ts <= now
  /\ \A j, k \in 1..Len(samples) : j < k => samples[j].ts <= samples[k].ts

OneByOne(ivs, until) ==
  /\ ivs \in Seq(IntervalRow)
  /\ \A k \in 1..Len(ivs) :
       1 <= ivs[k].start /\ ivs[k].start < ivs[k].end /\ ivs[k].end <= until
  /\ \A j, k \in 1..Len(ivs) : j < k => ivs[j].end <= ivs[k].start

EventsOK ==
  /\ clock \in Nat \ {0}
  /\ since \in [Threads -> Nat \ {0}]
  /\ cached \in [Threads -> Stacks \cup {<<>>}]
  /\ petSamples \in [Threads -> Seq(SampleRow)]
  /\ intervals \in [Threads -> Seq(IntervalRow)]
  /\ \A t \in Threads : since[t] <= clock
  /\ \A t \in Threads : InTime(petSamples[t], clock)
  /\ \A t \in Threads : OneByOne(intervals[t], since[t])

(* The oldest event may have gone.                                         *)
IsPush(queue, e, pushed) ==
  \E d \in 0..1 :
    /\ d <= Len(queue)
    /\ Len(pushed) = Len(queue) - d + 1
    /\ \A k \in 1..(Len(queue) - d) : pushed[k] = queue[k + d]
    /\ pushed[Len(queue) - d + 1] = e

(* push_bounded appends, and drops the oldest event when the queue is      *)
(* full.                                                                   *)
LEMMA PushKeeps ==
  ASSUME NEW S, NEW queue \in Seq(S), NEW e \in S
  PROVE  PushBounded(queue, e) \in Seq(S) /\ IsPush(queue, e, PushBounded(queue, e))
<1>0. Len(queue) \in Nat
  BY LenProperties
<1>1. CASE Len(queue) >= MaxEventsPerThread
  <2> DEFINE rest == Tail(queue)
  <2>1. queue # <<>>
    <3>1. Len(queue) > 0
      BY <1>0, <1>1, LiveStoreAssumption
    <3> QED BY <3>1
  <2>2. /\ rest \in Seq(S) /\ Len(rest) = Len(queue) - 1
        /\ \A k \in 1..Len(rest) : rest[k] = queue[k + 1]
        /\ Len(queue) # 0
    BY <2>1, TailMembers
  <2>3. PushBounded(queue, e) = Append(rest, e)
    BY <1>1 DEF PushBounded
  <2> HIDE DEF rest
  <2>4. /\ Append(rest, e) \in Seq(S) /\ Len(Append(rest, e)) = Len(rest) + 1
        /\ \A k \in 1..Len(rest) : Append(rest, e)[k] = rest[k]
        /\ Append(rest, e)[Len(rest) + 1] = e
    BY <2>2, AppendProperties
  <2>5. IsPush(queue, e, Append(rest, e))
    <3> DEFINE p == Append(rest, e)
    <3>1. /\ 1 \in 0..1 /\ 1 <= Len(queue) /\ Len(p) = Len(queue) - 1 + 1
          /\ \A k \in 1..(Len(queue) - 1) : p[k] = queue[k + 1]
          /\ p[Len(queue) - 1 + 1] = e
      BY <1>0, <2>2, <2>4
    <3> QED BY <3>1 DEF IsPush
  <2> QED BY <2>3, <2>4, <2>5
<1>2. CASE ~ (Len(queue) >= MaxEventsPerThread)
  <2> DEFINE p == Append(queue, e)
  <2>1. PushBounded(queue, e) = p
    BY <1>2 DEF PushBounded
  <2>2. /\ p \in Seq(S) /\ Len(p) = Len(queue) + 1
        /\ \A k \in 1..Len(queue) : p[k] = queue[k]
        /\ p[Len(queue) + 1] = e
    BY AppendProperties
  <2> HIDE DEF p
  <2>3. /\ 0 \in 0..1 /\ 0 <= Len(queue) /\ Len(p) = Len(queue) - 0 + 1
        /\ \A k \in 1..(Len(queue) - 0) : p[k] = queue[k + 0]
        /\ p[Len(queue) - 0 + 1] = e
    BY <1>0, <2>2
  <2> QED BY <2>1, <2>2, <2>3 DEF IsPush
<1> QED BY <1>1, <1>2

(* A sample recorded now comes after those in the queue.                   *)
LEMMA PushSample ==
  ASSUME NEW samples, NEW before \in Nat, InTime(samples, before),
         NEW now \in Nat, before <= now, NEW stack \in Stacks
  PROVE  InTime(PushBounded(samples, [ts |-> now, stack |-> stack]), now)
<1> DEFINE e == [ts |-> now, stack |-> stack]
           p == PushBounded(samples, e)
<1>0. /\ samples \in Seq(SampleRow) /\ Len(samples) \in Nat /\ e \in SampleRow /\ e.ts = now
      /\ \A k \in 1..Len(samples) : samples[k] \in SampleRow /\ samples[k].ts \in Nat /\ samples[k].ts <= before
      /\ \A j, k \in 1..Len(samples) : j < k => samples[j].ts <= samples[k].ts
  <2>1. samples \in Seq(SampleRow) /\ e \in SampleRow /\ e.ts = now
    BY DEF InTime, SampleRow
  <2>2. \A k \in 1..Len(samples) : samples[k] \in SampleRow
    BY <2>1, ElementOfSeq
  <2> QED BY <2>1, <2>2, LenProperties DEF InTime, SampleRow
<1> HIDE DEF e
<1>1. p \in Seq(SampleRow) /\ IsPush(samples, e, p)
  BY <1>0, PushKeeps
<1> HIDE DEF p
<1>2. PICK d \in 0..1 :
        /\ d <= Len(samples)
        /\ Len(p) = Len(samples) - d + 1
        /\ \A k \in 1..(Len(samples) - d) : p[k] = samples[k + d]
        /\ p[Len(samples) - d + 1] = e
  BY <1>1 DEF IsPush
<1>3. \A k \in 1..Len(p) : \/ k + d \in 1..Len(samples) /\ p[k] = samples[k + d]
                           \/ k = Len(p) /\ p[k] = e
  BY <1>0, <1>2
<1>4. \A k \in 1..Len(p) : p[k].ts \in Nat /\ p[k].ts <= now
  BY <1>0, <1>3
<1>5. \A j, k \in 1..Len(p) : j < k => p[j].ts <= p[k].ts
  <2> SUFFICES ASSUME NEW j \in 1..Len(p), NEW k \in 1..Len(p), j < k
               PROVE  p[j].ts <= p[k].ts
    OBVIOUS
  <2>1. CASE k = Len(p) /\ p[k] = e
    BY <1>0, <1>4, <2>1
  <2>2. CASE k + d \in 1..Len(samples) /\ p[k] = samples[k + d]
    <3>1. Len(p) \in Nat /\ j # Len(p) /\ j + d < k + d
      BY <1>0, <1>2
    <3>2. j + d \in 1..Len(samples) /\ p[j] = samples[j + d]
      BY <1>3, <3>1
    <3> QED BY <1>0, <2>2, <3>1, <3>2
  <2> QED BY <1>3, <2>1, <2>2
<1>6. InTime(p, now)
  BY <1>1, <1>4, <1>5 DEF InTime
<1> QED BY <1>6 DEF p, e

(* An interval that starts where the last one ended comes after it.        *)
LEMMA PushInterval ==
  ASSUME NEW ivs, NEW until \in Nat \ {0}, OneByOne(ivs, until),
         NEW i \in IntervalRow, i.start = until, until < i.end
  PROVE  OneByOne(PushBounded(ivs, i), i.end)
<1> DEFINE p == PushBounded(ivs, i)
<1>0. /\ ivs \in Seq(IntervalRow) /\ Len(ivs) \in Nat /\ i.end \in Nat
      /\ \A k \in 1..Len(ivs) : /\ ivs[k].start \in Nat /\ ivs[k].end \in Nat
                                /\ 1 <= ivs[k].start /\ ivs[k].start < ivs[k].end
                                /\ ivs[k].end <= until
      /\ \A j, k \in 1..Len(ivs) : j < k => ivs[j].end <= ivs[k].start
  <2>1. ivs \in Seq(IntervalRow) /\ i.end \in Nat
    BY DEF OneByOne, IntervalRow
  <2>2. \A k \in 1..Len(ivs) : ivs[k] \in IntervalRow
    BY <2>1, ElementOfSeq
  <2> QED BY <2>1, <2>2, LenProperties DEF OneByOne, IntervalRow
<1>1. p \in Seq(IntervalRow) /\ IsPush(ivs, i, p)
  BY <1>0, PushKeeps
<1> HIDE DEF p
<1>2. PICK d \in 0..1 :
        /\ d <= Len(ivs)
        /\ Len(p) = Len(ivs) - d + 1
        /\ \A k \in 1..(Len(ivs) - d) : p[k] = ivs[k + d]
        /\ p[Len(ivs) - d + 1] = i
  BY <1>1 DEF IsPush
<1>3. \A k \in 1..Len(p) : \/ k + d \in 1..Len(ivs) /\ p[k] = ivs[k + d]
                           \/ k = Len(p) /\ p[k] = i
  BY <1>0, <1>2
<1>4. \A k \in 1..Len(p) :
        1 <= p[k].start /\ p[k].start < p[k].end /\ p[k].end <= i.end
  <2> SUFFICES ASSUME NEW k \in 1..Len(p)
               PROVE  1 <= p[k].start /\ p[k].start < p[k].end /\ p[k].end <= i.end
    OBVIOUS
  <2>1. CASE p[k] = i
    BY <1>0, <2>1
  <2>2. CASE k + d \in 1..Len(ivs) /\ p[k] = ivs[k + d]
    BY <1>0, <2>2
  <2> QED BY <1>3, <2>1, <2>2
<1>5. \A j, k \in 1..Len(p) : j < k => p[j].end <= p[k].start
  <2> SUFFICES ASSUME NEW j \in 1..Len(p), NEW k \in 1..Len(p), j < k
               PROVE  p[j].end <= p[k].start
    OBVIOUS
  <2>1. Len(p) \in Nat /\ j # Len(p) /\ j + d < k + d
    BY <1>0, <1>2
  <2>2. j + d \in 1..Len(ivs) /\ p[j] = ivs[j + d]
    BY <1>3, <2>1
  <2>3. CASE k = Len(p) /\ p[k] = i
    BY <1>0, <2>2, <2>3
  <2>4. CASE k + d \in 1..Len(ivs) /\ p[k] = ivs[k + d]
    BY <1>0, <2>1, <2>2, <2>4
  <2> QED BY <1>3, <2>3, <2>4
<1>6. OneByOne(p, i.end)
  BY <1>1, <1>4, <1>5 DEF OneByOne
<1> QED BY <1>6 DEF p

(* Empty queues are in order.                                              *)
LEMMA EventsInit ==
  ASSUME Init
  PROVE  EventsOK
<1>1. /\ clock = 1 /\ since = [t \in Threads |-> 1] /\ cached = [t \in Threads |-> <<>>]
      /\ petSamples = [t \in Threads |-> <<>>] /\ intervals = [t \in Threads |-> <<>>]
  BY DEF Init, AggregatorInit
<1>2. \A S : <<>> \in Seq(S) /\ Len(<<>>) = 0 /\ 1..0 = {}
  OBVIOUS
<1>3. InTime(<<>>, 1) /\ OneByOne(<<>>, 1)
  BY <1>2 DEF InTime, OneByOne
<1>4. 1 \in Nat \ {0} /\ 1 <= 1
  OBVIOUS
<1> QED BY <1>1, <1>2, <1>3, <1>4 DEF EventsOK

(* Samples before a time are before every later one.                       *)
LEMMA LaterInTime ==
  ASSUME NEW samples, NEW before \in Nat, InTime(samples, before),
         NEW now \in Nat, before <= now
  PROVE  InTime(samples, now)
<1>1. \A k \in 1..Len(samples) : samples[k].ts \in Nat
  <2>1. \A k \in 1..Len(samples) : samples[k] \in SampleRow
    BY ElementOfSeq DEF InTime
  <2> QED BY <2>1 DEF SampleRow
<1> QED BY <1>1 DEF InTime

(* record_pet_sample keeps the queues in order,                            *)
LEMMA EventsSample ==
  ASSUME EventsOK, NEW t \in Threads, NEW d \in Delays, NEW stack \in Stacks,
         ApplySample(t, stack, clock + d)
  PROVE  EventsOK'
<1> DEFINE now == clock + d
           pushed == PushBounded(petSamples[t], [ts |-> now, stack |-> stack])
<1>1. now \in Nat \ {0} /\ clock \in Nat /\ clock <= now
  BY LiveStoreAssumption DEF EventsOK
<1>2. /\ clock' = now /\ since' = since /\ intervals' = intervals
      /\ cached' = IF stack = <<>> THEN cached ELSE [cached EXCEPT ![t] = stack]
      /\ petSamples' = [petSamples EXCEPT ![t] = pushed]
  BY DEF ApplySample, RecordPetSample
<1> HIDE DEF pushed
<1>3. InTime(pushed, now)
  <2>1. InTime(petSamples[t], clock)
    BY DEF EventsOK
  <2> HIDE DEF now
  <2> QED BY <1>1, <2>1, PushSample DEF pushed
<1> HIDE DEF now
<1>4. \A u \in Threads : InTime(petSamples[u], now)
  BY <1>1, LaterInTime DEF EventsOK
<1>5. \A u \in Threads : petSamples'[u] = petSamples[u] \/ petSamples'[u] = pushed
  BY <1>2 DEF EventsOK
<1>6. petSamples' \in [Threads -> Seq(SampleRow)]
  BY <1>2, <1>3 DEF EventsOK, InTime
<1>7. cached' \in [Threads -> Stacks \cup {<<>>}]
  BY <1>2 DEF EventsOK
<1>8. \A u \in Threads : InTime(petSamples'[u], clock')
  BY <1>2, <1>3, <1>4, <1>5
<1>9. \A u \in Threads : since'[u] <= clock'
  BY <1>1, <1>2 DEF EventsOK
<1> QED BY <1>1, <1>2, <1>6, <1>7, <1>8, <1>9 DEF EventsOK

(* so does record_interval: the recorder reports an interval when it ends, *)
LEMMA EventsInterval ==
  ASSUME EventsOK, NEW t \in Threads, NEW d \in Delays, ApplyInterval(t, clock + d)
  PROVE  EventsOK'
<1> DEFINE now == clock + d
           i == [start |-> since[t], end |-> now,
                 kind  |-> IF t \in running THEN "OnCpu" ELSE "OffCpu",
                 stack |-> IF t \in running THEN <<>> ELSE cached[t]]
           pushed == PushBounded(intervals[t], i)
<1>1. now \in Nat \ {0} /\ clock \in Nat /\ clock <= now
  BY LiveStoreAssumption DEF EventsOK
<1>2. /\ clock' = now /\ since' = [since EXCEPT ![t] = now]
      /\ intervals' = [intervals EXCEPT ![t] = pushed]
      /\ cached' = cached /\ petSamples' = petSamples /\ now > since[t]
  BY DEF ApplyInterval, RecordInterval
<1> HIDE DEF pushed
<1>3. since[t] \in Nat \ {0} /\ cached[t] \in Stacks \cup {<<>>}
  BY DEF EventsOK
<1>4. i \in IntervalRow /\ i.start = since[t] /\ i.end = now
  <2> HIDE DEF now
  <2> QED BY <1>1, <1>3 DEF IntervalRow
<1> HIDE DEF i
<1>5. OneByOne(pushed, now)
  <2>1. OneByOne(intervals[t], since[t])
    BY DEF EventsOK
  <2> HIDE DEF now
  <2>2. since[t] < i.end
    BY <1>1, <1>2, <1>3, <1>4
  <2>3. OneByOne(PushBounded(intervals[t], i), i.end)
    BY <1>3, <1>4, <2>1, <2>2, PushInterval
  <2> QED BY <1>4, <2>3 DEF pushed
<1> HIDE DEF now
<1>6. \A u \in Threads : InTime(petSamples[u], now)
  BY <1>1, LaterInTime DEF EventsOK
<1>7. \A u \in Threads : OneByOne(intervals'[u], since'[u])
  <2> SUFFICES ASSUME NEW u \in Threads PROVE OneByOne(intervals'[u], since'[u])
    OBVIOUS
  <2>1. CASE u = t
    <3>1. intervals'[u] = pushed /\ since'[u] = now
      BY <1>2, <2>1 DEF EventsOK
    <3> QED BY <1>5, <3>1
  <2>2. CASE u # t
    <3>1. intervals'[u] = intervals[u] /\ since'[u] = since[u]
      BY <1>2, <2>2 DEF EventsOK
    <3> QED BY <3>1 DEF EventsOK
  <2> QED BY <2>1, <2>2
<1>8. since' \in [Threads -> Nat \ {0}] /\ \A u \in Threads : since'[u] <= clock'
  BY <1>1, <1>2 DEF EventsOK
<1>9. intervals' \in [Threads -> Seq(IntervalRow)]
  BY <1>2, <1>5 DEF EventsOK, OneByOne
<1> QED BY <1>1, <1>2, <1>6, <1>7, <1>8, <1>9 DEF EventsOK

(* and record_wakeup leaves them alone.                                    *)
LEMMA EventsWakeup ==
  ASSUME EventsOK, NEW t \in Threads, NEW d \in Delays, NEW waker \in Threads,
         ApplyWakeup(t, waker, clock + d)
  PROVE  EventsOK'
<1>1. clock + d \in Nat \ {0} /\ clock \in Nat /\ clock <= clock + d
  BY LiveStoreAssumption DEF EventsOK
<1>2. /\ clock' = clock + d /\ since' = since /\ intervals' = intervals
      /\ cached' = cached /\ petSamples' = petSamples
  BY DEF ApplyWakeup, RecordWakeup
<1>3. \A u \in Threads : InTime(petSamples[u], clock + d)
  BY <1>1, LaterInTime DEF EventsOK
<1>4. \A u \in Threads : since[u] <= clock + d
  BY <1>1 DEF EventsOK
<1> QED BY <1>1, <1>2, <1>3, <1>4 DEF EventsOK

(* Every step keeps the queues in order.                                   *)
LEMMA EventsStep ==
  ASSUME EventsOK, [Next]_vars
  PROVE  EventsOK'
<1>1. ASSUME UNCHANGED <<clock, since, cached, petSamples, intervals>> PROVE EventsOK'
  BY <1>1 DEF EventsOK
<1>2. ASSUME NEW binary \in Images, ApplyBinaryLoaded(binary) PROVE EventsOK'
  BY <1>1, <1>2 DEF ApplyBinaryLoaded, recorder, aggregator
<1>3. CASE ApplyTargetAttached
  BY <1>1, <1>3 DEF ApplyTargetAttached, recorder, aggregator
<1>4. CASE Query
  BY <1>1, <1>4 DEF Query, recorder, aggregator
<1>5. CASE UNCHANGED vars
  BY <1>1, <1>5 DEF vars, recorder, aggregator
<1> QED BY <1>2, <1>3, <1>4, <1>5, EventsSample, EventsInterval, EventsWakeup DEF Next

-----------------------------------------------------------------------------
(* One interval of the pass.                                               *)
LEMMA LeastOf ==
  ASSUME NEW T, T \subseteq Nat, T # {}
  PROVE  Min(T) \in T /\ \A n \in T : Min(T) <= n
<1>1. PICK m \in T : \A n \in T : ~ (n < m)
  BY LeastNumber
<1>2. \A n \in T : m <= n
  BY <1>1
<1> QED BY <1>1, <1>2 DEF Min

(* A cursor moves to the first sample that is not before ts.               *)
LEMMA SkipsTheEarlier ==
  ASSUME NEW samples \in Seq(SampleRow), NEW k \in 1..(Len(samples) + 1), NEW ts \in Nat
  PROVE  /\ SkipBefore(samples, k, ts) \in k..(Len(samples) + 1)
         /\ \A j \in k..(SkipBefore(samples, k, ts) - 1) : samples[j].ts < ts
         /\ SkipBefore(samples, k, ts) <= Len(samples)
              => samples[SkipBefore(samples, k, ts)].ts >= ts
<1> DEFINE N == Len(samples)
           T == {j \in k..N : samples[j].ts >= ts} \cup {N + 1}
           q == Min(T)
<1>0. /\ N \in Nat /\ k \in Nat /\ k >= 1 /\ k <= N + 1
      /\ \A j \in 1..N : samples[j].ts \in Nat
  <2>1. N \in Nat /\ \A j \in 1..N : samples[j] \in SampleRow
    BY LenProperties, ElementOfSeq
  <2>2. \A j \in 1..N : samples[j].ts \in Nat
    BY <2>1 DEF SampleRow
  <2> QED BY <2>1, <2>2
<1>1. T \subseteq Nat /\ T # {}
  BY <1>0
<1>2. q \in T /\ \A n \in T : q <= n
  <2> HIDE DEF T
  <2> QED BY <1>1, LeastOf
<1>3. q \in k..(N + 1)
  BY <1>0, <1>2
<1>4. q <= N => samples[q].ts >= ts
  BY <1>0, <1>2
<1>5. \A j \in k..(q - 1) : samples[j].ts < ts
  <2> HIDE DEF q
  <2> SUFFICES ASSUME NEW j \in k..(q - 1), ~ (samples[j].ts < ts) PROVE FALSE
    OBVIOUS
  <2>1. j \in k..N /\ j < q
    BY <1>0, <1>3
  <2>2. samples[j].ts >= ts
    BY <1>0, <2>1
  <2>3. j \in T
    BY <2>1, <2>2
  <2> QED BY <1>0, <1>2, <1>3, <2>1, <2>3
<1>6. SkipBefore(samples, k, ts) = q
  BY DEF SkipBefore
<1> QED BY <1>3, <1>4, <1>5, <1>6

(* The positions between the cursors that pass the filter are those of the *)
(* samples inside the interval.                                            *)
LEMMA CursorsFindTheInside ==
  ASSUME NEW t \in Threads, NEW filter, NEW i \in IntervalRow, NEW now \in Nat,
         InTime(petSamples[t], now), i.start < i.end,
         NEW cursor \in 1..(Len(petSamples[t]) + 1),
         \A k \in 1..(cursor - 1) : petSamples[t][k].ts < i.start
  PROVE  LET from == SkipBefore(petSamples[t], cursor, i.start)
             to   == SkipBefore(petSamples[t], from, i.end)
         IN /\ from \in 1..(Len(petSamples[t]) + 1)
            /\ \A k \in 1..(from - 1) : petSamples[t][k].ts < i.start
            /\ {k \in from..(to - 1) :
                  Keep(filter, petSamples[t][k].ts, petSamples[t][k].stack)}
                 = Inside(t, i, filter)
            /\ Inside(t, i, filter) \subseteq 1..Len(petSamples[t])
<1> DEFINE samples == petSamples[t]
           N == Len(samples)
           from == SkipBefore(samples, cursor, i.start)
           to == SkipBefore(samples, from, i.end)
<1>0. /\ samples \in Seq(SampleRow) /\ N \in Nat /\ DOMAIN samples = 1..N
      /\ \A k \in 1..N : samples[k].ts \in Nat
      /\ \A j, k \in 1..N : j < k => samples[j].ts <= samples[k].ts
      /\ i.start \in Nat /\ i.end \in Nat
  <2>1. samples \in Seq(SampleRow)
        /\ \A j, k \in 1..N : j < k => samples[j].ts <= samples[k].ts
    BY DEF InTime
  <2>2. N \in Nat /\ DOMAIN samples = 1..N /\ \A k \in 1..N : samples[k] \in SampleRow
    BY <2>1, LenProperties, ElementOfSeq
  <2> QED BY <2>1, <2>2 DEF SampleRow, IntervalRow
<1>1. \A k \in 1..(cursor - 1) : samples[k].ts < i.start
  OBVIOUS
<1>2. Inside(t, i, filter) =
        {k \in 1..N : /\ i.start <= samples[k].ts /\ samples[k].ts < i.end
                      /\ Keep(filter, samples[k].ts, samples[k].stack)}
  BY <1>0 DEF Inside
<1>c. cursor \in 1..(N + 1)
  OBVIOUS
<1> HIDE DEF samples, N
<1>3. /\ from \in cursor..(N + 1)
      /\ \A j \in cursor..(from - 1) : samples[j].ts < i.start
      /\ from <= N => samples[from].ts >= i.start
  BY <1>0, <1>c, SkipsTheEarlier DEF N
<1> HIDE DEF from
<1>4. /\ to \in from..(N + 1)
      /\ \A j \in from..(to - 1) : samples[j].ts < i.end
      /\ to <= N => samples[to].ts >= i.end
  <2>1. from \in 1..(N + 1)
    BY <1>0, <1>3, <1>c
  <2> QED BY <1>0, <2>1, SkipsTheEarlier DEF N
<1> HIDE DEF to
<1>5. from \in 1..(N + 1) /\ to \in 1..(N + 1)
  BY <1>0, <1>3, <1>4, <1>c
<1>6. \A k \in 1..(from - 1) : samples[k].ts < i.start
  <2> SUFFICES ASSUME NEW k \in 1..(from - 1) PROVE samples[k].ts < i.start
    OBVIOUS
  <2>1. k \in 1..(cursor - 1) \/ k \in cursor..(from - 1)
    BY <1>0, <1>3, <1>5, <1>c
  <2> QED BY <1>1, <1>3, <2>1
<1>7. \A k \in 1..N : k \in from..(to - 1) <=> i.start <= samples[k].ts /\ samples[k].ts < i.end
  <2> SUFFICES ASSUME NEW k \in 1..N
               PROVE  k \in from..(to - 1) <=> i.start <= samples[k].ts /\ samples[k].ts < i.end
    OBVIOUS
  <2>0. samples[k].ts \in Nat
    BY <1>0
  <2>1. ASSUME k < from PROVE samples[k].ts < i.start
    <3>1. k \in 1..(from - 1)
      BY <1>0, <1>5, <2>1
    <3> QED BY <1>6, <3>1
  <2>2. ASSUME k >= from PROVE i.start <= samples[k].ts
    <3>1. from \in 1..N /\ from <= N /\ samples[from].ts \in Nat
      BY <1>0, <1>5, <2>2
    <3>2. samples[from].ts <= samples[k].ts
      <4>1. CASE from = k
        BY <2>0, <4>1
      <4>2. CASE from < k
        BY <1>0, <3>1, <4>2
      <4> QED BY <1>0, <1>5, <2>2, <4>1, <4>2
    <3> QED BY <1>0, <1>3, <2>0, <3>1, <3>2
  <2>3. ASSUME k >= to PROVE samples[k].ts >= i.end
    <3>1. to \in 1..N /\ to <= N /\ samples[to].ts \in Nat
      BY <1>0, <1>5, <2>3
    <3>2. samples[to].ts <= samples[k].ts
      <4>1. CASE to = k
        BY <2>0, <4>1
      <4>2. CASE to < k
        BY <1>0, <3>1, <4>2
      <4> QED BY <1>0, <1>5, <2>3, <4>1, <4>2
    <3> QED BY <1>0, <1>4, <2>0, <3>1, <3>2
  <2>4. ASSUME k >= from, k < to PROVE samples[k].ts < i.end
    <3>1. k \in from..(to - 1)
      BY <1>5, <2>4
    <3> QED BY <1>4, <3>1
  <2> QED BY <1>0, <1>5, <2>0, <2>1, <2>2, <2>3, <2>4
<1>8. from..(to - 1) \subseteq 1..N
  BY <1>0, <1>5
<1>9. {k \in from..(to - 1) : Keep(filter, samples[k].ts, samples[k].stack)}
        = Inside(t, i, filter)
  <2> DEFINE K(k) == Keep(filter, samples[k].ts, samples[k].stack)
  <2>1. Inside(t, i, filter) =
          {k \in 1..N : i.start <= samples[k].ts /\ samples[k].ts < i.end /\ K(k)}
    BY <1>2
  <2> HIDE DEF K
  <2>2. {k \in from..(to - 1) : K(k)} = Inside(t, i, filter)
    BY <1>7, <1>8, <2>1
  <2> QED BY <2>2 DEF K
<1>10. Inside(t, i, filter) \subseteq 1..N
  BY <1>2
<1> QED BY <1>5, <1>6, <1>9, <1>10 DEF from, to, samples, N

CreditRow == [stack : Stacks \cup {<<>>}, kind : {"OnCpu", "Other"} \cup STRING,
              ns : Nat]
PassRow   == [cursor : Nat, on : Nat, credits : Seq(CreditRow)]

(* What a list of credits holds for a stack, and what an interval owes it. *)
OnTime(st) ==
  [c \in CreditRow |-> IF c.kind = "OnCpu" /\ c.stack = st THEN c.ns ELSE 0]
Held(credits, st) == Total(Weights(credits, OnTime(st)))

Owed(t, i, filter, st) ==
  Total([k \in DOMAIN petSamples[t] |->
           IF k \in Inside(t, i, filter) /\ petSamples[t][k].stack = st
           THEN Part(t, i, filter) ELSE 0])

(* Equal shares of a nanoseconds: none is left when there are more than a. *)
LEMMA Shares ==
  ASSUME NEW a \in Nat, NEW n \in Nat \ {0}
  PROVE  a \div n \in Nat /\ (a < n <=> a \div n = 0)
OBVIOUS

SharesAdded(acc, new, t, i, filter, st) ==
  /\ new \in PassRow /\ new.cursor = acc.cursor
  /\ new.on = acc.on + (IF Part(t, i, filter) # 0 THEN i.end - i.start ELSE 0)
  /\ Held(new.credits, st) = Held(acc.credits, st) + Owed(t, i, filter, st)

(* What CreditSamples credits to a stack for an interval is what the       *)
(* interval owes it.                                                       *)
LEMMA SharesAddUp ==
  ASSUME NEW t \in Threads, NEW filter, NEW st, NEW i \in IntervalRow, NEW acc \in PassRow,
         petSamples[t] \in Seq(SampleRow), i.start < i.end,
         Inside(t, i, filter) \subseteq 1..Len(petSamples[t])
  PROVE  SharesAdded(acc, CreditSamples(acc, i.end - i.start,
                            PickAt(petSamples[t], Inside(t, i, filter))),
                     t, i, filter, st)
<1> DEFINE samples == petSamples[t]
           N == Len(samples)
           P == Inside(t, i, filter)
           ns == i.end - i.start
           matching == PickAt(samples, P)
           c == Len(matching)
           new == CreditSamples(acc, ns, matching)
           q == Part(t, i, filter)
           g == OnTime(st)
           h == [x \in SampleRow |-> IF x.stack = st THEN q ELSE 0]
           owing == [k \in DOMAIN samples |-> IF k \in P /\ samples[k].stack = st THEN q ELSE 0]
<1>0. /\ samples \in Seq(SampleRow) /\ N \in Nat /\ DOMAIN samples = 1..N
      /\ \A k \in 1..N : samples[k] \in SampleRow
      /\ ns \in Nat \ {0} /\ P \subseteq 1..N
      /\ acc.on \in Nat /\ acc.credits \in Seq(CreditRow) /\ acc.cursor \in Nat
  <2>1. /\ N \in Nat /\ DOMAIN samples = 1..N /\ \A k \in 1..N : samples[k] \in SampleRow
    BY LenProperties, ElementOfSeq
  <2>2. ns \in Nat \ {0}
    BY DEF IntervalRow
  <2>3. acc.on \in Nat /\ acc.credits \in Seq(CreditRow) /\ acc.cursor \in Nat
    BY DEF PassRow
  <2> QED BY <2>1, <2>2, <2>3
<1>q. q = IF Cardinality(P) = 0 THEN 0 ELSE ns \div Cardinality(P)
  BY DEF Part
<1>o. Owed(t, i, filter, st) = Total(owing)
  BY DEF Owed
<1> HIDE DEF samples, N, P, ns, q
<1>1. /\ matching \in Seq(SampleRow) /\ c \in Nat /\ Cardinality(P) = c
  <2>1. matching \in Seq(SampleRow)
    BY <1>0, PickEnumerates
  <2>2. Len(matching) = Cardinality(P)
    BY <1>0, PickCounts DEF N
  <2> HIDE DEF matching
  <2> QED BY <2>1, <2>2, LenProperties
<1>2. q = IF c = 0 THEN 0 ELSE ns \div c
  BY <1>1, <1>q
<1>3. q \in Nat /\ (q = 0 <=> c = 0 \/ c > ns)
  <2> HIDE DEF c
  <2>1. CASE c = 0
    BY <1>2, <2>1
  <2>2. CASE c # 0
    <3>1. c \in Nat \ {0} /\ ns \in Nat
      BY <1>0, <1>1, <2>2
    <3>2. ns \div c \in Nat /\ (ns < c <=> ns \div c = 0)
      BY <3>1, Shares
    <3> QED BY <1>2, <2>2, <3>1, <3>2
  <2> QED BY <2>1, <2>2
<1>4. Total(Weights(matching, h)) = Total(owing)
  <2>1. h \in [SampleRow -> Nat]
    BY <1>3
  <2>2. Total(Weights(matching, h)) = Total(Shown(samples, P, h))
    <3> HIDE DEF h
    <3> QED BY <1>0, <2>1, PickTotal
  <2>3. Shown(samples, P, h) = owing
    <3>1. \A k \in 1..N : h[samples[k]] = IF samples[k].stack = st THEN q ELSE 0
      BY <1>0
    <3>2. \A k \in 1..N : (IF k \in P THEN h[samples[k]] ELSE 0)
                          = (IF k \in P /\ samples[k].stack = st THEN q ELSE 0)
      BY <3>1
    <3> HIDE DEF h
    <3>3. Shown(samples, P, h) = [k \in 1..N |-> IF k \in P THEN h[samples[k]] ELSE 0]
      BY DEF Shown, N
    <3>4. owing = [k \in 1..N |-> IF k \in P /\ samples[k].stack = st THEN q ELSE 0]
      BY <1>0
    <3> HIDE DEF owing
    <3> QED BY <3>2, <3>3, <3>4
  <2> QED BY <2>2, <2>3
<1> HIDE DEF owing
<1>5. g \in [CreditRow -> Nat]
  <2>1. \A x \in CreditRow : x.ns \in Nat
    BY DEF CreditRow
  <2> QED BY <2>1 DEF OnTime
<1>6. CASE matching = <<>> \/ c > ns
  <2>1. new = acc
    BY <1>6 DEF CreditSamples
  <2>2. q = 0
    BY <1>3, <1>6
  <2>3. Total(Weights(matching, h)) = 0
    <3> DEFINE w == Weights(matching, h)
    <3>1. h \in [SampleRow -> Nat] /\ \A x \in SampleRow : h[x] = 0
      BY <1>3, <2>2
    <3> HIDE DEF h, matching
    <3>2. w \in Seq(Nat) /\ Len(w) = c /\ \A j \in 1..c : w[j] = h[matching[j]]
      BY <1>1, <3>1, WeightsTyped DEF c
    <3>3. \A j \in 1..c : matching[j] \in SampleRow
      BY <1>1, ElementOfSeq DEF c
    <3>4. \A j \in 1..Len(w) : w[j] = 0
      BY <3>1, <3>2, <3>3
    <3> HIDE DEF w
    <3>5. Total(w) = 0
      BY <3>2, <3>4, TotalZero
    <3> QED BY <3>5 DEF w
  <2>4. Owed(t, i, filter, st) = 0
    BY <1>o, <1>4, <2>3
  <2>5. Held(acc.credits, st) \in Nat
    <3>1. Weights(acc.credits, g) \in Seq(Nat)
      <4> HIDE DEF g
      <4> QED BY <1>0, <1>5, WeightsTyped
    <3> QED BY <3>1, TotalTyped DEF Held
  <2>6. /\ acc.on = acc.on + (IF q # 0 THEN ns ELSE 0)
        /\ Held(acc.credits, st) = Held(acc.credits, st) + Owed(t, i, filter, st)
    BY <1>0, <2>2, <2>4, <2>5
  <2> HIDE DEF new
  <2> QED BY <2>1, <2>6 DEF new, q, ns, samples, P, SharesAdded
<1>7. CASE ~ (matching = <<>> \/ c > ns)
  <2> DEFINE added == [k \in DOMAIN matching |-> OnCredit(matching[k], ns \div c)]
             all == acc.credits \o added
  <2>1. new = [acc EXCEPT !.on = @ + ns, !.credits = all]
    BY <1>7 DEF CreditSamples
  <2>2. c # 0 /\ q = ns \div c /\ q # 0
    <3>1. c # 0
      <4> HIDE DEF matching
      <4> QED BY <1>1, <1>7
    <3> QED BY <1>2, <1>3, <1>7, <3>1
  <2> HIDE DEF matching
  <2>3. DOMAIN matching = 1..c /\ \A k \in 1..c : matching[k] \in SampleRow
    BY <1>1, LenProperties, ElementOfSeq
  <2>4. \A k \in 1..c : /\ OnCredit(matching[k], q) \in CreditRow
                        /\ g[OnCredit(matching[k], q)] = h[matching[k]]
    <3> SUFFICES ASSUME NEW k \in 1..c
                 PROVE  /\ OnCredit(matching[k], q) \in CreditRow
                        /\ g[OnCredit(matching[k], q)] = h[matching[k]]
      OBVIOUS
    <3> DEFINE m == matching[k]
               o == OnCredit(m, q)
    <3>1. m \in SampleRow /\ m.stack \in Stacks
      BY <2>3 DEF SampleRow
    <3> HIDE DEF m
    <3>2. o \in CreditRow /\ o.kind = "OnCpu" /\ o.stack = m.stack /\ o.ns = q
      <4>1. o = [stack |-> m.stack, kind |-> "OnCpu", ns |-> q]
        BY DEF OnCredit
      <4>2. q \in Nat
        BY <1>3
      <4> HIDE DEF o
      <4>3. m.stack \in Stacks \cup {<<>>}
        BY <3>1
      <4>4. "OnCpu" \in {"OnCpu", "Other"} \cup STRING
        OBVIOUS
      <4>5. o \in CreditRow
        BY <4>1, <4>2, <4>3, <4>4, Zenon DEF CreditRow
      <4>6. o.kind = "OnCpu" /\ o.stack = m.stack /\ o.ns = q
        BY <4>1
      <4> QED BY <4>5, <4>6
    <3>3. h[m] = IF m.stack = st THEN q ELSE 0
      BY <3>1
    <3> HIDE DEF o, h
    <3>4. g[o] = IF o.kind = "OnCpu" /\ o.stack = st THEN o.ns ELSE 0
      BY <3>2 DEF OnTime
    <3> HIDE DEF g
    <3>5. g[o] = h[m]
      BY <3>2, <3>3, <3>4
    <3> QED BY <3>2, <3>5 DEF o, m
  <2>5. /\ added \in Seq(CreditRow) /\ Len(added) = c
        /\ \A k \in 1..c : added[k] = OnCredit(matching[k], q)
    <3>1. added = [k \in 1..c |-> OnCredit(matching[k], q)]
      BY <2>2, <2>3
    <3> HIDE DEF added
    <3>2. added \in [1..c -> CreditRow]
      BY <2>4, <3>1
    <3>3. added \in Seq(CreditRow) /\ Len(added) = c
      BY <1>1, <3>2
    <3> QED BY <3>1, <3>3
  <2> HIDE DEF added
  <2>6. Weights(added, g) = Weights(matching, h)
    <3>1. Weights(added, g) = [j \in 1..c |-> g[added[j]]]
      BY <2>5 DEF Weights
    <3>2. Weights(matching, h) = [j \in 1..c |-> h[matching[j]]]
      BY DEF Weights
    <3>3. \A j \in 1..c : g[added[j]] = h[matching[j]]
      BY <2>4, <2>5
    <3> HIDE DEF g, h
    <3> QED BY <3>1, <3>2, <3>3
  <2>7. all \in Seq(CreditRow) /\ Held(all, st) = Held(acc.credits, st) + Total(Weights(added, g))
    <3>1. all \in Seq(CreditRow)
      BY <1>0, <2>5
    <3> HIDE DEF g
    <3>2. Weights(all, g) = Weights(acc.credits, g) \o Weights(added, g)
      BY <1>0, <1>5, <2>5, WeightsConcat
    <3>3. Weights(acc.credits, g) \in Seq(Nat) /\ Weights(added, g) \in Seq(Nat)
      BY <1>0, <1>5, <2>5, WeightsTyped
    <3>4. Total(Weights(all, g)) = Total(Weights(acc.credits, g)) + Total(Weights(added, g))
      BY <3>2, <3>3, TotalConcat
    <3> QED BY <3>1, <3>4 DEF Held, g
  <2> HIDE DEF all
  <2>8. /\ new \in PassRow /\ new.cursor = acc.cursor
        /\ new.on = acc.on + ns /\ new.credits = all
    <3> HIDE DEF new
    <3>1. acc = [cursor |-> acc.cursor, on |-> acc.on, credits |-> acc.credits]
      BY DEF PassRow
    <3>2. new = [cursor |-> acc.cursor, on |-> acc.on + ns, credits |-> all]
      BY <2>1, <3>1
    <3> QED BY <1>0, <2>7, <3>2 DEF PassRow
  <2>9. Held(all, st) = Held(acc.credits, st) + Owed(t, i, filter, st)
    BY <1>o, <1>4, <2>6, <2>7
  <2>10. new.on = acc.on + (IF q # 0 THEN ns ELSE 0)
    BY <2>2, <2>8
  <2>11. Held(new.credits, st) = Held(acc.credits, st) + Owed(t, i, filter, st)
    BY <2>8, <2>9
  <2> HIDE DEF new
  <2> QED BY <2>8, <2>10, <2>11 DEF new, q, ns, samples, P, matching, SharesAdded
<1> QED BY <1>6, <1>7 DEF new, q, ns, samples, P, matching

(* classify_offcpu never gives the kind of on-CPU credits.                 *)
LEMMA ReasonIsOffCpu ==
  ASSUME NEW stack
  PROVE  Classify(stack) \in {"OnCpu", "Other"} \cup STRING /\ Classify(stack) # "OnCpu"
<1> DEFINE fn == IF stack = <<>> THEN <<>> ELSE LookupSymbol(stack[1]).fn
           I == {n \in 1..Len(WaitTable) : fn \in WaitTable[n].names}
           row == IF I # {} THEN Min(I) ELSE 0
<1>1. Classify(stack) = IF row = 0 THEN "Other" ELSE WaitTable[row].reason
  BY DEF Classify, SelectInSeq
<1> HIDE DEF fn
<1>2. I \subseteq Nat
  OBVIOUS
<1>3. CASE I = {}
  <2>1. Classify(stack) = "Other"
    BY <1>1, <1>3
  <2> QED BY <2>1
<1>4. CASE I # {}
  <2>1. Min(I) \in I
    <3> HIDE DEF I
    <3> QED BY <1>2, <1>4, LeastOf
  <2>2. row \in 1..Len(WaitTable)
    BY <1>4, <2>1
  <2>3. row # 0
    <3>1. Len(WaitTable) \in Nat
      BY WaitTableAssumption, LenProperties
    <3> HIDE DEF row
    <3> QED BY <2>2, <3>1
  <2> HIDE DEF row
  <2>4. WaitTable[row] \in [reason : STRING \ {"OnCpu"}, names : SUBSET Seq(STRING)]
    BY <2>2, WaitTableAssumption, ElementOfSeq
  <2>5. WaitTable[row].reason \in STRING \ {"OnCpu"}
    BY <2>4
  <2>6. Classify(stack) = WaitTable[row].reason
    BY <1>1, <2>3
  <2> QED BY <2>5, <2>6
<1> QED BY <1>3, <1>4

IntervalAdded(acc, new, t, i, filter, st) ==
  /\ new \in PassRow
  /\ new.cursor \in 1..(Len(petSamples[t]) + 1)
  /\ \A k \in 1..(new.cursor - 1) : petSamples[t][k].ts < i.start
  /\ new.on = acc.on + (IF i.kind = "OnCpu" /\ Part(t, i, filter) # 0
                        THEN Duration(i) ELSE 0)
  /\ Held(new.credits, st) = Held(acc.credits, st)
       + (IF i.kind = "OnCpu" THEN Owed(t, i, filter, st) ELSE 0)

(* One interval of the pass: the cursor stays behind the intervals to      *)
(* come, and the stack is credited what the interval owes it.              *)
LEMMA IntervalAddsUp ==
  ASSUME NEW t \in Threads, NEW filter, NEW st, NEW i \in IntervalRow, NEW acc \in PassRow,
         NEW now \in Nat, InTime(petSamples[t], now),
         1 <= i.start, i.start < i.end,
         acc.cursor \in 1..(Len(petSamples[t]) + 1),
         \A k \in 1..(acc.cursor - 1) : petSamples[t][k].ts < i.start
  PROVE  IntervalAdded(acc, CreditInterval(acc, i, petSamples[t], filter), t, i, filter, st)
<1> DEFINE samples == petSamples[t]
           N == Len(samples)
           new == CreditInterval(acc, i, samples, filter)
           from == SkipBefore(samples, acc.cursor, i.start)
           to == SkipBefore(samples, from, i.end)
           start == [acc EXCEPT !.cursor = from]
           ns == i.end - i.start
           on == IF i.kind = "OnCpu" /\ Part(t, i, filter) # 0 THEN Duration(i) ELSE 0
           share == IF i.kind = "OnCpu" THEN Owed(t, i, filter, st) ELSE 0
           Early(k) == \A j \in 1..(k - 1) : samples[j].ts < i.start
<1>0. /\ i.start \in Nat /\ i.end \in Nat /\ i.kind \in {"OnCpu", "OffCpu"}
      /\ i.stack \in Stacks \cup {<<>>}
      /\ acc.on \in Nat /\ acc.credits \in Seq(CreditRow) /\ acc.cursor \in Nat
      /\ samples \in Seq(SampleRow) /\ N \in Nat
  <2>1. samples \in Seq(SampleRow)
    BY DEF InTime
  <2>2. N \in Nat
    BY <2>1, LenProperties
  <2> QED BY <2>1, <2>2 DEF IntervalRow, PassRow
<1>1. EndOf(i) = i.end /\ Duration(i) = ns /\ ns # 0 /\ ns \in Nat
  <2>1. EndOf(i) = i.end
    BY <1>0 DEF EndOf
  <2> QED BY <1>0, <2>1 DEF Duration
<1>2. Held(acc.credits, st) \in Nat
  <2> DEFINE g == OnTime(st)
  <2>1. g \in [CreditRow -> Nat]
    <3>1. \A x \in CreditRow : x.ns \in Nat
      BY DEF CreditRow
    <3> QED BY <3>1 DEF OnTime
  <2> HIDE DEF g
  <2>2. Weights(acc.credits, g) \in Seq(Nat)
    BY <1>0, <2>1, WeightsTyped
  <2> QED BY <2>2, TotalTyped DEF Held, g
<1>3. CASE i.kind = "OnCpu"
  <2>1. /\ from \in 1..(N + 1) /\ Early(from)
        /\ {k \in from..(to - 1) : Keep(filter, samples[k].ts, samples[k].stack)}
             = Inside(t, i, filter)
        /\ Inside(t, i, filter) \subseteq 1..N
    <3> DEFINE cursor == acc.cursor
    <3>1. cursor \in 1..(Len(petSamples[t]) + 1)
          /\ \A k \in 1..(cursor - 1) : petSamples[t][k].ts < i.start
      OBVIOUS
    <3> HIDE DEF cursor
    <3>2. LET f == SkipBefore(petSamples[t], cursor, i.start)
              o == SkipBefore(petSamples[t], f, i.end)
          IN /\ f \in 1..(Len(petSamples[t]) + 1)
             /\ \A k \in 1..(f - 1) : petSamples[t][k].ts < i.start
             /\ {k \in f..(o - 1) :
                   Keep(filter, petSamples[t][k].ts, petSamples[t][k].stack)}
                  = Inside(t, i, filter)
             /\ Inside(t, i, filter) \subseteq 1..Len(petSamples[t])
      BY <3>1, CursorsFindTheInside
    <3> QED BY <3>2 DEF cursor
  <2>2. MatchingSamples(samples, from, to, filter) = PickAt(samples, Inside(t, i, filter))
    <3> HIDE DEF from, to
    <3> QED BY <2>1, Zenon DEF MatchingSamples
  <2>3. new = CreditSamples(start, ns, PickAt(samples, Inside(t, i, filter)))
    <3>1. new = CreditSamples(start, ns, MatchingSamples(samples, from, to, filter))
      <4>1. new = CreditSamples([acc EXCEPT !.cursor = SkipBefore(samples, acc.cursor, i.start)],
                    Duration(i),
                    MatchingSamples(samples, SkipBefore(samples, acc.cursor, i.start),
                      SkipBefore(samples, SkipBefore(samples, acc.cursor, i.start), EndOf(i)),
                      filter))
        <5>1. Duration(i) # 0
          BY <1>1
        <5> QED BY <1>3, <5>1, Zenon DEF CreditInterval
      <4> QED BY <1>1, <4>1, Zenon
    <3> QED BY <2>2, <3>1
  <2> HIDE DEF new, from, to
  <2>4. start \in PassRow /\ start.cursor = from /\ start.on = acc.on /\ start.credits = acc.credits
    <3>1. acc = [cursor |-> acc.cursor, on |-> acc.on, credits |-> acc.credits]
      BY DEF PassRow
    <3>2. start = [cursor |-> from, on |-> acc.on, credits |-> acc.credits]
      BY <3>1
    <3>3. from \in Nat
      BY <1>0, <2>1
    <3> QED BY <1>0, <3>2, <3>3 DEF PassRow
  <2> HIDE DEF start
  <2>5. /\ new \in PassRow /\ new.cursor = start.cursor
        /\ new.on = start.on + (IF Part(t, i, filter) # 0 THEN ns ELSE 0)
        /\ Held(new.credits, st) = Held(start.credits, st) + Owed(t, i, filter, st)
    <3>1. SharesAdded(start, CreditSamples(start, i.end - i.start,
                               PickAt(petSamples[t], Inside(t, i, filter))),
                      t, i, filter, st)
      <4>1. /\ petSamples[t] \in Seq(SampleRow) /\ i.start < i.end
            /\ Inside(t, i, filter) \subseteq 1..Len(petSamples[t])
        BY <1>0, <2>1
      <4> HIDE DEF samples
      <4> QED BY <2>4, <4>1, SharesAddUp
    <3> QED BY <2>3, <3>1 DEF SharesAdded
  <2>6. on = IF Part(t, i, filter) # 0 THEN ns ELSE 0
    BY <1>1, <1>3
  <2>7. share = Owed(t, i, filter, st)
    BY <1>3
  <2> HIDE DEF on, share, ns
  <2>8. new.on = acc.on + on /\ Held(new.credits, st) = Held(acc.credits, st) + share
    BY <2>4, <2>5, <2>6, <2>7
  <2>9. new.cursor \in 1..(N + 1) /\ Early(new.cursor)
    BY <2>1, <2>4, <2>5
  <2> QED BY <2>5, <2>8, <2>9 DEF new, on, share, IntervalAdded
<1>4. CASE i.kind # "OnCpu"
  <2>0. on = 0 /\ share = 0
    BY <1>4
  <2>1. new = IF Keep(filter, i.start, i.stack)
              THEN [acc EXCEPT !.credits = Append(@, OffCredit(i))] ELSE acc
    BY <1>1, <1>4, Zenon DEF CreditInterval
  <2> HIDE DEF new, on, share
  <2> DEFINE c == OffCredit(i)
             g == OnTime(st)
             more == Append(acc.credits, c)
  <2>2. c \in CreditRow /\ c.kind # "OnCpu"
    <3>1. c = [stack |-> i.stack, kind |-> Classify(i.stack), ns |-> ns]
      BY <1>1 DEF OffCredit
    <3>2. Classify(i.stack) \in {"OnCpu", "Other"} \cup STRING /\ Classify(i.stack) # "OnCpu"
      BY ReasonIsOffCpu
    <3> HIDE DEF c
    <3>3. c \in CreditRow
      <4> HIDE DEF ns
      <4> QED BY <1>0, <1>1, <3>1, <3>2 DEF CreditRow
    <3> QED BY <3>1, <3>2, <3>3
  <2> HIDE DEF c
  <2>3. g \in [CreditRow -> Nat] /\ g[c] = 0
    <3>1. \A x \in CreditRow : x.ns \in Nat
      BY DEF CreditRow
    <3> QED BY <2>2, <3>1 DEF OnTime
  <2>4. more \in Seq(CreditRow) /\ Held(more, st) = Held(acc.credits, st)
    <3>1. more \in Seq(CreditRow)
      BY <1>0, <2>2
    <3> HIDE DEF g
    <3>2. Weights(more, g) = Append(Weights(acc.credits, g), g[c])
      BY <1>0, <2>2, <2>3, WeightsAppend
    <3>3. Weights(acc.credits, g) \in Seq(Nat) /\ 0 \in Nat
      BY <1>0, <2>3, WeightsTyped
    <3>4. Total(Weights(more, g)) = Total(Weights(acc.credits, g)) + 0
      BY <2>3, <3>2, <3>3, TotalAppend
    <3>5. Total(Weights(acc.credits, g)) \in Nat
      BY <3>3, TotalTyped
    <3> QED BY <3>1, <3>4, <3>5 DEF Held, g
  <2> HIDE DEF more
  <2>5. /\ new \in PassRow /\ new.cursor = acc.cursor /\ new.on = acc.on
        /\ new.credits = acc.credits \/ new.credits = more
    <3>1. CASE Keep(filter, i.start, i.stack)
      <4>1. acc = [cursor |-> acc.cursor, on |-> acc.on, credits |-> acc.credits]
        BY DEF PassRow
      <4>2. new = [acc EXCEPT !.credits = more]
        BY <2>1, <3>1 DEF more, c
      <4>3. new = [cursor |-> acc.cursor, on |-> acc.on, credits |-> more]
        BY <4>1, <4>2
      <4> QED BY <1>0, <2>4, <4>3 DEF PassRow
    <3>2. CASE ~ Keep(filter, i.start, i.stack)
      BY <2>1, <3>2
    <3> QED BY <3>1, <3>2
  <2>6. new.on = acc.on + on /\ Held(new.credits, st) = Held(acc.credits, st) + share
    BY <1>0, <1>2, <2>0, <2>4, <2>5
  <2>7. new.cursor \in 1..(N + 1) /\ Early(new.cursor)
    BY <2>5
  <2> QED BY <2>5, <2>6, <2>7 DEF new, on, share, IntervalAdded
<1> QED BY <1>3, <1>4

(* What an interval owes is a natural.                                     *)
LEMMA OwedTyped ==
  ASSUME NEW t \in Threads, NEW filter, NEW st, NEW i \in IntervalRow,
         petSamples[t] \in Seq(SampleRow), i.start < i.end
  PROVE  Part(t, i, filter) \in Nat /\ Owed(t, i, filter, st) \in Nat
<1> DEFINE samples == petSamples[t]
           N == Len(samples)
           P == Inside(t, i, filter)
           q == Part(t, i, filter)
           owing == [k \in DOMAIN samples |-> IF k \in P /\ samples[k].stack = st THEN q ELSE 0]
<1>0. N \in Nat /\ DOMAIN samples = 1..N
  BY LenProperties
<1>1. IsFiniteSet(P)
  <2>1. P \subseteq 1..N
    BY <1>0 DEF Inside
  <2>2. IsFiniteSet(1..N)
    <3>1. 1 \in Int /\ N \in Int
      BY <1>0
    <3> QED BY <3>1, FS_Interval
  <2> HIDE DEF P
  <2> QED BY <2>1, <2>2, FS_Subset
<1>2. Cardinality(P) \in Nat
  BY <1>1, FS_CardinalityType
<1>3. q = IF Cardinality(P) = 0 THEN 0 ELSE (i.end - i.start) \div Cardinality(P)
  BY DEF Part
<1>4. Owed(t, i, filter, st) = Total(owing)
  BY DEF Owed
<1>5. i.end - i.start \in Nat
  BY DEF IntervalRow
<1> HIDE DEF P, q, samples, N
<1>6. q \in Nat
  <2> DEFINE n == Cardinality(P)
             ns == i.end - i.start
  <2>1. n \in Nat /\ ns \in Nat /\ q = IF n = 0 THEN 0 ELSE ns \div n
    BY <1>2, <1>3, <1>5
  <2> HIDE DEF n, ns
  <2>2. CASE n = 0
    BY <2>1, <2>2
  <2>3. CASE n # 0
    <3>1. ns \div n \in Nat
      BY <2>1, <2>3, Shares
    <3> QED BY <2>1, <2>3, <3>1
  <2> QED BY <2>2, <2>3
<1>7. owing \in Seq(Nat)
  <2>1. owing \in [1..N -> Nat]
    BY <1>0, <1>6
  <2> QED BY <1>0, <2>1
<1> HIDE DEF owing
<1>8. Total(owing) \in Nat
  BY <1>7, TotalTyped
<1> QED BY <1>4, <1>6, <1>8 DEF q

(* The pass over the intervals of a thread.                                *)
PassStart == [cursor |-> 1, on |-> 0, credits |-> <<>>]

IsPass(f, t, filter) ==
  f = [n \in 0..Len(intervals[t]) |->
         IF n = 0 THEN PassStart
         ELSE CreditInterval(f[n - 1], intervals[t][n], petSamples[t], filter)]

WholeTime(t, filter, st) ==
  [k \in DOMAIN intervals[t] |->
     IF intervals[t][k].kind = "OnCpu" THEN Owed(t, intervals[t][k], filter, st) ELSE 0]

SpentTime(t, filter) ==
  [k \in DOMAIN intervals[t] |->
     IF intervals[t][k].kind = "OnCpu" /\ Part(t, intervals[t][k], filter) # 0
     THEN Duration(intervals[t][k]) ELSE 0]

(* What the intervals of a thread owe, one by one.                         *)
LEMMA TimesTyped ==
  ASSUME NEW t \in Threads, NEW filter, NEW st,
         petSamples[t] \in Seq(SampleRow), NEW until, OneByOne(intervals[t], until)
  PROVE  /\ WholeTime(t, filter, st) \in Seq(Nat)
         /\ Len(WholeTime(t, filter, st)) = Len(intervals[t])
         /\ SpentTime(t, filter) \in Seq(Nat)
         /\ Len(SpentTime(t, filter)) = Len(intervals[t])
         /\ \A k \in 1..Len(intervals[t]) :
              /\ WholeTime(t, filter, st)[k] =
                   IF intervals[t][k].kind = "OnCpu"
                   THEN Owed(t, intervals[t][k], filter, st) ELSE 0
              /\ SpentTime(t, filter)[k] =
                   IF intervals[t][k].kind = "OnCpu" /\ Part(t, intervals[t][k], filter) # 0
                   THEN Duration(intervals[t][k]) ELSE 0
<1> DEFINE ivs == intervals[t]
           N == Len(ivs)
           W(k) == IF ivs[k].kind = "OnCpu" THEN Owed(t, ivs[k], filter, st) ELSE 0
           D(k) == IF ivs[k].kind = "OnCpu" /\ Part(t, ivs[k], filter) # 0
                   THEN Duration(ivs[k]) ELSE 0
<1>0. /\ N \in Nat /\ DOMAIN ivs = 1..N
      /\ \A k \in 1..N : ivs[k] \in IntervalRow /\ ivs[k].start < ivs[k].end /\ 1 <= ivs[k].start
  BY LenProperties, ElementOfSeq DEF OneByOne
<1>1. ASSUME NEW k \in 1..N PROVE W(k) \in Nat /\ D(k) \in Nat
  <2> DEFINE i == ivs[k]
  <2>0. i \in IntervalRow /\ i.start < i.end /\ 1 <= i.start
    BY <1>0
  <2> HIDE DEF i
  <2>1. Owed(t, i, filter, st) \in Nat
    BY <2>0, OwedTyped
  <2>2. i.end = 0 \/ i.end # 0
    OBVIOUS
  <2>3. Duration(i) \in Nat
    <3>1. i.start \in Nat /\ i.end \in Nat
      BY <2>0 DEF IntervalRow
    <3>2. EndOf(i) = i.end
      BY <2>0, <3>1 DEF EndOf
    <3> QED BY <3>1, <3>2 DEF Duration
  <2> QED BY <2>1, <2>3 DEF i
<1>2. /\ WholeTime(t, filter, st) = [k \in 1..N |-> W(k)]
      /\ SpentTime(t, filter) = [k \in 1..N |-> D(k)]
  BY <1>0 DEF WholeTime, SpentTime
<1>3. /\ \A k \in 1..N : W(k) = IF intervals[t][k].kind = "OnCpu"
                               THEN Owed(t, intervals[t][k], filter, st) ELSE 0
      /\ \A k \in 1..N : D(k) =
           IF intervals[t][k].kind = "OnCpu" /\ Part(t, intervals[t][k], filter) # 0
           THEN Duration(intervals[t][k]) ELSE 0
  OBVIOUS
<1> DEFINE w == [k \in 1..N |-> W(k)]
           d == [k \in 1..N |-> D(k)]
<1> HIDE DEF W, D
<1>4. w \in [1..N -> Nat] /\ d \in [1..N -> Nat]
  BY <1>1
<1>5. /\ \A k \in 1..N : w[k] = W(k) /\ d[k] = D(k)
  OBVIOUS
<1> HIDE DEF w, d
<1>6. w \in Seq(Nat) /\ Len(w) = N /\ d \in Seq(Nat) /\ Len(d) = N
  <2> HIDE DEF N
  <2>1. w \in Seq(Nat) /\ Len(w) = N
    BY <1>0, <1>4
  <2>2. d \in Seq(Nat) /\ Len(d) = N
    BY <1>0, <1>4
  <2> QED BY <2>1, <2>2
<1>7. WholeTime(t, filter, st) = w /\ SpentTime(t, filter) = d
  BY <1>2 DEF w, d
<1> QED BY <1>3, <1>5, <1>6, <1>7

(* After n intervals, what was credited for them is what they owed, and    *)
(* the samples behind the cursor are behind the intervals to come.         *)
PassedUpTo(acc, n, t, filter, st, fs, fd) ==
  /\ acc \in PassRow /\ acc.cursor \in 1..(Len(petSamples[t]) + 1)
  /\ \A m \in (n + 1)..Len(intervals[t]) : \A k \in 1..(acc.cursor - 1) :
       petSamples[t][k].ts < intervals[t][m].start
  /\ acc.on = fd[n]
  /\ Held(acc.credits, st) = fs[n]

(* Before the first interval nothing is credited.                          *)
LEMMA PassBegins ==
  ASSUME NEW t \in Threads, NEW filter, NEW st, NEW fs, NEW fd, fs[0] = 0, fd[0] = 0,
         petSamples[t] \in Seq(SampleRow)
  PROVE  PassedUpTo(PassStart, 0, t, filter, st, fs, fd)
<1>1. Len(petSamples[t]) \in Nat
  BY LenProperties
<1>2. PassStart \in PassRow /\ PassStart.cursor = 1 /\ PassStart.on = 0 /\ PassStart.credits = <<>>
  <2>1. <<>> \in Seq(CreditRow)
    OBVIOUS
  <2> QED BY <2>1 DEF PassStart, PassRow
<1>3. Held(<<>>, st) = 0
  <2>1. Weights(<<>>, OnTime(st)) = <<>>
    BY DEF Weights
  <2> QED BY <2>1, TotalEmpty DEF Held
<1>4. 1 \in 1..(Len(petSamples[t]) + 1) /\ 1..(1 - 1) = {}
  BY <1>1
<1> QED BY <1>2, <1>3, <1>4 DEF PassedUpTo

(* Each interval keeps PassedUpTo.                                         *)
LEMMA PassGoesOn ==
  ASSUME NEW t \in Threads, NEW filter, NEW st, NEW now \in Nat, NEW until,
         InTime(petSamples[t], now), OneByOne(intervals[t], until),
         NEW fs, NEW fd, IsSum(fs, WholeTime(t, filter, st)), IsSum(fd, SpentTime(t, filter)),
         NEW n \in 1..Len(intervals[t]), NEW acc,
         PassedUpTo(acc, n - 1, t, filter, st, fs, fd)
  PROVE  LET new == CreditInterval(acc, intervals[t][n], petSamples[t], filter)
         IN PassedUpTo(new, n, t, filter, st, fs, fd)
<1> DEFINE ivs == intervals[t]
           N == Len(ivs)
           i == ivs[n]
           new == CreditInterval(acc, i, petSamples[t], filter)
           W == WholeTime(t, filter, st)
           D == SpentTime(t, filter)
<1>0. /\ N \in Nat
      /\ \A k \in 1..N : ivs[k] \in IntervalRow /\ 1 <= ivs[k].start /\ ivs[k].start < ivs[k].end
      /\ \A j, k \in 1..N : j < k => ivs[j].end <= ivs[k].start
      /\ petSamples[t] \in Seq(SampleRow)
  BY LenProperties, ElementOfSeq DEF OneByOne, InTime
<1>1. /\ Len(W) = N /\ Len(D) = N
      /\ W[n] = IF i.kind = "OnCpu" THEN Owed(t, i, filter, st) ELSE 0
      /\ D[n] = IF i.kind = "OnCpu" /\ Part(t, i, filter) # 0 THEN Duration(i) ELSE 0
  BY <1>0, TimesTyped
<1>2. fs[n] = fs[n - 1] + W[n] /\ fd[n] = fd[n - 1] + D[n]
  <2>1. n \in 1..Len(W) /\ n \in 1..Len(D)
    BY <1>1
  <2> HIDE DEF W, D
  <2> QED BY <2>1 DEF IsSum, W, D
<1>3. /\ acc \in PassRow /\ acc.cursor \in 1..(Len(petSamples[t]) + 1)
      /\ acc.on = fd[n - 1] /\ Held(acc.credits, st) = fs[n - 1]
      /\ \A k \in 1..(acc.cursor - 1) : petSamples[t][k].ts < i.start
  <2>1. n \in ((n - 1) + 1)..N
    BY <1>0
  <2> QED BY <2>1 DEF PassedUpTo
<1> HIDE DEF W, D
<1>4. i \in IntervalRow /\ 1 <= i.start /\ i.start < i.end
  BY <1>0
<1> HIDE DEF i
<1>5. IntervalAdded(acc, new, t, i, filter, st)
  BY <1>3, <1>4, IntervalAddsUp
<1> HIDE DEF new
<1>6. /\ new \in PassRow /\ new.cursor \in 1..(Len(petSamples[t]) + 1)
      /\ \A k \in 1..(new.cursor - 1) : petSamples[t][k].ts < i.start
      /\ new.on = fd[n] /\ Held(new.credits, st) = fs[n]
  BY <1>1, <1>2, <1>3, <1>5 DEF IntervalAdded
<1>7. \A m \in (n + 1)..N : \A k \in 1..(new.cursor - 1) : petSamples[t][k].ts < ivs[m].start
  <2> SUFFICES ASSUME NEW m \in (n + 1)..N, NEW k \in 1..(new.cursor - 1)
               PROVE  petSamples[t][k].ts < ivs[m].start
    OBVIOUS
  <2>1. m \in 1..N /\ n < m
    BY <1>0
  <2>2. i.end <= ivs[m].start /\ ivs[m].start \in Nat /\ i.start \in Nat /\ i.end \in Nat
    <3>1. ivs[m] \in IntervalRow /\ i \in IntervalRow
      BY <1>0, <1>4, <2>1
    <3>2. i.end <= ivs[m].start
      BY <1>0, <2>1 DEF i
    <3> QED BY <3>1, <3>2 DEF IntervalRow
  <2>3. petSamples[t][k].ts \in Nat
    <3>1. Len(petSamples[t]) \in Nat
      BY <1>0, LenProperties
    <3>2. k \in 1..Len(petSamples[t])
      BY <1>6, <3>1
    <3>3. petSamples[t][k] \in SampleRow
      BY <1>0, <3>2, ElementOfSeq
    <3> QED BY <3>3 DEF SampleRow
  <2>4. petSamples[t][k].ts < i.start
    BY <1>6
  <2>5. i.start < i.end
    BY <1>4
  <2> HIDE DEF ivs
  <2> QED BY <2>2, <2>3, <2>4, <2>5
<1> QED BY <1>6, <1>7 DEF PassedUpTo, new, i

(* The recursion of the pass has a value,                                  *)
LEMMA PassExists ==
  ASSUME NEW t \in Threads, NEW filter, NEW st, NEW now \in Nat, NEW until,
         InTime(petSamples[t], now), OneByOne(intervals[t], until),
         NEW fs, NEW fd, IsSum(fs, WholeTime(t, filter, st)), IsSum(fd, SpentTime(t, filter))
  PROVE  \E f : IsPass(f, t, filter)
<1> DEFINE N == Len(intervals[t])
           Step(n, v) == CreditInterval(v, intervals[t][n], petSamples[t], filter)
           Safe(n, v) == IF Step(n, v) \in PassRow THEN Step(n, v) ELSE v
           step == [p \in (1..N) \X PassRow |-> Safe(p[1], p[2])]
<1>0. N \in Nat /\ petSamples[t] \in Seq(SampleRow)
  BY LenProperties DEF OneByOne, InTime
<1>1. PassedUpTo(PassStart, 0, t, filter, st, fs, fd)
  <2>1. fs[0] = 0 /\ fd[0] = 0
    BY DEF IsSum
  <2> QED BY <1>0, <2>1, PassBegins
<1>2. \A n \in 1..N : \A v : PassedUpTo(v, n - 1, t, filter, st, fs, fd)
                            => PassedUpTo(Step(n, v), n, t, filter, st, fs, fd)
  BY PassGoesOn
<1>3. \A n, v : PassedUpTo(v, n, t, filter, st, fs, fd) => v \in PassRow
  BY DEF PassedUpTo
<1>4. PassStart \in PassRow
  BY <1>1, <1>3
<1> HIDE DEF Step
<1>5. \A n \in 1..N, v \in PassRow : Safe(n, v) \in PassRow
  OBVIOUS
<1> HIDE DEF Safe, N
<1>6. step \in [(1..N) \X PassRow -> PassRow]
  BY <1>5
<1>7. \A n \in 1..N, v \in PassRow : step[<<n, v>>] = Safe(n, v)
  OBVIOUS
<1> HIDE DEF step
<1>8. PICK f : IsRecursion(f, step, PassStart, N, PassRow)
  BY <1>0, <1>4, <1>6, RecursionExists DEF IsStep
<1>9. /\ f \in [0..N -> PassRow] /\ f[0] = PassStart
      /\ \A n \in 1..N : f[n] = step[<<n, f[n - 1]>>]
  BY <1>8 DEF IsRecursion
<1> DEFINE T == {n \in 0..N : PassedUpTo(f[n], n, t, filter, st, fs, fd)}
<1>10. ASSUME NEW n \in 1..N, n - 1 \in T
       PROVE  n \in T /\ f[n] = Step(n, f[n - 1])
  <2>1. /\ n - 1 \in 0..N /\ n \in 0..N
        /\ PassedUpTo(f[n - 1], n - 1, t, filter, st, fs, fd)
    BY <1>0, <1>10
  <2>2. PassedUpTo(Step(n, f[n - 1]), n, t, filter, st, fs, fd)
    BY <1>2, <2>1
  <2>3. Step(n, f[n - 1]) \in PassRow /\ f[n - 1] \in PassRow
    BY <1>3, <2>1, <2>2
  <2>4. f[n] = Step(n, f[n - 1])
    BY <1>7, <1>9, <2>3 DEF Safe
  <2> QED BY <2>1, <2>2, <2>4
<1>11. 0 \in T
  BY <1>0, <1>1, <1>9
<1>12. 0..N \subseteq T
  <2> HIDE DEF T
  <2> QED BY <1>0, <1>10, <1>11, UpToInduction
<1>13. \A n \in 0..N : f[n] = IF n = 0 THEN PassStart ELSE Step(n, f[n - 1])
  <2> HIDE DEF T
  <2> SUFFICES ASSUME NEW n \in 0..N, n # 0 PROVE f[n] = Step(n, f[n - 1])
    BY <1>9
  <2>1. n \in 1..N /\ n - 1 \in 0..N
    BY <1>0
  <2> QED BY <1>10, <1>12, <2>1
<1>14. f = [n \in 0..N |-> IF n = 0 THEN PassStart ELSE Step(n, f[n - 1])]
  <2>1. f = [n \in 0..N |-> f[n]]
    BY <1>9
  <2> QED BY <1>13, <2>1
<1> QED BY <1>14, Zenon DEF IsPass, Step, N

(* which has credited what all intervals owe.                              *)
LEMMA PassPasses ==
  ASSUME NEW t \in Threads, NEW filter, NEW st, NEW now \in Nat, NEW until,
         InTime(petSamples[t], now), OneByOne(intervals[t], until),
         NEW fs, NEW fd, IsSum(fs, WholeTime(t, filter, st)), IsSum(fd, SpentTime(t, filter))
  PROVE  PassedUpTo(AggregateThread(t, filter), Len(intervals[t]), t, filter, st, fs, fd)
<1> DEFINE N == Len(intervals[t])
           Step(n, v) == CreditInterval(v, intervals[t][n], petSamples[t], filter)
           f == CHOOSE g : IsPass(g, t, filter)
<1>0. N \in Nat /\ petSamples[t] \in Seq(SampleRow)
  BY LenProperties DEF OneByOne, InTime
<1>1. AggregateThread(t, filter) = f[N]
  BY Zenon DEF AggregateThread, IsPass, PassStart
<1>2. \E g : IsPass(g, t, filter)
  BY PassExists
<1>3. IsPass(f, t, filter)
  BY <1>2
<1> HIDE DEF f
<1>4. f = [n \in 0..N |-> IF n = 0 THEN PassStart ELSE Step(n, f[n - 1])]
  BY <1>3, Zenon DEF IsPass
<1>5. PassedUpTo(PassStart, 0, t, filter, st, fs, fd)
  <2>1. fs[0] = 0 /\ fd[0] = 0
    BY DEF IsSum
  <2> QED BY <1>0, <2>1, PassBegins
<1>6. \A n \in 1..N : \A v : PassedUpTo(v, n - 1, t, filter, st, fs, fd)
                            => PassedUpTo(Step(n, v), n, t, filter, st, fs, fd)
  BY PassGoesOn
<1> HIDE DEF N, Step
<1>7. f[0] = PassStart /\ \A n \in 1..N : f[n] = Step(n, f[n - 1])
  <2>1. 0 \in 0..N /\ \A n \in 1..N : n \in 0..N /\ n # 0
    BY <1>0
  <2> QED BY <1>4, <2>1
<1> DEFINE T == {n \in 0..N : PassedUpTo(f[n], n, t, filter, st, fs, fd)}
<1>8. ASSUME NEW n \in 1..N, n - 1 \in T PROVE n \in T
  <2>1. n \in 0..N /\ PassedUpTo(f[n - 1], n - 1, t, filter, st, fs, fd)
    BY <1>0, <1>8
  <2> QED BY <1>6, <1>7, <2>1
<1>9. 0 \in T
  BY <1>0, <1>5, <1>7
<1>10. N \in T
  <2> HIDE DEF T
  <2>1. 0..N \subseteq T
    BY <1>0, <1>8, <1>9, UpToInduction
  <2>2. N \in 0..N
    BY <1>0
  <2> QED BY <2>1, <2>2
<1> QED BY <1>1, <1>10 DEF N

(* A function on 1..n is a sequence.                                       *)
LEMMA FunctionIsSeq ==
  ASSUME NEW S, NEW n \in Nat, NEW f \in [1..n -> S]
  PROVE  f \in Seq(S) /\ Len(f) = n
OBVIOUS

(* A set of one element is listed in one way.                              *)
LEMMA OneElement ==
  ASSUME NEW e
  PROVE  SetToSeq({e}) = <<e>>
<1> DEFINE f == SetToSeq({e})
<1>1. Cardinality({e}) = 1
  BY FS_Singleton
<1>2. f = CHOOSE g \in [1..1 -> {e}] : IsInjective(g)
  BY <1>1 DEF SetToSeq
<1>3. <<e>> \in [1..1 -> {e}] /\ IsInjective(<<e>>)
  BY DEF IsInjective
<1>4. f \in [1..1 -> {e}]
  <2> HIDE DEF f
  <2>1. \E g \in [1..1 -> {e}] : IsInjective(g)
    BY <1>3
  <2> QED BY <1>2, <2>1
<1>5. 1 \in 1..1 /\ \A k \in 1..1 : k = 1
  OBVIOUS
<1>6. f[1] = e
  BY <1>4, <1>5, Zenon
<1>7. f \in Seq({e}) /\ Len(f) = 1
  <2> DEFINE S == {e}
  <2>1. f \in [1..1 -> S] /\ 1 \in Nat
    BY <1>4
  <2> HIDE DEF f, S
  <2>2. f \in Seq(S) /\ Len(f) = 1
    BY <2>1, FunctionIsSeq
  <2> QED BY <2>2 DEF S
<1> HIDE DEF f
<1>8. <<e>> \in Seq({e}) /\ Len(<<e>>) = 1 /\ <<e>>[1] = e
  OBVIOUS
<1>9. f = <<e>>
  <2> DEFINE g == <<e>>
  <2>1. g \in Seq({e}) /\ Len(g) = 1 /\ g[1] = e
    BY <1>8
  <2>2. \A k \in 1..Len(f) : f[k] = g[k]
    BY <1>6, <1>7, <2>1
  <2> HIDE DEF g
  <2>3. f = g
    BY <1>7, <2>1, <2>2, SameSequence
  <2> QED BY <2>3 DEF g
<1> QED BY <1>9 DEF f

(* A request for one thread gets the pass over it.                         *)
LEMMA OneThread ==
  ASSUME NEW t \in Known, NEW filter, AggregateThread(t, filter) \in PassRow
  PROVE  Aggregated({t}, filter) = [on      |-> AggregateThread(t, filter).on,
                                    credits |-> AggregateThread(t, filter).credits]
<1> DEFINE agg == AggregateThread(t, filter)
           e == [tid |-> t, agg |-> agg]
           each == SetToSeq({[tid |-> u, agg |-> AggregateThread(u, filter)] : u \in {t} \cap Known})
<1>0. agg.on \in Nat /\ agg.credits \in Seq(CreditRow)
  BY DEF PassRow
<1>1. {[tid |-> u, agg |-> AggregateThread(u, filter)] : u \in {t} \cap Known} = {e}
  <2>1. {t} \cap Known = {t}
    OBVIOUS
  <2> QED BY <2>1
<1>2. each = <<e>>
  <2>1. SetToSeq({e}) = <<e>>
    BY OneElement
  <2> QED BY <1>1, <2>1, Zenon
<1>3. Aggregated({t}, filter) =
        [on      |-> SumBy(each, LAMBDA x : x.agg.on),
         credits |-> FlattenSeq([k \in DOMAIN each |-> each[k].agg.credits])]
  BY DEF Aggregated
<1> HIDE DEF each
<1>4. DOMAIN each = 1..1 /\ each[1] = e /\ \A k \in 1..1 : k = 1
  BY <1>2
<1>5. SumBy(each, LAMBDA x : x.agg.on) = agg.on
  <2> DEFINE w == [k \in DOMAIN each |-> each[k].agg.on]
             none == <<>>
  <2>1. SumBy(each, LAMBDA x : x.agg.on) = Total(w)
    BY DEF SumBy
  <2> HIDE DEF agg
  <2>2. w = [k \in 1..1 |-> agg.on]
    BY <1>4
  <2>3. none \in Seq(Nat) /\ Total(none) = 0
    BY TotalEmpty
  <2>4. [k \in 1..1 |-> agg.on] = Append(none, agg.on)
    BY <1>0
  <2> HIDE DEF w, none
  <2>5. Total(Append(none, agg.on)) = 0 + agg.on
    BY <1>0, <2>3, TotalAppend
  <2>6. 0 + agg.on = agg.on
    BY <1>0
  <2>7. Total(w) = agg.on
    BY <2>2, <2>4, <2>5, <2>6, Zenon
  <2> QED BY <2>1, <2>7, Zenon
<1>6. FlattenSeq([k \in DOMAIN each |-> each[k].agg.credits]) = agg.credits
  <2> DEFINE c == agg.credits
             w == [k \in DOMAIN each |-> each[k].agg.credits]
             none == <<>>
  <2> HIDE DEF agg
  <2>2. w = [k \in 1..1 |-> c]
    BY <1>4
  <2>0. c \in Seq(CreditRow)
    BY <1>0
  <2> HIDE DEF c
  <2>3. none \in Seq(Seq(CreditRow)) /\ FlattenSeq(none) = <<>>
    BY FlattenEmpty
  <2>4. [k \in 1..1 |-> c] = Append(none, c)
    BY <2>0
  <2> HIDE DEF w, none
  <2>5. FlattenSeq(Append(none, c)) = <<>> \o c
    BY <2>0, <2>3, FlattenAppend
  <2>6. <<>> \o c = c
    BY <2>0
  <2> QED BY <2>2, <2>4, <2>5, <2>6 DEF w, c
<1> QED BY <1>3, <1>5, <1>6 DEF agg

OnCpuHeld(credits, st) ==
  SumBy(credits, LAMBDA c : IF c.kind = "OnCpu" /\ c.stack = st THEN c.ns ELSE 0)

OnCpuSpent(t, filter) ==
  SumBy(intervals[t],
        LAMBDA i : IF i.kind = "OnCpu" /\ Part(t, i, filter) # 0
                   THEN Duration(i) ELSE 0)

(* Queues in order are credited as CreditIsSampledTime says.               *)
LEMMA CreditOfThread ==
  ASSUME EventsOK, NEW t \in Known, NEW filter, NEW st
  PROVE  /\ OnCpuHeld(Aggregated({t}, filter).credits, st) = SampledTime(t, filter, st)
         /\ Aggregated({t}, filter).on = OnCpuSpent(t, filter)
<1> DEFINE W == WholeTime(t, filter, st)
           D == SpentTime(t, filter)
           N == Len(intervals[t])
           agg == AggregateThread(t, filter)
<1>0. /\ t \in Threads /\ clock \in Nat
      /\ InTime(petSamples[t], clock) /\ OneByOne(intervals[t], since[t])
      /\ petSamples[t] \in Seq(SampleRow) /\ N \in Nat
  BY LenProperties DEF Known, EventsOK
<1>1. W \in Seq(Nat) /\ Len(W) = N /\ D \in Seq(Nat) /\ Len(D) = N
  BY <1>0, TimesTyped
<1> HIDE DEF W, D
<1>2. PICK fs : IsSum(fs, W)
  BY <1>1, SumExists
<1>3. PICK fd : IsSum(fd, D)
  BY <1>1, SumExists
<1>4. PassedUpTo(agg, N, t, filter, st, fs, fd)
  BY <1>0, <1>2, <1>3, PassPasses DEF W, D
<1>5. Total(W) = fs[N] /\ Total(D) = fd[N]
  BY <1>1, <1>2, <1>3, SumUnique
<1>6. agg \in PassRow /\ agg.on = Total(D) /\ Held(agg.credits, st) = Total(W)
  BY <1>4, <1>5 DEF PassedUpTo
<1>7. Aggregated({t}, filter) = [on |-> agg.on, credits |-> agg.credits]
  BY <1>6, OneThread
<1> HIDE DEF agg
<1>8. Aggregated({t}, filter).on = Total(D) /\ Aggregated({t}, filter).credits = agg.credits
  BY <1>6, <1>7
<1>9. Total(D) = OnCpuSpent(t, filter)
  BY DEF D, SpentTime, SumBy, OnCpuSpent
<1>10. Total(W) = SampledTime(t, filter, st)
  BY DEF W, WholeTime, SampledTime, SumBy, Owed
<1>11. OnCpuHeld(agg.credits, st) = Held(agg.credits, st)
  <2> DEFINE s == agg.credits
             g == OnTime(st)
             V(c) == IF c.kind = "OnCpu" /\ c.stack = st THEN c.ns ELSE 0
  <2>1. s \in Seq(CreditRow)
    BY <1>6 DEF PassRow
  <2> HIDE DEF s
  <2>2. DOMAIN s = 1..Len(s) /\ \A k \in 1..Len(s) : s[k] \in CreditRow
    BY <2>1, LenProperties, ElementOfSeq
  <2>3. \A k \in 1..Len(s) : g[s[k]] = V(s[k])
    BY <2>2 DEF OnTime
  <2>4. OnCpuHeld(s, st) = Total([k \in DOMAIN s |-> V(s[k])])
    BY DEF SumBy, OnCpuHeld
  <2> HIDE DEF g, V
  <2>5. [k \in DOMAIN s |-> V(s[k])] = [k \in 1..Len(s) |-> g[s[k]]]
    BY <2>2, <2>3
  <2>6. Held(s, st) = Total([k \in 1..Len(s) |-> g[s[k]]])
    BY DEF Held, Weights, g
  <2>7. OnCpuHeld(s, st) = Held(s, st)
    BY <2>4, <2>5, <2>6
  <2> QED BY <2>7 DEF s
<1> QED BY <1>6, <1>8, <1>9, <1>10, <1>11

(* Aggregator::aggregate: for every thread, filter and stack, and whatever *)
(* the bounded queues still hold, the two cursors credit each on-CPU       *)
(* interval to the samples inside it, in equal parts, and lose or invent   *)
(* no share of it.                                                         *)
THEOREM TimeGoesToItsSamples == Spec => []CreditIsSampledTime
<1>1. Init => EventsOK
  BY EventsInit
<1>2. EventsOK /\ [Next]_vars => EventsOK'
  BY EventsStep
<1>3. EventsOK => CreditIsSampledTime
  <2>1. ASSUME EventsOK, NEW t \in Known, NEW filter \in Filters
        PROVE  /\ \A stack \in Stacks : OnCpuHeld(Aggregated({t}, filter).credits, stack)
                                        = SampledTime(t, filter, stack)
               /\ Aggregated({t}, filter).on = OnCpuSpent(t, filter)
    BY <2>1, CreditOfThread
  <2> QED BY <2>1, Zenon DEF CreditIsSampledTime, OnCpuHeld, OnCpuSpent
<1> QED BY <1>1, <1>2, <1>3, PTL DEF Spec

-----------------------------------------------------------------------------
(* Subscription.                                                           *)

\* The snapshot a task has made, wherever it is.
Current(s) ==
  lastSeen[s] = revision /\ owed = {} =>
    /\ task[s] = "waiting" => sent[s] >= due
    /\ task[s] = "sending" => built[s] >= due

Never(s) == lastSeen[s] <= revision

SubscriptionInv ==
  SubscriptionTypeOK /\ due <= written /\ \A s \in Subscribers : Current(s) /\ Never(s)

(* The subscription's variables keep their types.                          *)
LEMMA SubscriptionInitTyped == SubscriptionInit => SubscriptionTypeOK
BY SubscriptionAssumption DEF SubscriptionInit, SubscriptionTypeOK

(* Every step keeps the types of Subscription.                             *)
LEMMA SubscriptionStepTyped == SubscriptionTypeOK /\ [SubscriptionNext]_subscription => SubscriptionTypeOK'
<1> SUFFICES ASSUME SubscriptionTypeOK, [SubscriptionNext]_subscription PROVE SubscriptionTypeOK'
  OBVIOUS
<1> USE DEF SubscriptionTypeOK
<1>1. ASSUME NEW w \in Writers, Write(w) \/ ResetRegistry(w) PROVE SubscriptionTypeOK'
  BY <1>1 DEF Write, ResetRegistry
<1>2. ASSUME NEW w \in Writers, BumpRevision(w) PROVE SubscriptionTypeOK'
  BY <1>2 DEF BumpRevision
<1>3. ASSUME NEW w \in Writers, AttachCache(w) \/ NoCache(w) PROVE SubscriptionTypeOK'
  BY <1>3 DEF AttachCache, NoCache
<1>4. ASSUME NEW s \in Subscribers, ShouldPublish(s) PROVE SubscriptionTypeOK'
  BY <1>4 DEF ShouldPublish
<1>5. ASSUME NEW s \in Subscribers, Build(s) PROVE SubscriptionTypeOK'
  BY <1>5 DEF Build
<1>6. ASSUME NEW s \in Subscribers, Send(s) PROVE SubscriptionTypeOK'
  BY <1>6 DEF Send
<1>7. ASSUME NEW s \in Subscribers, SendFails(s) PROVE SubscriptionTypeOK'
  BY <1>7 DEF SendFails
<1>8. ASSUME NEW s \in Subscribers, ClientLeaves(s) PROVE SubscriptionTypeOK'
  BY <1>8 DEF ClientLeaves
<1>9. CASE UNCHANGED subscription
  BY <1>9 DEF subscription
<1> QED BY <1>1, <1>2, <1>3, <1>4, <1>5, <1>6, <1>7, <1>8, <1>9 DEF SubscriptionNext

(* bump_revision and the order of should_publish_revision, snapshot and    *)
(* send keep every task's snapshot current.                                *)
LEMMA SubscriptionInitInv == SubscriptionInit => SubscriptionInv
BY SubscriptionInitTyped DEF SubscriptionInit, SubscriptionInv, Current, Never

(* Every step keeps the snapshots current.                                 *)
LEMMA SubscriptionStepInv == SubscriptionInv /\ [SubscriptionNext]_subscription => SubscriptionInv'
<1> SUFFICES ASSUME SubscriptionInv, [SubscriptionNext]_subscription
             PROVE /\ due' <= written'
                   /\ \A r \in Subscribers : (Current(r) /\ Never(r))'
  BY SubscriptionStepTyped DEF SubscriptionInv
<1>0. due' <= written'
  BY DEF SubscriptionInv, SubscriptionTypeOK, SubscriptionNext, subscription, Write,
         ResetRegistry, BumpRevision, AttachCache, NoCache, ShouldPublish, Build, Send,
         SendFails, ClientLeaves
<1> SUFFICES ASSUME NEW r \in Subscribers PROVE (Current(r) /\ Never(r))'
  BY <1>0
<1> USE DEF SubscriptionInv, Current, Never, SubscriptionTypeOK
<1>1. ASSUME NEW w \in Writers, Write(w) \/ ResetRegistry(w)
      PROVE (Current(r) /\ Never(r))'
  BY <1>1 DEF Write, ResetRegistry
<1>2. ASSUME NEW w \in Writers, BumpRevision(w) PROVE (Current(r) /\ Never(r))'
  BY <1>2 DEF BumpRevision
<1>3. ASSUME NEW w \in Writers, AttachCache(w) \/ NoCache(w)
      PROVE (Current(r) /\ Never(r))'
  BY <1>3 DEF AttachCache, NoCache
<1>4. ASSUME NEW s \in Subscribers, ShouldPublish(s)
      PROVE (Current(r) /\ Never(r))'
  BY <1>4 DEF ShouldPublish
<1>5. ASSUME NEW s \in Subscribers, Build(s) PROVE (Current(r) /\ Never(r))'
  BY <1>5 DEF Build
<1>6. ASSUME NEW s \in Subscribers, Send(s) PROVE (Current(r) /\ Never(r))'
  BY <1>6 DEF Send
<1>7. ASSUME NEW s \in Subscribers, SendFails(s) PROVE (Current(r) /\ Never(r))'
  BY <1>7 DEF SendFails
<1>8. ASSUME NEW s \in Subscribers, ClientLeaves(s)
      PROVE (Current(r) /\ Never(r))'
  BY <1>8 DEF ClientLeaves
<1>9. CASE UNCHANGED subscription
  BY <1>9 DEF subscription
<1> QED BY <1>1, <1>2, <1>3, <1>4, <1>5, <1>6, <1>7, <1>8, <1>9 DEF SubscriptionNext

(* A task that skips its tick has sent every change up to the last one     *)
(* whose revision is out: what it has not sent gets no revision at all.    *)
THEOREM SkippedTicksMissNoRevision == SubscriptionSpec => []SkippedMeansCurrent
<1>1. SubscriptionInv => SkippedMeansCurrent
  BY DEF SubscriptionInv, Current, SkippedMeansCurrent
<1> QED BY SubscriptionInitInv, SubscriptionStepInv, <1>1, PTL DEF SubscriptionSpec

(* The snapshots of a subscription only ever show more: each is built from *)
(* data that no step takes changes away from.                              *)
Behind(s) == sent[s] <= built[s] /\ built[s] <= written

(* Nothing is sent or built at first.                                      *)
LEMMA InitBehind == SubscriptionInit => \A s \in Subscribers : Behind(s)
BY DEF SubscriptionInit, Behind

(* What is sent was built, and what was built is written.                  *)
LEMMA StepBehind ==
  SubscriptionTypeOK /\ (\A s \in Subscribers : Behind(s)) /\ [SubscriptionNext]_subscription
    => (\A s \in Subscribers : Behind(s))'
<1> SUFFICES ASSUME SubscriptionTypeOK, \A s \in Subscribers : Behind(s), [SubscriptionNext]_subscription,
                    NEW r \in Subscribers
             PROVE Behind(r)'
  OBVIOUS
<1> USE DEF Behind, SubscriptionTypeOK
<1>1. ASSUME NEW w \in Writers, Write(w) \/ ResetRegistry(w) \/ BumpRevision(w)
                                \/ AttachCache(w) \/ NoCache(w)
      PROVE Behind(r)'
  BY <1>1 DEF Write, ResetRegistry, BumpRevision, AttachCache, NoCache
<1>2. ASSUME NEW s \in Subscribers, ShouldPublish(s) PROVE Behind(r)'
  BY <1>2 DEF ShouldPublish
<1>3. ASSUME NEW s \in Subscribers, Build(s) PROVE Behind(r)'
  BY <1>3 DEF Build
<1>4. ASSUME NEW s \in Subscribers, Send(s) PROVE Behind(r)'
  BY <1>4 DEF Send
<1>5. ASSUME NEW s \in Subscribers, SendFails(s) \/ ClientLeaves(s)
      PROVE Behind(r)'
  BY <1>5 DEF SendFails, ClientLeaves
<1>6. CASE UNCHANGED subscription
  BY <1>6 DEF subscription
<1> QED BY <1>1, <1>2, <1>3, <1>4, <1>5, <1>6 DEF SubscriptionNext

(* send: what a client has seen is never taken back by a later snapshot.   *)
THEOREM SnapshotsOnlyAdvance == SubscriptionSpec => SnapshotsAdvance
<1>1. SubscriptionTypeOK /\ (\A s \in Subscribers : Behind(s)) /\ [SubscriptionNext]_subscription
        => [\A s \in Subscribers : sent[s] <= sent'[s]]_sent
  <2> SUFFICES ASSUME SubscriptionTypeOK, \A s \in Subscribers : Behind(s), SubscriptionNext,
                      NEW r \in Subscribers
               PROVE sent[r] <= sent'[r] \/ UNCHANGED sent
    BY DEF subscription
  <2>1. ASSUME NEW s \in Subscribers, Send(s) PROVE sent[r] <= sent'[r]
    BY <2>1 DEF Send, Behind, SubscriptionTypeOK
  <2>2. CASE UNCHANGED sent
    BY <2>2
  <2> QED BY <2>1, <2>2
          DEF SubscriptionNext, Write, ResetRegistry, BumpRevision, AttachCache, NoCache, ShouldPublish, Build, SendFails,
              ClientLeaves
<1> QED BY SubscriptionInitTyped, SubscriptionStepTyped, InitBehind, StepBehind, <1>1, PTL
        DEF SubscriptionSpec, SnapshotsAdvance
=============================================================================
