--------------------------- MODULE SequenceLemmas ---------------------------
(***************************************************************************)
(* What the proofs of several components need of sequences: increasing     *)
(* sequences of numbers, the removal of one element, and FlattenSeq, whose *)
(* recursive definition is unfolded by an induction over the naturals.     *)
(* The induction is stated over a set of numbers, not over a predicate: a  *)
(* proof that uses it defines the set of the numbers it is true of.        *)
(***************************************************************************)
EXTENDS Integers, SequencesExt, SequenceTheorems, FiniteSetTheorems,
        WellFoundedInduction, TLAPS

(* A set of naturals that is not empty has a least element.                *)
LEMMA LeastNumber ==
  ASSUME NEW T, T \subseteq Nat, T # {}
  PROVE  \E m \in T : \A n \in T : ~ (n < m)
<1> DEFINE R == OpToRel(<, Nat)
<1>1. IsWellFoundedOn(R, Nat)
  BY NatLessThanWellFounded
<1>2. \E m \in T : \A n \in T : ~ (<<n, m>> \in R)
  <2> HIDE DEF R
  <2> QED BY <1>1, WFMin
<1>3. \A m, n \in Nat : n < m => <<n, m>> \in R
  BY DEF OpToRel
<1> HIDE DEF R
<1> QED BY <1>2, <1>3

LEMMA SetInduction ==
  ASSUME NEW T, 0 \in T, \A n \in Nat : n \in T => n + 1 \in T
  PROVE  Nat \subseteq T
<1> SUFFICES ASSUME Nat \ T # {} PROVE FALSE
  OBVIOUS
<1>1. PICK m \in Nat \ T : \A n \in Nat \ T : ~ (n < m)
  BY LeastNumber
<1>2. m # 0 /\ m - 1 \in Nat /\ m - 1 \in T
  BY <1>1
<1> QED BY <1>1, <1>2

LEMMA UpToInduction ==
  ASSUME NEW N \in Nat, NEW T, 0 \in T, \A n \in 1..N : n - 1 \in T => n \in T
  PROVE  0..N \subseteq T
<1> DEFINE U == {n \in Nat : n \in 0..N => n \in T}
<1>1. 0 \in U
  OBVIOUS
<1>2. ASSUME NEW n \in Nat, n \in U PROVE n + 1 \in U
  <2> SUFFICES ASSUME n + 1 \in 0..N PROVE n + 1 \in T
    OBVIOUS
  <2>1. n \in 0..N /\ n + 1 \in 1..N /\ (n + 1) - 1 = n
    OBVIOUS
  <2> QED BY <1>2, <2>1
<1>3. Nat \subseteq U
  <2> HIDE DEF U
  <2> QED BY <1>1, <1>2, SetInduction
<1> QED BY <1>3

(* A function may be defined on 0..N by its first value and a step.  What  *)
(* the step does is itself a function: an operator cannot be a parameter.  *)
IsStep(step, N, V) == step \in [(1..N) \X V -> V]

IsRecursion(f, step, base, N, V) ==
  /\ f \in [0..N -> V]
  /\ f[0] = base
  /\ \A n \in 1..N : f[n] = step[<<n, f[n - 1]>>]

LEMMA RecursionExists ==
  ASSUME NEW V, NEW base \in V, NEW N \in Nat, NEW step, IsStep(step, N, V)
  PROVE  \E f : IsRecursion(f, step, base, N, V)
<1> DEFINE Upto(f, k) == /\ f \in [0..k -> V]
                         /\ f[0] = base
                         /\ \A n \in 1..k : f[n] = step[<<n, f[n - 1]>>]
           T == {k \in Nat : \E f : Upto(f, k)}
<1>0. step \in [(1..N) \X V -> V]
  BY DEF IsStep
<1>1. 0 \in T
  <2>1. Upto([n \in 0..0 |-> base], 0)
    OBVIOUS
  <2> QED BY <2>1
<1>2. ASSUME NEW k \in 1..N, k - 1 \in T PROVE k \in T
  <2>1. PICK f : Upto(f, k - 1)
    BY <1>2
  <2> DEFINE g == [n \in 0..k |-> IF n = k THEN step[<<k, f[k - 1]>>] ELSE f[n]]
  <2>2. k - 1 \in 0..(k - 1) /\ k - 1 \in 0..k /\ k - 1 # k /\ k \in Nat
    OBVIOUS
  <2>3. step[<<k, f[k - 1]>>] \in V
    BY <1>0, <2>1, <2>2
  <2>4. g \in [0..k -> V]
    BY <2>1, <2>3
  <2>5. g[0] = base
    BY <2>1
  <2>6. ASSUME NEW n \in 1..k PROVE g[n] = step[<<n, g[n - 1]>>]
    <3>1. n - 1 \in 0..k /\ n - 1 # k /\ n \in 0..k
      OBVIOUS
    <3>2. g[n - 1] = f[n - 1]
      BY <3>1
    <3>3. CASE n = k
      <4>1. g[n] = step[<<k, f[k - 1]>>]
        BY <3>1, <3>3
      <4> QED BY <3>2, <3>3, <4>1
    <3>4. CASE n # k
      <4>1. n \in 1..(k - 1)
        BY <3>4
      <4>2. g[n] = f[n] /\ f[n] = step[<<n, f[n - 1]>>]
        BY <2>1, <3>1, <3>4, <4>1
      <4> QED BY <3>2, <4>2
    <3> QED BY <3>3, <3>4
  <2>7. Upto(g, k)
    <3> HIDE DEF g
    <3> QED BY <2>4, <2>5, <2>6
  <2> HIDE DEF g, Upto
  <2> QED BY <2>2, <2>7
<1>3. 0..N \subseteq T
  <2> HIDE DEF T
  <2> QED BY <1>1, <1>2, UpToInduction
<1>4. N \in T
  BY <1>3
<1> QED BY <1>4 DEF IsRecursion

-----------------------------------------------------------------------------
(* Increasing sequences of numbers, by the set of what they hold.          *)

Increasing(s) == \A i, j \in 1..Len(s) : i < j => s[i] < s[j]

LEMMA Members ==
  ASSUME NEW S, NEW s \in Seq(S)
  PROVE  /\ \A x : x \in ToSet(s) <=> \E i \in 1..Len(s) : x = s[i]
         /\ ToSet(s) \subseteq S
<1>1. DOMAIN s = 1..Len(s) /\ \A i \in 1..Len(s) : s[i] \in S
  BY LenProperties, ElementOfSeq
<1> QED BY <1>1 DEF ToSet

LEMMA EmptyIncreasing == ToSet(<<>>) = {} /\ Increasing(<<>>) /\ Len(<<>>) = 0
BY DEF ToSet, Increasing

LEMMA AppendMembers ==
  ASSUME NEW S, NEW s \in Seq(S), NEW b \in S
  PROVE  ToSet(Append(s, b)) = ToSet(s) \cup {b}
<1>1. /\ Append(s, b) \in Seq(S) /\ Len(Append(s, b)) = Len(s) + 1
      /\ \A i \in 1..Len(s) : Append(s, b)[i] = s[i]
      /\ Append(s, b)[Len(s) + 1] = b
      /\ Len(s) \in Nat
  BY AppendProperties, LenProperties
<1>2. \A x : x \in ToSet(Append(s, b))
               <=> \E i \in 1..(Len(s) + 1) : x = Append(s, b)[i]
  <2> DEFINE t == Append(s, b)
  <2>1. t \in Seq(S) /\ Len(t) = Len(s) + 1
    BY <1>1
  <2> HIDE DEF t
  <2>2. \A x : x \in ToSet(t) <=> \E i \in 1..Len(t) : x = t[i]
    BY <2>1, Members
  <2> QED BY <2>1, <2>2 DEF t
<1>3. \A x : x \in ToSet(s) <=> \E i \in 1..Len(s) : x = s[i]
  BY Members
<1>4. \A i \in 1..(Len(s) + 1) : i \in 1..Len(s) \/ i = Len(s) + 1
  BY <1>1
<1>5. 1..Len(s) \subseteq 1..(Len(s) + 1) /\ Len(s) + 1 \in 1..(Len(s) + 1)
  BY <1>1
<1> QED BY <1>1, <1>2, <1>3, <1>4, <1>5

LEMMA AppendIncreasing ==
  ASSUME NEW s \in Seq(Nat), NEW b \in Nat, Increasing(s),
         \A a \in ToSet(s) : a < b
  PROVE  Increasing(Append(s, b))
<1>1. /\ Len(Append(s, b)) = Len(s) + 1 /\ Len(s) \in Nat
      /\ \A i \in 1..Len(s) : Append(s, b)[i] = s[i]
      /\ Append(s, b)[Len(s) + 1] = b
  BY AppendProperties, LenProperties
<1>2. \A i \in 1..Len(s) : s[i] < b
  BY Members
<1>3. \A i \in 1..(Len(s) + 1) : i \in 1..Len(s) \/ i = Len(s) + 1
  BY <1>1
<1> SUFFICES ASSUME NEW i \in 1..(Len(s) + 1), NEW j \in 1..(Len(s) + 1), i < j
             PROVE  Append(s, b)[i] < Append(s, b)[j]
  BY <1>1 DEF Increasing
<1>4. i \in 1..Len(s)
  BY <1>1
<1>5. CASE j \in 1..Len(s)
  BY <1>1, <1>4, <1>5 DEF Increasing
<1>6. CASE j = Len(s) + 1
  BY <1>1, <1>2, <1>4, <1>6
<1> QED BY <1>3, <1>5, <1>6

(* The first element and the others.                                       *)
LEMMA TailMembers ==
  ASSUME NEW S, NEW s \in Seq(S), s # <<>>
  PROVE  /\ Head(s) \in S /\ Tail(s) \in Seq(S)
         /\ Len(Tail(s)) = Len(s) - 1 /\ Len(s) \in Nat \ {0}
         /\ Head(s) = s[1] /\ \A i \in 1..Len(Tail(s)) : Tail(s)[i] = s[i + 1]
         /\ ToSet(s) = {Head(s)} \cup ToSet(Tail(s))
<1>1. /\ Head(s) \in S /\ Tail(s) \in Seq(S)
      /\ Len(Tail(s)) = Len(s) - 1
      /\ \A i \in 1..Len(Tail(s)) : Tail(s)[i] = s[i + 1]
  BY HeadTailProperties
<1>2. Len(s) \in Nat \ {0} /\ Head(s) = s[1]
  BY LenProperties, EmptySeq
<1>3. \A i \in 1..Len(Tail(s)) : i + 1 \in 1..Len(s)
  BY <1>1, <1>2
<1>4. 1 \in 1..Len(s) /\ \A i \in 1..Len(s) : i # 1 => /\ i - 1 \in 1..Len(Tail(s))
                                                     /\ i = (i - 1) + 1
  BY <1>1, <1>2
<1>5. \A x : x \in ToSet(Tail(s)) <=> \E i \in 1..Len(Tail(s)) : x = Tail(s)[i]
  BY <1>1, Members
<1>6. \A x : x \in ToSet(s) <=> \E i \in 1..Len(s) : x = s[i]
  BY Members
<1>7. ToSet(s) \subseteq {Head(s)} \cup ToSet(Tail(s))
  BY <1>1, <1>2, <1>4, <1>5, <1>6
<1>8. {Head(s)} \cup ToSet(Tail(s)) \subseteq ToSet(s)
  BY <1>1, <1>2, <1>3, <1>4, <1>5, <1>6
<1> QED BY <1>1, <1>2, <1>7, <1>8

LEMMA TailIncreasing ==
  ASSUME NEW s \in Seq(Nat), s # <<>>, Increasing(s)
  PROVE  /\ Increasing(Tail(s))
         /\ \A a \in ToSet(Tail(s)) : Head(s) < a
<1>1. /\ Tail(s) \in Seq(Nat) /\ Len(Tail(s)) = Len(s) - 1
      /\ Len(s) \in Nat \ {0} /\ Head(s) = s[1]
      /\ \A i \in 1..Len(Tail(s)) : Tail(s)[i] = s[i + 1]
  BY TailMembers
<1>2. \A i \in 1..Len(Tail(s)) : i + 1 \in 1..Len(s) /\ 1 < i + 1
  BY <1>1
<1>3. 1 \in 1..Len(s)
  BY <1>1
<1>4. Increasing(Tail(s))
  <2> SUFFICES ASSUME NEW i \in 1..Len(Tail(s)), NEW j \in 1..Len(Tail(s)), i < j
               PROVE  s[i + 1] < s[j + 1]
    BY <1>1 DEF Increasing
  <2>1. i + 1 < j + 1
    OBVIOUS
  <2> QED BY <1>2, <2>1 DEF Increasing
<1>5. ASSUME NEW a \in ToSet(Tail(s)) PROVE Head(s) < a
  <2>1. PICK i \in 1..Len(Tail(s)) : a = Tail(s)[i]
    BY <1>1, Members
  <2> QED BY <1>1, <1>2, <1>3, <2>1 DEF Increasing
<1> QED BY <1>4, <1>5

(* An increasing sequence holds as many numbers as it is long.             *)
LEMMA CountMembers ==
  ASSUME NEW s \in Seq(Nat), Increasing(s)
  PROVE  IsFiniteSet(ToSet(s)) /\ Cardinality(ToSet(s)) = Len(s)
<1>1. Len(s) \in Nat /\ DOMAIN s = 1..Len(s) /\ s \in [1..Len(s) -> Nat]
  BY LenProperties
<1>2. s \in [1..Len(s) -> ToSet(s)]
  BY <1>1 DEF ToSet
<1>3. \A i, j \in 1..Len(s) : s[i] = s[j] => i = j
  <2> SUFFICES ASSUME NEW i \in 1..Len(s), NEW j \in 1..Len(s), s[i] = s[j], i # j
               PROVE  FALSE
    OBVIOUS
  <2>1. s[i] \in Nat /\ s[j] \in Nat
    BY <1>1
  <2>2. i < j \/ j < i
    BY <1>1
  <2> QED BY <2>1, <2>2 DEF Increasing
<1>4. \A t \in ToSet(s) : \E i \in 1..Len(s) : s[i] = t
  BY Members
<1>5. s \in Bijection(1..Len(s), ToSet(s))
  BY <1>2, <1>3, <1>4 DEF Bijection, Injection, Surjection, IsInjective
<1>6. ExistsBijection(1..Len(s), ToSet(s))
  BY <1>5 DEF ExistsBijection
<1> QED BY <1>1, <1>6, FS_CountingElements, FS_NatBijection

LEMMA ConcatMembers ==
  ASSUME NEW S, NEW s \in Seq(S), NEW t \in Seq(S)
  PROVE  ToSet(s \o t) = ToSet(s) \cup ToSet(t)
<1>1. \A u : ToSet(u) = Range(u)
  BY DEF ToSet, Range
<1>2. Range(s \o t) = Range(s) \cup Range(t)
  BY RangeConcatenation
<1> QED BY <1>1, <1>2

LEMMA ConcatIncreasing ==
  ASSUME NEW s \in Seq(Nat), NEW t \in Seq(Nat), Increasing(s), Increasing(t),
         \A a \in ToSet(s), b \in ToSet(t) : a < b
  PROVE  Increasing(s \o t)
<1>1. /\ Len(s \o t) = Len(s) + Len(t) /\ Len(s) \in Nat /\ Len(t) \in Nat
      /\ \A i \in 1..(Len(s) + Len(t)) :
           (s \o t)[i] = IF i <= Len(s) THEN s[i] ELSE t[i - Len(s)]
  BY ConcatProperties, LenProperties
<1>2. \A i \in 1..Len(s), j \in 1..Len(t) : s[i] < t[j]
  BY Members
<1> SUFFICES ASSUME NEW i \in 1..(Len(s) + Len(t)), NEW j \in 1..(Len(s) + Len(t)),
                    i < j
             PROVE  (s \o t)[i] < (s \o t)[j]
  BY <1>1 DEF Increasing
<1>3. CASE j <= Len(s)
  <2>1. i \in 1..Len(s) /\ j \in 1..Len(s)
    BY <1>1, <1>3
  <2> QED BY <1>1, <1>3, <2>1 DEF Increasing
<1>4. CASE i <= Len(s) /\ ~ (j <= Len(s))
  <2>1. i \in 1..Len(s) /\ j - Len(s) \in 1..Len(t)
    BY <1>1, <1>4
  <2> QED BY <1>1, <1>2, <1>4, <2>1
<1>5. CASE ~ (i <= Len(s))
  <2>1. /\ i - Len(s) \in 1..Len(t) /\ j - Len(s) \in 1..Len(t)
        /\ i - Len(s) < j - Len(s) /\ ~ (j <= Len(s))
    BY <1>1, <1>5
  <2>2. t[i - Len(s)] < t[j - Len(s)]
    BY <2>1 DEF Increasing
  <2> QED BY <1>1, <1>5, <2>1, <2>2
<1> QED BY <1>1, <1>3, <1>4, <1>5

(* A sequence that starts with e, and one that is taken apart.             *)
LEMMA HeadTailCons ==
  ASSUME NEW S, NEW e \in S, NEW s \in Seq(S)
  PROVE  /\ <<e>> \o s \in Seq(S) /\ <<e>> \o s # <<>>
         /\ Head(<<e>> \o s) = e /\ Tail(<<e>> \o s) = s
<1> DEFINE t == <<e>> \o s
<1>1. <<e>> \in Seq(S) /\ Len(<<e>>) = 1 /\ <<e>>[1] = e
  OBVIOUS
<1>2. /\ t \in Seq(S) /\ Len(t) = 1 + Len(s) /\ Len(s) \in Nat
      /\ \A i \in 1..(1 + Len(s)) : t[i] = IF i <= 1 THEN <<e>>[i] ELSE s[i - 1]
  BY <1>1, ConcatProperties, LenProperties
<1> HIDE DEF t
<1>3. t # <<>>
  BY <1>2, EmptySeq
<1>4. /\ Tail(t) \in Seq(S) /\ Len(Tail(t)) = Len(s) /\ Head(t) = t[1]
      /\ \A i \in 1..Len(s) : Tail(t)[i] = t[i + 1]
  BY <1>2, <1>3, TailMembers
<1>5. \A i \in 1..Len(s) : Tail(t)[i] = s[i]
  <2> SUFFICES ASSUME NEW i \in 1..Len(s) PROVE t[i + 1] = s[i]
    BY <1>4
  <2>1. i + 1 \in 1..(1 + Len(s)) /\ ~ (i + 1 <= 1) /\ (i + 1) - 1 = i
    BY <1>2
  <2>2. t[i + 1] = s[(i + 1) - 1]
    BY <1>2, <2>1
  <2> QED BY <2>1, <2>2
<1>6. Tail(t) = s
  BY <1>4, <1>5, SeqEqual
<1>7. Head(t) = e
  BY <1>1, <1>2, <1>4
<1> QED BY <1>2, <1>3, <1>6, <1>7 DEF t

LEMMA ConsHeadTail ==
  ASSUME NEW S, NEW s \in Seq(S), s # <<>>
  PROVE  s = <<Head(s)>> \o Tail(s)
<1> DEFINE t == <<Head(s)>> \o Tail(s)
<1>1. /\ Head(s) \in S /\ Tail(s) \in Seq(S)
      /\ Len(Tail(s)) = Len(s) - 1 /\ Len(s) \in Nat \ {0}
      /\ Head(s) = s[1] /\ \A i \in 1..Len(Tail(s)) : Tail(s)[i] = s[i + 1]
  BY TailMembers
<1>2. <<Head(s)>> \in Seq(S) /\ Len(<<Head(s)>>) = 1 /\ <<Head(s)>>[1] = Head(s)
  BY <1>1
<1>3. /\ t \in Seq(S) /\ Len(t) = 1 + Len(Tail(s))
      /\ \A i \in 1..(1 + Len(Tail(s))) :
           t[i] = IF i <= 1 THEN <<Head(s)>>[i] ELSE Tail(s)[i - 1]
  BY <1>1, <1>2, ConcatProperties
<1> HIDE DEF t
<1>4. \A i \in 1..Len(s) : s[i] = t[i]
  <2> SUFFICES ASSUME NEW i \in 1..Len(s) PROVE s[i] = t[i]
    OBVIOUS
  <2>1. CASE i = 1
    BY <1>1, <1>2, <1>3, <2>1
  <2>2. CASE i # 1
    <3>1. /\ i - 1 \in 1..Len(Tail(s)) /\ (i - 1) + 1 = i /\ ~ (i <= 1)
          /\ i \in 1..(1 + Len(Tail(s)))
      BY <1>1, <2>2
    <3>2. t[i] = Tail(s)[i - 1]
      BY <1>3, <3>1
    <3>3. Tail(s)[i - 1] = s[(i - 1) + 1]
      BY <1>1, <3>1
    <3> QED BY <3>1, <3>2, <3>3
  <2> QED BY <2>1, <2>2
<1>5. Len(s) = Len(t)
  BY <1>1, <1>3
<1> QED BY <1>3, <1>4, <1>5, SeqEqual DEF t

-----------------------------------------------------------------------------
(* One element out of the middle of a sequence.                            *)
LEMMA RemoveMiddle ==
  ASSUME NEW S, NEW p \in Seq(S), NEW q \in Seq(S), NEW e \in S
  PROVE  /\ RemoveAt(p \o (<<e>> \o q), Len(p) + 1) = p \o q
         /\ Len(p) + 1 \in 1..Len(p \o (<<e>> \o q))
<1> DEFINE m == <<e>> \o q
           s == p \o m
<1>1. <<e>> \in Seq(S) /\ Len(<<e>>) = 1 /\ <<e>>[1] = e
  OBVIOUS
<1>2. Len(p) \in Nat /\ Len(q) \in Nat
  BY LenProperties
<1>3. /\ m \in Seq(S) /\ Len(m) = 1 + Len(q)
      /\ \A i \in 1..(1 + Len(q)) : m[i] = IF i <= 1 THEN <<e>>[i] ELSE q[i - 1]
  BY <1>1, ConcatProperties
<1>4. /\ s \in Seq(S) /\ Len(s) = Len(p) + Len(m)
      /\ \A i \in 1..(Len(p) + Len(m)) :
           s[i] = IF i <= Len(p) THEN p[i] ELSE m[i - Len(p)]
  <2> HIDE DEF m
  <2> QED BY <1>3, ConcatProperties
<1> DEFINE left  == SubSeq(s, 1, Len(p))
           right == SubSeq(s, Len(p) + 2, Len(s))
<1> HIDE DEF s, m
<1>5. left = p
  <2>1. \A i \in 1..Len(p) : s[i] \in S /\ s[i] = p[i]
    BY <1>2, <1>3, <1>4, ElementOfSeq
  <2>2. /\ left \in Seq(S) /\ Len(left) = Len(p)
        /\ \A i \in 1..Len(p) : left[i] = s[i]
    <3>1. /\ left \in Seq(S)
          /\ Len(left) = IF 1 <= Len(p) THEN Len(p) - 1 + 1 ELSE 0
          /\ \A i \in 1..(Len(p) - 1 + 1) : left[i] = s[1 + i - 1]
      BY <1>2, <2>1, SubSeqProperties
    <3> HIDE DEF left
    <3>2. \A i \in 1..Len(p) : 1 + i - 1 = i
      BY <1>2
    <3> QED BY <1>2, <3>1, <3>2
  <2> HIDE DEF left
  <2> QED BY <2>1, <2>2, SeqEqual
<1>6. right = q
  <2>1. Len(s) = Len(p) + 1 + Len(q)
    BY <1>2, <1>3, <1>4
  <2>2. \A i \in (Len(p) + 2)..Len(s) : /\ s[i] = q[i - Len(p) - 1]
                                       /\ i - Len(p) - 1 \in 1..Len(q)
    <3> SUFFICES ASSUME NEW i \in (Len(p) + 2)..Len(s)
                 PROVE  /\ s[i] = q[i - Len(p) - 1]
                        /\ i - Len(p) - 1 \in 1..Len(q)
      OBVIOUS
    <3>1. /\ i \in 1..(Len(p) + Len(m)) /\ ~ (i <= Len(p))
          /\ i - Len(p) \in 1..(1 + Len(q)) /\ ~ (i - Len(p) <= 1)
          /\ i - Len(p) - 1 \in 1..Len(q)
      BY <1>2, <1>3, <2>1
    <3>2. s[i] = m[i - Len(p)]
      BY <1>4, <3>1
    <3>3. m[i - Len(p)] = q[(i - Len(p)) - 1]
      BY <1>3, <3>1
    <3> QED BY <3>1, <3>2, <3>3
  <2>3. \A i \in (Len(p) + 2)..Len(s) : s[i] \in S
    BY <2>2, ElementOfSeq
  <2>4. /\ right \in Seq(S) /\ Len(right) = Len(q)
        /\ \A i \in 1..Len(q) : right[i] = s[Len(p) + 2 + i - 1]
    <3>1. /\ right \in Seq(S)
          /\ Len(right) = IF Len(p) + 2 <= Len(s)
                          THEN Len(s) - (Len(p) + 2) + 1 ELSE 0
          /\ \A i \in 1..(Len(s) - (Len(p) + 2) + 1) :
               right[i] = s[Len(p) + 2 + i - 1]
      BY <1>2, <2>1, <2>3, SubSeqProperties
    <3> HIDE DEF right
    <3> QED BY <1>2, <2>1, <3>1
  <2>5. \A i \in 1..Len(q) : /\ Len(p) + 2 + i - 1 \in (Len(p) + 2)..Len(s)
                            /\ (Len(p) + 2 + i - 1) - Len(p) - 1 = i
    BY <1>2, <2>1
  <2> HIDE DEF right
  <2> QED BY <2>2, <2>4, <2>5, SeqEqual
<1>7. RemoveAt(s, Len(p) + 1) = left \o right
  <2>1. (Len(p) + 1) - 1 = Len(p) /\ (Len(p) + 1) + 1 = Len(p) + 2
    BY <1>2
  <2> QED BY <2>1 DEF RemoveAt
<1>8. Len(p) + 1 \in 1..Len(s)
  BY <1>2, <1>3, <1>4
<1> HIDE DEF left, right
<1> QED BY <1>5, <1>6, <1>7, <1>8 DEF s, m
-----------------------------------------------------------------------------
(* FlattenSeq, step by step: f[i] is the concatenation of the first i      *)
(* sequences of s.                                                         *)

IsFlat(f, s, n) == f = [i \in 1..n |-> IF i = 1 THEN s[i] ELSE f[i-1] \o s[i]]

LEMMA FlatExists ==
  ASSUME NEW s, NEW n \in Nat
  PROVE  \E f : IsFlat(f, s, n)
<1> DEFINE T == {k \in Nat : \E f : IsFlat(f, s, k)}
<1>1. 0 \in T
  <2>1. IsFlat([i \in 1..0 |-> s[i]], s, 0)
    BY DEF IsFlat
  <2> QED BY <2>1
<1>2. ASSUME NEW k \in Nat, k \in T PROVE k + 1 \in T
  <2>1. PICK f : IsFlat(f, s, k)
    BY <1>2
  <2> DEFINE last == IF k + 1 = 1 THEN s[k + 1] ELSE f[k] \o s[k + 1]
             g == [i \in 1..(k + 1) |-> IF i = k + 1 THEN last ELSE f[i]]
  <2>2. \A i \in 1..k : f[i] = IF i = 1 THEN s[i] ELSE f[i-1] \o s[i]
    BY <2>1 DEF IsFlat
  <2>3. \A i \in 1..(k + 1) : g[i] = IF i = 1 THEN s[i] ELSE g[i-1] \o s[i]
    <3> SUFFICES ASSUME NEW i \in 1..(k + 1)
                 PROVE  g[i] = IF i = 1 THEN s[i] ELSE g[i-1] \o s[i]
      OBVIOUS
    <3>1. i # 1 => g[i-1] = f[i-1]
      OBVIOUS
    <3>2. CASE i = k + 1
      <4>1. g[i] = last
        BY <3>2
      <4>2. i # 1 => i - 1 = k
        BY <3>2
      <4> HIDE DEF g
      <4> QED BY <3>1, <3>2, <4>1, <4>2
    <3>3. CASE i # k + 1
      <4>1. i \in 1..k /\ g[i] = f[i]
        BY <3>3
      <4> HIDE DEF g
      <4> QED BY <2>2, <3>1, <4>1
    <3> QED BY <3>2, <3>3
  <2>4. g = [i \in 1..(k + 1) |-> g[i]]
    OBVIOUS
  <2>5. IsFlat(g, s, k + 1)
    <3> HIDE DEF g
    <3> QED BY <2>3, <2>4 DEF IsFlat
  <2> QED BY <2>5
<1>3. Nat \subseteq T
  <2> HIDE DEF T
  <2> QED BY <1>1, <1>2, SetInduction
<1> QED BY <1>3

LEMMA FlatDefinition ==
  ASSUME NEW s, Len(s) \in Nat \ {0}
  PROVE  \E f : IsFlat(f, s, Len(s)) /\ FlattenSeq(s) = f[Len(s)]
<1> DEFINE h == CHOOSE f : f = [i \in 1..Len(s) |->
                                  IF i = 1 THEN s[i] ELSE f[i-1] \o s[i]]
<1>1. IsFlat(h, s, Len(s))
  <2>1. \E f : f = [i \in 1..Len(s) |-> IF i = 1 THEN s[i] ELSE f[i-1] \o s[i]]
    BY FlatExists DEF IsFlat
  <2> QED BY <2>1 DEF IsFlat
<1>2. FlattenSeq(s) = h[Len(s)]
  BY DEF FlattenSeq
<1> QED BY <1>1, <1>2

LEMMA FlatStep ==
  ASSUME NEW f, NEW s, NEW n \in Nat, IsFlat(f, s, n)
  PROVE  \A i \in 1..n : f[i] = IF i = 1 THEN s[i] ELSE f[i-1] \o s[i]
BY DEF IsFlat

LEMMA FlatTyped ==
  ASSUME NEW S, NEW s \in Seq(Seq(S)), NEW f, IsFlat(f, s, Len(s))
  PROVE  \A i \in 1..Len(s) : f[i] \in Seq(S)
<1> DEFINE T == {k \in Nat : k \in 1..Len(s) => f[k] \in Seq(S)}
<1>0. Len(s) \in Nat /\ \A i \in 1..Len(s) : s[i] \in Seq(S)
  BY LenProperties, ElementOfSeq
<1>1. 0 \in T
  OBVIOUS
<1>2. ASSUME NEW k \in Nat, k \in T PROVE k + 1 \in T
  <2> SUFFICES ASSUME k + 1 \in 1..Len(s) PROVE f[k + 1] \in Seq(S)
    OBVIOUS
  <2>1. f[k + 1] = IF k + 1 = 1 THEN s[k + 1] ELSE f[(k + 1) - 1] \o s[k + 1]
    BY <1>0, FlatStep
  <2>2. CASE k = 0
    BY <1>0, <2>1, <2>2
  <2>3. CASE k # 0
    <3>1. k \in 1..Len(s) /\ (k + 1) - 1 = k
      BY <2>3, <1>0
    <3>2. f[k] \in Seq(S)
      BY <1>2, <3>1
    <3> QED BY <1>0, <2>1, <2>3, <3>1, <3>2, ConcatProperties
  <2> QED BY <2>2, <2>3
<1>3. Nat \subseteq T
  <2> HIDE DEF T
  <2> QED BY <1>1, <1>2, SetInduction
<1> QED BY <1>0, <1>3

LEMMA FlattenTyped ==
  ASSUME NEW S, NEW s \in Seq(Seq(S))
  PROVE  FlattenSeq(s) \in Seq(S)
<1>1. Len(s) \in Nat
  BY LenProperties
<1>2. CASE Len(s) = 0
  <2>1. s = <<>>
    BY <1>2, EmptySeq
  <2> QED BY <1>2, <2>1 DEF FlattenSeq
<1>3. CASE Len(s) # 0
  <2>1. PICK f : IsFlat(f, s, Len(s)) /\ FlattenSeq(s) = f[Len(s)]
    BY <1>1, <1>3, FlatDefinition
  <2>2. Len(s) \in 1..Len(s)
    BY <1>1, <1>3
  <2> QED BY <2>1, <2>2, FlatTyped
<1> QED BY <1>2, <1>3

LEMMA FlattenEmpty == FlattenSeq(<<>>) = <<>>
BY DEF FlattenSeq

(* One more sequence at the end.                                           *)
LEMMA FlattenAppend ==
  ASSUME NEW S, NEW s \in Seq(Seq(S)), NEW b \in Seq(S)
  PROVE  FlattenSeq(Append(s, b)) = FlattenSeq(s) \o b
<1> DEFINE t == Append(s, b)
<1>1. /\ t \in Seq(Seq(S)) /\ Len(t) = Len(s) + 1 /\ Len(s) \in Nat
      /\ \A i \in 1..Len(s) : t[i] = s[i]
      /\ t[Len(s) + 1] = b
  BY AppendProperties, LenProperties
<1> HIDE DEF t
<1>2. PICK g : IsFlat(g, t, Len(t)) /\ FlattenSeq(t) = g[Len(t)]
  BY <1>1, FlatDefinition
<1>3. \A i \in 1..Len(t) : g[i] = IF i = 1 THEN t[i] ELSE g[i-1] \o t[i]
  <2>1. Len(t) \in Nat
    BY <1>1
  <2> QED BY <1>2, <2>1, FlatStep, Zenon
<1>4. CASE s = <<>>
  <2>1. Len(s) = 0 /\ 1 \in 1..Len(t)
    BY <1>1, <1>4
  <2>2. FlattenSeq(t) = b
    BY <1>1, <1>2, <1>3, <2>1
  <2> QED BY <1>4, <2>2, FlattenEmpty, ConcatEmptySeq DEF t
<1>5. CASE s # <<>>
  <2>1. Len(s) \in Nat \ {0}
    BY <1>5, EmptySeq
  <2>2. PICK f : IsFlat(f, s, Len(s)) /\ FlattenSeq(s) = f[Len(s)]
    BY <2>1, FlatDefinition
  <2>3. \A i \in 1..Len(s) : f[i] = IF i = 1 THEN s[i] ELSE f[i-1] \o s[i]
    <3>1. Len(s) \in Nat
      BY <1>1
    <3> QED BY <2>2, <3>1, FlatStep, Zenon
  <2>4. \A i \in 1..Len(s) : g[i] = f[i]
    <3> DEFINE T == {k \in Nat : k \in 1..Len(s) => g[k] = f[k]}
    <3>1. 0 \in T
      OBVIOUS
    <3>2. ASSUME NEW k \in Nat, k \in T PROVE k + 1 \in T
      <4> SUFFICES ASSUME k + 1 \in 1..Len(s) PROVE g[k + 1] = f[k + 1]
        OBVIOUS
      <4>1. /\ k + 1 \in 1..Len(t) /\ (k + 1) - 1 = k
            /\ k + 1 # 1 => k \in 1..Len(s)
        BY <1>1
      <4>2. t[k + 1] = s[k + 1]
        BY <1>1
      <4>3. g[k + 1] = IF k + 1 = 1 THEN s[k + 1] ELSE g[k] \o s[k + 1]
        BY <1>3, <4>1, <4>2
      <4>4. f[k + 1] = IF k + 1 = 1 THEN s[k + 1] ELSE f[k] \o s[k + 1]
        BY <2>3, <4>1
      <4>5. k + 1 # 1 => g[k] = f[k]
        BY <3>2, <4>1
      <4> QED BY <4>3, <4>4, <4>5
    <3>3. Nat \subseteq T
      <4> HIDE DEF T
      <4> QED BY <3>1, <3>2, SetInduction
    <3> QED BY <1>1, <3>3
  <2>5. /\ Len(t) \in 1..Len(t) /\ Len(t) # 1 /\ Len(t) - 1 = Len(s)
        /\ Len(s) \in 1..Len(s)
    BY <1>1, <2>1
  <2>6. g[Len(t)] = g[Len(s)] \o b
    BY <1>1, <1>3, <2>5
  <2> QED BY <1>2, <2>2, <2>4, <2>5, <2>6 DEF t
<1> QED BY <1>4, <1>5

LEMMA Associative ==
  ASSUME NEW S
  PROVE  \A u, v, w \in Seq(S) : (u \o v) \o w = u \o (v \o w)
<1> TAKE u, v, w \in Seq(S)
<1> QED BY ConcatAssociative

LEMMA NumbersAssociative ==
  \A u, v, w \in Seq(Nat) : (u \o v) \o w = u \o (v \o w)
BY Associative

(* The first sequence and the others.                                      *)
LEMMA FlattenTail ==
  ASSUME NEW S
  PROVE  \A s \in Seq(Seq(S)) :
           s # <<>> => FlattenSeq(s) = Head(s) \o FlattenSeq(Tail(s))
<1>0. \A u, v, w \in Seq(S) : (u \o v) \o w = u \o (v \o w)
  BY Associative
<1> SUFFICES ASSUME NEW s \in Seq(Seq(S)), s # <<>>
             PROVE  FlattenSeq(s) = Head(s) \o FlattenSeq(Tail(s))
  OBVIOUS
<1> DEFINE t == Tail(s)
<1>1. /\ Head(s) \in Seq(S) /\ t \in Seq(Seq(S))
      /\ Len(t) = Len(s) - 1 /\ Len(s) \in Nat \ {0} /\ Head(s) = s[1]
      /\ \A i \in 1..Len(t) : t[i] = s[i + 1]
  BY TailMembers
<1> HIDE DEF t
<1>2. PICK f : IsFlat(f, s, Len(s)) /\ FlattenSeq(s) = f[Len(s)]
  BY <1>1, FlatDefinition
<1>3. \A i \in 1..Len(s) : f[i] = IF i = 1 THEN s[i] ELSE f[i-1] \o s[i]
  <2>1. Len(s) \in Nat
    BY <1>1
  <2> QED BY <1>2, <2>1, FlatStep, Zenon
<1>4. CASE Len(s) = 1
  <2>1. t = <<>>
    BY <1>1, <1>4, EmptySeq
  <2>2. f[1] = Head(s)
    BY <1>1, <1>3, <1>4
  <2> QED BY <1>1, <1>2, <1>4, <2>1, <2>2, FlattenEmpty, ConcatEmptySeq DEF t
<1>5. CASE Len(s) # 1
  <2>1. Len(t) \in Nat \ {0}
    BY <1>1, <1>5
  <2>2. PICK g : IsFlat(g, t, Len(t)) /\ FlattenSeq(t) = g[Len(t)]
    BY <2>1, FlatDefinition
  <2>3. \A i \in 1..Len(t) : g[i] = IF i = 1 THEN t[i] ELSE g[i-1] \o t[i]
    <3>1. Len(t) \in Nat
      BY <2>1
    <3> QED BY <2>2, <3>1, FlatStep, Zenon
  <2>4. \A i \in 1..Len(t) : g[i] \in Seq(S) /\ t[i] \in Seq(S)
    BY <1>1, <2>2, FlatTyped, ElementOfSeq
  <2>5. \A i \in 1..Len(t) : f[i + 1] = Head(s) \o g[i]
    <3> DEFINE P(k) == k \in 1..Len(t) => f[k + 1] = Head(s) \o g[k]
               T == {k \in Nat : P(k)}
    <3>1. P(0)
      OBVIOUS
    <3>2. ASSUME NEW k \in Nat, P(k) PROVE P(k + 1)
      <4> SUFFICES ASSUME k + 1 \in 1..Len(t)
                   PROVE  f[(k + 1) + 1] = Head(s) \o g[k + 1]
        OBVIOUS
      <4>1. /\ (k + 1) + 1 \in 1..Len(s) /\ (k + 1) + 1 # 1
            /\ ((k + 1) + 1) - 1 = k + 1 /\ (k + 1) - 1 = k
            /\ k # 0 => k \in 1..Len(t)
            /\ t[k + 1] = s[(k + 1) + 1]
        BY <1>1
      <4>2. f[(k + 1) + 1] = f[k + 1] \o t[k + 1]
        BY <1>3, <4>1
      <4>3. CASE k = 0
        <5>1. 1 \in 1..Len(s)
          BY <1>1
        <5>2. g[k + 1] = t[k + 1]
          BY <2>3, <4>3
        <5>3. f[k + 1] = Head(s)
          BY <1>1, <1>3, <4>3, <5>1
        <5> QED BY <4>2, <5>2, <5>3
      <4>4. CASE k # 0
        <5>1. g[k + 1] = g[k] \o t[k + 1]
          <6>1. g[k + 1] = IF k + 1 = 1 THEN t[k + 1]
                           ELSE g[(k + 1) - 1] \o t[k + 1]
            BY <2>3
          <6>2. k + 1 # 1 /\ (k + 1) - 1 = k
            BY <4>4
          <6>3. g[k + 1] = g[(k + 1) - 1] \o t[k + 1]
            BY <6>1, <6>2
          <6> QED BY <6>2, <6>3, Zenon
        <5>2. f[k + 1] = Head(s) \o g[k]
          BY <3>2, <4>1, <4>4
        <5>3. g[k] \in Seq(S) /\ t[k + 1] \in Seq(S)
          BY <2>4, <4>1, <4>4
        <5>4. (Head(s) \o g[k]) \o t[k + 1] = Head(s) \o (g[k] \o t[k + 1])
          BY <1>0, <1>1, <5>3, Zenon
        <5> QED BY <4>2, <5>1, <5>2, <5>4
      <4> QED BY <4>3, <4>4
    <3> HIDE DEF P
    <3>3. Nat \subseteq T
      <4>1. 0 \in T /\ \A k \in Nat : k \in T => k + 1 \in T
        BY <3>1, <3>2
      <4> HIDE DEF T
      <4> QED BY <4>1, SetInduction
    <3>4. \A k \in Nat : P(k)
      BY <3>3
    <3>5. 1..Len(t) \subseteq Nat
      BY <2>1
    <3> QED BY <3>4, <3>5 DEF P
  <2>6. Len(t) \in 1..Len(t) /\ Len(t) + 1 = Len(s)
    BY <1>1, <2>1
  <2> QED BY <1>2, <2>2, <2>5, <2>6 DEF t
<1> QED BY <1>4, <1>5
-----------------------------------------------------------------------------
(* Parts of a sequence, and elements that move from one to the next.       *)

LEMMA PrefixOfConcat ==
  ASSUME NEW S, NEW s \in Seq(S), NEW t \in Seq(S)
  PROVE  IsPrefix(s, s \o t)
<1>1. Len(s \o t) = Len(s) + Len(t) /\ Len(s) \in Nat /\ Len(t) \in Nat
  BY ConcatProperties, LenProperties
<1>2. SubSeq(s, 1, Len(s)) = SubSeq(s \o t, 1, Len(s))
  <2>1. CASE Len(s) = 0
    BY <2>1, SubSeqEmpty
  <2>2. CASE Len(s) # 0
    <3>1. 1 \in 1..Len(s) /\ Len(s) \in 1..Len(s)
      BY <1>1, <2>2
    <3> QED BY <3>1, SubSeqOfConcat1
  <2> QED BY <2>1, <2>2
<1> QED BY <1>1, <1>2 DEF IsPrefix

LEMMA PrefixOfAppend ==
  ASSUME NEW S, NEW s \in Seq(S), NEW t \in Seq(S), NEW e \in S, IsPrefix(s, t)
  PROVE  IsPrefix(s, Append(t, e))
<1>1. Len(s) <= Len(t) /\ SubSeq(s, 1, Len(s)) = SubSeq(t, 1, Len(s))
  BY DEF IsPrefix
<1>2. /\ Len(Append(t, e)) = Len(t) + 1 /\ Append(t, e) = t \o <<e>>
      /\ <<e>> \in Seq(S) /\ Len(s) \in Nat /\ Len(t) \in Nat
  BY AppendProperties, AppendIsConcat, LenProperties
<1>3. SubSeq(Append(t, e), 1, Len(s)) = SubSeq(t, 1, Len(s))
  <2>1. CASE Len(s) = 0
    BY <2>1, SubSeqEmpty
  <2>2. CASE Len(s) # 0
    <3>1. 1 \in 1..Len(t) /\ Len(s) \in 1..Len(t)
      BY <1>1, <1>2, <2>2
    <3> QED BY <1>2, <3>1, SubSeqOfConcat1
  <2> QED BY <2>1, <2>2
<1> QED BY <1>1, <1>2, <1>3 DEF IsPrefix

\* The first element of one sequence becomes the last of the one before it.
LEMMA MoveOne ==
  ASSUME NEW S, NEW s \in Seq(S), NEW t \in Seq(S), t # <<>>
  PROVE  /\ Append(s, Head(t)) \in Seq(S) /\ Tail(t) \in Seq(S)
         /\ Append(s, Head(t)) \o Tail(t) = s \o t
<1>1. Head(t) \in S /\ Tail(t) \in Seq(S) /\ <<Head(t)>> \in Seq(S)
  BY TailMembers
<1>2. Append(s, Head(t)) = s \o <<Head(t)>> /\ Append(s, Head(t)) \in Seq(S)
  BY <1>1, AppendIsConcat, AppendProperties
<1>3. (s \o <<Head(t)>>) \o Tail(t) = s \o (<<Head(t)>> \o Tail(t))
  <2>1. <<Head(t)>> \in Seq(S) /\ Tail(t) \in Seq(S)
    BY <1>1
  <2> QED BY <2>1, ConcatAssociative
<1>4. t = <<Head(t)>> \o Tail(t)
  BY ConsHeadTail
<1> QED BY <1>1, <1>2, <1>3, <1>4

\* An element comes in at the end of the second of two sequences.
LEMMA AppendToSecond ==
  ASSUME NEW S, NEW s \in Seq(S), NEW t \in Seq(S), NEW e \in S
  PROVE  s \o Append(t, e) = Append(s \o t, e)
<1>1. /\ Append(t, e) = t \o <<e>> /\ <<e>> \in Seq(S)
      /\ s \o t \in Seq(S)
  BY AppendIsConcat, ConcatProperties
<1>2. Append(s \o t, e) = (s \o t) \o <<e>>
  BY <1>1, AppendIsConcat
<1>3. (s \o t) \o <<e>> = s \o (t \o <<e>>)
  <2>1. s \in Seq(S) /\ t \in Seq(S) /\ <<e>> \in Seq(S)
    BY <1>1
  <2> QED BY <2>1, ConcatAssociative
<1> QED BY <1>1, <1>2, <1>3

\* What Append puts at the end can be taken off again.
LEMMA AppendedLast ==
  ASSUME NEW S, NEW s \in Seq(S), NEW e \in S
  PROVE  /\ Append(s, e) # <<>>
         /\ Front(Append(s, e)) = s /\ Last(Append(s, e)) = e
<1> DEFINE t == Append(s, e)
<1>1. /\ t \in Seq(S) /\ Len(t) = Len(s) + 1 /\ Len(s) \in Nat
      /\ \A i \in 1..Len(s) : t[i] = s[i]
      /\ t[Len(s) + 1] = e
  BY AppendProperties, LenProperties
<1> HIDE DEF t
<1>2. t # <<>> /\ Last(t) = e
  BY <1>1, EmptySeq DEF Last
<1>3. SubSeq(t, 1, Len(s)) = s
  <2>1. CASE Len(s) = 0
    BY <2>1, <1>1, SubSeqEmpty, EmptySeq
  <2>2. CASE Len(s) # 0
    <3>1. 1 \in 1..Len(t) /\ Len(s) \in 1..Len(t) /\ Len(s) \in 1..(Len(t) + 1)
      BY <1>1, <2>2
    <3>2. /\ SubSeq(t, 1, Len(s)) \in Seq(S)
          /\ Len(SubSeq(t, 1, Len(s))) = Len(s)
          /\ \A i \in 1..Len(s) : SubSeq(t, 1, Len(s))[i] = t[i]
      BY <1>1, <3>1
    <3> QED BY <1>1, <3>2, SeqEqual
  <2> QED BY <2>1, <2>2
<1>4. Front(t) = SubSeq(t, 1, Len(s))
  BY <1>1 DEF Front
<1> QED BY <1>2, <1>3, <1>4 DEF t
=============================================================================
