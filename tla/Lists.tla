------------------------------- MODULE Lists --------------------------------
(***************************************************************************)
(* What the store of the server does to its lists: elements are retained   *)
(* or picked out in their order (Vec::retain, Iterator::filter), sorted by *)
(* a key (slice::sort_by_key) and added up (Iterator::sum).                *)
(***************************************************************************)
EXTENDS Integers, FiniteSets, Sequences

\* The elements of s at the positions in P, in their order.
PickAt(s, P) ==
  LET picked[n \in 0..Len(s)] ==
        IF n = 0 THEN <<>>
        ELSE IF n \in P THEN Append(picked[n - 1], s[n])
        ELSE picked[n - 1]
  IN picked[Len(s)]

\* Where element i goes: after those with a smaller key, and after those
\* before it with the same key.
Rank(keys, i) ==
  Cardinality({j \in DOMAIN keys :
                 keys[j] < keys[i] \/ (keys[j] = keys[i] /\ j <= i)})

\* The n-th key belongs to the n-th element.
SortedBy(s, keys) ==
  [n \in DOMAIN s |-> s[CHOOSE i \in DOMAIN s : Rank(keys, i) = n]]

Total(s) ==
  LET sum[n \in 0..Len(s)] == IF n = 0 THEN 0 ELSE sum[n - 1] + s[n]
  IN sum[Len(s)]
=============================================================================
