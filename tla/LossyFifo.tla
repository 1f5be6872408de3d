----------------------------- MODULE LossyFifo ------------------------------
(***************************************************************************)
(* What a drop-oldest batch queue promises its reader: every batch that is *)
(* delivered was put, batches are delivered in the order they were put and *)
(* none twice, but any batch in flight may be lost.  The send queue of     *)
(* staxd implements this specification.                                    *)
(***************************************************************************)
EXTENDS Naturals, Sequences, SequencesExt

CONSTANT Batch      \* what is sent

VARIABLES
  flight,     \* batches put and neither delivered nor lost, oldest first
  delivered   \* batches the reader got, oldest first

vars == <<flight, delivered>>

Init == flight = <<>> /\ delivered = <<>>

\* A batch comes in behind the others.
Put ==
  /\ flight' # <<>> /\ Front(flight') = flight /\ Last(flight') \in Batch
  /\ UNCHANGED delivered

Deliver ==
  /\ flight # <<>>
  /\ delivered' = Append(delivered, Head(flight))
  /\ flight' = Tail(flight)

\* One batch in flight is lost.
Lose ==
  /\ \E i \in 1..Len(flight) : flight' = RemoveAt(flight, i)
  /\ UNCHANGED delivered

\* The channel ends with whatever is still in flight.
End == flight' = <<>> /\ UNCHANGED delivered

Next == Put \/ Deliver \/ Lose \/ End

Spec == Init /\ [][Next]_vars
=============================================================================
