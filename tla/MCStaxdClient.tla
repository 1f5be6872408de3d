--------------------------- MODULE MCStaxdClient ----------------------------
(***************************************************************************)
(* Values for the constants of StaxdClient.                                *)
(***************************************************************************)
EXTENDS StaxdClient

\* The scanner's queue holds one batch, the parser's two.
MCCapacity == [q \in Queue |-> IF q = "scanner" THEN 1 ELSE 2]

\* A sample with two user stack headers, its end, and one more header.
MCKind == <<"start", "user", "user", "end", "user">>
=============================================================================
