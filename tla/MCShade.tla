------------------------------ MODULE MCShade -------------------------------
(***************************************************************************)
(* Values for the constants of Shade: an attached target records, a        *)
(* launched one has a terminal instead, or nothing.                        *)
(***************************************************************************)
EXTENDS Shade

MCMaxEmitted == [b \in BOOLEAN |-> IF b THEN 0 ELSE 3]
=============================================================================
