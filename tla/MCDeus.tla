------------------------------- MODULE MCDeus -------------------------------
(***************************************************************************)
(* A request sent three times, and another question under the same id.     *)
(***************************************************************************)
EXTENDS DeusTurn

CONSTANTS k1, a1, a2, a3, other, same, different

MCKey == [a \in Attempts |-> k1]
MCContent == [a \in Attempts |-> IF a = other THEN different ELSE same]
=============================================================================
