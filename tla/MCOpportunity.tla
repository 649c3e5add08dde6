---------------------------- MODULE MCOpportunity ----------------------------
(* Two workers, two Universes on one provider chain. *)
EXTENDS OpportunityCompetition

CONSTANTS u1, u2

MCUniverses == {u1, u2}
MCChainOf == [u \in MCUniverses |-> "chain"]
=============================================================================
