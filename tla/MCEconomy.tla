------------------------------ MODULE MCEconomy ------------------------------
(* Instances of CapabilityEconomy for TLC. *)
EXTENDS CapabilityEconomy, TLC

CONSTANTS c1, c2, c3, k1

MCKeys == {k1}
I(key, amo, amount) == [key |-> key, atMostOnce |-> amo, amount |-> amount]

(* An at-most-once intent that a retry repeats; its key misused by a weaker *)
(* intent that moves no money; a keyless one that competes for capital.     *)
MCIntents == {I(k1, TRUE, 2), I(k1, FALSE, 0), I(NoKey, FALSE, 1)}

(* A loss beyond the stake, a loss and a profit; an adapter that answers    *)
(* "not ok" reports none.                                                   *)
MCPnls == {-9, -1, 1}

(* The instance meets the hypothesis of ReserveCoversStakes.                *)
ASSUME ReserveInProportion == ReserveCoversSettlements

Interchangeable == Permutations(Calls)
=============================================================================
