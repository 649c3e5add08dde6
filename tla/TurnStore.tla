------------------------------ MODULE TurnStore ------------------------------
(***************************************************************************)
(* The ledger of generations (services/deus_turns.py): one row per request *)
(* id, claimed under a lease before an answer is generated and closed in   *)
(* the transaction that stores the answer.  Every operation is one short   *)
(* transaction on one row, so it is one atomic operator here.              *)
(***************************************************************************)
EXTENDS Naturals, FiniteSets

CONSTANTS
    Keys,        \* request ids
    Generations, \* the attempts that may claim them, each at most once
    Contents,    \* what may be asked under a request id
    Nobody       \* the owner of a row no attempt has claimed

VARIABLES turn   \* request id -> its row

ASSUME TurnStoreConstants == Nobody \notin Generations

NoTurn == [state |-> "none", owner |-> Nobody, live |-> FALSE, content |-> Nobody]

TurnInit == turn = [k \in Keys |-> NoTurn]

Pending(a, c) == [state |-> "pending", owner |-> a, live |-> TRUE, content |-> c]

(* What claim gives back: the lease, the stored answer, or a conflict.     *)
Claimed(k, c) ==
    CASE turn[k].state = "none"                              -> "owned"
      [] turn[k].state # "none" /\ turn[k].content # c       -> "conflict"
      [] turn[k].content = c /\ turn[k].state = "completed"  -> "replay"
      [] turn[k].content = c /\ turn[k].state = "failed"     -> "owned"
      [] OTHER                                               -> "conflict"

(* A lost lease is fenced off as interrupted by the next claim that meets  *)
(* it; a clean failure is claimed anew.                                    *)
AfterClaim(k, a, c) ==
    CASE Claimed(k, c) = "owned" -> Pending(a, c)
      [] turn[k].content = c /\ turn[k].state = "pending" /\ ~turn[k].live ->
            [turn[k] EXCEPT !.state = "interrupted"]
      [] OTHER -> turn[k]

(* Mutant: the owner closes its row whatever became of it.                 *)
Holds_AnyState(k, a) == turn[k].owner = a

(* The condition of renew and of finish_in_session.                        *)
Holds(k, a) == turn[k].owner = a /\ turn[k].state = "pending" /\ turn[k].live

(* finish: the update matches the row only while the lease is held, and    *)
(* the caller meets TurnConflict otherwise.                                *)
Finished(k, a, state) == IF Holds(k, a) THEN [turn[k] EXCEPT !.state = state] ELSE turn[k]

LeaseLapses(k) ==
    /\ turn[k].state = "pending"
    /\ turn[k].live
    /\ turn' = [turn EXCEPT ![k].live = FALSE]

TurnTypeOK ==
    turn \in [Keys -> [state : {"none", "pending", "completed", "failed", "interrupted"},
                       owner : Generations \cup {Nobody}, live : BOOLEAN,
                       content : Contents \cup {Nobody}]]
=============================================================================
