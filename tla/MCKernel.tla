------------------------------ MODULE MCKernel ------------------------------
(***************************************************************************)
(* Instances of MissionKernel for TLC.  In the chain plan one step waits   *)
(* for another, so that a retry, a failure and a cascade can meet; the     *)
(* pair plan gives each of two Missions one step, so that the worker's     *)
(* pass has to share itself between them.                                  *)
(***************************************************************************)
EXTENDS MissionKernel, TLC

CONSTANTS m1, m2, t1, t2, u1

OneMission == {m1}

ChainTasks == {t1, t2}
ChainMissionOf == [t \in ChainTasks |-> m1]
ChainDependsOn == (t1 :> {}) @@ (t2 :> {t1})

TwoMissions == {m1, m2}
PairTasks == {t1, t2}
PairMissionOf == (t1 :> m1) @@ (t2 :> m2)
PairDependsOn == [t \in PairTasks |-> {}]

OneUniverse == {u1}
InU1 == [t \in Tasks |-> u1]
=============================================================================
