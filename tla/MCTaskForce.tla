---------------------------- MODULE MCTaskForce -----------------------------
(* Runs of one Mission: r1 has two actions; r2, where there is one, has    *)
(* one, and reuses the key of r1's first action.                           *)
EXTENDS TaskForceRun

CONSTANTS r1, m, k1, k2

MCMissionOf == [r \in Runs |-> m]
MCPlanLength == [r \in Runs |-> IF r = r1 THEN 2 ELSE 1]
MCKeyOf == [x \in Runs \X (1 .. 2) |-> IF x[2] = 1 THEN k1 ELSE k2]
=============================================================================
