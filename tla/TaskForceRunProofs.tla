------------------------- MODULE TaskForceRunProofs -------------------------
(***************************************************************************)
(* Proofs about a run of the Security Task Force: TaskForceInvariant is    *)
(* inductive, so a key takes effect once, a completed run is proven, and   *)
(* a cancelled or aborted run keeps no authority.                          *)
(*                                                                         *)
(* The actions fall into three groups.  Most touch only the run's rows,    *)
(* the outbox and the workflow; what is said about dispatching stays as it *)
(* is (CalmDispatch).  The steps of a dispatch leave the run's state and   *)
(* its authority alone or only spend it.  The gateway changes effects and  *)
(* the answer of one run.                                                  *)
(***************************************************************************)
EXTENDS TaskForceRun, TLAPS

(* What is known of a dispatch depends on these variables only.            *)
LEMMA CalmDispatch ==
  ASSUME TaskForceInvariant, UNCHANGED <<dispatch, at, stage, answer, gatewayVars>>
  PROVE  /\ EffectOncePerKey' /\ NoncesRemember'
         /\ PlanOrder' /\ RequestsInOrder' /\ DispatchOnTrack'
         /\ \A r \in Runs : AllExecuted(r)' = AllExecuted(r)
<1>1. EffectOncePerKey' /\ NoncesRemember'
  BY DEF TaskForceInvariant, EffectOncePerKey, NoncesRemember, gatewayVars
<1>2. PlanOrder' /\ DispatchOnTrack'
  BY DEF TaskForceInvariant, PlanOrder, DispatchOnTrack, gatewayVars
<1>3. RequestsInOrder'
  BY DEF TaskForceInvariant, RequestsInOrder, InOrder, gatewayVars
<1> QED
  BY <1>1, <1>2, <1>3 DEF AllExecuted

(* What a completed run has behind it is in its rows and effects.          *)
LEMMA CalmCompletion ==
  ASSUME TaskForceInvariant, UNCHANGED <<state, desired, dispatch, effects, wf>>
  PROVE  CompletedMeansProven' /\ CompletionOnTrack'
BY DEF TaskForceInvariant, CompletedMeansProven, CompletionOnTrack, AllExecuted

(* Types of what a step leaves alone.                                      *)
LEMMA CalmTypes ==
  ASSUME TypeOK
  PROVE  /\ UNCHANGED rowVars => RowTypes'
         /\ UNCHANGED <<outboxVars, cancelling>> => OutboxTypes'
         /\ UNCHANGED <<workflowVars, dispatchVars, faults>> => WorkflowTypes'
         /\ UNCHANGED <<killFile, gatewayVars>> => GatewayTypes'
BY DEF TypeOK, RowTypes, OutboxTypes, WorkflowTypes, GatewayTypes,
       rowVars, outboxVars, workflowVars, dispatchVars, gatewayVars

LEMMA LessStays ==
  ASSUME NEW n \in Nat, NEW a \in Nat, NEW b \in Nat, NEW c \in Nat, c >= b, n < a + b
  PROVE  n < a + c
OBVIOUS

(* What the outbox holds stays accounted for while failures only add up.   *)
LEMMA WaitedOn ==
  ASSUME Limits, TypeOK, UNCHANGED faults \/ faults' \in faults .. MaxFaults,
         NEW row \in [status : RowStatus, tries : Nat], Waited(row)
  PROVE  Waited(row)'
<1>1. faults \in Nat /\ faults' \in Nat /\ faults' >= faults /\ MaxDeliveries \in Nat
  BY DEF Limits, TypeOK, WorkflowTypes
<1>2. row.tries \in Nat
  OBVIOUS
<1>3. row.tries < MaxDeliveries + faults => row.tries < MaxDeliveries + faults'
  BY <1>1, <1>2, LessStays
<1> QED
  BY <1>3 DEF Waited

LEMMA OutboxStays ==
  ASSUME Limits, TypeOK, OutboxOnTrack, UNCHANGED <<startRow, cancelRow, cancelling>>,
         UNCHANGED faults \/ faults' \in faults .. MaxFaults,
         \A r \in Runs : state'[r] = "ABSENT" => state[r] = "ABSENT"
  PROVE  OutboxOnTrack'
<1>1. \A r \in Runs :
        /\ startRow[r] \in [status : RowStatus, tries : Nat]
        /\ cancelRow[r] \in [status : RowStatus, tries : Nat]
  BY DEF TypeOK, OutboxTypes
<1>2. \A row \in [status : RowStatus, tries : Nat] : Waited(row) => Waited(row)'
  BY WaitedOn
<1>3. \A r \in Runs : Waited(startRow[r])' /\ Waited(cancelRow[r])'
  BY <1>1, <1>2 DEF OutboxOnTrack, Waited
<1> QED
  BY <1>3 DEF OutboxOnTrack

-----------------------------------------------------------------------------
(* Steps of the workflow.                                                  *)

(* An activity's attempt leaves the workflow where it was, at the start of *)
(* the same activity, or failed.                                           *)
LEMMA TryAgainMoves ==
  ASSUME Limits, WorkflowTypes, NEW r \in Runs, wf[r] \in Retried, TryAgain(r)
  PROVE  /\ wf' \in [Runs -> WorkflowPlace]
         /\ tries' \in [Runs -> Nat]
         /\ faults' \in faults .. MaxFaults
         /\ \A q \in Runs \ {r} : wf'[q] = wf[q]
         /\ \/ wf'[r] \in {wf[r], "failed"}
            \/ wf[r] = "kill" /\ wf'[r] = "revoke"
<1>1. /\ wf \in [Runs -> WorkflowPlace] /\ tries \in [Runs -> Nat]
      /\ faults \in 0 .. MaxFaults /\ MaxFaults \in Nat
  BY DEF Limits, WorkflowTypes
<1>2. faults' \in faults .. MaxFaults
  BY <1>1 DEF TryAgain, Fault
<1>3. {"revoke", "failed"} \subseteq WorkflowPlace
  BY DEF WorkflowPlace, Retried, Over
<1>4. CASE tries[r] + 1 < TriesAllowed(wf[r])
  <2>1. tries' = [tries EXCEPT ![r] = @ + 1]
    BY <1>4 DEF TryAgain
  <2>2. wf' = IF wf[r] = "kill" THEN [wf EXCEPT ![r] = "revoke"] ELSE wf
    BY <1>4 DEF TryAgain
  <2> QED
    BY <2>1, <2>2, <1>1, <1>2, <1>3
<1>5. CASE ~ (tries[r] + 1 < TriesAllowed(wf[r]))
  <2>1. tries' = [tries EXCEPT ![r] = 0] /\ wf' = [wf EXCEPT ![r] = "failed"]
    BY <1>5 DEF TryAgain
  <2> QED
    BY <2>1, <1>1, <1>2, <1>3
<1> QED
  BY <1>4, <1>5

LEMMA ReturnsMoves ==
  ASSUME Limits, WorkflowTypes, NEW r \in Runs, wf[r] \in Retried,
         NEW next \in WorkflowPlace, Returns(r, next)
  PROVE  /\ wf' \in [Runs -> WorkflowPlace]
         /\ tries' \in [Runs -> Nat]
         /\ faults' \in faults .. MaxFaults
         /\ \A q \in Runs \ {r} : wf'[q] = wf[q]
         /\ \/ wf'[r] \in {next, wf[r], "failed"}
            \/ wf[r] = "kill" /\ wf'[r] = "revoke"
<1>1. CASE TryAgain(r)
  BY <1>1, TryAgainMoves
<1>2. CASE /\ wf' = [wf EXCEPT ![r] = next]
           /\ tries' = [tries EXCEPT ![r] = 0]
           /\ UNCHANGED faults
  BY <1>2 DEF WorkflowTypes
<1> QED
  BY <1>1, <1>2 DEF Returns

(* Where the workflow goes is a place of its own.                          *)
LEMMA Places ==
  ASSUME NEW r \in Runs, NEW i
  PROVE  /\ AbortFrom(r) \in WorkflowPlace
         /\ AbortFrom(r) \in {"cancelling", "revoke"}
         /\ Onward(r, i) \in WorkflowPlace
         /\ Onward(r, i) \in {"cancelling", "authorize", "verifying"}
BY DEF AbortFrom, Onward, WorkflowPlace, Retried, Recording, Over

-----------------------------------------------------------------------------
(* The Creator and the outbox.                                             *)

LEMMA InitInvariant ==
  ASSUME PlanShape, Limits, Init
  PROVE  TaskForceInvariant
<1>1. RowTypes /\ OutboxTypes /\ WorkflowTypes /\ GatewayTypes
  BY DEF PlanShape, Limits, Init, RowTypes, OutboxTypes, WorkflowTypes, GatewayTypes,
         Steps, NoRow, RowStatus, DispatchStatus, WorkflowPlace
<1>2. EffectOncePerKey /\ NoncesRemember /\ PlanOrder /\ RequestsInOrder
  BY DEF PlanShape, Init, EffectOncePerKey, NoncesRemember, PlanOrder, RequestsInOrder, Plan, Steps
<1>3. DispatchOnTrack
  BY DEF PlanShape, Init, DispatchOnTrack, Plan, Steps
<1>4. AuthorityEndsWithCancel /\ AbortedIsSealed /\ AbortOnTrack
  BY DEF Init, AuthorityEndsWithCancel, AbortedIsSealed, AbortOnTrack
<1>5. CompletedMeansProven /\ CompletionOnTrack /\ OutboxOnTrack
  BY DEF Init, CompletedMeansProven, CompletionOnTrack, OutboxOnTrack, Waited, NoRow
<1> QED
  BY <1>1, <1>2, <1>3, <1>4, <1>5 DEF TaskForceInvariant, TypeOK

LEMMA StartRunKeeps ==
  ASSUME Limits, TaskForceInvariant, NEW r \in Runs, StartRun(r)
  PROVE  TaskForceInvariant'
<1> USE DEF TaskForceInvariant
<1>0. UNCHANGED <<desired, grants, dispatch, cancelRow, cancelling, wf, at, tries, told,
                  stage, answer, killFile, inbox, nonces, gatewayKilled, effects, faults>>
  BY DEF StartRun, workflowVars, dispatchVars, gatewayVars
<1>1. RowTypes /\ OutboxTypes /\ state[r] = "ABSENT" /\ startRow[r] = NoRow
  BY DEF TypeOK, StartRun, OutboxOnTrack
<1>2. /\ state' \in [Runs -> RunState \cup {"ABSENT"}]
      /\ state'[r] = "QUEUED"
      /\ \A q \in Runs \ {r} : state'[q] = state[q]
  BY <1>1 DEF RowTypes, StartRun, RunState
<1>3. /\ startRow' \in [Runs -> [status : RowStatus, tries : Nat]]
      /\ startRow'[r] = [status |-> "pending", tries |-> 0]
      /\ \A q \in Runs \ {r} : startRow'[q] = startRow[q]
  BY <1>1 DEF OutboxTypes, StartRun, RowStatus, NoRow
<1>4. TypeOK'
  <2>1. RowTypes' /\ OutboxTypes'
    BY <1>0, <1>1, <1>2, <1>3 DEF RowTypes, OutboxTypes
  <2> QED
    BY <2>1, <1>0, CalmTypes DEF TypeOK, workflowVars, dispatchVars, gatewayVars
<1>5. OutboxOnTrack'
  <2>1. 0 < MaxDeliveries + faults'
    BY <1>0 DEF Limits, TypeOK, WorkflowTypes
  <2>2. Waited(startRow[r])'
    BY <1>3, <2>1 DEF Waited
  <2> QED
    BY <1>0, <1>2, <1>3, <2>2 DEF OutboxOnTrack, Waited
<1>6. AuthorityEndsWithCancel' /\ AbortedIsSealed' /\ AbortOnTrack'
  BY <1>0, <1>2 DEF AuthorityEndsWithCancel, AbortedIsSealed, AbortOnTrack, Killed
<1>7. CompletedMeansProven' /\ CompletionOnTrack'
  BY <1>0, <1>2 DEF CompletedMeansProven, CompletionOnTrack, AllExecuted
<1> QED
  BY <1>0, <1>4, <1>5, <1>6, <1>7, CalmDispatch DEF gatewayVars

LEMMA CancelReadsKeeps ==
  ASSUME TaskForceInvariant, NEW r \in Runs, CancelReads(r)
  PROVE  TaskForceInvariant'
<1> USE DEF TaskForceInvariant
<1>1. OutboxTypes' /\ OutboxOnTrack'
  BY DEF TypeOK, OutboxTypes, OutboxOnTrack, Waited, CancelReads, rowVars, outboxVars
<1>2. TypeOK'
  BY <1>1, CalmTypes DEF TypeOK, CancelReads
<1>3. AuthorityEndsWithCancel' /\ AbortedIsSealed' /\ AbortOnTrack'
  BY DEF CancelReads, AuthorityEndsWithCancel, AbortedIsSealed, AbortOnTrack, Killed,
         rowVars, workflowVars
<1> QED
  BY <1>1, <1>2, <1>3, CalmDispatch, CalmCompletion
     DEF CancelReads, rowVars, workflowVars, dispatchVars, gatewayVars

(* Revoking leaves no grant, and ends nothing that was not running.        *)
LEMMA RevokedKeeps ==
  ASSUME TaskForceInvariant, NEW r \in Runs, NEW b \in BOOLEAN, Revoked(r, b),
         UNCHANGED <<dispatch, effects, killFile>>,
         \A q \in Runs : wf'[q] = wf[q] \/ (q = r /\ wf[r] = "revoke" /\ wf'[r] = "kill")
  PROVE  /\ RowTypes'
         /\ \A q \in Runs : state'[q] = "ABSENT" => state[q] = "ABSENT"
         /\ AuthorityEndsWithCancel' /\ AbortedIsSealed' /\ AbortOnTrack'
         /\ CompletedMeansProven' /\ CompletionOnTrack'
<1> USE DEF TaskForceInvariant
<1>0. /\ RowTypes
      /\ desired \in [Runs -> {"RUN", "CANCEL"}]
      /\ grants \in [Runs -> [Steps -> Nat]]
      /\ [i \in Steps |-> 0] \in [Steps -> Nat]
  BY DEF TypeOK, RowTypes
<1>1. /\ state' \in [Runs -> RunState \cup {"ABSENT"}]
      /\ \A q \in Runs : state'[q] = state[q] \/ (q = r /\ b /\ state'[q] = "CANCELLING")
  BY <1>0 DEF RowTypes, Revoked, RunState
<1>2. /\ desired' \in [Runs -> {"RUN", "CANCEL"}]
      /\ \A q \in Runs : desired'[q] = desired[q] \/ (q = r /\ state'[q] = "CANCELLING")
  <2>1. desired' = desired \/ (b /\ desired' = [desired EXCEPT ![r] = "CANCEL"])
    BY DEF Revoked
  <2>2. b => state'[r] = "CANCELLING"
    BY <1>0 DEF RowTypes, Revoked
  <2> QED
    BY <2>1, <2>2, <1>0
<1>3. /\ grants' \in [Runs -> [Steps -> Nat]]
      /\ \A q \in Runs \ {r} : grants'[q] = grants[q]
      /\ \A i \in Steps : grants'[r][i] = 0
  <2>1. grants' = [grants EXCEPT ![r] = [i \in Steps |-> 0]]
    BY DEF Revoked
  <2> QED
    BY <2>1, <1>0
<1>4. AuthorityEndsWithCancel'
  BY <1>2, <1>3 DEF AuthorityEndsWithCancel
<1>5. AbortedIsSealed'
  BY <1>1, <1>3 DEF AbortedIsSealed, Killed
<1>6. AbortOnTrack'
  BY <1>1, <1>3 DEF AbortOnTrack, AbortedIsSealed, Killed, Over
<1>7. CompletedMeansProven' /\ CompletionOnTrack'
  BY <1>1, <1>2 DEF CompletedMeansProven, CompletionOnTrack, AllExecuted
<1>8. RowTypes'
  BY <1>0, <1>1, <1>2, <1>3 DEF RowTypes
<1> QED
  BY <1>1, <1>4, <1>5, <1>6, <1>7, <1>8

LEMMA CancelWritesKeeps ==
  ASSUME Limits, TaskForceInvariant, NEW r \in Runs, CancelWrites(r)
  PROVE  TaskForceInvariant'
<1> USE DEF TaskForceInvariant
<1>0. UNCHANGED <<dispatch, startRow, wf, at, tries, told, stage, answer, killFile,
                  inbox, nonces, gatewayKilled, effects, faults>>
  BY DEF CancelWrites, workflowVars, dispatchVars, gatewayVars
<1>1. Revoked(r, cancelling[r] = "read") /\ (cancelling[r] = "read") \in BOOLEAN
  BY DEF CancelWrites
<1>2. /\ RowTypes'
      /\ \A q \in Runs : state'[q] = "ABSENT" => state[q] = "ABSENT"
      /\ AuthorityEndsWithCancel' /\ AbortedIsSealed' /\ AbortOnTrack'
      /\ CompletedMeansProven' /\ CompletionOnTrack'
  <2> HIDE DEF TaskForceInvariant
  <2> QED
    BY <1>0, <1>1, RevokedKeeps
<1>3. OutboxTypes
  BY DEF TypeOK
<1>4. cancelRow[r] = NoRow
  BY DEF CancelWrites, OutboxOnTrack
<1>5. /\ cancelRow' \in [Runs -> [status : RowStatus, tries : Nat]]
      /\ cancelRow'[r] = [status |-> "pending", tries |-> 0]
      /\ \A q \in Runs \ {r} : cancelRow'[q] = cancelRow[q]
      /\ cancelling' \in [Runs -> {"no", "read", "readClosing", "done"}]
      /\ cancelling'[r] = "done"
      /\ \A q \in Runs \ {r} : cancelling'[q] = cancelling[q]
  BY <1>3, <1>4 DEF OutboxTypes, CancelWrites, RowStatus, NoRow
<1>6. TypeOK'
  <2>1. OutboxTypes'
    BY <1>0, <1>3, <1>5 DEF OutboxTypes
  <2> QED
    BY <2>1, <1>0, <1>2, CalmTypes DEF TypeOK, workflowVars, dispatchVars, gatewayVars
<1>7. OutboxOnTrack'
  <2>1. 0 < MaxDeliveries + faults'
    BY <1>0 DEF Limits, TypeOK, WorkflowTypes
  <2>2. Waited(cancelRow[r])'
    BY <1>5, <2>1 DEF Waited
  <2> QED
    BY <1>0, <1>2, <1>5, <2>2 DEF OutboxOnTrack, Waited
<1> QED
  BY <1>0, <1>2, <1>6, <1>7, CalmDispatch DEF gatewayVars

(* A delivery that is tried again has attempts left, or was interrupted;   *)
(* one that is given up has had them all.                                  *)
LEMMA RowMoves ==
  ASSUME Limits, WorkflowTypes, NEW row \in [status : RowStatus, tries : Nat],
         row.status = "pending", Waited(row),
         NEW new, \/ new \in {Acked(row), Kept(row)} /\ UNCHANGED faults
                  \/ new \in Unacked(row) /\ Fault
  PROVE  /\ new \in [status : RowStatus, tries : Nat]
         /\ Waited(new)'
<1> DEFINE n == row.tries
<1>1. MaxDeliveries \in Nat /\ n \in Nat /\ faults \in Nat /\ n < MaxDeliveries + faults
  BY DEF Limits, WorkflowTypes, Waited
<1>2. CASE new = Acked(row)
  BY <1>1, <1>2 DEF Acked, RowStatus, Waited
<1>3. CASE new = Kept(row) /\ n + 1 >= MaxDeliveries
  <2>1. new = [status |-> "dead", tries |-> n + 1]
    BY <1>3 DEF Kept
  <2> QED
    BY <1>1, <1>3, <2>1 DEF RowStatus, Waited
<1>4. CASE new = Kept(row) /\ ~(n + 1 >= MaxDeliveries)
  <2>1. new = [status |-> "pending", tries |-> n + 1]
    BY <1>4 DEF Kept, Lapsed
  <2>2. faults' \in Nat
    BY <1>1 DEF Fault
  <2>3. n + 1 < MaxDeliveries + faults'
    BY <1>1, <1>4, <2>2
  <2> QED
    BY <1>1, <2>1, <2>3 DEF RowStatus, Waited
<1>5. CASE new = Lapsed(row) /\ Fault
  <2>1. new = [status |-> "pending", tries |-> n + 1] /\ faults' = faults + 1
    BY <1>5 DEF Lapsed, Fault
  <2>2. n + 1 < MaxDeliveries + (faults + 1)
    BY <1>1
  <2> QED
    BY <1>1, <2>1, <2>2 DEF RowStatus, Waited
<1> QED
  BY <1>2, <1>3, <1>4, <1>5 DEF Unacked

LEMMA DeliverStartKeeps ==
  ASSUME Limits, TaskForceInvariant, NEW r \in Runs, DeliverStart(r)
  PROVE  TaskForceInvariant'
<1> USE DEF TaskForceInvariant
<1>0. UNCHANGED <<state, desired, grants, dispatch, cancelRow, cancelling, at, tries, told,
                  stage, answer, killFile, inbox, nonces, gatewayKilled, effects>>
  BY DEF DeliverStart, rowVars, dispatchVars, gatewayVars
<1>1. /\ startRow[r].status = "pending"
      /\ \E new : /\ \/ new \in {Acked(startRow[r]), Kept(startRow[r])} /\ UNCHANGED faults
                     \/ new \in Unacked(startRow[r]) /\ Fault
                  /\ startRow' = [startRow EXCEPT ![r] = new]
  BY DEF DeliverStart
<1>2. /\ OutboxTypes /\ WorkflowTypes /\ Waited(startRow[r]) /\ state[r] # "ABSENT"
      /\ startRow[r] \in [status : RowStatus, tries : Nat]
  BY <1>1 DEF TypeOK, OutboxTypes, OutboxOnTrack, NoRow
<1>3. /\ wf' \in [Runs -> WorkflowPlace]
      /\ \A q \in Runs : wf'[q] = wf[q] \/ (wf[q] = "unstarted" /\ wf'[q] = "start")
  BY <1>2 DEF WorkflowTypes, DeliverStart, Started, WorkflowPlace, Retried, Recording
<1>4. faults' \in faults .. MaxFaults
  <2>1. faults' = faults \/ Fault
    BY DEF DeliverStart
  <2> QED
    BY <2>1, <1>2 DEF Limits, WorkflowTypes, Fault
<1>5. /\ startRow' \in [Runs -> [status : RowStatus, tries : Nat]]
      /\ Waited(startRow[r])'
      /\ \A q \in Runs \ {r} : startRow'[q] = startRow[q]
  <2>1. PICK new : /\ \/ new \in {Acked(startRow[r]), Kept(startRow[r])} /\ UNCHANGED faults
                      \/ new \in Unacked(startRow[r]) /\ Fault
                   /\ startRow' = [startRow EXCEPT ![r] = new]
    BY <1>1
  <2>2. new \in [status : RowStatus, tries : Nat] /\ Waited(new)'
    BY <1>1, <1>2, <2>1, RowMoves
  <2>3. startRow'[r] = new
    BY <2>1, <1>2 DEF OutboxTypes
  <2> QED
    BY <2>1, <2>2, <2>3, <1>2 DEF OutboxTypes, Waited
<1>6. TypeOK'
  <2>1. OutboxTypes' /\ WorkflowTypes'
    BY <1>0, <1>2, <1>3, <1>4, <1>5 DEF OutboxTypes, WorkflowTypes
  <2> QED
    BY <2>1, <1>0, CalmTypes DEF TypeOK, rowVars, gatewayVars
<1>7. OutboxOnTrack'
  <2>1. \A row \in [status : RowStatus, tries : Nat] : Waited(row) => Waited(row)'
    BY <1>4, WaitedOn
  <2>2. \A q \in Runs : Waited(startRow[q])' /\ Waited(cancelRow[q])'
    <3> SUFFICES ASSUME NEW q \in Runs PROVE Waited(startRow[q])' /\ Waited(cancelRow[q])'
      OBVIOUS
    <3>1. /\ Waited(startRow[q]) /\ startRow[q] \in [status : RowStatus, tries : Nat]
          /\ Waited(cancelRow[q]) /\ cancelRow[q] \in [status : RowStatus, tries : Nat]
      BY <1>2 DEF TypeOK, OutboxTypes, OutboxOnTrack
    <3>2. Waited(cancelRow[q])'
      BY <1>0, <2>1, <3>1 DEF Waited
    <3>3. CASE q = r
      BY <1>5, <3>2, <3>3
    <3>4. CASE q # r
      BY <1>5, <2>1, <3>1, <3>2, <3>4 DEF Waited
    <3> QED
      BY <3>3, <3>4
  <2> QED
    BY <1>0, <1>2, <1>5, <2>2 DEF OutboxOnTrack
<1>8. AuthorityEndsWithCancel' /\ AbortedIsSealed' /\ AbortOnTrack'
  BY <1>0, <1>3 DEF AuthorityEndsWithCancel, AbortedIsSealed, AbortOnTrack, Killed, Over
<1>9. CompletedMeansProven' /\ CompletionOnTrack'
  BY <1>0, <1>3 DEF CompletedMeansProven, CompletionOnTrack, AllExecuted
<1> QED
  BY <1>0, <1>6, <1>7, <1>8, <1>9, CalmDispatch DEF gatewayVars

LEMMA DeliverCancelKeeps ==
  ASSUME Limits, TaskForceInvariant, NEW r \in Runs, DeliverCancel(r)
  PROVE  TaskForceInvariant'
<1> USE DEF TaskForceInvariant
<1>0. UNCHANGED <<state, desired, grants, dispatch, startRow, cancelling, wf, at, tries,
                  stage, answer, killFile, inbox, nonces, gatewayKilled, effects>>
  BY DEF DeliverCancel, rowVars, dispatchVars, gatewayVars
<1>1. /\ cancelRow[r].status = "pending"
      /\ \E new : /\ \/ new \in {Acked(cancelRow[r]), Kept(cancelRow[r])} /\ UNCHANGED faults
                     \/ new \in Unacked(cancelRow[r]) /\ Fault
                  /\ cancelRow' = [cancelRow EXCEPT ![r] = new]
  BY DEF DeliverCancel
<1>2. /\ OutboxTypes /\ WorkflowTypes /\ Waited(cancelRow[r]) /\ cancelling[r] = "done"
      /\ cancelRow[r] \in [status : RowStatus, tries : Nat]
  BY <1>1 DEF TypeOK, OutboxTypes, OutboxOnTrack, NoRow
<1>3. faults' \in faults .. MaxFaults /\ told' \in [Runs -> BOOLEAN]
  <2>1. faults' = faults \/ Fault
    BY DEF DeliverCancel
  <2>2. told' = told \/ told' = [told EXCEPT ![r] = TRUE]
    BY DEF DeliverCancel, Signalled
  <2>3. told' \in [Runs -> BOOLEAN]
    BY <2>2, <1>2 DEF WorkflowTypes
  <2>4. faults' \in faults .. MaxFaults
    BY <2>1, <1>2 DEF Limits, WorkflowTypes, Fault
  <2> QED
    BY <2>3, <2>4
<1>4. /\ cancelRow' \in [Runs -> [status : RowStatus, tries : Nat]]
      /\ Waited(cancelRow[r])'
      /\ \A q \in Runs \ {r} : cancelRow'[q] = cancelRow[q]
  <2>1. PICK new : /\ \/ new \in {Acked(cancelRow[r]), Kept(cancelRow[r])} /\ UNCHANGED faults
                      \/ new \in Unacked(cancelRow[r]) /\ Fault
                   /\ cancelRow' = [cancelRow EXCEPT ![r] = new]
    BY <1>1
  <2>2. new \in [status : RowStatus, tries : Nat] /\ Waited(new)'
    BY <1>1, <1>2, <2>1, RowMoves
  <2>3. cancelRow'[r] = new
    BY <2>1, <1>2 DEF OutboxTypes
  <2> QED
    BY <2>1, <2>2, <2>3, <1>2 DEF OutboxTypes, Waited
<1>5. TypeOK'
  <2>1. OutboxTypes' /\ WorkflowTypes'
    BY <1>0, <1>2, <1>3, <1>4 DEF OutboxTypes, WorkflowTypes
  <2> QED
    BY <2>1, <1>0, CalmTypes DEF TypeOK, rowVars, gatewayVars
<1>6. OutboxOnTrack'
  <2>1. \A row \in [status : RowStatus, tries : Nat] : Waited(row) => Waited(row)'
    BY <1>3, WaitedOn
  <2>2. \A q \in Runs : Waited(cancelRow[q])' /\ Waited(startRow[q])'
    <3> SUFFICES ASSUME NEW q \in Runs PROVE Waited(cancelRow[q])' /\ Waited(startRow[q])'
      OBVIOUS
    <3>1. /\ Waited(startRow[q]) /\ startRow[q] \in [status : RowStatus, tries : Nat]
          /\ Waited(cancelRow[q]) /\ cancelRow[q] \in [status : RowStatus, tries : Nat]
      BY <1>2 DEF TypeOK, OutboxTypes, OutboxOnTrack
    <3>2. Waited(startRow[q])'
      BY <1>0, <2>1, <3>1 DEF Waited
    <3>3. CASE q = r
      BY <1>4, <3>2, <3>3
    <3>4. CASE q # r
      BY <1>4, <2>1, <3>1, <3>2, <3>4 DEF Waited
    <3> QED
      BY <3>3, <3>4
  <2> QED
    BY <1>0, <1>2, <1>4, <2>2 DEF OutboxOnTrack
<1>7. AuthorityEndsWithCancel' /\ AbortedIsSealed' /\ AbortOnTrack'
  BY <1>0 DEF AuthorityEndsWithCancel, AbortedIsSealed, AbortOnTrack, Killed
<1> QED
  BY <1>0, <1>5, <1>6, <1>7, CalmDispatch, CalmCompletion DEF gatewayVars

-----------------------------------------------------------------------------
(* Activities other than the dispatch.                                     *)

LEMMA ActivityFailsKeeps ==
  ASSUME Limits, TaskForceInvariant, NEW r \in Runs, ActivityFails(r)
  PROVE  TaskForceInvariant'
<1> USE DEF TaskForceInvariant
<1>0. UNCHANGED <<state, desired, grants, dispatch, startRow, cancelRow, cancelling, at, told,
                  stage, answer, killFile, inbox, nonces, gatewayKilled, effects>>
  BY DEF ActivityFails, rowVars, outboxVars, dispatchVars, gatewayVars
<1>1. /\ WorkflowTypes
      /\ wf' \in [Runs -> WorkflowPlace]
      /\ tries' \in [Runs -> Nat]
      /\ faults' \in faults .. MaxFaults
      /\ \A q \in Runs : \/ wf'[q] \in {wf[q], "failed"}
                         \/ wf[q] = "kill" /\ wf'[q] = "revoke"
  BY TryAgainMoves DEF TypeOK, ActivityFails
<1>2. TypeOK'
  <2>1. WorkflowTypes'
    BY <1>0, <1>1 DEF WorkflowTypes
  <2> QED
    BY <2>1, <1>0, CalmTypes DEF TypeOK, rowVars, outboxVars, gatewayVars
<1>3. AuthorityEndsWithCancel' /\ AbortedIsSealed' /\ AbortOnTrack' /\ OutboxOnTrack'
  BY <1>0, <1>1, OutboxStays DEF AuthorityEndsWithCancel, AbortedIsSealed, AbortOnTrack, Killed, Over
<1>4. CompletedMeansProven' /\ CompletionOnTrack'
  BY <1>0, <1>1 DEF CompletedMeansProven, CompletionOnTrack, AllExecuted
<1> QED
  BY <1>0, <1>2, <1>3, <1>4, CalmDispatch DEF gatewayVars

(* Recording a state: COMPLETED is written where everything was verified,  *)
(* ABORTED where the abort has taken everything away.                      *)
LEMMA RecordKeeps ==
  ASSUME Limits, TaskForceInvariant, NEW r \in Runs,
         NEW place \in Recording, NEW s \in RunState, NEW next \in WorkflowPlace,
         next \notin {"kill", "aborting", "completing"},
         place = "aborting" => next = "closed",
         s = "COMPLETED" => place = "completing",
         s = "ABORTED" => place = "aborting",
         Record(r, place, s, next)
  PROVE  TaskForceInvariant'
<1> USE DEF TaskForceInvariant
<1>0. UNCHANGED <<desired, grants, dispatch, startRow, cancelRow, cancelling, at, told,
                  stage, answer, killFile, inbox, nonces, gatewayKilled, effects>>
  BY DEF Record, outboxVars, dispatchVars, gatewayVars
<1>1. RowTypes /\ WorkflowTypes /\ wf[r] = place /\ wf[r] \in Retried
  BY DEF TypeOK, Record, Retried
<1>2. /\ wf' \in [Runs -> WorkflowPlace]
      /\ tries' \in [Runs -> Nat]
      /\ faults' \in faults .. MaxFaults
      /\ \A q \in Runs \ {r} : wf'[q] = wf[q]
      /\ wf'[r] \in {next, place, "failed"}
  BY <1>1, ReturnsMoves DEF Record, Recording
<1>3. /\ state' \in [Runs -> RunState \cup {"ABSENT"}]
      /\ \A q \in Runs \ {r} : state'[q] = state[q]
      /\ state'[r] = state[r] \/ (state'[r] = s /\ Accepts(r, s))
  BY <1>1 DEF RowTypes, Record
<1>4. TypeOK'
  <2>1. RowTypes' /\ WorkflowTypes'
    BY <1>0, <1>1, <1>2, <1>3 DEF RowTypes, WorkflowTypes
  <2> QED
    BY <2>1, <1>0, CalmTypes DEF TypeOK, outboxVars, gatewayVars
<1>5. OutboxOnTrack'
  <2>1. \A q \in Runs : state'[q] = "ABSENT" => state[q] = "ABSENT"
    BY <1>3 DEF RunState
  <2> QED
    BY <1>0, <1>2, <2>1, OutboxStays
<1>6. AuthorityEndsWithCancel'
  BY <1>0 DEF AuthorityEndsWithCancel
<1>7. AbortedIsSealed'
  BY <1>0, <1>1, <1>3 DEF AbortedIsSealed, AbortOnTrack, Killed
<1>8. AbortOnTrack'
  BY <1>0, <1>1, <1>2, <1>3 DEF AbortOnTrack, Killed, Over, Recording
<1>9. CompletedMeansProven' /\ CompletionOnTrack'
  <2>1. ASSUME NEW q \in Runs, state'[q] = "COMPLETED", state[q] # "COMPLETED"
        PROVE  AllExecuted(q) /\ desired[q] = "RUN" /\ \A i \in Plan(q) : effects[<<q, i>>] = 1
    <3>1. q = r /\ wf[r] = "completing" /\ Accepts(r, "COMPLETED")
      BY <2>1, <1>1, <1>3
    <3>2. AllExecuted(q)
      BY <3>1 DEF CompletionOnTrack
    <3>3. desired[q] = "RUN"
      BY <3>1, <1>1 DEF Accepts, RowTypes
    <3> QED
      BY <3>2, <3>3 DEF AllExecuted, DispatchOnTrack
  <2>2. CompletedMeansProven'
    BY <2>1, <1>0 DEF CompletedMeansProven, AllExecuted
  <2>3. CompletionOnTrack'
    BY <2>1, <1>0, <1>1, <1>2 DEF CompletionOnTrack, AllExecuted
  <2> QED
    BY <2>2, <2>3
<1> QED
  BY <1>0, <1>4, <1>5, <1>6, <1>7, <1>8, <1>9, CalmDispatch DEF gatewayVars

LEMMA RecordingKeeps ==
  ASSUME Limits, TaskForceInvariant, NEW r \in Runs,
         \/ RecordRunning(r) \/ RecordVerifying(r) \/ RecordCompleted(r)
         \/ RecordCancelling(r) \/ RecordAborted(r)
  PROVE  TaskForceInvariant'
<1>0. /\ {"verify", "closed", "revoke"} \subseteq WorkflowPlace
      /\ {"start", "verifying", "completing", "cancelling", "aborting"} = Recording
      /\ {"RUNNING", "VERIFYING", "COMPLETED", "CANCELLING", "ABORTED"} \subseteq RunState
  BY DEF WorkflowPlace, Retried, Over, Recording, RunState
<1>1. CASE RecordRunning(r)
  <2>1. Onward(r, 1) \in WorkflowPlace /\ Onward(r, 1) \notin {"kill", "aborting", "completing"}
    BY Places
  <2> QED
    BY <1>0, <1>1, <2>1, RecordKeeps DEF RecordRunning
<1>2. CASE RecordVerifying(r)
  BY <1>0, <1>2, RecordKeeps DEF RecordVerifying
<1>3. CASE RecordCompleted(r)
  BY <1>0, <1>3, RecordKeeps DEF RecordCompleted
<1>4. CASE RecordCancelling(r)
  BY <1>0, <1>4, RecordKeeps DEF RecordCancelling
<1>5. CASE RecordAborted(r)
  BY <1>0, <1>5, RecordKeeps DEF RecordAborted
<1> QED
  BY <1>1, <1>2, <1>3, <1>4, <1>5

(* A grant is only ever given to a run that is RUNNING and not cancelled.  *)
LEMMA AuthorizeKeeps ==
  ASSUME Limits, TaskForceInvariant, NEW r \in Runs, Authorize(r)
  PROVE  TaskForceInvariant'
<1> USE DEF TaskForceInvariant
<1>0. UNCHANGED <<state, desired, dispatch, startRow, cancelRow, cancelling, at, told,
                  stage, answer, killFile, inbox, nonces, gatewayKilled, effects>>
  BY DEF Authorize, Granted, outboxVars, dispatchVars, gatewayVars
<1>1. RowTypes /\ WorkflowTypes /\ wf[r] = "authorize" /\ wf[r] \in Retried /\ at[r] \in Steps
  BY DEF TypeOK, Authorize, Granted, Retried, WorkflowTypes
<1>2. /\ wf' \in [Runs -> WorkflowPlace]
      /\ tries' \in [Runs -> Nat]
      /\ faults' \in faults .. MaxFaults
      /\ \A q \in Runs \ {r} : wf'[q] = wf[q]
      /\ wf'[r] \in {"dispatch", "cancelling", "revoke", "authorize", "failed"}
  <2>1. PICK next \in {"dispatch", AbortFrom(r)} : Returns(r, next)
    BY DEF Authorize, Granted
  <2>2. next \in WorkflowPlace /\ next \in {"dispatch", "cancelling", "revoke"}
    BY Places DEF WorkflowPlace
  <2> QED
    BY <2>1, <2>2, <1>1, ReturnsMoves
<1>3. /\ grants' \in [Runs -> [Steps -> Nat]]
      /\ \A q \in Runs : grants'[q] # grants[q] => q = r /\ MayAuthorize(r)
  <2>1. CASE UNCHANGED grants
    BY <2>1, <1>1 DEF RowTypes
  <2>2. CASE MayAuthorize(r) /\ grants' = [grants EXCEPT ![r][at[r]] = @ + 1]
    BY <2>2, <1>1 DEF RowTypes
  <2> QED
    BY <2>1, <2>2 DEF Authorize, Granted
<1>4. TypeOK'
  <2>1. RowTypes' /\ WorkflowTypes'
    BY <1>0, <1>1, <1>2, <1>3 DEF RowTypes, WorkflowTypes
  <2> QED
    BY <2>1, <1>0, CalmTypes DEF TypeOK, outboxVars, gatewayVars
<1>5. OutboxOnTrack'
  BY <1>0, <1>2, OutboxStays
<1>6. AuthorityEndsWithCancel'
  BY <1>0, <1>3 DEF AuthorityEndsWithCancel, MayAuthorize
<1>7. AbortedIsSealed'
  BY <1>0, <1>3 DEF AbortedIsSealed, MayAuthorize, Killed
<1>8. AbortOnTrack'
  BY <1>0, <1>1, <1>2, <1>3 DEF AbortOnTrack, Killed, Over
<1>9. CompletedMeansProven' /\ CompletionOnTrack'
  BY <1>0, <1>1, <1>2 DEF CompletedMeansProven, CompletionOnTrack, AllExecuted
<1> QED
  BY <1>0, <1>4, <1>5, <1>6, <1>7, <1>8, <1>9, CalmDispatch DEF gatewayVars

LEMMA VerifyKeeps ==
  ASSUME Limits, TaskForceInvariant, NEW r \in Runs, Verify(r)
  PROVE  TaskForceInvariant'
<1> USE DEF TaskForceInvariant
<1>0. UNCHANGED <<state, desired, grants, dispatch, startRow, cancelRow, cancelling, at, told,
                  stage, answer, killFile, inbox, nonces, gatewayKilled, effects>>
  BY DEF Verify, rowVars, outboxVars, dispatchVars, gatewayVars
<1>1. WorkflowTypes /\ wf[r] = "verify" /\ wf[r] \in Retried
  BY DEF TypeOK, Verify, Retried
<1>2. /\ wf' \in [Runs -> WorkflowPlace]
      /\ tries' \in [Runs -> Nat]
      /\ faults' \in faults .. MaxFaults
      /\ \A q \in Runs \ {r} : wf'[q] = wf[q]
      /\ \/ wf'[r] \in {"cancelling", "revoke", "verify", "failed"}
         \/ wf'[r] = "completing" /\ AllExecuted(r)
  <2> DEFINE next == IF AllExecuted(r) THEN "completing" ELSE AbortFrom(r)
  <2>1. next \in WorkflowPlace
    BY Places DEF WorkflowPlace, Retried, Recording
  <2>2. next \in {"cancelling", "revoke"} \/ (next = "completing" /\ AllExecuted(r))
    BY Places
  <2>3. Returns(r, next)
    BY DEF Verify
  <2> HIDE DEF next
  <2> QED
    BY <2>1, <2>2, <2>3, <1>1, ReturnsMoves
<1>3. TypeOK'
  <2>1. WorkflowTypes'
    BY <1>0, <1>1, <1>2 DEF WorkflowTypes
  <2> QED
    BY <2>1, <1>0, CalmTypes DEF TypeOK, rowVars, outboxVars, gatewayVars
<1>4. AuthorityEndsWithCancel' /\ AbortedIsSealed' /\ OutboxOnTrack'
  BY <1>0, <1>2, OutboxStays DEF AuthorityEndsWithCancel, AbortedIsSealed, Killed
<1>5. AbortOnTrack'
  BY <1>0, <1>1, <1>2 DEF AbortOnTrack, Killed, Over
<1>6. CompletedMeansProven' /\ CompletionOnTrack'
  BY <1>0, <1>1, <1>2 DEF CompletedMeansProven, CompletionOnTrack, AllExecuted
<1> QED
  BY <1>0, <1>3, <1>4, <1>5, <1>6, CalmDispatch DEF gatewayVars

LEMMA RevokeRowsKeeps ==
  ASSUME Limits, TaskForceInvariant, NEW r \in Runs, RevokeRows(r)
  PROVE  TaskForceInvariant'
<1> USE DEF TaskForceInvariant
<1>0. UNCHANGED <<dispatch, startRow, cancelRow, cancelling, at, tries, told,
                  stage, answer, killFile, inbox, nonces, gatewayKilled, effects, faults>>
  BY DEF RevokeRows, outboxVars, dispatchVars, gatewayVars
<1>1. WorkflowTypes /\ wf[r] = "revoke"
  BY DEF TypeOK, RevokeRows
<1>2. /\ wf' \in [Runs -> WorkflowPlace]
      /\ wf'[r] = "kill"
      /\ \A q \in Runs \ {r} : wf'[q] = wf[q]
  BY <1>1 DEF WorkflowTypes, RevokeRows, WorkflowPlace, Retried
<1>3. /\ RowTypes'
      /\ \A q \in Runs : state'[q] = "ABSENT" => state[q] = "ABSENT"
      /\ AuthorityEndsWithCancel' /\ AbortedIsSealed' /\ AbortOnTrack'
      /\ CompletedMeansProven' /\ CompletionOnTrack'
  <2>1. Revoked(r, state[r] \notin Terminal) /\ (state[r] \notin Terminal) \in BOOLEAN
    BY DEF RevokeRows
  <2> HIDE DEF TaskForceInvariant
  <2> QED
    BY <2>1, <1>0, <1>1, <1>2, RevokedKeeps
<1>4. TypeOK'
  <2>1. WorkflowTypes'
    BY <1>0, <1>1, <1>2 DEF WorkflowTypes
  <2> QED
    BY <2>1, <1>0, <1>3, CalmTypes DEF TypeOK, outboxVars, gatewayVars
<1>5. OutboxOnTrack'
  BY <1>0, <1>3, OutboxStays
<1> QED
  BY <1>0, <1>3, <1>4, <1>5, CalmDispatch DEF gatewayVars

(* What the gateway is sent.                                               *)
Messages == [op : {"execute", "kill"}, run : Runs, step : Nat]

LEMMA MessagesTyped ==
  ASSUME GatewayTypes, NEW r \in Runs
  PROVE  /\ inbox \in Seq(Messages)
         /\ Append(inbox, KillMessage(r)) \in Seq(Messages)
         /\ \A i \in Nat : Append(inbox, Request(r, i)) \in Seq(Messages)
<1>1. KillMessage(r) \in Messages
  BY DEF KillMessage, Messages
<1>2. \A i \in Nat : Request(r, i) \in Messages
  BY DEF Request, Messages
<1>3. inbox \in Seq(Messages)
  BY DEF GatewayTypes, Messages
<1> HIDE DEF Messages
<1> QED
  BY <1>1, <1>2, <1>3

LEMMA InboxTyped ==
  ASSUME GatewayTypes, NEW n \in 1 .. Len(inbox)
  PROVE  inbox[n].run \in Runs /\ inbox[n].step \in Nat
<1>1. inbox \in Seq(Messages)
  BY DEF GatewayTypes, Messages
<1>2. inbox[n] \in Messages
  <2> HIDE DEF Messages
  <2> QED
    BY <1>1
<1> QED
  BY <1>2 DEF Messages

LEMMA KillMissionKeeps ==
  ASSUME PlanShape, Limits, TaskForceInvariant, NEW r \in Runs, KillMission(r)
  PROVE  TaskForceInvariant'
<1> USE DEF TaskForceInvariant
<1>0. UNCHANGED <<state, desired, grants, dispatch, startRow, cancelRow, cancelling, at, told,
                  stage, answer, nonces, gatewayKilled, effects>>
  BY DEF KillMission, rowVars, outboxVars, dispatchVars
<1>1. WorkflowTypes /\ GatewayTypes /\ wf[r] = "kill" /\ wf[r] \in Retried
  BY DEF TypeOK, KillMission, Retried
<1>2. /\ wf' \in [Runs -> WorkflowPlace]
      /\ tries' \in [Runs -> Nat]
      /\ faults' \in faults .. MaxFaults
      /\ \A q \in Runs \ {r} : wf'[q] = wf[q]
      /\ wf'[r] \in {"aborting", "kill", "revoke", "failed"}
  <2>1. "aborting" \in WorkflowPlace
    BY DEF WorkflowPlace, Retried, Recording
  <2>2. CASE Returns(r, "aborting")
    BY <2>1, <2>2, <1>1, ReturnsMoves
  <2>3. CASE /\ Fault
             /\ wf' = [wf EXCEPT ![r] = "aborting"]
             /\ tries' = [tries EXCEPT ![r] = 0]
    BY <2>1, <2>3, <1>1 DEF Limits, WorkflowTypes, Fault
  <2> QED
    BY <2>2, <2>3 DEF KillMission
<1>3. inbox' = inbox \/ inbox' = Append(inbox, KillMessage(r))
  BY DEF KillMission
<1>4. /\ killFile' = killFile \cup {MissionOf[r]} /\ MissionOf[r] \in Missions
  BY DEF KillMission, PlanShape
<1>5. TypeOK'
  <2>1. WorkflowTypes'
    BY <1>0, <1>1, <1>2 DEF WorkflowTypes
  <2>2. inbox' \in Seq(Messages)
    BY <1>1, <1>3, MessagesTyped
  <2>3. GatewayTypes'
    BY <2>2, <1>0, <1>1, <1>4 DEF GatewayTypes, Messages
  <2> QED
    BY <2>1, <2>3, <1>0, CalmTypes DEF TypeOK, rowVars, outboxVars
<1>6. RequestsInOrder'
  <2>1. ASSUME NEW n \in 1 .. Len(inbox'), inbox'[n].op = "execute"
        PROVE  n \in 1 .. Len(inbox) /\ inbox'[n] = inbox[n]
    BY <2>1, <1>1, <1>3 DEF GatewayTypes, KillMessage
  <2> QED
    BY SMTT(30), <2>1, <1>0 DEF RequestsInOrder, InOrder
<1>7. EffectOncePerKey' /\ NoncesRemember' /\ PlanOrder' /\ DispatchOnTrack'
  BY <1>0 DEF EffectOncePerKey, NoncesRemember, PlanOrder, DispatchOnTrack
<1>8. AuthorityEndsWithCancel' /\ AbortedIsSealed' /\ OutboxOnTrack'
  BY <1>0, <1>2, <1>4, OutboxStays DEF AuthorityEndsWithCancel, AbortedIsSealed, Killed
<1>9. AbortOnTrack'
  BY <1>0, <1>1, <1>2, <1>4 DEF AbortOnTrack, Killed, Over
<1>10. CompletedMeansProven' /\ CompletionOnTrack'
  BY <1>0, <1>1, <1>2 DEF CompletedMeansProven, CompletionOnTrack, AllExecuted
<1> QED
  BY <1>5, <1>6, <1>7, <1>8, <1>9, <1>10

-----------------------------------------------------------------------------
(* A plan has a position for each of its actions.                          *)
LEMMA PlansFit ==
  ASSUME PlanShape, NEW r \in Runs, NEW i \in Plan(r)
  PROVE  i \in Steps /\ <<r, i>> \in Runs \X Steps /\ 1 .. i - 1 \subseteq Plan(r)
<1>1. PlanLength[r] \in Nat /\ PlanLength[r] <= MaxSteps /\ MaxSteps \in Nat
  BY DEF PlanShape, Steps
<1> QED
  BY <1>1 DEF Plan, Steps

(* The dispatch.  It only spends grants, moves the workflow only while it  *)
(* is waited for, and unsettles nothing that was done.                     *)
LEMMA DispatchKeepsRun ==
  ASSUME PlanShape, Limits, TaskForceInvariant,
         UNCHANGED <<state, desired, outboxVars, cancelling, killFile>>,
         UNCHANGED faults \/ faults' \in faults .. MaxFaults,
         \A r \in Runs : \A i \in Steps : grants[r][i] = 0 => grants'[r][i] = 0,
         \A r \in Runs : \A i \in Plan(r) : dispatch[r][i] = "executed" => dispatch'[r][i] = "executed",
         \A x \in Runs \X Steps : effects[x] = 1 => effects'[x] = 1,
         \A r \in Runs :
           \/ wf'[r] = wf[r]
           \/ /\ wf[r] = "dispatch"
              /\ wf'[r] \in {"cancelling", "revoke", "authorize", "verifying", "failed"}
  PROVE  /\ OutboxTypes' /\ OutboxOnTrack'
         /\ AuthorityEndsWithCancel' /\ AbortedIsSealed' /\ AbortOnTrack'
         /\ CompletedMeansProven' /\ CompletionOnTrack'
<1> USE DEF TaskForceInvariant
<1>1. OutboxTypes' /\ OutboxOnTrack'
  BY CalmTypes, OutboxStays DEF outboxVars
<1>2. AuthorityEndsWithCancel' /\ AbortedIsSealed' /\ AbortOnTrack'
  BY DEF AuthorityEndsWithCancel, AbortedIsSealed, AbortOnTrack, Killed, Over
<1>3. \A r \in Runs : AllExecuted(r) => AllExecuted(r)'
  BY DEF AllExecuted
<1>4. CompletionOnTrack'
  BY <1>3 DEF CompletionOnTrack
<1>5. CompletedMeansProven'
  <2>1. \A r \in Runs : \A i \in Plan(r) : <<r, i>> \in Runs \X Steps
    BY PlansFit
  <2> QED
    BY <2>1, <1>3 DEF CompletedMeansProven, AllExecuted
<1> QED
  BY <1>1, <1>2, <1>4, <1>5

LEMMA LookAtKillSwitchKeeps ==
  ASSUME PlanShape, Limits, TaskForceInvariant, NEW r \in Runs, LookAtKillSwitch(r)
  PROVE  TaskForceInvariant'
<1> USE DEF TaskForceInvariant
<1>0. UNCHANGED <<state, desired, grants, dispatch, outboxVars, cancelling, at, tries, told,
                  answer, killFile, inbox, nonces, gatewayKilled, effects, faults>>
  BY DEF LookAtKillSwitch, rowVars, gatewayVars
<1>1. WorkflowTypes /\ wf[r] = "dispatch"
  BY DEF TypeOK, LookAtKillSwitch
<1>2. /\ wf' \in [Runs -> WorkflowPlace]
      /\ wf'[r] \in {"dispatch", "cancelling", "revoke"}
      /\ \A q \in Runs \ {r} : wf'[q] = wf[q]
  BY <1>1, Places DEF LookAtKillSwitch, WorkflowTypes
<1>3. /\ stage' \in [Runs -> {"idle", "looked", "reserved", "asked", "answered"}]
      /\ \A q \in Runs : stage'[q] \in {stage[q], "looked"}
  BY <1>1 DEF LookAtKillSwitch, WorkflowTypes
<1>4. /\ OutboxTypes' /\ OutboxOnTrack'
      /\ AuthorityEndsWithCancel' /\ AbortedIsSealed' /\ AbortOnTrack'
      /\ CompletedMeansProven' /\ CompletionOnTrack'
  <2> HIDE DEF TaskForceInvariant
  <2> QED
    BY <1>0, <1>1, <1>2, DispatchKeepsRun
<1>5. TypeOK'
  <2>1. WorkflowTypes'
    BY <1>0, <1>1, <1>2, <1>3 DEF WorkflowTypes
  <2> QED
    BY <2>1, <1>0, <1>4, CalmTypes DEF TypeOK, rowVars, gatewayVars
<1>6. EffectOncePerKey' /\ NoncesRemember' /\ PlanOrder'
  BY <1>0 DEF EffectOncePerKey, NoncesRemember, PlanOrder
<1>7. RequestsInOrder'
  BY <1>0 DEF RequestsInOrder, InOrder
<1>8. DispatchOnTrack'
  BY <1>0, <1>3 DEF DispatchOnTrack
<1> QED
  BY <1>4, <1>5, <1>6, <1>7, <1>8

(* A reservation is made once, at the action the run stands at.            *)
LEMMA ReserveKeeps ==
  ASSUME PlanShape, Limits, TaskForceInvariant, NEW r \in Runs, Reserve(r)
  PROVE  TaskForceInvariant'
<1> USE DEF TaskForceInvariant
<1>0. UNCHANGED <<state, desired, outboxVars, cancelling, at, tries, told,
                  answer, killFile, inbox, nonces, gatewayKilled, effects, faults>>
  BY DEF Reserve, gatewayVars
<1>1. RowTypes /\ WorkflowTypes /\ at[r] \in Steps /\ stage[r] = "looked"
  BY DEF TypeOK, Reserve, WorkflowTypes
<1>2. /\ wf' \in [Runs -> WorkflowPlace]
      /\ \/ wf'[r] = wf[r]
         \/ wf[r] = "dispatch" /\ wf'[r] \in {"cancelling", "revoke"}
      /\ \A q \in Runs \ {r} : wf'[q] = wf[q]
  <2>1. \/ wf' = wf
        \/ wf[r] = "dispatch" /\ wf' = [wf EXCEPT ![r] = AbortFrom(r)]
    BY DEF Reserve
  <2>2. AbortFrom(r) \in WorkflowPlace /\ AbortFrom(r) \in {"cancelling", "revoke"}
    BY Places DEF WorkflowPlace
  <2> HIDE DEF TaskForceInvariant
  <2> QED
    BY <2>1, <2>2, <1>1 DEF WorkflowTypes
<1>3. /\ stage' \in [Runs -> {"idle", "looked", "reserved", "asked", "answered"}]
      /\ \A q \in Runs \ {r} : stage'[q] = stage[q]
      /\ stage'[r] = "idle" \/ (stage'[r] = "reserved" /\ dispatch'[r][at[r]] = "authorized")
  <2>1. CASE stage' = [stage EXCEPT ![r] = "idle"]
    BY <2>1, <1>1 DEF WorkflowTypes
  <2>2. CASE /\ stage' = [stage EXCEPT ![r] = "reserved"]
             /\ dispatch' = [dispatch EXCEPT ![r][at[r]] = "authorized"]
    <3>1. dispatch'[r][at[r]] = "authorized"
      BY <2>2, <1>1 DEF RowTypes
    <3> QED
      BY <2>2, <3>1, <1>1 DEF WorkflowTypes
  <2> QED
    BY <2>1, <2>2 DEF Reserve
<1>4. /\ dispatch' \in [Runs -> [Steps -> DispatchStatus]]
      /\ \A q \in Runs \ {r} : dispatch'[q] = dispatch[q]
      /\ \A i \in Steps : dispatch'[r][i] = dispatch[r][i]
                           \/ (i = at[r] /\ dispatch[r][i] = "none" /\ dispatch'[r][i] = "authorized")
  <2>1. CASE UNCHANGED dispatch
    BY <2>1, <1>1 DEF RowTypes
  <2>2. CASE Reservable(r) /\ dispatch' = [dispatch EXCEPT ![r][at[r]] = "authorized"]
    BY <2>2, <1>1 DEF RowTypes, Reservable, Spendable, DispatchStatus
  <2> QED
    BY <2>1, <2>2 DEF Reserve
<1>5. /\ grants' \in [Runs -> [Steps -> Nat]]
      /\ \A q \in Runs : \A i \in Steps : grants[q][i] = 0 => grants'[q][i] = 0
  <2>1. CASE UNCHANGED grants
    BY <2>1, <1>1 DEF RowTypes
  <2>2. CASE Reservable(r) /\ grants' = [grants EXCEPT ![r][at[r]] = @ - 1]
    <3>1. grants[r][at[r]] \in Nat /\ grants[r][at[r]] > 0
      BY <2>2, <1>1 DEF RowTypes, Reservable, Spendable
    <3> QED
      BY <2>2, <3>1, <1>1 DEF RowTypes
  <2> QED
    BY <2>1, <2>2 DEF Reserve
<1>6. \A q \in Runs : Plan(q) \subseteq Steps
  BY PlansFit
<1>7. /\ OutboxTypes' /\ OutboxOnTrack'
      /\ AuthorityEndsWithCancel' /\ AbortedIsSealed' /\ AbortOnTrack'
      /\ CompletedMeansProven' /\ CompletionOnTrack'
  <2>1. \A q \in Runs : \A i \in Plan(q) : dispatch[q][i] = "executed" => dispatch'[q][i] = "executed"
    BY <1>4, <1>6
  <2> HIDE DEF TaskForceInvariant
  <2> QED
    BY <2>1, <1>0, <1>2, <1>5, DispatchKeepsRun
<1>8. TypeOK'
  <2>1. RowTypes' /\ WorkflowTypes'
    BY <1>0, <1>1, <1>2, <1>3, <1>4, <1>5 DEF RowTypes, WorkflowTypes
  <2> QED
    BY <2>1, <1>0, <1>7, CalmTypes DEF TypeOK, gatewayVars
<1>9. EffectOncePerKey' /\ NoncesRemember'
  BY <1>0 DEF EffectOncePerKey, NoncesRemember
<1>10. /\ \A q \in Runs : \A i \in Steps : dispatch[q][i] # "none" => dispatch'[q][i] # "none"
       /\ \A q \in Runs : \A i \in Steps : dispatch[q][i] = "executed" <=> dispatch'[q][i] = "executed"
  BY <1>4
<1>11. \A q \in Runs : \A i \in Plan(q) : 1 .. i - 1 \subseteq Steps
  BY PlansFit
<1>12. PlanOrder'
  BY <1>0, <1>6, <1>10, <1>11 DEF PlanOrder
<1>13. RequestsInOrder'
  <2>1. \A n \in 1 .. Len(inbox) : inbox[n].op = "execute" => inbox[n].run \in Runs
    BY InboxTyped DEF TypeOK
  <2> QED
    BY SMTT(30), <2>1, <1>0, <1>6, <1>10, <1>11 DEF RequestsInOrder, InOrder
<1>14. DispatchOnTrack'
  <2>1. SUFFICES ASSUME NEW q \in Runs
                 PROVE  /\ at[q] \in Plan(q)
                        /\ \A j \in 1 .. at[q] - 1 : dispatch'[q][j] = "executed"
                        /\ stage'[q] \in {"reserved", "asked", "answered"}
                             => dispatch'[q][at[q]] = "authorized"
                        /\ stage'[q] = "answered" => answer[q] # "none"
                        /\ stage'[q] = "answered" /\ answer[q] = "executed"
                             => effects[<<q, at[q]>>] = 1
                        /\ \A i \in Plan(q) : dispatch'[q][i] = "executed" => effects[<<q, i>>] = 1
    BY <1>0 DEF DispatchOnTrack
  <2>2. /\ at[q] \in Plan(q)
        /\ \A j \in 1 .. at[q] - 1 : dispatch[q][j] = "executed"
        /\ stage[q] \in {"reserved", "asked", "answered"} => dispatch[q][at[q]] = "authorized"
        /\ stage[q] = "answered" => answer[q] # "none"
        /\ stage[q] = "answered" /\ answer[q] = "executed" => effects[<<q, at[q]>>] = 1
        /\ \A i \in Plan(q) : dispatch[q][i] = "executed" => effects[<<q, i>>] = 1
    BY DEF DispatchOnTrack
  <2> HIDE DEF TaskForceInvariant
  <2>3. \A j \in 1 .. at[q] - 1 : dispatch'[q][j] = "executed"
    BY <2>2, <1>10, <1>11
  <2>4. stage'[q] \in {"reserved", "asked", "answered"} => dispatch'[q][at[q]] = "authorized"
    BY <2>2, <1>3, <1>4
  <2>5. stage'[q] = "answered" => stage[q] = "answered"
    BY <1>3
  <2>6. \A i \in Plan(q) : dispatch'[q][i] = "executed" => effects[<<q, i>>] = 1
    BY <2>2, <1>6, <1>10
  <2> QED
    BY <2>2, <2>3, <2>4, <2>5, <2>6
<1> QED
  BY <1>7, <1>8, <1>9, <1>12, <1>13, <1>14

(* What is asked of the gateway was reserved in its turn.                  *)
LEMMA AskGatewayKeeps ==
  ASSUME PlanShape, Limits, TaskForceInvariant, NEW r \in Runs, AskGateway(r)
  PROVE  TaskForceInvariant'
<1> USE DEF TaskForceInvariant
<1>0. UNCHANGED <<state, desired, grants, dispatch, outboxVars, cancelling, wf, at, tries, told,
                  killFile, nonces, gatewayKilled, effects>>
  BY DEF AskGateway, rowVars, workflowVars
<1>1. WorkflowTypes /\ GatewayTypes /\ stage[r] = "reserved" /\ at[r] \in Nat
  BY DEF TypeOK, AskGateway, WorkflowTypes, Steps
<1>2. inbox' = inbox \/ inbox' = Append(inbox, Request(r, at[r]))
  BY DEF AskGateway
<1>3. /\ stage' \in [Runs -> {"idle", "looked", "reserved", "asked", "answered"}]
      /\ answer' \in [Runs -> {"none", "denied", "unknown", "executed"}]
      /\ faults' \in faults .. MaxFaults
      /\ \A q \in Runs \ {r} : stage'[q] = stage[q] /\ answer'[q] = answer[q]
      /\ stage'[r] = "asked" \/ (stage'[r] = "answered" /\ answer'[r] = "denied")
  <2>1. CASE /\ stage' = [stage EXCEPT ![r] = "asked"]
             /\ UNCHANGED <<answer, faults>>
    BY <2>1, <1>1 DEF WorkflowTypes
  <2>2. CASE Answers(r, "denied") /\ Fault
    BY <2>2, <1>1 DEF WorkflowTypes, Answers, Fault, Limits
  <2> QED
    BY <2>1, <2>2 DEF AskGateway
<1>4. /\ OutboxTypes' /\ OutboxOnTrack'
      /\ AuthorityEndsWithCancel' /\ AbortedIsSealed' /\ AbortOnTrack'
      /\ CompletedMeansProven' /\ CompletionOnTrack'
  <2> HIDE DEF TaskForceInvariant
  <2> QED
    BY <1>0, <1>3, DispatchKeepsRun
<1>5. TypeOK'
  <2>1. WorkflowTypes'
    BY <1>0, <1>1, <1>3 DEF WorkflowTypes
  <2>2. GatewayTypes'
    <3>1. inbox' \in Seq(Messages)
      BY SMTT(30), <1>1, <1>2, MessagesTyped
    <3> QED
      BY <3>1, <1>0, <1>1 DEF GatewayTypes, Messages
  <2> QED
    BY <2>1, <2>2, <1>0, <1>4, CalmTypes DEF TypeOK, rowVars
<1>6. EffectOncePerKey' /\ NoncesRemember' /\ PlanOrder'
  BY <1>0 DEF EffectOncePerKey, NoncesRemember, PlanOrder
<1>7. InOrder(r, at[r])
  BY <1>1 DEF InOrder, DispatchOnTrack
<1>8. RequestsInOrder'
  <2>1. ASSUME NEW n \in 1 .. Len(inbox'), inbox'[n].op = "execute"
        PROVE  \/ n \in 1 .. Len(inbox) /\ inbox'[n] = inbox[n]
               \/ inbox'[n] = Request(r, at[r])
    <3>1. inbox \in Seq(Messages)
      BY <1>1, MessagesTyped
    <3> HIDE DEF Messages
    <3> QED
      BY <2>1, <3>1, <1>2
  <2> QED
    BY <2>1, <1>0, <1>7 DEF RequestsInOrder, InOrder, Request
<1>9. DispatchOnTrack'
  BY <1>0, <1>1, <1>3 DEF DispatchOnTrack
<1> QED
  BY <1>4, <1>5, <1>6, <1>8, <1>9

LEMMA AnswerTimesOutKeeps ==
  ASSUME PlanShape, Limits, TaskForceInvariant, NEW r \in Runs, AnswerTimesOut(r)
  PROVE  TaskForceInvariant'
<1> USE DEF TaskForceInvariant
<1>0. UNCHANGED <<state, desired, grants, dispatch, outboxVars, cancelling, wf, at, tries, told,
                  killFile, inbox, nonces, gatewayKilled, effects>>
  BY DEF AnswerTimesOut, rowVars, workflowVars, gatewayVars
<1>1. WorkflowTypes /\ stage[r] = "asked"
  BY DEF TypeOK, AnswerTimesOut
<1>2. /\ stage' \in [Runs -> {"idle", "looked", "reserved", "asked", "answered"}]
      /\ answer' \in [Runs -> {"none", "denied", "unknown", "executed"}]
      /\ \A q \in Runs \ {r} : stage'[q] = stage[q] /\ answer'[q] = answer[q]
      /\ stage'[r] = "answered" /\ answer'[r] = "unknown"
  BY <1>1 DEF AnswerTimesOut, Answers, WorkflowTypes
<1>3. faults' \in faults .. MaxFaults
  BY <1>1 DEF AnswerTimesOut, WorkflowTypes, Fault, Limits
<1>4. /\ OutboxTypes' /\ OutboxOnTrack'
      /\ AuthorityEndsWithCancel' /\ AbortedIsSealed' /\ AbortOnTrack'
      /\ CompletedMeansProven' /\ CompletionOnTrack'
  <2> HIDE DEF TaskForceInvariant
  <2> QED
    BY <1>0, <1>3, DispatchKeepsRun
<1>5. TypeOK'
  <2>1. WorkflowTypes'
    BY <1>0, <1>1, <1>2, <1>3 DEF WorkflowTypes
  <2> QED
    BY <2>1, <1>0, <1>4, CalmTypes DEF TypeOK, rowVars, gatewayVars
<1>6. EffectOncePerKey' /\ NoncesRemember' /\ PlanOrder' /\ RequestsInOrder'
  BY <1>0 DEF EffectOncePerKey, NoncesRemember, PlanOrder, RequestsInOrder, InOrder
<1>7. DispatchOnTrack'
  BY <1>0, <1>1, <1>2 DEF DispatchOnTrack
<1> QED
  BY <1>4, <1>5, <1>6, <1>7

(* An outcome is written over the reservation it belongs to, and the run   *)
(* moves on only from an action that took effect.                          *)
LEMMA RecordOutcomeKeeps ==
  ASSUME PlanShape, Limits, TaskForceInvariant, NEW r \in Runs, RecordOutcome(r)
  PROVE  TaskForceInvariant'
<1> USE DEF TaskForceInvariant
<1>0. /\ UNCHANGED <<state, desired, grants, outboxVars, cancelling, tries, told,
                     killFile, inbox, nonces, gatewayKilled, effects, faults>>
      /\ stage[r] = "answered"
  BY DEF RecordOutcome, gatewayVars
<1>1. RowTypes /\ WorkflowTypes /\ GatewayTypes
  BY DEF TypeOK
<1>2. /\ at[r] \in Plan(r) /\ at[r] \in Steps
      /\ \A j \in 1 .. at[r] - 1 : dispatch[r][j] = "executed"
      /\ dispatch[r][at[r]] = "authorized"
      /\ answer[r] \in {"denied", "unknown", "executed"}
      /\ answer[r] = "executed" => effects[<<r, at[r]>>] = 1
      /\ \A i \in Plan(r) : dispatch[r][i] = "executed" => effects[<<r, i>>] = 1
  BY <1>0, <1>1 DEF DispatchOnTrack, WorkflowTypes
<1>3. /\ dispatch' \in [Runs -> [Steps -> DispatchStatus]]
      /\ \A q \in Runs \ {r} : dispatch'[q] = dispatch[q]
      /\ dispatch'[r][at[r]] = answer[r]
      /\ \A i \in Steps \ {at[r]} : dispatch'[r][i] = dispatch[r][i]
  <2>1. dispatch' = [dispatch EXCEPT ![r][at[r]] = answer[r]]
    BY DEF RecordOutcome
  <2>2. answer[r] \in DispatchStatus
    BY <1>2 DEF DispatchStatus
  <2> QED
    BY <2>1, <2>2, <1>1, <1>2 DEF RowTypes
<1>4. /\ stage' \in [Runs -> {"idle", "looked", "reserved", "asked", "answered"}]
      /\ answer' \in [Runs -> {"none", "denied", "unknown", "executed"}]
      /\ \A q \in Runs \ {r} : stage'[q] = stage[q] /\ answer'[q] = answer[q]
      /\ stage'[r] = "idle"
  BY <1>1 DEF RecordOutcome, WorkflowTypes
<1>5. /\ wf' \in [Runs -> WorkflowPlace]
      /\ \/ wf'[r] = wf[r]
         \/ /\ wf[r] = "dispatch"
            /\ wf'[r] \in {"cancelling", "revoke", "authorize", "verifying"}
      /\ \A q \in Runs \ {r} : wf'[q] = wf[q]
  <2>1. PICK next \in {wf[r], Onward(r, at[r] + 1), AbortFrom(r)} :
          /\ next = wf[r] \/ wf[r] = "dispatch"
          /\ wf' = wf \/ wf' = [wf EXCEPT ![r] = next]
    BY DEF RecordOutcome
  <2>2. /\ next \in WorkflowPlace
        /\ next = wf[r] \/ next \in {"cancelling", "revoke", "authorize", "verifying"}
    <3>1. wf[r] \in WorkflowPlace
      BY <1>1 DEF WorkflowTypes
    <3>2. /\ {AbortFrom(r), Onward(r, at[r] + 1)} \subseteq WorkflowPlace
          /\ {AbortFrom(r), Onward(r, at[r] + 1)} \subseteq
               {"cancelling", "revoke", "authorize", "verifying"}
      BY Places
    <3> QED
      BY <2>1, <3>1, <3>2
  <2> QED
    BY <2>1, <2>2, <1>1 DEF WorkflowTypes
<1>6. /\ at' \in [Runs -> Steps]
      /\ \A q \in Runs \ {r} : at'[q] = at[q]
      /\ at'[r] \in Plan(r)
      /\ \/ at'[r] = at[r]
         \/ at'[r] = at[r] + 1 /\ answer[r] = "executed"
  <2>1. CASE UNCHANGED at
    BY <2>1, <1>1, <1>2 DEF WorkflowTypes
  <2>2. CASE at[r] < PlanLength[r] /\ at' = [at EXCEPT ![r] = @ + 1] /\ answer[r] = "executed"
    <3>1. at[r] + 1 \in Plan(r)
      BY <2>2, <1>2 DEF Plan, PlanShape, Steps
    <3> QED
      BY <2>2, <3>1, <1>1, PlansFit DEF WorkflowTypes
  <2> QED
    BY <2>1, <2>2 DEF RecordOutcome
<1>7. /\ \A q \in Runs : \A i \in Steps : dispatch[q][i] # "none" => dispatch'[q][i] # "none"
      /\ \A q \in Runs : \A i \in Steps : dispatch[q][i] = "executed" => dispatch'[q][i] = "executed"
  BY <1>2, <1>3
<1>8. \A q \in Runs : \A i \in Plan(q) : i \in Steps /\ 1 .. i - 1 \subseteq Steps
  BY PlansFit
<1>9. /\ OutboxTypes' /\ OutboxOnTrack'
      /\ AuthorityEndsWithCancel' /\ AbortedIsSealed' /\ AbortOnTrack'
      /\ CompletedMeansProven' /\ CompletionOnTrack'
  <2>1. \A q \in Runs : \A i \in Plan(q) : dispatch[q][i] = "executed" => dispatch'[q][i] = "executed"
    BY <1>7, <1>8
  <2> HIDE DEF TaskForceInvariant
  <2> QED
    BY <2>1, <1>0, <1>5, DispatchKeepsRun
<1>10. TypeOK'
  <2>1. RowTypes' /\ WorkflowTypes'
    BY <1>0, <1>1, <1>3, <1>4, <1>5, <1>6 DEF RowTypes, WorkflowTypes
  <2> QED
    BY <2>1, <1>0, <1>9, CalmTypes DEF TypeOK, gatewayVars
<1>11. EffectOncePerKey' /\ NoncesRemember'
  BY <1>0 DEF EffectOncePerKey, NoncesRemember
<1>12. PlanOrder'
  BY <1>0, <1>7, <1>8 DEF PlanOrder
<1>13. RequestsInOrder'
  <2>1. \A n \in 1 .. Len(inbox) : inbox[n].run \in Runs
    BY <1>1, InboxTyped
  <2> QED
    BY SMTT(30), <2>1, <1>0, <1>7, <1>8 DEF RequestsInOrder, InOrder
<1>14. DispatchOnTrack'
  <2>0. UNCHANGED effects
    BY <1>0
  <2> HIDE DEF TaskForceInvariant
  <2>1. SUFFICES ASSUME NEW q \in Runs
                 PROVE  /\ at'[q] \in Plan(q)
                        /\ \A j \in 1 .. at'[q] - 1 : dispatch'[q][j] = "executed"
                        /\ stage'[q] \in {"reserved", "asked", "answered"}
                             => dispatch'[q][at'[q]] = "authorized"
                        /\ stage'[q] = "answered" => answer'[q] # "none"
                        /\ stage'[q] = "answered" /\ answer'[q] = "executed"
                             => effects'[<<q, at'[q]>>] = 1
                        /\ \A i \in Plan(q) : dispatch'[q][i] = "executed" => effects'[<<q, i>>] = 1
    BY DEF DispatchOnTrack
  <2>2. CASE q # r
    <3>1. /\ at[q] \in Plan(q)
          /\ \A j \in 1 .. at[q] - 1 : dispatch[q][j] = "executed"
          /\ stage[q] \in {"reserved", "asked", "answered"} => dispatch[q][at[q]] = "authorized"
          /\ stage[q] = "answered" => answer[q] # "none"
          /\ stage[q] = "answered" /\ answer[q] = "executed" => effects[<<q, at[q]>>] = 1
          /\ \A i \in Plan(q) : dispatch[q][i] = "executed" => effects[<<q, i>>] = 1
      BY DEF TaskForceInvariant, DispatchOnTrack
    <3>2. dispatch'[q] = dispatch[q] /\ stage'[q] = stage[q] /\ answer'[q] = answer[q] /\ at'[q] = at[q]
      BY <2>2, <1>3, <1>4, <1>6
    <3> QED
      BY <3>1, <3>2, <2>0
  <2>3. CASE q = r
    <3>1. \A j \in 1 .. at'[r] - 1 : j \in Steps /\ (j \in 1 .. at[r] - 1 \/ (j = at[r] /\ answer[r] = "executed"))
      BY <1>2, <1>6, <1>8 DEF Steps
    <3>2. \A j \in 1 .. at'[r] - 1 : dispatch'[r][j] = "executed"
      BY <3>1, <1>2, <1>3
    <3>3. \A i \in Plan(r) : dispatch'[r][i] = "executed" => effects[<<r, i>>] = 1
      BY <1>2, <1>3, <1>8
    <3> QED
      BY <2>3, <2>0, <3>2, <3>3, <1>4, <1>6
  <2> QED
    BY <2>2, <2>3
<1> QED
  BY <1>9, <1>10, <1>11, <1>12, <1>13, <1>14

LEMMA DispatchLostKeeps ==
  ASSUME PlanShape, Limits, TaskForceInvariant, NEW r \in Runs, DispatchLost(r)
  PROVE  TaskForceInvariant'
<1> USE DEF TaskForceInvariant
<1>0. UNCHANGED <<state, desired, grants, dispatch, outboxVars, cancelling, at, tries, told,
                  killFile, inbox, nonces, gatewayKilled, effects>>
  BY DEF DispatchLost, rowVars, gatewayVars
<1>1. WorkflowTypes /\ wf[r] = "dispatch"
  BY DEF TypeOK, DispatchLost
<1>2. /\ wf' \in [Runs -> WorkflowPlace]
      /\ wf'[r] = "failed"
      /\ \A q \in Runs \ {r} : wf'[q] = wf[q]
  BY <1>1 DEF DispatchLost, WorkflowTypes, WorkflowPlace, Over
<1>3. faults' \in faults .. MaxFaults
  BY <1>1 DEF DispatchLost, WorkflowTypes, Fault, Limits
<1>4. /\ stage' \in [Runs -> {"idle", "looked", "reserved", "asked", "answered"}]
      /\ answer' \in [Runs -> {"none", "denied", "unknown", "executed"}]
      /\ \A q \in Runs : \/ stage'[q] = "idle"
                         \/ stage'[q] = stage[q] /\ answer'[q] = answer[q]
  BY <1>1 DEF DispatchLost, WorkflowTypes
<1>5. /\ OutboxTypes' /\ OutboxOnTrack'
      /\ AuthorityEndsWithCancel' /\ AbortedIsSealed' /\ AbortOnTrack'
      /\ CompletedMeansProven' /\ CompletionOnTrack'
  <2> HIDE DEF TaskForceInvariant
  <2> QED
    BY <1>0, <1>1, <1>2, <1>3, DispatchKeepsRun
<1>6. TypeOK'
  <2>1. WorkflowTypes'
    BY <1>0, <1>1, <1>2, <1>3, <1>4 DEF WorkflowTypes
  <2> QED
    BY <2>1, <1>0, <1>5, CalmTypes DEF TypeOK, rowVars, gatewayVars
<1>7. EffectOncePerKey' /\ NoncesRemember' /\ PlanOrder' /\ RequestsInOrder'
  BY <1>0 DEF EffectOncePerKey, NoncesRemember, PlanOrder, RequestsInOrder, InOrder
<1>8. DispatchOnTrack'
  BY <1>0, <1>4 DEF DispatchOnTrack
<1> QED
  BY <1>5, <1>6, <1>7, <1>8

-----------------------------------------------------------------------------
(* The gateway.                                                            *)

(* Serving the first request leaves the others as they were.               *)
LEMMA Served ==
  ASSUME GatewayTypes, inbox # <<>>, inbox' = Tail(inbox)
  PROVE  /\ Head(inbox) = inbox[1] /\ 1 \in 1 .. Len(inbox)
         /\ inbox' \in Seq(Messages)
         /\ \A n \in 1 .. Len(inbox') : n + 1 \in 1 .. Len(inbox) /\ inbox'[n] = inbox[n + 1]
<1>1. inbox \in Seq(Messages)
  BY DEF GatewayTypes, Messages
<1> HIDE DEF Messages
<1> QED
  BY <1>1

LEMMA GatewayKillsKeeps ==
  ASSUME PlanShape, Limits, TaskForceInvariant, GatewayKills
  PROVE  TaskForceInvariant'
<1> USE DEF TaskForceInvariant
<1>0. UNCHANGED <<state, desired, grants, dispatch, outboxVars, cancelling, wf, at, tries, told,
                  stage, answer, killFile, nonces, effects, faults>>
  BY DEF GatewayKills, rowVars, workflowVars, dispatchVars
<1>1. GatewayTypes /\ inbox # <<>> /\ inbox' = Tail(inbox)
  BY DEF TypeOK, GatewayKills
<1>2. /\ OutboxTypes' /\ OutboxOnTrack'
      /\ AuthorityEndsWithCancel' /\ AbortedIsSealed' /\ AbortOnTrack'
      /\ CompletedMeansProven' /\ CompletionOnTrack'
  <2> HIDE DEF TaskForceInvariant
  <2> QED
    BY <1>0, DispatchKeepsRun
<1>3. TypeOK'
  <2>1. gatewayKilled' \subseteq Missions
    <3>1. Head(inbox).run \in Runs
      BY <1>1, Served, InboxTyped
    <3> QED
      BY <3>1, <1>1 DEF GatewayKills, GatewayTypes, PlanShape
  <2>2. GatewayTypes'
    BY <2>1, <1>0, <1>1, Served DEF GatewayTypes, Messages
  <2> QED
    BY <2>2, <1>0, <1>2, CalmTypes DEF TypeOK, rowVars, workflowVars, dispatchVars
<1>4. EffectOncePerKey' /\ NoncesRemember' /\ PlanOrder' /\ DispatchOnTrack'
  BY <1>0 DEF EffectOncePerKey, NoncesRemember, PlanOrder, DispatchOnTrack
<1>5. RequestsInOrder'
  BY <1>0, <1>1, Served DEF RequestsInOrder, InOrder
<1> QED
  BY <1>2, <1>3, <1>4, <1>5

LEMMA GatewayRestartsKeeps ==
  ASSUME PlanShape, Limits, TaskForceInvariant, GatewayRestarts
  PROVE  TaskForceInvariant'
<1> USE DEF TaskForceInvariant
<1>0. UNCHANGED <<state, desired, grants, dispatch, outboxVars, cancelling, wf, at, tries, told,
                  stage, answer, killFile, nonces, effects>>
  BY DEF GatewayRestarts, rowVars, workflowVars, dispatchVars
<1>1. inbox' = <<>> /\ gatewayKilled' = {} /\ WorkflowTypes /\ GatewayTypes /\ Fault
  BY DEF TypeOK, GatewayRestarts
<1>6. faults' \in faults .. MaxFaults
  BY <1>1 DEF Fault, WorkflowTypes, Limits
<1>2. /\ OutboxTypes' /\ OutboxOnTrack'
      /\ AuthorityEndsWithCancel' /\ AbortedIsSealed' /\ AbortOnTrack'
      /\ CompletedMeansProven' /\ CompletionOnTrack'
  <2> HIDE DEF TaskForceInvariant
  <2> QED
    BY <1>0, <1>6, DispatchKeepsRun
<1>3. TypeOK'
  <2>1. WorkflowTypes'
    BY <1>0, <1>1, <1>6 DEF WorkflowTypes
  <2>2. GatewayTypes'
    BY <1>0, <1>1 DEF GatewayTypes
  <2> QED
    BY <2>1, <2>2, <1>0, <1>2, CalmTypes DEF TypeOK, rowVars
<1>4. EffectOncePerKey' /\ NoncesRemember' /\ PlanOrder' /\ DispatchOnTrack'
  BY <1>0 DEF EffectOncePerKey, NoncesRemember, PlanOrder, DispatchOnTrack
<1>5. RequestsInOrder'
  BY <1>1 DEF RequestsInOrder
<1> QED
  BY <1>2, <1>3, <1>4, <1>5

(* An action takes effect only on a key the gateway has not seen, so its   *)
(* effect is the first one under that key; what is answered is true of it. *)
LEMMA ExecutionMoves ==
  ASSUME PlanShape, Limits, TypeOK, EffectOncePerKey, NoncesRemember, RequestsInOrder,
         GatewayExecutes,
         NEW m, m = Head(inbox), NEW x, x = <<m.run, m.step>>
  PROVE  /\ m.run \in Runs /\ x \in Runs \X Steps /\ InOrder(m.run, m.step)
         /\ nonces \subseteq nonces' /\ nonces' \subseteq Keys
         /\ faults' \in faults .. MaxFaults
         /\ \/ UNCHANGED effects
            \/ /\ KeyOf[x] \notin nonces /\ KeyOf[x] \in nonces'
               /\ effects[x] = 0 /\ effects' = [effects EXCEPT ![x] = 1]
         /\ \/ UNCHANGED dispatchVars
            \/ /\ stage[m.run] = "asked" /\ at[m.run] = m.step
               /\ \/ Answers(m.run, "denied")
                  \/ Answers(m.run, "executed") /\ effects'[x] = 1
<1>0. GatewayTypes /\ WorkflowTypes /\ inbox # <<>> /\ inbox' = Tail(inbox) /\ m.op = "execute"
  BY DEF TypeOK, GatewayExecutes
<1>1. m = inbox[1] /\ 1 \in 1 .. Len(inbox)
  BY <1>0, Served
<1>2. m.run \in Runs
  BY <1>0, <1>1, InboxTyped
<1>3. InOrder(m.run, m.step)
  BY <1>0, <1>1 DEF RequestsInOrder
<1>4. x \in Runs \X Steps
  BY <1>2, <1>3, PlansFit DEF InOrder
<1>5. KeyOf[x] \in Keys
  BY <1>4 DEF PlanShape
<1>6. \A f : f = faults \/ (faults < MaxFaults /\ f = faults + 1) => f \in faults .. MaxFaults
  BY <1>0 DEF WorkflowTypes, Limits
<1>7. CASE Refuses(m)
  <2>1. Replies(m, "denied") /\ UNCHANGED <<nonces, effects>>
    BY <1>7 DEF GatewayExecutes
  <2>2. faults' \in faults .. MaxFaults
    BY <2>1, <1>6 DEF Replies, Fault
  <2> QED
    BY <2>1, <2>2, <1>0, <1>2, <1>3, <1>4 DEF Replies, GatewayTypes
<1>8. CASE ~Refuses(m)
  <2>1. nonces' = nonces \cup {KeyOf[x]} /\ RangeActs(m) /\ KeyOf[x] \notin nonces
    BY <1>8 DEF GatewayExecutes, Refuses
  <2>2. effects[x] = 0 /\ effects \in [Runs \X Steps -> Nat]
    BY <2>1, <1>0, <1>4 DEF NoncesRemember, GatewayTypes
  <2>3. faults' \in faults .. MaxFaults
    BY <2>1, <1>6 DEF RangeActs, Replies, Fault
  <2>4. effects' = effects \/ effects' = [effects EXCEPT ![x] = 1]
    BY <2>1, <2>2 DEF RangeActs
  <2>5. \/ UNCHANGED dispatchVars
        \/ /\ stage[m.run] = "asked" /\ at[m.run] = m.step
           /\ \/ Answers(m.run, "denied")
              \/ Answers(m.run, "executed") /\ effects' = [effects EXCEPT ![x] = @ + 1]
    BY <2>1 DEF RangeActs, Replies
  <2>6. effects' = [effects EXCEPT ![x] = @ + 1] => effects'[x] = 1
    BY <2>2, <1>4
  <2>7. nonces \subseteq nonces' /\ nonces' \subseteq Keys /\ KeyOf[x] \in nonces'
    BY <2>1, <1>0, <1>5 DEF GatewayTypes
  <2> QED
    BY <2>1, <2>2, <2>3, <2>4, <2>5, <2>6, <2>7, <1>2, <1>3, <1>4
<1> QED
  BY <1>7, <1>8

LEMMA GatewayExecutesKeeps ==
  ASSUME PlanShape, Limits, TaskForceInvariant, GatewayExecutes
  PROVE  TaskForceInvariant'
<1> DEFINE m == Head(inbox)
           x == <<m.run, m.step>>
<1> USE DEF TaskForceInvariant
<1>0. UNCHANGED <<state, desired, grants, dispatch, outboxVars, cancelling, wf, at, tries, told,
                  killFile, gatewayKilled>>
  BY DEF GatewayExecutes, rowVars, workflowVars
<1>1. GatewayTypes /\ WorkflowTypes /\ inbox # <<>> /\ inbox' = Tail(inbox)
  BY DEF TypeOK, GatewayExecutes
<1>2. /\ m.run \in Runs /\ x \in Runs \X Steps /\ InOrder(m.run, m.step)
      /\ nonces \subseteq nonces' /\ nonces' \subseteq Keys
      /\ faults' \in faults .. MaxFaults
      /\ \/ UNCHANGED effects
         \/ /\ KeyOf[x] \notin nonces /\ KeyOf[x] \in nonces'
            /\ effects[x] = 0 /\ effects' = [effects EXCEPT ![x] = 1]
      /\ \/ UNCHANGED dispatchVars
         \/ /\ stage[m.run] = "asked" /\ at[m.run] = m.step
            /\ \/ Answers(m.run, "denied")
               \/ Answers(m.run, "executed") /\ effects'[x] = 1
  BY ExecutionMoves
<1> HIDE DEF m
<1>3. /\ effects' \in [Runs \X Steps -> Nat]
      /\ \A y \in Runs \X Steps : y # x => effects'[y] = effects[y]
      /\ effects'[x] = effects[x] \/ (effects[x] = 0 /\ effects'[x] = 1 /\ KeyOf[x] \notin nonces)
  <2>1. effects \in [Runs \X Steps -> Nat] /\ x \in Runs \X Steps
    BY <1>1, <1>2 DEF GatewayTypes
  <2> HIDE DEF x
  <2> QED
    BY <2>1, <1>2
<1>4. \A y \in Runs \X Steps : effects[y] = 1 => effects'[y] = 1
  BY <1>3
<1>5. /\ stage' \in [Runs -> {"idle", "looked", "reserved", "asked", "answered"}]
      /\ answer' \in [Runs -> {"none", "denied", "unknown", "executed"}]
      /\ \A q \in Runs :
           \/ stage'[q] = stage[q] /\ answer'[q] = answer[q]
           \/ /\ q = m.run /\ stage[q] = "asked" /\ at[q] = m.step /\ stage'[q] = "answered"
              /\ answer'[q] = "denied" \/ (answer'[q] = "executed" /\ effects'[x] = 1)
  BY <1>1, <1>2 DEF WorkflowTypes, Answers, dispatchVars
<1>6. /\ OutboxTypes' /\ OutboxOnTrack'
      /\ AuthorityEndsWithCancel' /\ AbortedIsSealed' /\ AbortOnTrack'
      /\ CompletedMeansProven' /\ CompletionOnTrack'
  <2> HIDE DEF TaskForceInvariant
  <2> QED
    BY <1>0, <1>2, <1>4, DispatchKeepsRun
<1>7. TypeOK'
  <2>1. WorkflowTypes'
    BY <1>0, <1>1, <1>2, <1>5 DEF WorkflowTypes
  <2>2. GatewayTypes'
    BY <1>0, <1>1, <1>2, <1>3, Served DEF GatewayTypes, Messages
  <2> QED
    BY <2>1, <2>2, <1>0, <1>6, CalmTypes DEF TypeOK, rowVars
<1>8. EffectOncePerKey'
  <2>1. SUFFICES ASSUME NEW y \in Runs \X Steps, NEW z \in Runs \X Steps
                 PROVE  /\ effects'[y] <= 1
                        /\ y # z /\ KeyOf[y] = KeyOf[z] => effects'[y] = 0 \/ effects'[z] = 0
    BY DEF EffectOncePerKey
  <2>2. /\ effects[y] <= 1 /\ effects[y] \in Nat /\ effects[z] \in Nat
        /\ y # z /\ KeyOf[y] = KeyOf[z] => effects[y] = 0 \/ effects[z] = 0
        /\ effects[y] > 0 => KeyOf[y] \in nonces
        /\ effects[z] > 0 => KeyOf[z] \in nonces
    BY <1>1 DEF EffectOncePerKey, NoncesRemember, GatewayTypes
  <2> HIDE DEF TaskForceInvariant
  <2> HIDE DEF x
  <2> QED
    BY <2>2, <1>3
<1>9. NoncesRemember'
  <2>1. SUFFICES ASSUME NEW y \in Runs \X Steps, effects'[y] > 0
                 PROVE  KeyOf[y] \in nonces'
    BY DEF NoncesRemember
  <2>2. effects[y] > 0 => KeyOf[y] \in nonces
    BY DEF NoncesRemember
  <2> HIDE DEF TaskForceInvariant
  <2> HIDE DEF x
  <2> QED
    BY <2>1, <2>2, <1>2, <1>3
<1>10. PlanOrder'
  <2>1. SUFFICES ASSUME NEW q \in Runs, NEW i \in Plan(q), effects'[<<q, i>>] > 0
                 PROVE  /\ dispatch[q][i] # "none"
                        /\ \A j \in 1 .. i - 1 : dispatch[q][j] = "executed"
    BY <1>0 DEF PlanOrder
  <2>2. <<q, i>> \in Runs \X Steps
    BY PlansFit
  <2>3. CASE <<q, i>> = x
    <3>1. q = m.run /\ i = m.step
      BY <2>3
    <3> QED
      BY <3>1, <1>2 DEF InOrder
  <2>4. CASE <<q, i>> # x
    <3>1. effects[<<q, i>>] > 0
      BY <2>1, <2>2, <2>4, <1>3
    <3> QED
      BY <3>1 DEF PlanOrder
  <2> QED
    BY <2>3, <2>4
<1>11. RequestsInOrder'
  BY <1>0, <1>1, Served DEF RequestsInOrder, InOrder
<1>12. DispatchOnTrack'
  <2>1. SUFFICES ASSUME NEW q \in Runs
                 PROVE  /\ at[q] \in Plan(q)
                        /\ \A j \in 1 .. at[q] - 1 : dispatch[q][j] = "executed"
                        /\ stage'[q] \in {"reserved", "asked", "answered"}
                             => dispatch[q][at[q]] = "authorized"
                        /\ stage'[q] = "answered" => answer'[q] # "none"
                        /\ stage'[q] = "answered" /\ answer'[q] = "executed"
                             => effects'[<<q, at[q]>>] = 1
                        /\ \A i \in Plan(q) : dispatch[q][i] = "executed" => effects'[<<q, i>>] = 1
    BY <1>0 DEF DispatchOnTrack
  <2>2. /\ at[q] \in Plan(q)
        /\ \A j \in 1 .. at[q] - 1 : dispatch[q][j] = "executed"
        /\ stage[q] \in {"reserved", "asked", "answered"} => dispatch[q][at[q]] = "authorized"
        /\ stage[q] = "answered" => answer[q] # "none"
        /\ stage[q] = "answered" /\ answer[q] = "executed" => effects[<<q, at[q]>>] = 1
        /\ \A i \in Plan(q) : dispatch[q][i] = "executed" => effects[<<q, i>>] = 1
    BY DEF DispatchOnTrack
  <2> HIDE DEF TaskForceInvariant
  <2>3. \A i \in Plan(q) : <<q, i>> \in Runs \X Steps
    BY PlansFit
  <2>4. \A i \in Plan(q) : dispatch[q][i] = "executed" => effects'[<<q, i>>] = 1
    BY <2>2, <2>3, <1>4
  <2>5. CASE stage'[q] = stage[q] /\ answer'[q] = answer[q]
    BY <2>2, <2>3, <2>4, <2>5, <1>4
  <2>6. CASE /\ q = m.run /\ stage[q] = "asked" /\ at[q] = m.step /\ stage'[q] = "answered"
             /\ answer'[q] = "denied" \/ (answer'[q] = "executed" /\ effects'[x] = 1)
    BY <2>2, <2>4, <2>6
  <2> QED
    BY <2>5, <2>6, <1>5
<1> QED
  BY <1>6, <1>7, <1>8, <1>9, <1>10, <1>11, <1>12

-----------------------------------------------------------------------------
(* The theorems.                                                           *)

LEMMA StutterKeeps ==
  ASSUME TaskForceInvariant, UNCHANGED vars
  PROVE  TaskForceInvariant'
<1> USE DEF TaskForceInvariant
<1>0. UNCHANGED <<rowVars, outboxVars, cancelling, workflowVars, dispatchVars,
                  killFile, gatewayVars, faults>>
  BY DEF vars
<1>1. TypeOK'
  BY <1>0, CalmTypes DEF TypeOK
<1>2. AuthorityEndsWithCancel' /\ AbortedIsSealed' /\ AbortOnTrack' /\ OutboxOnTrack'
  BY <1>0 DEF AuthorityEndsWithCancel, AbortedIsSealed, AbortOnTrack, OutboxOnTrack, Waited, Killed,
              rowVars, workflowVars, outboxVars
<1> QED
  BY <1>0, <1>1, <1>2, CalmDispatch, CalmCompletion
     DEF rowVars, workflowVars, dispatchVars, gatewayVars

LEMMA NextKeeps ==
  ASSUME PlanShape, Limits, TaskForceInvariant, [Next]_vars
  PROVE  TaskForceInvariant'
<1>1. ASSUME NEW r \in Runs, Creator(r) \/ Deliver(r) PROVE TaskForceInvariant'
  BY <1>1, StartRunKeeps, CancelReadsKeeps, CancelWritesKeeps, DeliverStartKeeps, DeliverCancelKeeps
     DEF Creator, Deliver
<1>2. ASSUME NEW r \in Runs, WorkflowStep(r) PROVE TaskForceInvariant'
  BY <1>2, RecordingKeeps, AuthorizeKeeps, VerifyKeeps, RevokeRowsKeeps, KillMissionKeeps,
     LookAtKillSwitchKeeps, ReserveKeeps, AskGatewayKeeps, RecordOutcomeKeeps
     DEF WorkflowStep
<1>3. ASSUME NEW r \in Runs, ActivityFails(r) \/ AnswerTimesOut(r) \/ DispatchLost(r)
      PROVE  TaskForceInvariant'
  BY <1>3, ActivityFailsKeeps, AnswerTimesOutKeeps, DispatchLostKeeps
<1>4. CASE GatewayExecutes \/ GatewayKills \/ GatewayRestarts
  BY <1>4, GatewayExecutesKeeps, GatewayKillsKeeps, GatewayRestartsKeeps
<1>5. CASE UNCHANGED vars
  BY <1>5, StutterKeeps
<1> QED
  BY <1>1, <1>2, <1>3, <1>4, <1>5 DEF Next, RunStep

(* TaskForceInvariant holds in every reachable state, whatever the runs,   *)
(* plans, keys and limits (src/backend/app/security_task_force).           *)
THEOREM TaskForceInvariantHolds == Spec => []TaskForceInvariant
<1>1. Init => TaskForceInvariant
  BY PlanShape, Limits, InitInvariant
<1>2. TaskForceInvariant /\ [Next]_vars => TaskForceInvariant'
  BY PlanShape, Limits, NextKeeps
<1> QED
  BY <1>1, <1>2, PTL DEF Spec

(* The rows, the outbox, the workflow and the gateway stay of their types. *)
THEOREM TypeCorrect == Spec => []TypeOK
<1>1. TaskForceInvariant => TypeOK
  BY DEF TaskForceInvariant
<1> QED
  BY <1>1, TaskForceInvariantHolds, PTL

(* An idempotency key takes effect at most once, across retries, gateway   *)
(* restarts and runs that share it (FileReplayStore, reserve_dispatch).    *)
THEOREM KeyTakesEffectOnce == Spec => []EffectOncePerKey
<1>1. TaskForceInvariant => EffectOncePerKey
  BY DEF TaskForceInvariant
<1> QED
  BY <1>1, TaskForceInvariantHolds, PTL

(* A run is COMPLETED only with every action of its plan in effect and on  *)
(* record, and never after a cancel (verify_run_evidence, set_run_state).  *)
THEOREM CompletionIsProven == Spec => []CompletedMeansProven
<1>1. TaskForceInvariant => CompletedMeansProven
  BY DEF TaskForceInvariant
<1> QED
  BY <1>1, TaskForceInvariantHolds, PTL

(* Effects follow the plan, each one reserved (workflows.run).             *)
THEOREM EffectsFollowPlan == Spec => []PlanOrder
<1>1. TaskForceInvariant => PlanOrder
  BY DEF TaskForceInvariant
<1> QED
  BY <1>1, TaskForceInvariantHolds, PTL

(* Neither a cancelled nor an aborted run has a grant left to spend, and   *)
(* an aborted one has dispatch stopped for its Mission (revoke_run).       *)
THEOREM NoAuthorityLeft == Spec => [](AuthorityEndsWithCancel /\ AbortedIsSealed)
<1>1. TaskForceInvariant => AuthorityEndsWithCancel /\ AbortedIsSealed
  BY DEF TaskForceInvariant
<1> QED
  BY <1>1, TaskForceInvariantHolds, PTL

(* A run comes under way at the gateway only through a reservation, which  *)
(* the cancelled run is refused.                                           *)
UnderWayStage == {"reserved", "asked", "answered"}

LEMMA ComesUnderWay ==
  ASSUME \A r \in Runs : stage'[r] \in UnderWayStage => stage[r] \in UnderWayStage \/ desired[r] = "RUN",
         \A n \in 1 .. Len(inbox') : inbox'[n].op = "execute" =>
           \/ stage[inbox'[n].run] = "reserved"
           \/ \E k \in 1 .. Len(inbox) : inbox[k] = inbox'[n]
  PROVE  \A r \in Runs : UnderWay(r)' => UnderWay(r) \/ desired[r] = "RUN"
BY DEF UnderWay, UnderWayStage

LEMMA QuietSteps ==
  ASSUME TypeOK, NEW r \in Runs, RunStep(r)
  PROVE  /\ \A q \in Runs : stage'[q] \in UnderWayStage =>
              stage[q] \in UnderWayStage \/ desired[q] = "RUN"
         /\ \A n \in 1 .. Len(inbox') : inbox'[n].op = "execute" =>
              \/ stage[inbox'[n].run] = "reserved"
              \/ \E k \in 1 .. Len(inbox) : inbox[k] = inbox'[n]
<1>0. /\ stage \in [Runs -> {"idle", "looked", "reserved", "asked", "answered"}]
      /\ inbox \in Seq(Messages) /\ GatewayTypes
  BY DEF TypeOK, WorkflowTypes, GatewayTypes, Messages
<1>1. CASE UNCHANGED <<stage, inbox>>
  BY <1>1
<1>2. CASE Creator(r) \/ Deliver(r) \/ ActivityFails(r)
  BY <1>1, <1>2 DEF Creator, Deliver, StartRun, CancelReads, CancelWrites, DeliverStart,
                    DeliverCancel, ActivityFails, dispatchVars, gatewayVars
<1>3. CASE \/ RecordRunning(r) \/ RecordVerifying(r) \/ RecordCompleted(r)
           \/ RecordCancelling(r) \/ RecordAborted(r)
           \/ Authorize(r) \/ Verify(r) \/ RevokeRows(r)
  BY <1>1, <1>3 DEF RecordRunning, RecordVerifying, RecordCompleted, RecordCancelling,
                    RecordAborted, Record, Authorize, Granted, Verify, RevokeRows, dispatchVars, gatewayVars
<1>4. CASE KillMission(r)
  <2>1. UNCHANGED stage /\ (inbox' = inbox \/ inbox' = Append(inbox, KillMessage(r)))
    BY <1>4 DEF KillMission, dispatchVars
  <2>2. KillMessage(r).op = "kill"
    BY DEF KillMessage
  <2> HIDE DEF Messages
  <2>3. \A n \in 1 .. Len(inbox') :
          inbox'[n] = KillMessage(r) \/ (n \in 1 .. Len(inbox) /\ inbox[n] = inbox'[n])
    BY <2>1, <1>0
  <2> QED
    BY <2>1, <2>2, <2>3
<1>5. CASE LookAtKillSwitch(r) \/ Reserve(r) \/ AnswerTimesOut(r) \/ RecordOutcome(r) \/ DispatchLost(r)
  <2>1. UNCHANGED inbox
    BY <1>5 DEF LookAtKillSwitch, Reserve, AnswerTimesOut, RecordOutcome, DispatchLost, gatewayVars
  <2>2. \A q \in Runs : stage'[q] \in UnderWayStage => stage[q] \in UnderWayStage \/ desired[q] = "RUN"
    BY <1>0, <1>5 DEF LookAtKillSwitch, Reserve, Reservable, Spendable, AnswerTimesOut, Answers,
                      RecordOutcome, DispatchLost, UnderWayStage
  <2> QED
    BY <2>1, <2>2
<1>6. CASE AskGateway(r)
  <2>1. /\ stage[r] = "reserved"
        /\ \A q \in Runs \ {r} : stage'[q] = stage[q]
        /\ inbox' = inbox \/ inbox' = Append(inbox, Request(r, at[r]))
    BY <1>0, <1>6 DEF AskGateway, Answers
  <2>2. Request(r, at[r]).run = r
    BY DEF Request
  <2> HIDE DEF Messages
  <2>3. \A n \in 1 .. Len(inbox') :
          inbox'[n] = Request(r, at[r]) \/ (n \in 1 .. Len(inbox) /\ inbox[n] = inbox'[n])
    BY <2>1, <1>0
  <2> QED
    BY <2>1, <2>2, <2>3 DEF UnderWayStage
<1> QED
  BY <1>2, <1>3, <1>4, <1>5, <1>6 DEF RunStep, WorkflowStep

LEMMA QuietGateway ==
  ASSUME TypeOK, GatewayExecutes \/ GatewayKills \/ GatewayRestarts
  PROVE  /\ \A q \in Runs : stage'[q] \in UnderWayStage => stage[q] \in UnderWayStage
         /\ \A n \in 1 .. Len(inbox') : \E k \in 1 .. Len(inbox) : inbox[k] = inbox'[n]
<1>0. stage \in [Runs -> {"idle", "looked", "reserved", "asked", "answered"}] /\ GatewayTypes
  BY DEF TypeOK, WorkflowTypes
<1>1. \A q \in Runs : stage'[q] \in UnderWayStage => stage[q] \in UnderWayStage
  <2>1. \/ UNCHANGED stage
        \/ LET m == Head(inbox)
           IN  stage[m.run] = "asked" /\ stage' = [stage EXCEPT ![m.run] = "answered"]
    BY DEF GatewayExecutes, GatewayKills, GatewayRestarts, RangeActs, Replies, Answers, dispatchVars
  <2> QED
    BY <2>1, <1>0 DEF UnderWayStage
<1>2. CASE GatewayRestarts
  BY <1>1, <1>2 DEF GatewayRestarts
<1>3. CASE GatewayExecutes \/ GatewayKills
  <2>1. inbox # <<>> /\ inbox' = Tail(inbox)
    BY <1>3 DEF GatewayExecutes, GatewayKills
  <2> QED
    BY <2>1, <1>0, <1>1, Served
<1> QED
  BY <1>2, <1>3

(* Once cancelled and idle at the gateway, a run sends nothing more, not   *)
(* even from a dispatch the engine gave up on (reserve_dispatch).          *)
THEOREM CancelKeepsQuiet == Spec => CancelStaysQuiet
<1>1. TypeOK /\ [Next]_vars => \A r \in Runs : UnderWay(r)' => UnderWay(r) \/ desired[r] = "RUN"
  <2> SUFFICES ASSUME TypeOK, [Next]_vars
               PROVE  \A r \in Runs : UnderWay(r)' => UnderWay(r) \/ desired[r] = "RUN"
    OBVIOUS
  <2>1. CASE UNCHANGED vars
    BY <2>1 DEF vars, dispatchVars, gatewayVars, UnderWay
  <2>2. CASE \E r \in Runs : RunStep(r)
    BY <2>2, QuietSteps, ComesUnderWay
  <2>3. CASE GatewayExecutes \/ GatewayKills \/ GatewayRestarts
    BY <2>3, QuietGateway, ComesUnderWay
  <2> QED
    BY <2>1, <2>2, <2>3 DEF Next
<1>2. TypeOK /\ [Next]_vars =>
        [\A r \in Runs : desired[r] = "CANCEL" /\ ~UnderWay(r) => ~UnderWay(r)']_vars
  BY <1>1
<1> QED
  BY <1>2, TypeCorrect, PTL DEF Spec, CancelStaysQuiet
=============================================================================
