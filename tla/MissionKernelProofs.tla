------------------------- MODULE MissionKernelProofs -------------------------
(***************************************************************************)
(* Proofs about MissionKernel, for every number of Missions, Tasks,        *)
(* attempts, start requests and worker deaths: KernelInvariant is          *)
(* inductive, its conjuncts are invariants, finished Tasks stay finished,  *)
(* statuses follow the lifecycle, and without start requests the kernel    *)
(* implements MissionPromise.                                              *)
(***************************************************************************)
EXTENDS MissionKernel, TLAPS

-----------------------------------------------------------------------------
(* What a refresh may do to the statuses of Tasks: leave a Task alone,     *)
(* block a PENDING one or ready a PENDING one whose dependencies are done. *)
RefreshOf(st, r) ==
  /\ r \in [Tasks -> TaskStatus]
  /\ \A t \in Tasks :
       \/ r[t] = st[t]
       \/ st[t] = "PENDING" /\ r[t] = "BLOCKED"
       \/ st[t] = "PENDING" /\ r[t] = "READY" /\ \A d \in DependsOn[t] : st[d] = "SUCCEEDED"

(* Refreshed does no more than that, whichever set of Tasks it blocks.     *)
LEMMA RefreshedIsRefresh ==
  ASSUME NEW m \in Missions, NEW st \in [Tasks -> TaskStatus], NEW B \in BlockedSets(st, m)
  PROVE  RefreshOf(st, Refreshed(st, m, B))
BY DEF RefreshOf, Refreshed, BlockedSets, Pending, TasksOf, Satisfied, TaskStatus

(* Distribution does no more than create the rows of one Mission's Tasks.  *)
LEMMA DistributedIsFresh ==
  ASSUME NEW m \in Missions, taskStatus \in [Tasks -> TaskStatus]
  PROVE  /\ DistributedTasks(m) \in [Tasks -> TaskStatus]
         /\ \A t \in Tasks :
              \/ DistributedTasks(m)[t] = taskStatus[t]
              \/ /\ taskStatus[t] = "ABSENT" /\ MissionOf[t] = m
                 /\ \/ DistributedTasks(m)[t] = "PENDING"
                    \/ DistributedTasks(m)[t] = "READY" /\ DependsOn[t] = {}
         /\ \A t \in Tasks : MissionOf[t] = m => DistributedTasks(m)[t] # "ABSENT"
BY DEF DistributedTasks, TaskStatus

-----------------------------------------------------------------------------
(* Steps that leave the Tasks and the worker's place alone.                *)

(* A step that changes neither rows of Tasks nor the worker's place keeps  *)
(* the invariant if it keeps types and manifests nothing unfinished.       *)
LEMMA FrameKeeps ==
  ASSUME KernelInvariant, TypeOK', ManifestedMeansDone',
         UNCHANGED <<taskVars, pc, cur, claimed, result>>
  PROVE  KernelInvariant'
BY DEF KernelInvariant, taskVars, DistributedTogether, Attempted, AttemptLedger,
       NoOrphanedAttempt, ReadyHasBudget, DependenciesFirst, InterruptedStaysBlocked,
       EffectsOnRecord, OpenInvocation

(* Writing a status other than manifested to one Mission manifests nothing.*)
LEMMA SetMissionKeeps ==
  ASSUME KernelInvariant, NEW m \in Missions, NEW s \in MissionStatus, SetMission(m, s),
         s = "manifested" => \A t \in TasksOf(m) : taskStatus[t] = "SUCCEEDED",
         UNCHANGED taskStatus
  PROVE  /\ missionStatus' \in [Missions -> MissionStatus]
         /\ ManifestedMeansDone'
BY DEF KernelInvariant, TypeOK, SetMission, ManifestedMeansDone, TasksOf

(* A RUNNING execution is the latest of a RUNNING Task.                    *)
LEMMA RunningIsAtHand ==
  ASSUME KernelInvariant
  PROVE  \A t \in Tasks, a \in Attempts : execution[t][a] = "RUNNING" =>
           a = attempts[t] /\ taskStatus[t] = "RUNNING"
<1> SUFFICES ASSUME NEW t \in Tasks, NEW a \in Attempts, execution[t][a] = "RUNNING"
             PROVE  a = attempts[t] /\ taskStatus[t] = "RUNNING"
  OBVIOUS
<1>1. a \in Nat /\ attempts[t] \in Nat
  BY Bounds DEF KernelInvariant, TypeOK, Attempts
<1>2. a <= attempts[t] /\ ~(a < attempts[t])
  BY DEF KernelInvariant, AttemptLedger
<1>3. a = attempts[t]
  BY <1>1, <1>2
<1> QED
  BY <1>3 DEF KernelInvariant, AttemptLedger

(* The worker goes from one idle place to another, or dies.                *)
LEMMA IdleKeeps ==
  ASSUME KernelInvariant, TypeOK', ManifestedMeansDone', UNCHANGED taskVars,
         pc' = "down" \/ (pc \notin InFlight \cup {"down"} /\ pc' \notin InFlight)
  PROVE  KernelInvariant'
<1> USE DEF KernelInvariant, taskVars
<1>1. NoOrphanedAttempt'
  BY DEF NoOrphanedAttempt, InFlight
<1>2. EffectsOnRecord'
  BY RunningIsAtHand DEF EffectsOnRecord, OpenInvocation, NoOrphanedAttempt, InFlight
<1>3. DistributedTogether' /\ Attempted' /\ ReadyHasBudget' /\ DependenciesFirst'
  BY DEF DistributedTogether, Attempted, ReadyHasBudget, DependenciesFirst
<1>4. AttemptLedger' /\ InterruptedStaysBlocked'
  BY DEF AttemptLedger, InterruptedStaysBlocked
<1> QED
  BY <1>1, <1>2, <1>3, <1>4

-----------------------------------------------------------------------------
(* The Creator's transitions.                                              *)

LEMMA MoveMissionKeeps ==
  ASSUME KernelInvariant, NEW m \in Missions, NEW target \in MissionStatus,
         MoveMission(m, target)
  PROVE  KernelInvariant'
<1>1. target # "manifested" /\ SetMission(m, target)
  BY DEF MoveMission
<1>2. UNCHANGED <<taskVars, switchVars, workerVars, requestVars, crashes>>
  BY DEF MoveMission
<1>3. missionStatus' \in [Missions -> MissionStatus] /\ ManifestedMeansDone'
  BY <1>1, <1>2, SetMissionKeeps DEF taskVars
<1>4. TypeOK'
  BY <1>2, <1>3 DEF KernelInvariant, TypeOK, taskVars, switchVars, workerVars, requestVars
<1> QED
  BY <1>2, <1>3, <1>4, FrameKeeps DEF workerVars

LEMMA AuthorizeOrExecuteKeeps ==
  ASSUME KernelInvariant, NEW m \in Missions, AuthorizeMission(m) \/ ExecuteMission(m)
  PROVE  KernelInvariant'
<1>1. \E s \in MissionStatus : s # "manifested" /\ SetMission(m, s)
  BY DEF AuthorizeMission, ExecuteMission, MissionStatus
<1>2. UNCHANGED <<taskVars, switchVars, workerVars, requestVars, crashes>>
  BY DEF AuthorizeMission, ExecuteMission
<1>3. missionStatus' \in [Missions -> MissionStatus] /\ ManifestedMeansDone'
  BY <1>1, <1>2, SetMissionKeeps DEF taskVars
<1>4. TypeOK'
  BY <1>2, <1>3 DEF KernelInvariant, TypeOK, taskVars, switchVars, workerVars, requestVars
<1> QED
  BY <1>2, <1>3, <1>4, FrameKeeps DEF workerVars

LEMMA SwitchKeeps ==
  ASSUME KernelInvariant, NEW u \in Universes, SwitchUniverse(u) \/ SwitchAgent(u)
  PROVE  KernelInvariant'
<1>1. UNCHANGED <<missionVars, taskVars, workerVars, requestVars, crashes>>
  BY DEF SwitchUniverse, SwitchAgent
<1>2. TypeOK'
  BY <1>1 DEF KernelInvariant, TypeOK, SwitchUniverse, SwitchAgent, missionVars, taskVars,
              workerVars, requestVars
<1>3. ManifestedMeansDone'
  BY <1>1 DEF KernelInvariant, ManifestedMeansDone, missionVars, taskVars
<1> QED
  BY <1>1, <1>2, <1>3, FrameKeeps DEF workerVars

(* Distribution of one Mission, by a transition or by a start request.     *)
LEMMA DistributionKeeps ==
  ASSUME KernelInvariant, NEW m \in Missions, TypeOK', SetMission(m, "distributed"),
         taskStatus' = DistributedTasks(m),
         UNCHANGED <<attempts, execution, invocation, pc, cur, claimed, result>>
  PROVE  KernelInvariant'
<1> USE DEF KernelInvariant
<1>0. taskStatus \in [Tasks -> TaskStatus]
  BY DEF TypeOK
<1>1. \A t \in Tasks :
        \/ taskStatus'[t] = taskStatus[t]
        \/ /\ taskStatus[t] = "ABSENT" /\ MissionOf[t] = m
           /\ taskStatus'[t] = "PENDING" \/ (taskStatus'[t] = "READY" /\ DependsOn[t] = {})
  BY <1>0, DistributedIsFresh DEF DistributedTasks
<1>2. \A t \in Tasks : MissionOf[t] = m => taskStatus'[t] # "ABSENT"
  BY <1>0, DistributedIsFresh
<1>3. \A t \in Tasks : taskStatus[t] = "ABSENT" => attempts[t] = 0
  BY DEF Attempted
<1>4. DistributedTogether'
  BY <1>1, <1>2 DEF DistributedTogether
<1>5. Attempted'
  BY <1>1, <1>3 DEF Attempted
<1>6. AttemptLedger'
  BY <1>1, <1>3 DEF AttemptLedger, Attempts
<1>7. NoOrphanedAttempt'
  <2>1. claimed \in Tasks \cup {None}
    BY DEF TypeOK
  <2>2. \A t \in Tasks : taskStatus'[t] = "RUNNING" <=> taskStatus[t] = "RUNNING"
    BY <1>1
  <2> QED
    BY <2>1, <2>2 DEF NoOrphanedAttempt
<1>8. ReadyHasBudget'
  BY <1>1, <1>3, Bounds DEF ReadyHasBudget
<1>9. DependenciesFirst'
  BY <1>1, <1>3, PlanShape DEF DependenciesFirst
<1>10. ManifestedMeansDone'
  BY <1>1 DEF ManifestedMeansDone, SetMission, TasksOf, TypeOK
<1>11. InterruptedStaysBlocked' /\ EffectsOnRecord'
  BY <1>1 DEF InterruptedStaysBlocked, EffectsOnRecord, OpenInvocation
<1> QED
  BY <1>4, <1>5, <1>6, <1>7, <1>8, <1>9, <1>10, <1>11

LEMMA DistributeMissionKeeps ==
  ASSUME KernelInvariant, NEW m \in Missions, DistributeMission(m)
  PROVE  KernelInvariant'
<1>1. /\ SetMission(m, "distributed") /\ taskStatus' = DistributedTasks(m)
      /\ UNCHANGED <<attempts, execution, invocation, switchVars, workerVars, requestVars, crashes>>
  BY DEF DistributeMission
<1>2. taskStatus' \in [Tasks -> TaskStatus]
  BY <1>1, DistributedIsFresh DEF KernelInvariant, TypeOK
<1>3. TypeOK'
  BY <1>1, <1>2 DEF KernelInvariant, TypeOK, SetMission, MissionStatus, switchVars, workerVars,
                    requestVars
<1> QED
  BY <1>1, <1>3, DistributionKeeps DEF workerVars

-----------------------------------------------------------------------------
(* Start requests.                                                         *)

LEMMA RequestFrameKeeps ==
  ASSUME KernelInvariant, NEW r \in StartRequests, NEW m \in Missions,
         BeginStart(r, m) \/ StartAborts(r)
  PROVE  KernelInvariant'
<1>1. UNCHANGED <<missionVars, taskVars, switchVars, workerVars, crashes>>
  BY DEF BeginStart, StartAborts
<1>2. TypeOK'
  BY <1>1 DEF KernelInvariant, TypeOK, BeginStart, StartAborts, missionVars, taskVars,
              switchVars, workerVars
<1>3. ManifestedMeansDone'
  BY <1>1 DEF KernelInvariant, ManifestedMeansDone, missionVars, taskVars
<1> QED
  BY <1>1, <1>2, <1>3, FrameKeeps DEF workerVars

LEMMA StartMovesKeep ==
  ASSUME KernelInvariant, NEW r \in StartRequests, NEW m \in Missions,
         StartAuthorizes(r, m) \/ StartExecutes(r, m)
  PROVE  KernelInvariant'
<1>1. \E s \in MissionStatus : s # "manifested" /\ SetMission(m, s)
  BY DEF StartAuthorizes, StartExecutes, MissionStatus
<1>2. UNCHANGED <<taskVars, switchVars, workerVars, crashes>>
  BY DEF StartAuthorizes, StartExecutes
<1>3. missionStatus' \in [Missions -> MissionStatus] /\ ManifestedMeansDone'
  BY <1>1, <1>2, SetMissionKeeps DEF taskVars
<1>4. /\ reqMission' \in [StartRequests -> Missions \cup {None}]
      /\ reqCached' \in [StartRequests -> Startable \cup {None}]
  BY DEF KernelInvariant, TypeOK, StartAuthorizes, StartExecutes, Startable
<1>5. TypeOK'
  BY <1>2, <1>3, <1>4 DEF KernelInvariant, TypeOK, taskVars, switchVars, workerVars
<1> QED
  BY <1>2, <1>3, <1>5, FrameKeeps DEF workerVars

LEMMA StartDistributesKeeps ==
  ASSUME KernelInvariant, NEW r \in StartRequests, NEW m \in Missions, StartDistributes(r, m)
  PROVE  KernelInvariant'
<1>1. /\ SetMission(m, "distributed") /\ taskStatus' = DistributedTasks(m)
      /\ reqCached' = [reqCached EXCEPT ![r] = "distributed"]
      /\ UNCHANGED <<attempts, execution, invocation, switchVars, workerVars, reqMission, crashes>>
  BY DEF StartDistributes
<1>2. taskStatus' \in [Tasks -> TaskStatus]
  BY <1>1, DistributedIsFresh DEF KernelInvariant, TypeOK
<1>3. reqCached' \in [StartRequests -> Startable \cup {None}]
  BY <1>1 DEF KernelInvariant, TypeOK, Startable
<1>4. TypeOK'
  BY <1>1, <1>2, <1>3 DEF KernelInvariant, TypeOK, SetMission, MissionStatus, switchVars,
                          workerVars
<1> QED
  BY <1>1, <1>4, DistributionKeeps DEF workerVars

-----------------------------------------------------------------------------
(* The worker between attempts.                                            *)

LEMMA DeathKeeps ==
  ASSUME KernelInvariant, WorkerDies, UNCHANGED <<missionVars, taskVars, switchVars, requestVars>>,
         crashes' \in 0 .. MaxCrashes
  PROVE  KernelInvariant'
<1>1. TypeOK'
  BY DEF KernelInvariant, TypeOK, WorkerDies, missionVars, taskVars, switchVars, requestVars
<1>2. ManifestedMeansDone'
  BY DEF KernelInvariant, ManifestedMeansDone, missionVars, taskVars
<1> QED
  BY <1>1, <1>2, IdleKeeps DEF WorkerDies

LEMMA CrashKeeps ==
  ASSUME KernelInvariant, Crash
  PROVE  KernelInvariant'
<1>1. crashes' \in 0 .. MaxCrashes
  BY Bounds DEF KernelInvariant, TypeOK, Crash
<1> QED
  BY <1>1, DeathKeeps DEF Crash

LEMMA InactiveAgentKeeps ==
  ASSUME KernelInvariant, NEW m \in Missions, NEW t \in Tasks, ClaimInactiveAgent(m, t)
  PROVE  KernelInvariant'
<1>1. WorkerDies /\ UNCHANGED <<missionVars, taskVars, switchVars, requestVars, crashes>>
  BY DEF ClaimInactiveAgent
<1>2. crashes' \in 0 .. MaxCrashes
  BY <1>1 DEF KernelInvariant, TypeOK
<1> QED
  BY <1>1, <1>2, DeathKeeps

LEMMA TakeRoundKeeps ==
  ASSUME KernelInvariant, TakeRound
  PROVE  KernelInvariant'
<1>1. TypeOK'
  BY DEF KernelInvariant, TypeOK, TakeRound, Live, missionVars, taskVars, switchVars, requestVars
<1>2. ManifestedMeansDone'
  BY DEF KernelInvariant, ManifestedMeansDone, TakeRound, missionVars, taskVars
<1> QED
  BY <1>1, <1>2, FrameKeeps DEF TakeRound

LEMMA VisitKeeps ==
  ASSUME KernelInvariant, NEW m \in Missions, StartExecution(m) \/ VisitExecuting(m)
  PROVE  KernelInvariant'
<1>1. /\ pc = "loop" /\ pc' = "claim" /\ cur' = m
      /\ round' = [round EXCEPT ![m] = "none"]
      /\ UNCHANGED <<taskVars, switchVars, claimed, result, requestVars, crashes>>
  BY DEF StartExecution, VisitExecuting
<1>2. missionStatus' \in [Missions -> MissionStatus] /\ ManifestedMeansDone'
  <2>1. CASE StartExecution(m)
    <3>1. missionStatus[m] \in MissionStatus
      BY DEF KernelInvariant, TypeOK
    <3>2. /\ StartedStatus(missionStatus[m]) \in MissionStatus
          /\ StartedStatus(missionStatus[m]) = "manifested" => missionStatus[m] = "manifested"
      BY <3>1 DEF StartedStatus, MissionStatus
    <3>3. missionStatus[m] = "manifested" => \A t \in TasksOf(m) : taskStatus[t] = "SUCCEEDED"
      BY DEF KernelInvariant, ManifestedMeansDone
    <3> QED
      BY <1>1, <2>1, <3>2, <3>3, SetMissionKeeps DEF StartExecution, taskVars
  <2>2. CASE VisitExecuting(m)
    BY <1>1, <2>2 DEF VisitExecuting, missionVars, taskVars, KernelInvariant, TypeOK,
                      ManifestedMeansDone
  <2> QED
    BY <2>1, <2>2
<1>3. TypeOK'
  BY <1>1, <1>2 DEF KernelInvariant, TypeOK, taskVars, switchVars, requestVars
<1> QED
  BY <1>1, <1>2, <1>3, IdleKeeps DEF InFlight

LEMMA EvaluateKeeps ==
  ASSUME KernelInvariant, NEW m \in Missions, EvaluateCompletion(m)
  PROVE  KernelInvariant'
<1> DEFINE s == IF missionStatus[m] = "executing" THEN CompletionTarget(m) ELSE missionStatus[m]
<1>1. /\ SetMission(m, s) /\ pc = "evaluate" /\ pc' = "loop" /\ cur' = None
      /\ UNCHANGED <<taskVars, switchVars, claimed, result, round, requestVars, crashes>>
  BY DEF EvaluateCompletion
<1>2. s \in MissionStatus
  BY DEF CompletionTarget, MissionStatus, KernelInvariant, TypeOK
<1>3. s = "manifested" => \A t \in TasksOf(m) : taskStatus[t] = "SUCCEEDED"
  BY DEF CompletionTarget, KernelInvariant, ManifestedMeansDone
<1> HIDE DEF s
<1>4. missionStatus' \in [Missions -> MissionStatus] /\ ManifestedMeansDone'
  BY <1>1, <1>2, <1>3, SetMissionKeeps DEF taskVars
<1>5. TypeOK'
  BY <1>1, <1>4 DEF KernelInvariant, TypeOK, taskVars, switchVars, requestVars
<1> QED
  BY <1>1, <1>4, <1>5, IdleKeeps DEF InFlight

(* What reconciliation finds: a RUNNING Task is interrupted in its latest  *)
(* attempt and in no other, and no other Task is.                          *)
LEMMA InterruptedIsRunning ==
  ASSUME KernelInvariant, NEW t \in Tasks
  PROVE  /\ Interrupted(t) <=> taskStatus[t] = "RUNNING"
         /\ \A a \in Attempts : execution[t][a] = "RUNNING" => a = attempts[t]
<1>1. /\ attempts[t] \in 0 .. MaxAttempts /\ MaxAttempts \in Nat
      /\ taskStatus[t] = "RUNNING" => attempts[t] \in Attempts
  BY Bounds DEF KernelInvariant, TypeOK, Attempted, Attempts
<1>2. \A a \in Attempts : execution[t][a] = "RUNNING" => a = attempts[t]
  BY <1>1 DEF KernelInvariant, AttemptLedger, Attempts
<1> QED
  BY <1>1, <1>2 DEF KernelInvariant, AttemptLedger, Interrupted

LEMMA ReconcileKeeps ==
  ASSUME KernelInvariant, Reconcile
  PROVE  KernelInvariant'
<1> USE DEF KernelInvariant
<1>1. /\ pc' = "loop" /\ pc = "down"
      /\ UNCHANGED <<missionStatus, attempts, switchVars, cur, claimed, result, round,
                     requestVars, crashes>>
  BY DEF Reconcile, missionVars
<1>2. \A t \in Tasks :
        taskStatus'[t] = IF taskStatus[t] = "RUNNING" THEN ReconciledStatus(t) ELSE taskStatus[t]
  BY InterruptedIsRunning DEF Reconcile
<1>3. \A t \in Tasks :
        /\ ReconciledStatus(t) \in {"BLOCKED", "READY", "FAILED"}
        /\ ReconciledStatus(t) = "READY" => attempts[t] < MaxAttempts
        /\ InterruptedAtMostOnce(t) => ReconciledStatus(t) = "BLOCKED"
  BY DEF ReconciledStatus
<1>4. \A t \in Tasks, a \in Attempts :
        execution'[t][a] = IF execution[t][a] = "RUNNING" THEN "FAILED" ELSE execution[t][a]
  BY DEF Reconcile, ReconciledExecution
<1>5. \A t \in Tasks, a \in Attempts :
        invocation'[t][a] = IF OpenInvocation(t, a) THEN ReconciledInvocation(invocation[t][a])
                            ELSE invocation[t][a]
  BY DEF Reconcile
<1>6. \A t \in Tasks, a \in Attempts : OpenInvocation(t, a) =>
        a = attempts[t] /\ taskStatus[t] = "RUNNING"
  BY RunningIsAtHand DEF OpenInvocation
<1>7. \A t \in Tasks, a \in Attempts : OpenInvocation(t, a) =>
        /\ a = attempts[t] /\ taskStatus[t] = "RUNNING"
        /\ invocation'[t][a].status \in {"INTERRUPTED", "ABORTED"}
        /\ invocation'[t][a].status = "INTERRUPTED" => InterruptedAtMostOnce(t)
  <2> SUFFICES ASSUME NEW t \in Tasks, NEW a \in Attempts, OpenInvocation(t, a)
               PROVE  /\ a = attempts[t] /\ taskStatus[t] = "RUNNING"
                      /\ invocation'[t][a].status \in {"INTERRUPTED", "ABORTED"}
                      /\ invocation'[t][a].status = "INTERRUPTED" => InterruptedAtMostOnce(t)
    OBVIOUS
  <2>1. invocation[t][a] \in [status : InvocationStatus, intent : IntentClasses \cup {"none"}]
    BY DEF TypeOK
  <2>2. a = attempts[t] /\ taskStatus[t] = "RUNNING"
    BY <1>6
  <2>3. invocation'[t][a].status =
          IF RecordedAtMostOnce(invocation[t][a].intent) THEN "INTERRUPTED" ELSE "ABORTED"
    BY <1>5, <2>1 DEF ReconciledInvocation
  <2> QED
    BY <2>2, <2>3 DEF InterruptedAtMostOnce
<1>8. TypeOK'
  <2>1. taskStatus' \in [Tasks -> TaskStatus]
    BY <1>3 DEF Reconcile, TypeOK, TaskStatus
  <2>2. execution' \in [Tasks -> [Attempts -> ExecutionStatus]]
    BY DEF Reconcile, TypeOK, ReconciledExecution, ExecutionStatus
  <2>3. \A t \in Tasks, a \in Attempts :
          ReconciledInvocation(invocation[t][a]) \in
            [status : InvocationStatus, intent : IntentClasses \cup {"none"}]
    <3> SUFFICES ASSUME NEW row \in [status : InvocationStatus, intent : IntentClasses \cup {"none"}]
                 PROVE  ReconciledInvocation(row) \in
                          [status : InvocationStatus, intent : IntentClasses \cup {"none"}]
      BY DEF TypeOK
    <3> QED
      BY DEF ReconciledInvocation, InvocationStatus
  <2>4. invocation' \in [Tasks -> [Attempts ->
          [status : InvocationStatus, intent : IntentClasses \cup {"none"}]]]
    BY <2>3 DEF Reconcile, TypeOK
  <2> QED
    BY <1>1, <2>1, <2>2, <2>4 DEF TypeOK, switchVars, requestVars
<1>9. DistributedTogether'
  BY <1>2, <1>3 DEF DistributedTogether
<1>10. Attempted'
  BY <1>1, <1>2, <1>3 DEF Attempted
<1>11. AttemptLedger'
  BY <1>1, <1>2, <1>3, <1>4 DEF AttemptLedger
<1>12. NoOrphanedAttempt'
  BY <1>1, <1>2, <1>3 DEF NoOrphanedAttempt, InFlight
<1>13. ReadyHasBudget'
  BY <1>1, <1>2, <1>3 DEF ReadyHasBudget
<1>14. DependenciesFirst'
  <2>1. \A t \in Tasks : taskStatus'[t] = "READY" => taskStatus[t] = "READY" \/ attempts[t] > 0
    BY <1>2 DEF Attempted
  <2> QED
    BY <1>1, <1>2, <2>1, PlanShape DEF DependenciesFirst
<1>15. ManifestedMeansDone'
  BY <1>1, <1>2 DEF ManifestedMeansDone, TasksOf
<1>16. InterruptedStaysBlocked'
  BY <1>1, <1>2, <1>3, <1>5, <1>7 DEF InterruptedStaysBlocked
<1>17. EffectsOnRecord'
  <2>1. \A t \in Tasks, a \in Attempts :
          /\ invocation'[t][a].status # "NONE" => a <= attempts'[t]
          /\ execution'[t][a] = "SUCCEEDED" => invocation'[t][a].status \in {"NONE", "SUCCEEDED"}
          /\ ~ OpenInvocation(t, a)'
    <3> SUFFICES ASSUME NEW t \in Tasks, NEW a \in Attempts
                 PROVE  /\ invocation'[t][a].status # "NONE" => a <= attempts'[t]
                        /\ execution'[t][a] = "SUCCEEDED" =>
                             invocation'[t][a].status \in {"NONE", "SUCCEEDED"}
                        /\ ~ OpenInvocation(t, a)'
      OBVIOUS
    <3>1. CASE OpenInvocation(t, a)
      BY <1>1, <1>4, <1>7, <3>1 DEF OpenInvocation, AttemptLedger
    <3>2. CASE ~ OpenInvocation(t, a)
      BY <1>1, <1>4, <1>5, <3>2 DEF OpenInvocation, EffectsOnRecord
    <3> QED
      BY <3>1, <3>2
  <2> QED
    BY <1>1, <2>1 DEF EffectsOnRecord
<1> QED
  BY <1>8, <1>9, <1>10, <1>11, <1>12, <1>13, <1>14, <1>15, <1>16, <1>17

-----------------------------------------------------------------------------
(* The worker at an attempt.                                               *)

(* A refresh, at a place of the worker that keeps no Task RUNNING, keeps   *)
(* every conjunct that speaks of Tasks alone.                              *)
LEMMA ClaimNothingKeeps ==
  ASSUME KernelInvariant, NEW m \in Missions, ClaimNothing(m)
  PROVE  KernelInvariant'
<1> USE DEF KernelInvariant
<1>1. /\ pc = "claim" /\ pc' = "evaluate"
      /\ UNCHANGED <<missionStatus, attempts, execution, invocation, switchVars, cur, claimed,
                     result, round, requestVars, crashes>>
  BY DEF ClaimNothing, missionVars
<1>2. taskStatus \in [Tasks -> TaskStatus]
  BY DEF TypeOK
<1>3. RefreshOf(taskStatus, taskStatus')
  BY <1>2, RefreshedIsRefresh DEF ClaimNothing, RefreshOf
<1>4. TypeOK'
  BY <1>1, <1>3 DEF RefreshOf, TypeOK, switchVars, requestVars
<1>5. \A t \in Tasks : taskStatus[t] = "PENDING" => attempts[t] = 0
  BY DEF Attempted
<1>6. DistributedTogether' /\ Attempted'
  BY <1>1, <1>3 DEF RefreshOf, DistributedTogether, Attempted
<1>7. AttemptLedger'
  BY <1>1, <1>3, <1>5 DEF RefreshOf, AttemptLedger, Attempts
<1>8. NoOrphanedAttempt'
  BY <1>1, <1>3 DEF RefreshOf, NoOrphanedAttempt, InFlight
<1>9. ReadyHasBudget'
  BY <1>1, <1>3, <1>5, Bounds DEF RefreshOf, ReadyHasBudget
<1>10. DependenciesFirst'
  BY <1>1, <1>3, PlanShape DEF RefreshOf, DependenciesFirst
<1>11. ManifestedMeansDone'
  BY <1>1, <1>3 DEF RefreshOf, ManifestedMeansDone, TasksOf
<1>12. InterruptedStaysBlocked' /\ EffectsOnRecord'
  BY <1>1, <1>3 DEF RefreshOf, InterruptedStaysBlocked, EffectsOnRecord, OpenInvocation
<1> QED
  BY <1>4, <1>6, <1>7, <1>8, <1>9, <1>10, <1>11, <1>12

(* What a claim does to the statuses: it refreshes, then takes one Task    *)
(* that is READY by then.                                                  *)
LEMMA ClaimIsRefresh ==
  ASSUME KernelInvariant, NEW m \in Missions, NEW t \in Tasks, ClaimTask(m, t)
  PROVE  \E r : /\ RefreshOf(taskStatus, r) /\ r[t] = "READY"
                /\ taskStatus' = [r EXCEPT ![t] = "RUNNING"]
<1>1. taskStatus \in [Tasks -> TaskStatus]
  BY DEF KernelInvariant, TypeOK
<1> QED
  BY <1>1, RefreshedIsRefresh DEF ClaimTask

LEMMA ClaimTaskKeeps ==
  ASSUME KernelInvariant, NEW m \in Missions, NEW t \in Tasks, ClaimTask(m, t)
  PROVE  KernelInvariant'
<1> USE DEF KernelInvariant
<1>1. /\ pc = "claim" /\ cur = m /\ MissionOf[t] = m /\ attempts[t] < MaxAttempts
      /\ pc' = "inference" /\ claimed' = t
      /\ attempts' = [attempts EXCEPT ![t] = attempts[t] + 1]
      /\ execution' = [execution EXCEPT ![t] =
                         [execution[t] EXCEPT ![attempts[t] + 1] = "RUNNING"]]
      /\ UNCHANGED <<missionStatus, invocation, switchVars, cur, result, round, requestVars,
                     crashes>>
  BY DEF ClaimTask, missionVars
<1>2. PICK r : /\ RefreshOf(taskStatus, r) /\ r[t] = "READY"
               /\ taskStatus' = [r EXCEPT ![t] = "RUNNING"]
  BY ClaimIsRefresh
<1>3. /\ taskStatus'[t] = "RUNNING" /\ taskStatus[t] \in {"READY", "PENDING"}
      /\ \A d \in DependsOn[t] : taskStatus[d] = "SUCCEEDED"
  BY <1>2 DEF RefreshOf, DependenciesFirst
<1>4. \A u \in Tasks : u # t =>
        \/ taskStatus'[u] = taskStatus[u]
        \/ /\ taskStatus[u] = "PENDING" /\ attempts[u] = 0
           /\ \/ taskStatus'[u] = "BLOCKED"
              \/ taskStatus'[u] = "READY" /\ \A d \in DependsOn[u] : taskStatus[d] = "SUCCEEDED"
  BY <1>2 DEF RefreshOf, Attempted
<1>5. attempts[t] \in Nat /\ attempts'[t] = attempts[t] + 1 /\ attempts[t] + 1 \in Attempts
  BY <1>1, Bounds DEF TypeOK, Attempts
<1>6. \A u \in Tasks : u # t => attempts'[u] = attempts[u] /\ execution'[u] = execution[u]
  BY <1>1 DEF TypeOK
<1>7. \A a \in Attempts :
        execution'[t][a] = IF a = attempts[t] + 1 THEN "RUNNING" ELSE execution[t][a]
  BY <1>1 DEF TypeOK
<1>8. \A u \in Tasks : taskStatus[u] # "RUNNING"
  BY <1>1 DEF NoOrphanedAttempt, InFlight
<1>9. TypeOK'
  <2>1. taskStatus' \in [Tasks -> TaskStatus]
    BY <1>2 DEF RefreshOf, TaskStatus
  <2>2. attempts' \in [Tasks -> 0 .. MaxAttempts]
    BY <1>1, <1>5 DEF TypeOK, Attempts
  <2>3. execution' \in [Tasks -> [Attempts -> ExecutionStatus]]
    BY <1>1 DEF TypeOK, ExecutionStatus
  <2> QED
    BY <1>1, <2>1, <2>2, <2>3 DEF TypeOK, InFlight, switchVars, requestVars
<1>10. DistributedTogether'
  BY <1>2, <1>3, <1>4 DEF DistributedTogether
<1>11. Attempted'
  BY <1>3, <1>4, <1>5, <1>6 DEF Attempted
<1>12. AttemptLedger'
  <2>1. \A u \in Tasks, a \in Attempts : u # t =>
          /\ execution'[u][a] # "NONE" <=> a <= attempts'[u]
          /\ a < attempts'[u] => execution'[u][a] = "FAILED"
          /\ a = attempts'[u] => /\ execution'[u][a] = "RUNNING" <=> taskStatus'[u] = "RUNNING"
                                 /\ execution'[u][a] = "SUCCEEDED" <=> taskStatus'[u] = "SUCCEEDED"
    BY <1>4, <1>6 DEF AttemptLedger, Attempts
  <2>2. \A a \in Attempts : a <= attempts[t] => execution[t][a] = "FAILED"
    <3> SUFFICES ASSUME NEW a \in Attempts, a <= attempts[t]
                 PROVE  execution[t][a] = "FAILED"
      OBVIOUS
    <3>1. CASE a < attempts[t]
      BY <3>1 DEF AttemptLedger
    <3>2. CASE a = attempts[t]
      <4>1. execution[t][a] \in {"NONE", "RUNNING", "SUCCEEDED", "FAILED"}
        BY DEF TypeOK, ExecutionStatus
      <4>2. execution[t][a] # "NONE" /\ execution[t][a] # "RUNNING" /\ execution[t][a] # "SUCCEEDED"
        BY <3>2, <1>3, <1>5 DEF AttemptLedger
      <4> QED
        BY <4>1, <4>2
    <3> QED
      BY <3>1, <3>2, <1>5 DEF Attempts
  <2>3. \A a \in Attempts : a > attempts[t] => execution[t][a] = "NONE"
    BY <1>5 DEF AttemptLedger, Attempts
  <2>4. \A a \in Attempts :
          /\ execution'[t][a] # "NONE" <=> a <= attempts'[t]
          /\ a < attempts'[t] => execution'[t][a] = "FAILED"
          /\ a = attempts'[t] => /\ execution'[t][a] = "RUNNING" <=> taskStatus'[t] = "RUNNING"
                                 /\ execution'[t][a] = "SUCCEEDED" <=> taskStatus'[t] = "SUCCEEDED"
    BY <1>3, <1>5, <1>7, <2>2, <2>3 DEF Attempts
  <2> QED
    BY <2>1, <2>4 DEF AttemptLedger
<1>13. NoOrphanedAttempt'
  BY <1>1, <1>3, <1>4, <1>8, Bounds DEF NoOrphanedAttempt, InFlight
<1>14. ReadyHasBudget'
  BY <1>3, <1>4, <1>6, Bounds DEF ReadyHasBudget
<1>15. \A d \in Tasks : taskStatus[d] = "SUCCEEDED" => taskStatus'[d] = "SUCCEEDED"
  BY <1>3, <1>4
<1>16. DependenciesFirst'
  BY <1>3, <1>4, <1>6, <1>15, PlanShape DEF DependenciesFirst
<1>17. ManifestedMeansDone'
  BY <1>1, <1>15 DEF ManifestedMeansDone, TasksOf
<1>18. InterruptedStaysBlocked'
  BY <1>1, <1>3, <1>4, <1>6 DEF InterruptedStaysBlocked
<1>19. EffectsOnRecord'
  <2>1. invocation'[t][attempts'[t]].status = "NONE"
    BY <1>1, <1>5 DEF EffectsOnRecord
  <2>2. \A u \in Tasks, a \in Attempts : ~ OpenInvocation(u, a)
    BY <1>1 DEF EffectsOnRecord
  <2>3. \A u \in Tasks, a \in Attempts : (u = t /\ a = attempts'[t]) \/ ~ OpenInvocation(u, a)'
    BY <1>1, <1>5, <1>6, <1>7, <2>2 DEF OpenInvocation
  <2>4. \A u \in Tasks, a \in Attempts :
          /\ invocation'[u][a].status # "NONE" => a <= attempts'[u]
          /\ execution'[u][a] = "SUCCEEDED" => invocation'[u][a].status \in {"NONE", "SUCCEEDED"}
    BY <1>1, <1>5, <1>6, <1>7 DEF EffectsOnRecord, TypeOK, Attempts
  <2> QED
    BY <1>1, <2>1, <2>3, <2>4 DEF EffectsOnRecord, OpenInvocation
<1> QED
  BY <1>9, <1>10, <1>11, <1>12, <1>13, <1>14, <1>16, <1>17, <1>18, <1>19

(* A step of an attempt that leaves the statuses and the attempts alone.   *)
LEMMA AttemptStepKeeps ==
  ASSUME KernelInvariant, TypeOK', pc \in InFlight, pc' \in InFlight,
         UNCHANGED <<missionStatus, taskStatus, attempts, execution, cur, claimed>>,
         InterruptedStaysBlocked', EffectsOnRecord'
  PROVE  KernelInvariant'
<1> USE DEF KernelInvariant
<1>1. NoOrphanedAttempt'
  BY DEF NoOrphanedAttempt, InFlight
<1>2. DistributedTogether' /\ Attempted' /\ ReadyHasBudget' /\ DependenciesFirst'
  BY DEF DistributedTogether, Attempted, ReadyHasBudget, DependenciesFirst
<1>3. AttemptLedger' /\ ManifestedMeansDone'
  BY DEF AttemptLedger, ManifestedMeansDone
<1> QED
  BY <1>1, <1>2, <1>3

LEMMA InferenceKeeps ==
  ASSUME KernelInvariant, NEW r \in {"succeeded", "retry", "terminal"}, Inference(r)
  PROVE  KernelInvariant'
<1> USE DEF KernelInvariant
<1>1. /\ pc = "inference" /\ pc' = "finish" /\ result' = r
      /\ UNCHANGED <<missionStatus, taskStatus, attempts, execution, invocation, switchVars, cur,
                     claimed, round, requestVars, crashes>>
  BY DEF Inference, missionVars, taskVars
<1>2. TypeOK'
  BY <1>1 DEF TypeOK, InFlight, switchVars, requestVars
<1>3. InterruptedStaysBlocked' /\ EffectsOnRecord'
  BY <1>1 DEF InterruptedStaysBlocked, EffectsOnRecord, OpenInvocation
<1> QED
  BY <1>1, <1>2, <1>3, AttemptStepKeeps DEF InFlight

(* The worker's attempt is the latest of a Task that is RUNNING.           *)
LEMMA AttemptAtHand ==
  ASSUME KernelInvariant, pc \in InFlight
  PROVE  /\ claimed \in Tasks /\ taskStatus[claimed] = "RUNNING"
         /\ attempts[claimed] \in Attempts
<1>1. claimed \in Tasks /\ taskStatus[claimed] = "RUNNING"
  BY DEF KernelInvariant, TypeOK, NoOrphanedAttempt
<1> QED
  BY <1>1, Bounds DEF KernelInvariant, TypeOK, Attempted, Attempts

(* Writing the invocation row of that attempt, when what is written and    *)
(* where the worker goes next agree.                                       *)
LEMMA SetInvocationKeeps ==
  ASSUME KernelInvariant, pc \in InFlight, pc' \in {"effect", "finish"},
         NEW row \in [status : InvocationStatus, intent : IntentClasses \cup {"none"}],
         row.status # "INTERRUPTED",
         row.status = "AUTHORIZED" => pc' = "effect" \/ result' = "retry",
         pc' = "finish" /\ result' = "succeeded" => row.status = "SUCCEEDED",
         SetInvocation(claimed, row),
         UNCHANGED <<taskStatus, attempts, execution, claimed>>
  PROVE  /\ invocation' \in [Tasks -> [Attempts ->
              [status : InvocationStatus, intent : IntentClasses \cup {"none"}]]]
         /\ InterruptedStaysBlocked' /\ EffectsOnRecord'
<1> USE DEF KernelInvariant
<1>1. /\ claimed \in Tasks /\ taskStatus[claimed] = "RUNNING" /\ attempts[claimed] \in Attempts
  BY AttemptAtHand
<1>2. \A t \in Tasks, a \in Attempts :
        invocation'[t][a] = IF t = claimed /\ a = attempts[t] THEN row ELSE invocation[t][a]
  BY <1>1 DEF SetInvocation, TypeOK
<1>3. invocation' \in [Tasks -> [Attempts ->
         [status : InvocationStatus, intent : IntentClasses \cup {"none"}]]]
  BY <1>1 DEF SetInvocation, TypeOK
<1>4. InterruptedStaysBlocked'
  BY <1>2 DEF InterruptedStaysBlocked
<1>5. \A t \in Tasks, a \in Attempts : execution[t][a] = "RUNNING" => t = claimed /\ a = attempts[t]
  BY RunningIsAtHand DEF NoOrphanedAttempt, InFlight
<1>6. \A t \in Tasks, a \in Attempts : OpenInvocation(t, a)' => pc' = "effect" \/ result' = "retry"
  BY <1>2, <1>5 DEF OpenInvocation
<1>7. attempts[claimed] \in Nat /\ execution[claimed][attempts[claimed]] # "SUCCEEDED"
  BY <1>1 DEF AttemptLedger, Attempts
<1>8. \A t \in Tasks, a \in Attempts :
        /\ invocation'[t][a].status # "NONE" => a <= attempts'[t]
        /\ execution'[t][a] = "SUCCEEDED" => invocation'[t][a].status \in {"NONE", "SUCCEEDED"}
  BY <1>2, <1>7 DEF EffectsOnRecord
<1>9. EffectsOnRecord'
  BY <1>1, <1>2, <1>6, <1>8 DEF EffectsOnRecord
<1> QED
  BY <1>3, <1>4, <1>9

LEMMA InvokeCapabilityKeeps ==
  ASSUME KernelInvariant, NEW i \in IntentClasses, InvokeCapability(i)
  PROVE  KernelInvariant'
<1> USE DEF KernelInvariant
<1> DEFINE row == [status |-> "AUTHORIZED", intent |-> i]
<1>1. /\ pc = "inference" /\ pc' = "effect" /\ SetInvocation(claimed, row)
      /\ UNCHANGED <<missionStatus, taskStatus, attempts, execution, switchVars, cur, claimed,
                     result, round, requestVars, crashes>>
  BY DEF InvokeCapability, missionVars
<1>2. /\ row \in [status : InvocationStatus, intent : IntentClasses \cup {"none"}]
      /\ row.status = "AUTHORIZED"
  BY DEF InvocationStatus
<1> HIDE DEF row
<1>3. /\ invocation' \in [Tasks -> [Attempts ->
           [status : InvocationStatus, intent : IntentClasses \cup {"none"}]]]
      /\ InterruptedStaysBlocked' /\ EffectsOnRecord'
  BY <1>1, <1>2, SetInvocationKeeps DEF InFlight
<1>4. TypeOK'
  BY <1>1, <1>3 DEF TypeOK, InFlight, switchVars, requestVars
<1> QED
  BY <1>1, <1>3, <1>4, AttemptStepKeeps DEF InFlight

LEMMA EffectReturnsKeeps ==
  ASSUME KernelInvariant, EffectReturns
  PROVE  KernelInvariant'
<1> USE DEF KernelInvariant
<1> DEFINE i == invocation[claimed][attempts[claimed]].intent
<1>1. /\ pc = "effect" /\ pc' = "finish"
      /\ UNCHANGED <<missionStatus, taskStatus, attempts, execution, switchVars, cur, claimed,
                     round, requestVars, crashes>>
  BY DEF EffectReturns, missionVars
<1>2. PICK outcome \in EffectOutcomes(i) :
        /\ SetInvocation(claimed, [status |-> outcome.row, intent |-> i])
        /\ result' = outcome.result
  BY DEF EffectReturns
<1>3. i \in IntentClasses \cup {"none"}
  BY <1>1, AttemptAtHand DEF InFlight, TypeOK
<1> DEFINE row == [status |-> outcome.row, intent |-> i]
<1>4. /\ row \in [status : InvocationStatus, intent : IntentClasses \cup {"none"}]
      /\ row.status # "INTERRUPTED"
      /\ row.status = "AUTHORIZED" => outcome.result = "retry"
      /\ outcome.result = "succeeded" => row.status = "SUCCEEDED"
      /\ outcome.result \in {"succeeded", "retry", "terminal"}
  BY <1>3 DEF EffectOutcomes, InvocationStatus
<1>5. SetInvocation(claimed, row)
  BY <1>2
<1> HIDE DEF row, i
<1>6. /\ invocation' \in [Tasks -> [Attempts ->
           [status : InvocationStatus, intent : IntentClasses \cup {"none"}]]]
      /\ InterruptedStaysBlocked' /\ EffectsOnRecord'
  BY <1>1, <1>2, <1>4, <1>5, SetInvocationKeeps DEF InFlight
<1>7. TypeOK'
  BY <1>1, <1>2, <1>4, <1>6 DEF TypeOK, InFlight, switchVars, requestVars
<1> QED
  BY <1>1, <1>6, <1>7, AttemptStepKeeps DEF InFlight

(* What finishing does to the statuses: the attempt's Task gets its        *)
(* FinishedStatus, and a refresh of the result follows.                    *)
LEMMA FinishIsRefresh ==
  ASSUME KernelInvariant, NEW t \in Tasks, FinishAttempt(t)
  PROVE  RefreshOf([taskStatus EXCEPT ![t] = FinishedStatus(t)], taskStatus')
<1> DEFINE st == [taskStatus EXCEPT ![t] = FinishedStatus(t)]
<1>1. st \in [Tasks -> TaskStatus] /\ MissionOf[t] \in Missions
  BY PlanShape DEF KernelInvariant, TypeOK, FinishedStatus, TaskStatus
<1>2. \E B \in BlockedSets(st, MissionOf[t]) : taskStatus' = Refreshed(st, MissionOf[t], B)
  BY DEF FinishAttempt
<1> HIDE DEF st
<1>3. RefreshOf(st, taskStatus')
  BY <1>1, <1>2, RefreshedIsRefresh
<1> QED
  BY <1>3 DEF st

LEMMA FinishAttemptKeeps ==
  ASSUME KernelInvariant, NEW t \in Tasks, FinishAttempt(t)
  PROVE  KernelInvariant'
<1> USE DEF KernelInvariant
<1> DEFINE ended == IF result = "succeeded" THEN "SUCCEEDED" ELSE "FAILED"
<1>1. /\ pc = "finish" /\ claimed = t /\ taskStatus[t] = "RUNNING"
      /\ pc' = "evaluate" /\ claimed' = None /\ result' = "none"
      /\ execution' = [execution EXCEPT ![t] = [execution[t] EXCEPT ![attempts[t]] = ended]]
      /\ UNCHANGED <<missionStatus, attempts, invocation, switchVars, cur, round, requestVars,
                     crashes>>
  BY DEF FinishAttempt, missionVars
<1>2. attempts[t] \in Attempts
  BY <1>1, AttemptAtHand DEF InFlight
<1>3. /\ FinishedStatus(t) \in {"SUCCEEDED", "READY", "FAILED"}
      /\ FinishedStatus(t) = "SUCCEEDED" <=> ended = "SUCCEEDED"
      /\ FinishedStatus(t) = "READY" => attempts[t] < MaxAttempts
      /\ ended \in {"SUCCEEDED", "FAILED"}
  BY DEF FinishedStatus
<1> HIDE DEF ended
<1>4. /\ taskStatus'[t] = FinishedStatus(t)
      /\ \A u \in Tasks : u # t =>
           \/ taskStatus'[u] = taskStatus[u]
           \/ /\ taskStatus[u] = "PENDING" /\ attempts[u] = 0
              /\ \/ taskStatus'[u] = "BLOCKED"
                 \/ /\ taskStatus'[u] = "READY"
                    /\ \A d \in DependsOn[u] : taskStatus'[d] = "SUCCEEDED"
  <2>1. taskStatus \in [Tasks -> TaskStatus]
    BY DEF TypeOK
  <2>2. RefreshOf([taskStatus EXCEPT ![t] = FinishedStatus(t)], taskStatus')
    BY FinishIsRefresh
  <2>3. taskStatus'[t] = FinishedStatus(t)
    BY <2>1, <2>2, <1>3 DEF RefreshOf
  <2>4. \A u \in Tasks : [taskStatus EXCEPT ![t] = FinishedStatus(t)][u] = "SUCCEEDED" =>
          taskStatus'[u] = "SUCCEEDED"
    BY <2>1, <2>2 DEF RefreshOf
  <2> QED
    BY <2>1, <2>2, <2>3, <2>4, PlanShape DEF RefreshOf, Attempted
<1>5. \A u \in Tasks : taskStatus[u] = "SUCCEEDED" => taskStatus'[u] = "SUCCEEDED"
  BY <1>1, <1>4
<1>6. \A u \in Tasks, a \in Attempts :
        execution'[u][a] = IF u = t /\ a = attempts[t] THEN ended ELSE execution[u][a]
  BY <1>1, <1>2 DEF TypeOK
<1>7. TypeOK'
  <2>1. taskStatus' \in [Tasks -> TaskStatus]
    BY FinishIsRefresh DEF RefreshOf
  <2>2. execution' \in [Tasks -> [Attempts -> ExecutionStatus]]
    BY <1>1, <1>2, <1>3 DEF TypeOK, ExecutionStatus
  <2> QED
    BY <1>1, <2>1, <2>2 DEF TypeOK, switchVars, requestVars
<1>8. DistributedTogether'
  BY <1>1, <1>3, <1>4 DEF DistributedTogether
<1>9. Attempted'
  BY <1>1, <1>3, <1>4 DEF Attempted
<1>10. AttemptLedger'
  <2> SUFFICES ASSUME NEW u \in Tasks, NEW a \in Attempts
               PROVE  /\ execution'[u][a] # "NONE" <=> a <= attempts'[u]
                      /\ a < attempts'[u] => execution'[u][a] = "FAILED"
                      /\ a = attempts'[u] =>
                           /\ execution'[u][a] = "RUNNING" <=> taskStatus'[u] = "RUNNING"
                           /\ execution'[u][a] = "SUCCEEDED" <=> taskStatus'[u] = "SUCCEEDED"
    BY DEF AttemptLedger
  <2>1. attempts[u] \in Nat /\ attempts'[u] = attempts[u]
    BY <1>1, Bounds DEF TypeOK
  <2>2. CASE u = t /\ a = attempts[t]
    BY <2>1, <2>2, <1>3, <1>4, <1>6 DEF Attempts
  <2>3. CASE u = t /\ a # attempts[t]
    BY <2>1, <2>3, <1>6 DEF AttemptLedger
  <2>4. CASE u # t
    BY <2>1, <2>4, <1>4, <1>6 DEF AttemptLedger, Attempts
  <2> QED
    BY <2>2, <2>3, <2>4
<1>11. NoOrphanedAttempt'
  BY <1>1, <1>3, <1>4 DEF NoOrphanedAttempt, InFlight
<1>12. ReadyHasBudget'
  BY <1>1, <1>3, <1>4, Bounds DEF ReadyHasBudget
<1>13. DependenciesFirst'
  <2>1. attempts[t] > 0
    BY <1>1 DEF Attempted
  <2> QED
    BY <1>1, <1>4, <1>5, <2>1, PlanShape DEF DependenciesFirst
<1>14. ManifestedMeansDone'
  BY <1>1, <1>5 DEF ManifestedMeansDone, TasksOf
<1>15. InterruptedStaysBlocked'
  BY <1>1, <1>4 DEF InterruptedStaysBlocked
<1>16. EffectsOnRecord'
  <2>1. \A u \in Tasks, a \in Attempts : execution[u][a] = "RUNNING" => u = t /\ a = attempts[t]
    BY <1>1, RunningIsAtHand DEF NoOrphanedAttempt, InFlight
  <2>2. \A u \in Tasks, a \in Attempts : ~ OpenInvocation(u, a)'
    BY <1>3, <1>6, <2>1 DEF OpenInvocation
  <2>3. \A u \in Tasks, a \in Attempts :
          /\ invocation'[u][a].status # "NONE" => a <= attempts'[u]
          /\ execution'[u][a] = "SUCCEEDED" => invocation'[u][a].status \in {"NONE", "SUCCEEDED"}
    <3>1. ended = "SUCCEEDED" => invocation[t][attempts[t]].status \in {"NONE", "SUCCEEDED"}
      BY <1>1 DEF EffectsOnRecord, ended
    <3> QED
      BY <1>1, <1>6, <3>1 DEF EffectsOnRecord
  <2> QED
    BY <1>1, <2>2, <2>3 DEF EffectsOnRecord
<1> QED
  BY <1>7, <1>8, <1>9, <1>10, <1>11, <1>12, <1>13, <1>14, <1>15, <1>16

-----------------------------------------------------------------------------
(* The theorems.                                                           *)

LEMMA InitEstablishes == Init => KernelInvariant
<1> SUFFICES ASSUME Init PROVE KernelInvariant
  OBVIOUS
<1>1. TypeOK
  BY Bounds DEF Init, TypeOK, MissionStatus, TaskStatus, ExecutionStatus, InvocationStatus,
                NoInvocation
<1>2. DistributedTogether /\ Attempted /\ ReadyHasBudget /\ DependenciesFirst
  BY DEF Init, DistributedTogether, Attempted, ReadyHasBudget, DependenciesFirst
<1>3. AttemptLedger
  BY DEF Init, AttemptLedger, Attempts
<1>4. NoOrphanedAttempt /\ ManifestedMeansDone
  BY DEF Init, NoOrphanedAttempt, InFlight, ManifestedMeansDone
<1>5. InterruptedStaysBlocked /\ EffectsOnRecord
  BY DEF Init, InterruptedStaysBlocked, EffectsOnRecord, OpenInvocation, NoInvocation
<1> QED
  BY <1>1, <1>2, <1>3, <1>4, <1>5 DEF KernelInvariant

LEMMA StutterKeeps ==
  ASSUME KernelInvariant, UNCHANGED vars
  PROVE  KernelInvariant'
<1>1. TypeOK'
  BY DEF KernelInvariant, TypeOK, vars, missionVars, taskVars, switchVars, workerVars,
         requestVars
<1>2. ManifestedMeansDone'
  BY DEF KernelInvariant, ManifestedMeansDone, vars, missionVars, taskVars
<1> QED
  BY <1>1, <1>2, FrameKeeps DEF vars, workerVars

(* Every step of the kernel keeps the invariant: one case per action.      *)
LEMMA StepKeeps == KernelInvariant /\ [Next]_vars => KernelInvariant'
<1> SUFFICES ASSUME KernelInvariant, [Next]_vars
             PROVE  KernelInvariant'
  OBVIOUS
<1>1. CASE Creator
  <2>1. CASE \E m \in Missions : \E target \in MissionStatus : MoveMission(m, target)
    BY <2>1, MoveMissionKeeps
  <2>2. CASE \E m \in Missions : AuthorizeMission(m) \/ ExecuteMission(m)
    BY <2>2, AuthorizeOrExecuteKeeps
  <2>3. CASE \E m \in Missions : DistributeMission(m)
    BY <2>3, DistributeMissionKeeps
  <2>4. CASE \E u \in Switchable : SwitchUniverse(u) \/ SwitchAgent(u)
    BY <2>4, SwitchKeeps, Bounds
  <2> QED
    BY <1>1, <2>1, <2>2, <2>3, <2>4 DEF Creator
<1>2. CASE \E r \in StartRequests : StartRequest(r)
  <2> PICK r \in StartRequests : StartRequest(r)
    BY <1>2
  <2>1. CASE StartAborts(r)
    <3>1. CASE Missions # {}
      BY <2>1, <3>1, RequestFrameKeeps
    <3>2. CASE Missions = {}
      BY <2>1, <3>2 DEF StartAborts, KernelInvariant, TypeOK
    <3> QED
      BY <3>1, <3>2
  <2>2. CASE \E m \in Missions : BeginStart(r, m)
    BY <2>2, RequestFrameKeeps
  <2>3. CASE \E m \in Missions : StartAuthorizes(r, m) \/ StartExecutes(r, m)
    BY <2>3, StartMovesKeep
  <2>4. CASE \E m \in Missions : StartDistributes(r, m)
    BY <2>4, StartDistributesKeeps
  <2> QED
    BY <2>1, <2>2, <2>3, <2>4 DEF StartRequest
<1>3. CASE Worker
  <2>1. CASE Reconcile
    BY <2>1, ReconcileKeeps
  <2>2. CASE TakeRound
    BY <2>2, TakeRoundKeeps
  <2>3. CASE \E m \in Missions : StartExecution(m) \/ VisitExecuting(m)
    BY <2>3, VisitKeeps
  <2>4. CASE \E m \in Missions : ClaimNothing(m)
    BY <2>4, ClaimNothingKeeps
  <2>5. CASE \E m \in Missions : EvaluateCompletion(m)
    BY <2>5, EvaluateKeeps
  <2>6. CASE \E m \in Missions : \E t \in Tasks : ClaimTask(m, t)
    BY <2>6, ClaimTaskKeeps
  <2>7. CASE \E m \in Missions : \E t \in Tasks : ClaimInactiveAgent(m, t)
    BY <2>7, InactiveAgentKeeps
  <2>8. CASE \E r \in {"succeeded", "retry", "terminal"} : Inference(r)
    BY <2>8, InferenceKeeps
  <2>9. CASE \E i \in IntentClasses : InvokeCapability(i)
    BY <2>9, InvokeCapabilityKeeps
  <2>10. CASE EffectReturns
    BY <2>10, EffectReturnsKeeps
  <2>11. CASE \E t \in Tasks : FinishAttempt(t)
    BY <2>11, FinishAttemptKeeps
  <2> QED
    BY <1>3, <2>1, <2>2, <2>3, <2>4, <2>5, <2>6, <2>7, <2>8, <2>9, <2>10, <2>11
       DEF Worker, Attempt
<1>4. CASE Crash
  BY <1>4, CrashKeeps
<1>5. CASE UNCHANGED vars
  BY <1>5, StutterKeeps
<1> QED
  BY <1>1, <1>2, <1>3, <1>4, <1>5 DEF Next

(* The inductive invariant holds in every reachable state, for every plan, *)
(* every interleaving of the Creator, start requests and the worker, and   *)
(* every number of worker deaths.                                          *)
THEOREM KernelInvariantHolds == Spec => []KernelInvariant
<1>1. Init => KernelInvariant
  BY InitEstablishes
<1>2. KernelInvariant /\ [Next]_vars => KernelInvariant'
  BY StepKeeps
<1> QED
  BY <1>1, <1>2, PTL DEF Spec

(* Type correctness of the kernel's rows and of the worker's place.        *)
THEOREM TypeCorrect == Spec => []TypeOK
<1>1. KernelInvariant => TypeOK
  BY DEF KernelInvariant
<1> QED
  BY <1>1, KernelInvariantHolds, PTL

(* The attempt ledger and the retry budget: run_next, finish_task_attempt  *)
(* and reconcile agree on every attempt ever made.                         *)
THEOREM AttemptsAccounted == Spec => [](AttemptLedger /\ ReadyHasBudget)
<1>1. KernelInvariant => AttemptLedger /\ ReadyHasBudget
  BY DEF KernelInvariant
<1> QED
  BY <1>1, KernelInvariantHolds, PTL

(* No attempt of a live worker is orphaned, so that finish_task_attempt    *)
(* never meets a Task that is not RUNNING; every invocation belongs to an  *)
(* attempt that was made, and no attempt succeeds over an effect that is   *)
(* open, failed or uncertain, whatever errors left rows AUTHORIZED.        *)
THEOREM EffectsAccounted == Spec => [](NoOrphanedAttempt /\ EffectsOnRecord)
<1>1. KernelInvariant => NoOrphanedAttempt /\ EffectsOnRecord
  BY DEF KernelInvariant
<1> QED
  BY <1>1, KernelInvariantHolds, PTL

(* A Task is attempted only after everything it depends on, and a Mission  *)
(* manifests only after all its Tasks.                                     *)
THEOREM OrderRespected == Spec => [](DependenciesFirst /\ ManifestedMeansDone)
<1>1. KernelInvariant => DependenciesFirst /\ ManifestedMeansDone
  BY DEF KernelInvariant
<1> QED
  BY <1>1, KernelInvariantHolds, PTL

(* A Task whose AT_MOST_ONCE effect was recorded as interrupted is never   *)
(* attempted again.                                                        *)
THEOREM InterruptionsHold == Spec => []InterruptedStaysBlocked
<1>1. KernelInvariant => InterruptedStaysBlocked
  BY DEF KernelInvariant
<1> QED
  BY <1>1, KernelInvariantHolds, PTL

-----------------------------------------------------------------------------
(* Actions.                                                                *)

(* What one step may do to the rows of one Task.                           *)
TaskKept(t) ==
  taskStatus'[t] = taskStatus[t] /\ attempts'[t] = attempts[t] /\ execution'[t] = execution[t]

LEMMA FinishedKept ==
  ASSUME KernelInvariant, [Next]_vars, NEW t \in Tasks,
         taskStatus[t] \in {"SUCCEEDED", "FAILED", "BLOCKED"}
  PROVE  TaskKept(t)
<1> USE DEF TaskKept
<1>1. taskStatus \in [Tasks -> TaskStatus] /\ attempts[t] \in Nat
  BY Bounds DEF KernelInvariant, TypeOK
<1>2. CASE UNCHANGED <<taskStatus, attempts, execution>>
  BY <1>2
<1>3. CASE \E m \in Missions : DistributeMission(m)
  BY <1>1, <1>3, DistributedIsFresh DEF DistributeMission
<1>4. CASE \E r \in StartRequests, m \in Missions : StartDistributes(r, m)
  BY <1>1, <1>4, DistributedIsFresh DEF StartDistributes
<1>5. CASE Reconcile
  <2>1. ~ Interrupted(t)
    BY InterruptedIsRunning
  <2>2. \A a \in Attempts : execution[t][a] # "RUNNING"
    BY <2>1 DEF Interrupted
  <2>3. execution'[t] = execution[t]
    BY <1>5, <2>2 DEF Reconcile, ReconciledExecution, KernelInvariant, TypeOK
  <2> QED
    BY <1>5, <2>1, <2>3 DEF Reconcile
<1>6. CASE \E m \in Missions : ClaimNothing(m)
  <2>1. RefreshOf(taskStatus, taskStatus')
    BY <1>1, <1>6, RefreshedIsRefresh DEF ClaimNothing, RefreshOf
  <2> QED
    BY <1>6, <2>1 DEF RefreshOf, ClaimNothing
<1>7. CASE \E m \in Missions, u \in Tasks : ClaimTask(m, u)
  <2> PICK m \in Missions, u \in Tasks : ClaimTask(m, u)
    BY <1>7
  <2>1. PICK r : /\ RefreshOf(taskStatus, r) /\ r[u] = "READY"
                 /\ taskStatus' = [r EXCEPT ![u] = "RUNNING"]
    BY ClaimIsRefresh
  <2>2. r[t] = taskStatus[t] /\ u # t
    BY <2>1 DEF RefreshOf
  <2>3. taskStatus'[t] = taskStatus[t]
    BY <2>1, <2>2 DEF RefreshOf
  <2>4. attempts'[t] = attempts[t] /\ execution'[t] = execution[t]
    BY <2>2 DEF ClaimTask, KernelInvariant, TypeOK
  <2> QED
    BY <2>3, <2>4
<1>8. CASE \E u \in Tasks : FinishAttempt(u)
  <2> PICK u \in Tasks : FinishAttempt(u)
    BY <1>8
  <2>1. RefreshOf([taskStatus EXCEPT ![u] = FinishedStatus(u)], taskStatus')
    BY FinishIsRefresh
  <2>2. u # t
    BY DEF FinishAttempt
  <2>3. taskStatus'[t] = taskStatus[t]
    BY <1>1, <2>1, <2>2 DEF RefreshOf
  <2>4. attempts'[t] = attempts[t] /\ execution'[t] = execution[t]
    BY <2>2 DEF FinishAttempt, KernelInvariant, TypeOK
  <2> QED
    BY <2>3, <2>4
<1>9. \/ UNCHANGED <<taskStatus, attempts, execution>>
      \/ Reconcile
      \/ \E m \in Missions :
           DistributeMission(m) \/ ClaimNothing(m) \/ \E u \in Tasks : ClaimTask(m, u)
      \/ \E r \in StartRequests, m \in Missions : StartDistributes(r, m)
      \/ \E u \in Tasks : FinishAttempt(u)
  BY DEF Next, Creator, StartRequest, Worker, Attempt, vars, taskVars, MoveMission,
         AuthorizeMission, ExecuteMission, SwitchUniverse, SwitchAgent, BeginStart,
         StartAuthorizes, StartExecutes, StartAborts, Crash, TakeRound, StartExecution,
         VisitExecuting, ClaimInactiveAgent, Inference, InvokeCapability, EffectReturns,
         EvaluateCompletion
<1> QED
  BY <1>2, <1>3, <1>4, <1>5, <1>6, <1>7, <1>8, <1>9

(* A finished Task keeps its status, its attempts and its executions: no   *)
(* retry, refresh, second distribution or reconciliation touches it.       *)
THEOREM FinishedStays == Spec => FinishedTaskIsFinal
<1>1. KernelInvariant /\ [Next]_vars =>
        [\A t \in Tasks : taskStatus[t] \in {"SUCCEEDED", "FAILED", "BLOCKED"} =>
           /\ taskStatus'[t] = taskStatus[t]
           /\ attempts'[t] = attempts[t]
           /\ execution'[t] = execution[t]]_vars
  BY FinishedKept DEF TaskKept
<1> QED
  BY <1>1, KernelInvariantHolds, PTL DEF Spec, FinishedTaskIsFinal

(* A step changes a status along TRANSITIONS, or is itself the write a     *)
(* start request makes by a stale cached status; and it manifests only a   *)
(* Mission whose Tasks are all SUCCEEDED.                                  *)
StatusKept(m) ==
  /\ \/ missionStatus'[m] = missionStatus[m]
     \/ <<missionStatus[m], missionStatus'[m]>> \in TRANSITIONS
     \/ StaleStart(m)
  /\ missionStatus'[m] = "manifested" =>
       \/ missionStatus[m] = "manifested"
       \/ \A t \in TasksOf(m) : taskStatus[t] = "SUCCEEDED"

LEMMA StatusSteps ==
  ASSUME TypeOK, [Next]_vars, NEW m \in Missions
  PROVE  StatusKept(m)
<1>1. CASE UNCHANGED missionStatus
  BY <1>1 DEF StatusKept
<1>2. ASSUME NEW n \in Missions, NEW s, SetMission(n, s)
      PROVE  /\ n = m => missionStatus'[m] = s
             /\ n # m => missionStatus'[m] = missionStatus[m]
  BY <1>2 DEF SetMission, TypeOK
<1>3. CASE \E n \in Missions, target \in MissionStatus : MoveMission(n, target)
  BY <1>2, <1>3 DEF MoveMission, CanTransition, StatusKept
<1>4. CASE \E n \in Missions : AuthorizeMission(n) \/ DistributeMission(n) \/ ExecuteMission(n)
  BY <1>2, <1>4 DEF AuthorizeMission, DistributeMission, ExecuteMission, CanTransition, StatusKept
<1>5. CASE \E r \in StartRequests, n \in Missions :
             StartAuthorizes(r, n) \/ StartDistributes(r, n) \/ StartExecutes(r, n)
  <2> PICK r \in StartRequests, n \in Missions :
             StartAuthorizes(r, n) \/ StartDistributes(r, n) \/ StartExecutes(r, n)
    BY <1>5
  <2>1. /\ reqMission[r] = n /\ <<reqCached[r], missionStatus'[n]>> \in TRANSITIONS
        /\ missionStatus'[n] = steps[reqCached[r]]
        /\ reqMission'[r] # reqMission[r] \/ reqCached'[r] # reqCached[r]
    <3>1. CASE StartAuthorizes(r, n)
      BY <3>1 DEF StartAuthorizes, SetMission, TypeOK, TRANSITIONS, steps
    <3>2. CASE StartDistributes(r, n)
      BY <3>2 DEF StartDistributes, SetMission, TypeOK, TRANSITIONS, steps
    <3>3. CASE StartExecutes(r, n)
      BY <3>3, Bounds DEF StartExecutes, SetMission, TypeOK, TRANSITIONS, steps
    <3> QED
      BY <3>1, <3>2, <3>3
  <2>2. missionStatus'[n] # "manifested"
    BY DEF StartAuthorizes, StartDistributes, StartExecutes, SetMission, TypeOK
  <2>3. n # m => missionStatus'[m] = missionStatus[m]
    BY DEF StartAuthorizes, StartDistributes, StartExecutes, SetMission, TypeOK
  <2> QED
    BY <2>1, <2>2, <2>3 DEF StatusKept, StaleStart
<1>6. CASE \E n \in Missions : StartExecution(n)
  BY <1>2, <1>6 DEF StartExecution, StartedStatus, StatusKept, TRANSITIONS
<1>7. CASE \E n \in Missions : EvaluateCompletion(n)
  BY <1>2, <1>7 DEF EvaluateCompletion, CompletionTarget, StatusKept, TRANSITIONS
<1>8. \/ UNCHANGED missionStatus
      \/ \E n \in Missions :
           \/ \E target \in MissionStatus : MoveMission(n, target)
           \/ AuthorizeMission(n) \/ DistributeMission(n) \/ ExecuteMission(n)
           \/ StartExecution(n) \/ EvaluateCompletion(n)
      \/ \E r \in StartRequests, n \in Missions :
           StartAuthorizes(r, n) \/ StartDistributes(r, n) \/ StartExecutes(r, n)
  BY DEF Next, Creator, StartRequest, Worker, Attempt, vars, missionVars, SwitchUniverse,
         SwitchAgent, BeginStart, StartAborts, Crash, Reconcile, TakeRound, VisitExecuting,
         ClaimTask, ClaimInactiveAgent, ClaimNothing, Inference, InvokeCapability,
         EffectReturns, FinishAttempt
<1> QED
  BY <1>1, <1>3, <1>4, <1>5, <1>6, <1>7, <1>8

(* Only the write of a start request that decides by a stale status leaves *)
(* the graph; no other step does, whatever requests are pending.           *)
THEOREM LifecycleFollowed == Spec => TransitionsFollowed
<1>1. TypeOK /\ [Next]_vars =>
        [\A m \in Missions :
           \/ missionStatus'[m] = missionStatus[m]
           \/ <<missionStatus[m], missionStatus'[m]>> \in TRANSITIONS
           \/ StaleStart(m)]_vars
  BY StatusSteps DEF StatusKept
<1> QED
  BY <1>1, TypeCorrect, PTL DEF Spec, TransitionsFollowed

-----------------------------------------------------------------------------
(* The kernel implements MissionPromise.                                   *)

(* A refresh blocks a Task only with a dependency that is lost by then.    *)
LEMMA RefreshLoses ==
  ASSUME NEW m \in Missions, NEW st \in [Tasks -> TaskStatus], NEW B \in BlockedSets(st, m),
         NEW t \in Tasks, st[t] = "PENDING", Refreshed(st, m, B)[t] = "BLOCKED",
         \A d \in DependsOn[t] : st[d] # "ABSENT"
  PROVE  \E d \in DependsOn[t] : Outcome(Refreshed(st, m, B)[d]) = "lost"
<1>1. t \in B
  BY DEF Refreshed
<1>2. PICK d \in DependsOn[t] : d \in B \/ st[d] \in {"FAILED", "BLOCKED", "CANCELLED"}
  BY <1>1 DEF BlockedSets, Doomed, FailedDependencyStates
<1>3. d \in Tasks
  BY PlanShape
<1>4. CASE d \in B
  BY <1>3, <1>4 DEF BlockedSets, Refreshed, Pending, Outcome
<1>5. CASE d \notin B
  BY <1>2, <1>3, <1>5 DEF Refreshed, Pending, Outcome, TaskStatus
<1> QED
  BY <1>4, <1>5

(* The dependencies of a Task that exists exist.                           *)
LEMMA DependenciesExist ==
  ASSUME KernelInvariant, NEW t \in Tasks, taskStatus[t] # "ABSENT", NEW d \in DependsOn[t]
  PROVE  d \in Tasks /\ taskStatus[d] # "ABSENT"
BY PlanShape DEF KernelInvariant, DistributedTogether

(* Every step of the kernel is a step of MissionPromise for every Task.    *)
LEMMA TaskSteps ==
  ASSUME KernelInvariant, [Next]_vars, NEW t \in Tasks
  PROVE  Promise!TaskStep(t)
<1> DEFINE o(u) == Outcome(taskStatus[u])
           p(u) == Outcome(taskStatus'[u])
<1>0. Promise!TaskStep(t) <=>
        \/ p(t) = o(t)
        \/ /\ o(t) = "todo" /\ p(t) = "doing" /\ missionStatus[MissionOf[t]] = "executing"
           /\ \A d \in DependsOn[t] : o(d) = "done"
        \/ o(t) = "doing" /\ p(t) \in {"todo", "done", "lost"}
        \/ o(t) = "todo" /\ p(t) = "lost" /\ \E d \in DependsOn[t] : p(d) = "lost"
  BY PlanShape DEF Promise!TaskStep, Promise!Begin, Promise!End, Promise!Lose
<1>1. taskStatus \in [Tasks -> TaskStatus]
  BY DEF KernelInvariant, TypeOK
<1>2. CASE UNCHANGED taskStatus
  BY <1>0, <1>2
<1>3. CASE \E m \in Missions : taskStatus' = DistributedTasks(m)
  BY <1>0, <1>1, <1>3, DistributedIsFresh DEF Outcome
<1>4. CASE Reconcile
  <2>1. taskStatus'[t] = IF taskStatus[t] = "RUNNING" THEN ReconciledStatus(t) ELSE taskStatus[t]
    BY <1>4, InterruptedIsRunning DEF Reconcile
  <2> QED
    BY <1>0, <2>1 DEF Outcome, ReconciledStatus
<1>5. CASE \E m \in Missions : ClaimNothing(m)
  <2> SUFFICES ASSUME ~ UNCHANGED taskStatus
               PROVE  Promise!TaskStep(t)
    BY <1>2
  <2> PICK m \in Missions : ClaimNothing(m)
    BY <1>5
  <2>1. PICK B \in BlockedSets(taskStatus, m) : taskStatus' = Refreshed(taskStatus, m, B)
    BY DEF ClaimNothing
  <2>2. RefreshOf(taskStatus, taskStatus')
    BY <1>1, <2>1, RefreshedIsRefresh
  <2>3. CASE taskStatus[t] = "PENDING" /\ taskStatus'[t] = "BLOCKED"
    <3>1. \E d \in DependsOn[t] : p(d) = "lost"
      BY <1>1, <2>1, <2>3, RefreshLoses, DependenciesExist
    <3> QED
      BY <1>0, <2>3, <3>1 DEF Outcome
  <2> QED
    BY <1>0, <2>2, <2>3 DEF RefreshOf, Outcome
<1>6. CASE \E m \in Missions, u \in Tasks : ClaimTask(m, u)
  <2> PICK m \in Missions, u \in Tasks : ClaimTask(m, u)
    BY <1>6
  <2>1. PICK B \in BlockedSets(taskStatus, m) :
          /\ Refreshed(taskStatus, m, B)[u] = "READY"
          /\ taskStatus' = [Refreshed(taskStatus, m, B) EXCEPT ![u] = "RUNNING"]
    BY DEF ClaimTask
  <2> DEFINE r == Refreshed(taskStatus, m, B)
  <2>2. RefreshOf(taskStatus, r)
    BY <1>1, RefreshedIsRefresh
  <2>3. \A v \in Tasks : taskStatus'[v] = IF v = u THEN "RUNNING" ELSE r[v]
    BY <2>1, <2>2 DEF RefreshOf
  <2>4. CASE t = u
    <3>1. o(t) = "todo" /\ p(t) = "doing"
      BY <2>1, <2>2, <2>3, <2>4 DEF RefreshOf, Outcome
    <3>2. missionStatus[MissionOf[t]] = "executing"
      BY <2>4 DEF ClaimTask, Claimable
    <3>3. \A d \in DependsOn[t] : o(d) = "done"
      BY <2>1, <2>2, <2>4, PlanShape DEF RefreshOf, KernelInvariant, DependenciesFirst, Outcome
    <3> QED
      BY <1>0, <3>1, <3>2, <3>3
  <2>5. CASE t # u /\ taskStatus[t] = "PENDING" /\ r[t] = "BLOCKED"
    <3>1. PICK d \in DependsOn[t] : Outcome(r[d]) = "lost"
      BY <1>1, <2>1, <2>5, RefreshLoses, DependenciesExist
    <3>2. d \in Tasks /\ d # u
      BY <2>1, <3>1, PlanShape DEF Outcome
    <3>3. p(d) = "lost"
      BY <2>3, <3>1, <3>2
    <3> QED
      BY <1>0, <2>3, <2>5, <3>3 DEF Outcome
  <2>6. CASE t # u /\ ~ (taskStatus[t] = "PENDING" /\ r[t] = "BLOCKED")
    <3> HIDE DEF r
    <3> QED
      BY <1>0, <2>2, <2>3, <2>6 DEF RefreshOf, Outcome
  <2> QED
    BY <2>4, <2>5, <2>6
<1>7. CASE \E u \in Tasks : FinishAttempt(u)
  <2> PICK u \in Tasks : FinishAttempt(u)
    BY <1>7
  <2> DEFINE st == [taskStatus EXCEPT ![u] = FinishedStatus(u)]
  <2>1. PICK B \in BlockedSets(st, MissionOf[u]) : taskStatus' = Refreshed(st, MissionOf[u], B)
    BY DEF FinishAttempt
  <2>2. RefreshOf(st, taskStatus')
    BY FinishIsRefresh
  <2>3. /\ FinishedStatus(u) \in {"SUCCEEDED", "READY", "FAILED"} /\ taskStatus[u] = "RUNNING"
        /\ \A v \in Tasks : st[v] = IF v = u THEN FinishedStatus(u) ELSE taskStatus[v]
    BY <1>1 DEF FinishAttempt, FinishedStatus
  <2>4. st \in [Tasks -> TaskStatus] /\ MissionOf[u] \in Missions
    BY <1>1, <2>3, PlanShape DEF TaskStatus
  <2> HIDE DEF st
  <2>5. CASE t = u
    BY <1>0, <2>2, <2>3, <2>5 DEF RefreshOf, Outcome
  <2>6. CASE st[t] = "PENDING" /\ taskStatus'[t] = "BLOCKED"
    <3>1. t # u /\ taskStatus[t] = "PENDING"
      BY <2>3, <2>6
    <3>2. \A d \in DependsOn[t] : st[d] # "ABSENT"
      BY <2>3, <3>1, DependenciesExist
    <3>3. \E d \in DependsOn[t] : p(d) = "lost"
      BY <2>1, <2>4, <2>6, <3>2, RefreshLoses
    <3> QED
      BY <1>0, <2>6, <3>1, <3>3 DEF Outcome
  <2>7. CASE t # u /\ ~ (st[t] = "PENDING" /\ taskStatus'[t] = "BLOCKED")
    BY <1>0, <2>2, <2>3, <2>7 DEF RefreshOf, Outcome
  <2> QED
    BY <2>5, <2>6, <2>7
<1>8. \/ UNCHANGED taskStatus
      \/ Reconcile
      \/ \E m \in Missions : taskStatus' = DistributedTasks(m)
      \/ \E m \in Missions : ClaimNothing(m)
      \/ \E m \in Missions, u \in Tasks : ClaimTask(m, u)
      \/ \E u \in Tasks : FinishAttempt(u)
  BY DEF Next, Creator, StartRequest, Worker, Attempt, vars, taskVars, MoveMission,
         AuthorizeMission, DistributeMission, ExecuteMission, SwitchUniverse, SwitchAgent,
         BeginStart, StartAuthorizes, StartDistributes, StartExecutes, StartAborts, Crash,
         TakeRound, StartExecution, VisitExecuting, ClaimInactiveAgent, Inference,
         InvokeCapability, EffectReturns, EvaluateCompletion
<1> QED
  BY <1>2, <1>3, <1>4, <1>5, <1>6, <1>7, <1>8

(* Without start requests, every behaviour of the kernel is one that       *)
(* MissionPromise allows: the refinement of run kernel_pair, for every     *)
(* plan.                                                                   *)
THEOREM KernelKeepsPromise ==
  ASSUME StartRequests = {}
  PROVE  Spec => KeepsPromise
<1>1. Init => Promise!Init
  BY DEF Init, Promise!Init, Outcome
<1>2. ASSUME KernelInvariant, KernelInvariant', [Next]_vars
      PROVE  Promise!Next
  <2>1. \A m \in Missions : Promise!StatusStep(m)
    <3> SUFFICES ASSUME NEW m \in Missions PROVE Promise!StatusStep(m)
      OBVIOUS
    <3>1. StatusKept(m) /\ ~ StaleStart(m)
      BY <1>2, StatusSteps DEF KernelInvariant, StaleStart
    <3> QED
      BY <3>1 DEF StatusKept, Promise!StatusStep, TasksOf, Outcome
  <2>2. \A t \in Tasks : Promise!TaskStep(t)
    BY <1>2, TaskSteps
  <2>3. Promise!OneAtATime
    BY <1>2 DEF Promise!OneAtATime, Outcome, KernelInvariant, NoOrphanedAttempt
  <2> QED
    BY <2>1, <2>2, <2>3 DEF Promise!Next
<1> QED
  BY <1>1, <1>2, KernelInvariantHolds, PTL DEF Spec, KeepsPromise, Promise!Spec

=============================================================================
