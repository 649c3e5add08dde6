---------------------------- MODULE MissionKernel ----------------------------
(***************************************************************************)
(* The execution kernel: Missions moving through their lifecycle, the      *)
(* Tasks of their plans, the attempts the task worker makes at them, the   *)
(* capability effects those attempts leave behind, a worker that may die   *)
(* between any two transactions, and the reconciliation it runs when it    *)
(* comes back.  The Creator's API acts at the same time.                   *)
(*                                                                         *)
(* One action is one database transaction (or one step between two of      *)
(* them).  The worker is a single process, as docker-compose.yml deploys   *)
(* it: its coroutine runs the loop of worker.py from one await to the      *)
(* next.  API requests interleave with it at every transaction boundary.   *)
(*                                                                         *)
(* A Task row is identified with the plan step it is created from (its     *)
(* idempotency key is mission:step_key); until distribution it is ABSENT.  *)
(***************************************************************************)
EXTENDS Naturals, FiniteSets

CONSTANTS
  Missions,        \* Mission rows
  Tasks,           \* steps of all plans, one Task each once distributed
  MissionOf,       \* the Mission a Task belongs to
  DependsOn,       \* depends_on_json of a Task's step, as the Tasks it names
  Universes,       \* Universes, each with the Agent distribution picks in it
  UniverseOf,      \* the Universe a step names
  MaxAttempts,     \* Task.max_attempts
  IntentClasses,   \* kinds of capability intent the model may emit
  StartRequests,   \* concurrent POST /missions/{id}/start requests
  Switchable,      \* Universes the Creator may deactivate and reactivate
  MaxCrashes,      \* bound: unforced worker deaths considered
  None             \* no Mission, no Task

(* A plan is accepted only if its steps form a DAG over the plan itself    *)
(* (core/mission_dag.py), and it has at least one step.                    *)
ASSUME PlanShape ==
  /\ MissionOf \in [Tasks -> Missions]
  /\ DependsOn \in [Tasks -> SUBSET Tasks]
  /\ UniverseOf \in [Tasks -> Universes]
  /\ \A t \in Tasks : \A d \in DependsOn[t] : MissionOf[d] = MissionOf[t]
  /\ \A m \in Missions : \E t \in Tasks : MissionOf[t] = m
ASSUME PlanIsDag ==
  \A S \in SUBSET Tasks : S # {} => \E t \in S : DependsOn[t] \cap S = {}
ASSUME Bounds ==
  /\ MaxAttempts \in Nat \ {0}
  /\ MaxCrashes \in Nat
  /\ Switchable \subseteq Universes
  /\ IntentClasses \subseteq {"retryable", "at_most_once", "understated"}
  /\ None \notin Missions \cup Tasks

VARIABLES
  missionStatus,    \* missions.status
  taskStatus,       \* tasks.status, ABSENT before the row exists
  attempts,         \* tasks.attempt_count
  execution,        \* agent_executions.status of attempt a of a Task
  invocation,       \* capability_invocations row of attempt a of a Task
  activeUniverses,  \* universes.active
  activeAgents,     \* agents.active, by the Universe of the Agent
  pc,               \* where the worker's loop stands
  cur,              \* the Mission the worker is visiting
  claimed,          \* the Task it has claimed
  result,           \* how the claimed attempt ended
  round,            \* mission_context: this pass's Missions still to visit
  reqMission,       \* the Mission of an active start request
  reqCached,        \* the Mission.status that request's session has loaded
  crashes           \* unforced deaths so far

missionVars == missionStatus
taskVars    == <<taskStatus, attempts, execution, invocation>>
switchVars  == <<activeUniverses, activeAgents>>
workerVars  == <<pc, cur, claimed, result, round>>
requestVars == <<reqMission, reqCached>>
vars == <<missionVars, taskVars, switchVars, workerVars, requestVars, crashes>>

-----------------------------------------------------------------------------
(* Statuses and the lifecycle graph. *)

MissionStatus ==
  {"drafted", "planned", "validated", "authorized", "distributed",
   "executing", "manifested", "failed", "cancelled"}

TRANSITIONS ==
  {<<"drafted", "planned">>, <<"planned", "validated">>, <<"validated", "authorized">>,
   <<"authorized", "distributed">>, <<"distributed", "executing">>,
   <<"executing", "manifested">>, <<"executing", "failed">>}
  \cup {<<s, "cancelled">> : s \in {"drafted", "planned", "validated", "authorized",
                                     "distributed", "executing"}}

(* transition(): the target status, or an exception that leaves the row.   *)
CanTransition(m, target) == <<missionStatus[m], target>> \in TRANSITIONS

Terminal == {"manifested", "failed", "cancelled"}
Live     == {"distributed", "executing"}

(* start_mission's steps: what it writes next, by the status it goes by.   *)
steps == [validated |-> "authorized", authorized |-> "distributed", distributed |-> "executing"]
Startable == {"validated", "authorized", "distributed"}

TaskStatus == {"ABSENT", "PENDING", "READY", "RUNNING", "SUCCEEDED", "FAILED", "BLOCKED"}
ExecutionStatus == {"NONE", "RUNNING", "SUCCEEDED", "FAILED"}

(* ABORTED is a FAILED or DENIED row, with an empty result_json; FAILED    *)
(* here holds the adapter's result.  INTERRUPTED is an UNCERTAIN row       *)
(* written by reconciliation, UNCERTAIN one written by the runtime itself. *)
InvocationStatus ==
  {"NONE", "AUTHORIZED", "SUCCEEDED", "FAILED", "ABORTED", "UNCERTAIN", "INTERRUPTED"}
NoInvocation == [status |-> "NONE", intent |-> "none"]

Attempts == 1 .. MaxAttempts
InFlight == {"inference", "effect", "finish"}

TasksOf(m) == {t \in Tasks : MissionOf[t] = m}
FailedDependencyStates == {"FAILED", "BLOCKED", "CANCELLED"}

(* What the adapter's declaration makes of an intent, and what the row     *)
(* records: an understated intent asks for less than the adapter declares. *)
(* The runtime acts on the effective class and stores the requested one.   *)
EffectivelyAtMostOnce(i) == i \in {"at_most_once", "understated"}
RecordedAtMostOnce(i) == i = "at_most_once"

-----------------------------------------------------------------------------
(* refresh_task_readiness: one pass over the PENDING Tasks of a Mission.   *)
(* Statuses change while the pass runs, so a Task blocked early in the     *)
(* pass blocks the dependents that come after it.  The pass is ordered by  *)
(* created_at, which is now() of the distributing transaction and so equal *)
(* for all Tasks of a Mission: any order may happen, and a pass may stop   *)
(* anywhere between "direct dependents only" and the whole cascade.        *)

Pending(st, m) == {t \in TasksOf(m) : st[t] = "PENDING"}

Doomed(st, blocked, t) ==
  \E d \in DependsOn[t] :
    d \in blocked \/ st[d] \in FailedDependencyStates \cup {"ABSENT"}

Satisfied(st, t) == \A d \in DependsOn[t] : st[d] = "SUCCEEDED"

BlockedSets(st, m) ==
  {B \in SUBSET Pending(st, m) :
     /\ \A t \in Pending(st, m) : Doomed(st, {}, t) => t \in B
     /\ \A t \in B : Doomed(st, B, t)}

Refreshed(st, m, B) ==
  [t \in Tasks |->
     IF t \in B THEN "BLOCKED"
     ELSE IF t \in Pending(st, m) /\ Satisfied(st, t) THEN "READY"
     ELSE st[t]]

-----------------------------------------------------------------------------
Init ==
  /\ missionStatus = [m \in Missions |-> "drafted"]
  /\ taskStatus = [t \in Tasks |-> "ABSENT"]
  /\ attempts = [t \in Tasks |-> 0]
  /\ execution = [t \in Tasks |-> [a \in Attempts |-> "NONE"]]
  /\ invocation = [t \in Tasks |-> [a \in Attempts |-> NoInvocation]]
  /\ activeUniverses = Universes
  /\ activeAgents = Universes
  /\ pc = "down" /\ cur = None /\ claimed = None /\ result = "none"
  /\ round = [m \in Missions |-> "none"]
  /\ reqMission = [r \in StartRequests |-> None]
  /\ reqCached = [r \in StartRequests |-> None]
  /\ crashes = 0

-----------------------------------------------------------------------------
(* The Creator's API: transition_mission, one locked transaction each.     *)

SetMission(m, s) == missionStatus' = [missionStatus EXCEPT ![m] = s]

(* _ready_universe_agent for every step of the plan.                       *)
ExecutorsReady(m) ==
  \A t \in TasksOf(m) : UniverseOf[t] \in activeUniverses \cap activeAgents

(* _distribute: Tasks that already exist are kept as they are.             *)
DistributedTasks_Recreated(m) ==
  [t \in Tasks |-> IF MissionOf[t] # m THEN taskStatus[t]
                   ELSE IF DependsOn[t] = {} THEN "READY" ELSE "PENDING"]
DistributedTasks(m) ==
  [t \in Tasks |->
     IF MissionOf[t] # m \/ taskStatus[t] # "ABSENT" THEN taskStatus[t]
     ELSE IF DependsOn[t] = {} THEN "READY" ELSE "PENDING"]

(* PLANNED, VALIDATED, FAILED and CANCELLED only move the status.          *)
MoveMission(m, target) ==
  /\ target \in {"planned", "validated", "failed", "cancelled"}
  /\ CanTransition(m, target)
  /\ SetMission(m, target)
  /\ UNCHANGED <<taskVars, switchVars, workerVars, requestVars, crashes>>

AuthorizeMission(m) ==
  /\ CanTransition(m, "authorized")
  /\ ExecutorsReady(m)
  /\ SetMission(m, "authorized")
  /\ UNCHANGED <<taskVars, switchVars, workerVars, requestVars, crashes>>

DistributeMission(m) ==
  /\ CanTransition(m, "distributed")
  /\ ExecutorsReady(m)
  /\ SetMission(m, "distributed")
  /\ taskStatus' = DistributedTasks(m)
  /\ UNCHANGED <<attempts, execution, invocation, switchVars, workerVars, requestVars, crashes>>

ExecuteMission(m) ==
  /\ CanTransition(m, "executing")
  /\ \E t \in TasksOf(m) : taskStatus[t] # "ABSENT"
  /\ SetMission(m, "executing")
  /\ UNCHANGED <<taskVars, switchVars, workerVars, requestVars, crashes>>

(* set_universe_active and set_agent_active.                               *)
SwitchUniverse(u) ==
  /\ activeUniverses' = IF u \in activeUniverses THEN activeUniverses \ {u}
                        ELSE activeUniverses \cup {u}
  /\ UNCHANGED <<missionVars, taskVars, activeAgents, workerVars, requestVars, crashes>>

SwitchAgent(u) ==
  /\ activeAgents' = IF u \in activeAgents THEN activeAgents \ {u} ELSE activeAgents \cup {u}
  /\ UNCHANGED <<missionVars, taskVars, activeUniverses, workerVars, requestVars, crashes>>

-----------------------------------------------------------------------------
(* start_mission: a chain of transition_mission transactions in one        *)
(* session.  The session keeps the Mission object across its commits       *)
(* (expire_on_commit=False), and SELECT ... FOR UPDATE does not refresh an *)
(* object already loaded, so every step decides by the status the session  *)
(* has cached, and overwrites whatever the row holds by then.              *)

BeginStart(r, m) ==
  /\ reqMission[r] = None
  /\ missionStatus[m] \in Startable
  /\ reqMission' = [reqMission EXCEPT ![r] = m]
  /\ reqCached' = [reqCached EXCEPT ![r] = missionStatus[m]]
  /\ UNCHANGED <<missionVars, taskVars, switchVars, workerVars, crashes>>

StartAuthorizes(r, m) ==
  /\ reqMission[r] = m /\ reqCached[r] = "validated"
  /\ ExecutorsReady(m)
  /\ SetMission(m, "authorized")
  /\ reqCached' = [reqCached EXCEPT ![r] = "authorized"]
  /\ UNCHANGED <<taskVars, switchVars, workerVars, reqMission, crashes>>

StartDistributes(r, m) ==
  /\ reqMission[r] = m /\ reqCached[r] = "authorized"
  /\ ExecutorsReady(m)
  /\ SetMission(m, "distributed")
  /\ taskStatus' = DistributedTasks(m)
  /\ reqCached' = [reqCached EXCEPT ![r] = "distributed"]
  /\ UNCHANGED <<attempts, execution, invocation, switchVars, workerVars, reqMission, crashes>>

(* The last step leaves the loop: the request is over.                     *)
StartExecutes(r, m) ==
  /\ reqMission[r] = m /\ reqCached[r] = "distributed"
  /\ \E t \in TasksOf(m) : taskStatus[t] # "ABSENT"
  /\ SetMission(m, "executing")
  /\ reqMission' = [reqMission EXCEPT ![r] = None]
  /\ reqCached' = [reqCached EXCEPT ![r] = None]
  /\ UNCHANGED <<taskVars, switchVars, workerVars, crashes>>

(* An unready executor raises, and the API process may die between steps.  *)
StartAborts(r) ==
  /\ reqMission[r] # None
  /\ reqMission' = [reqMission EXCEPT ![r] = None]
  /\ reqCached' = [reqCached EXCEPT ![r] = None]
  /\ UNCHANGED <<missionVars, taskVars, switchVars, workerVars, crashes>>

-----------------------------------------------------------------------------
(* The worker's loop: reconcile once, then pass after pass over the        *)
(* Missions that were distributed or executing when the pass began.        *)

(* The process ends; its session rolls back, its coroutine is gone.        *)
WorkerDies ==
  /\ pc' = "down" /\ cur' = None /\ claimed' = None /\ result' = "none"
  /\ round' = [m \in Missions |-> "none"]

Crash ==
  /\ pc # "down" /\ crashes < MaxCrashes
  /\ crashes' = crashes + 1
  /\ WorkerDies
  /\ UNCHANGED <<missionVars, taskVars, switchVars, requestVars>>

OpenInvocation(t, a) == execution[t][a] = "RUNNING" /\ invocation[t][a].status = "AUTHORIZED"

Interrupted(t) == \E a \in Attempts : execution[t][a] = "RUNNING"

InterruptedAtMostOnce(t) ==
  \E a \in Attempts : OpenInvocation(t, a) /\ RecordedAtMostOnce(invocation[t][a].intent)

(* What reconcile() makes of a Task it found RUNNING.                      *)
ReconciledStatus_IgnoresEffects(t) ==
  IF attempts[t] < MaxAttempts THEN "READY" ELSE "FAILED"
ReconciledStatus(t) ==
  IF InterruptedAtMostOnce(t) THEN "BLOCKED"
  ELSE IF attempts[t] < MaxAttempts THEN "READY" ELSE "FAILED"

ReconciledInvocation(row) ==
  [row EXCEPT !.status = IF RecordedAtMostOnce(row.intent) THEN "INTERRUPTED" ELSE "ABORTED"]

ReconciledExecution(s) == IF s = "RUNNING" THEN "FAILED" ELSE s

(* Restart and ExecutionReconciler.reconcile, one transaction.             *)
Reconcile ==
  /\ pc = "down"
  /\ pc' = "loop"
  /\ taskStatus' = [t \in Tasks |-> IF Interrupted(t) THEN ReconciledStatus(t) ELSE taskStatus[t]]
  /\ execution' = [t \in Tasks |-> [a \in Attempts |-> ReconciledExecution(execution[t][a])]]
  /\ invocation' = [t \in Tasks |-> [a \in Attempts |->
                       IF OpenInvocation(t, a) THEN ReconciledInvocation(invocation[t][a])
                       ELSE invocation[t][a]]]
  /\ UNCHANGED <<missionVars, attempts, switchVars, cur, claimed, result, round, requestVars, crashes>>

TakeRound ==
  /\ pc = "loop" /\ \A m \in Missions : round[m] = "none"
  /\ round' = [m \in Missions |-> IF missionStatus[m] \in Live THEN missionStatus[m] ELSE "none"]
  /\ UNCHANGED <<missionVars, taskVars, switchVars, pc, cur, claimed, result, requestVars, crashes>>

(* transition() in start_execution; any other status is left alone.        *)
StartedStatus_Unchecked(s) == "executing"
StartedStatus(s) == IF s = "distributed" THEN "executing" ELSE s

(* MissionRuntimeSupervisor.start_execution, when the pass saw the Mission *)
(* distributed; under the lock it may be anything by now.                  *)
StartExecution(m) ==
  /\ pc = "loop" /\ round[m] = "distributed"
  /\ round' = [round EXCEPT ![m] = "none"]
  /\ pc' = "claim" /\ cur' = m
  /\ SetMission(m, StartedStatus(missionStatus[m]))
  /\ UNCHANGED <<taskVars, switchVars, claimed, result, requestVars, crashes>>

VisitExecuting(m) ==
  /\ pc = "loop" /\ round[m] = "executing"
  /\ round' = [round EXCEPT ![m] = "none"]
  /\ pc' = "claim" /\ cur' = m
  /\ UNCHANGED <<missionVars, taskVars, switchVars, claimed, result, requestVars, crashes>>

(* The check made under the Mission's row lock.                            *)
Claimable_Unchecked(m) == m \in Missions
Claimable(m) == missionStatus[m] = "executing"

(* claim_next_ready_task.  All Tasks of a Mission share created_at, so the *)
(* next READY one is decided by a random uuid.  A READY Task without       *)
(* attempts left would be failed here instead; ReadyHasBudget says that    *)
(* there is none.                                                          *)
ClaimTask(m, t) ==
  /\ pc = "claim" /\ cur = m /\ MissionOf[t] = m
  /\ Claimable(m)
  /\ attempts[t] < MaxAttempts
  /\ UniverseOf[t] \in activeAgents
  /\ \E B \in BlockedSets(taskStatus, m) :
       /\ Refreshed(taskStatus, m, B)[t] = "READY"
       /\ taskStatus' = [Refreshed(taskStatus, m, B) EXCEPT ![t] = "RUNNING"]
  /\ attempts' = [attempts EXCEPT ![t] = attempts[t] + 1]
  /\ execution' = [execution EXCEPT ![t] = [execution[t] EXCEPT ![attempts[t] + 1] = "RUNNING"]]
  /\ claimed' = t /\ pc' = "inference"
  /\ UNCHANGED <<missionVars, invocation, switchVars, cur, result, round, requestVars, crashes>>

(* The claimed Task's Agent is inactive: the claim is rolled back and the  *)
(* ValueError leaves run_worker, ending the process.                       *)
ClaimInactiveAgent(m, t) ==
  /\ pc = "claim" /\ cur = m /\ MissionOf[t] = m
  /\ Claimable(m)
  /\ UniverseOf[t] \notin activeAgents
  /\ \E B \in BlockedSets(taskStatus, m) : Refreshed(taskStatus, m, B)[t] = "READY"
  /\ WorkerDies
  /\ UNCHANGED <<missionVars, taskVars, switchVars, requestVars, crashes>>

ClaimNothing(m) ==
  /\ pc = "claim" /\ cur = m
  /\ \/ ~ Claimable(m) /\ UNCHANGED taskStatus
     \/ /\ Claimable(m)
        /\ \E B \in BlockedSets(taskStatus, m) :
             /\ \A t \in TasksOf(m) : Refreshed(taskStatus, m, B)[t] # "READY"
             /\ taskStatus' = Refreshed(taskStatus, m, B)
  /\ pc' = "evaluate"
  /\ UNCHANGED <<missionVars, attempts, execution, invocation, switchVars, cur, claimed, result,
                 round, requestVars, crashes>>

(* router.generate, outside any transaction: an answer without a           *)
(* capability, a failure before anything was invoked (provider, chain,     *)
(* policy), or the recorded result of an AT_MOST_ONCE invocation that used *)
(* the same key before.                                                    *)
Inference(r) ==
  /\ pc = "inference"
  /\ r = "terminal" =>
       \E t \in Tasks, a \in Attempts :
         /\ invocation[t][a].status = "FAILED"
         /\ EffectivelyAtMostOnce(invocation[t][a].intent)
  /\ pc' = "finish" /\ result' = r
  /\ UNCHANGED <<missionVars, taskVars, switchVars, cur, claimed, round, requestVars, crashes>>

SetInvocation(t, row) ==
  invocation' = [invocation EXCEPT ![t] = [invocation[t] EXCEPT ![attempts[t]] = row]]

(* CapabilityRuntime.execute commits the AUTHORIZED row, then calls the    *)
(* adapter outside any transaction.                                        *)
InvokeCapability(i) ==
  /\ pc = "inference"
  /\ SetInvocation(claimed, [status |-> "AUTHORIZED", intent |-> i])
  /\ pc' = "effect"
  /\ UNCHANGED <<missionVars, taskStatus, attempts, execution, switchVars, cur, claimed, result,
                 round, requestVars, crashes>>

(* What came of it, as the runtime records it and run_next reads it: a     *)
(* result, a denial by the economic gate, an adapter that raised, or an    *)
(* error on the way to the record (a settlement that raises, a pnl that is *)
(* no number, a lost row): run_next catches it and retries the Task while  *)
(* the row stays AUTHORIZED.                                               *)
EffectOutcomes(i) ==
  {[row |-> "SUCCEEDED", result |-> "succeeded"],
   [row |-> "FAILED", result |-> "terminal"],
   [row |-> "ABORTED", result |-> "retry"],
   [row |-> IF EffectivelyAtMostOnce(i) THEN "UNCERTAIN" ELSE "ABORTED", result |-> "retry"],
   [row |-> "AUTHORIZED", result |-> "retry"]}

EffectReturns ==
  /\ pc = "effect"
  /\ LET i == invocation[claimed][attempts[claimed]].intent
     IN \E outcome \in EffectOutcomes(i) :
          /\ SetInvocation(claimed, [status |-> outcome.row, intent |-> i])
          /\ result' = outcome.result
  /\ pc' = "finish"
  /\ UNCHANGED <<missionVars, taskStatus, attempts, execution, switchVars, cur, claimed, round,
                 requestVars, crashes>>

(* The status finish_task_attempt gives the attempt's Task.                *)
FinishedStatus(t) ==
  IF result = "succeeded" THEN "SUCCEEDED"
  ELSE IF result = "retry" /\ attempts[t] < MaxAttempts THEN "READY" ELSE "FAILED"

(* finish_task_attempt, and the refresh it ends with.  It raises unless    *)
(* Task and execution are both RUNNING, which would end the worker.        *)
FinishAttempt(t) ==
  /\ pc = "finish" /\ claimed = t
  /\ taskStatus[t] = "RUNNING" /\ execution[t][attempts[t]] = "RUNNING"
  /\ LET st == [taskStatus EXCEPT ![t] = FinishedStatus(t)]
         m  == MissionOf[t]
     IN \E B \in BlockedSets(st, m) : taskStatus' = Refreshed(st, m, B)
  /\ execution' = [execution EXCEPT ![t] = [execution[t] EXCEPT ![attempts[t]] =
                      IF result = "succeeded" THEN "SUCCEEDED" ELSE "FAILED"]]
  /\ pc' = "evaluate" /\ claimed' = None /\ result' = "none"
  /\ UNCHANGED <<missionVars, attempts, invocation, switchVars, cur, round, requestVars, crashes>>

CompletionTarget_BlockedWaits(m) ==
  IF \E t \in TasksOf(m) : taskStatus[t] = "FAILED" THEN "failed"
  ELSE IF \A t \in TasksOf(m) : taskStatus[t] = "SUCCEEDED" THEN "manifested"
  ELSE "executing"
CompletionTarget(m) ==
  IF \E t \in TasksOf(m) : taskStatus[t] \in {"FAILED", "BLOCKED"} THEN "failed"
  ELSE IF \A t \in TasksOf(m) : taskStatus[t] = "SUCCEEDED" THEN "manifested"
  ELSE "executing"

(* MissionCompletionEngine.evaluate, after the attempt or after an empty   *)
(* claim; the visit is over.                                               *)
EvaluateCompletion(m) ==
  /\ pc = "evaluate" /\ cur = m
  /\ SetMission(m, IF missionStatus[m] = "executing" THEN CompletionTarget(m) ELSE missionStatus[m])
  /\ pc' = "loop" /\ cur' = None
  /\ UNCHANGED <<taskVars, switchVars, claimed, result, round, requestVars, crashes>>

-----------------------------------------------------------------------------
Creator ==
  \/ \E m \in Missions :
       \/ \E target \in MissionStatus : MoveMission(m, target)
       \/ AuthorizeMission(m) \/ DistributeMission(m) \/ ExecuteMission(m)
  \/ \E u \in Switchable : SwitchUniverse(u) \/ SwitchAgent(u)

StartRequest(r) ==
  \/ \E m \in Missions :
       BeginStart(r, m) \/ StartAuthorizes(r, m) \/ StartDistributes(r, m) \/ StartExecutes(r, m)
  \/ StartAborts(r)

Attempt ==
  \/ \E r \in {"succeeded", "retry", "terminal"} : Inference(r)
  \/ \E i \in IntentClasses : InvokeCapability(i)
  \/ EffectReturns
  \/ \E t \in Tasks : FinishAttempt(t)

Worker ==
  \/ Reconcile
  \/ TakeRound
  \/ \E m \in Missions :
       \/ StartExecution(m) \/ VisitExecuting(m) \/ ClaimNothing(m) \/ EvaluateCompletion(m)
       \/ \E t \in Tasks : ClaimTask(m, t) \/ ClaimInactiveAgent(m, t)
  \/ Attempt

Next == Creator \/ (\E r \in StartRequests : StartRequest(r)) \/ Worker \/ Crash

Spec == Init /\ [][Next]_vars

(* The container is restarted whenever it ends (restart: unless-stopped),  *)
(* the loop never stops by itself, and inference and adapters time out.    *)
(* Nothing obliges the Creator to act.                                     *)
FairSpec == Spec /\ WF_vars(Worker)

-----------------------------------------------------------------------------
(* State.                                                                  *)

TypeOK ==
  /\ missionStatus \in [Missions -> MissionStatus]
  /\ taskStatus \in [Tasks -> TaskStatus]
  /\ attempts \in [Tasks -> 0 .. MaxAttempts]
  /\ execution \in [Tasks -> [Attempts -> ExecutionStatus]]
  /\ invocation \in [Tasks -> [Attempts ->
       [status : InvocationStatus, intent : IntentClasses \cup {"none"}]]]
  /\ activeUniverses \subseteq Universes /\ activeAgents \subseteq Universes
  /\ pc \in {"down", "loop", "claim", "evaluate"} \cup InFlight
  /\ cur \in Missions \cup {None}
  /\ claimed \in Tasks \cup {None}
  /\ result \in {"none", "succeeded", "retry", "terminal"}
  /\ round \in [Missions -> Live \cup {"none"}]
  /\ reqMission \in [StartRequests -> Missions \cup {None}]
  /\ reqCached \in [StartRequests -> Startable \cup {None}]
  /\ crashes \in 0 .. MaxCrashes

(* The attempt ledger: attempt a of a Task has an execution row exactly    *)
(* when a is at most attempt_count, every attempt but the latest has       *)
(* failed, and the latest one agrees with the Task, whatever crashes,      *)
(* retries and reconciliations came between.                               *)
AttemptLedger ==
  \A t \in Tasks : \A a \in Attempts :
    /\ execution[t][a] # "NONE" <=> a <= attempts[t]
    /\ a < attempts[t] => execution[t][a] = "FAILED"
    /\ a = attempts[t] => /\ execution[t][a] = "RUNNING" <=> taskStatus[t] = "RUNNING"
                          /\ execution[t][a] = "SUCCEEDED" <=> taskStatus[t] = "SUCCEEDED"

(* At most one Task is RUNNING, and it is the one the worker is working    *)
(* on, unless the worker is down and has yet to reconcile: no attempt is   *)
(* orphaned, and the finish_task_attempt of a live worker never raises.    *)
NoOrphanedAttempt ==
  /\ \A t \in Tasks : taskStatus[t] = "RUNNING" =>
       pc = "down" \/ (pc \in InFlight /\ claimed = t /\ cur = MissionOf[t])
  /\ \A t, u \in Tasks : taskStatus[t] = "RUNNING" /\ taskStatus[u] = "RUNNING" => t = u
  /\ pc \in InFlight => claimed # None /\ taskStatus[claimed] = "RUNNING"

(* A READY Task has an attempt left, so MAX_ATTEMPTS_EXCEEDED never        *)
(* happens at claim time, and no Task is attempted more than max_attempts. *)
ReadyHasBudget ==
  \A t \in Tasks : taskStatus[t] = "READY" => attempts[t] < MaxAttempts

(* A Task that is ready or has ever been attempted has all the Tasks it    *)
(* depends on SUCCEEDED, and they stay so.                                 *)
DependenciesFirst ==
  \A t \in Tasks : taskStatus[t] = "READY" \/ attempts[t] > 0 =>
    \A d \in DependsOn[t] : taskStatus[d] = "SUCCEEDED"

(* A manifested Mission has every one of its Tasks SUCCEEDED, even when    *)
(* start requests have overwritten its status on the way there.            *)
ManifestedMeansDone ==
  \A m \in Missions : missionStatus[m] = "manifested" =>
    \A t \in TasksOf(m) : taskStatus[t] = "SUCCEEDED"

(* An effect the reconciler found interrupted and recorded AT_MOST_ONCE is *)
(* the last attempt ever made at its Task: the Task stays BLOCKED.         *)
InterruptedStaysBlocked ==
  \A t \in Tasks : \A a \in Attempts :
    invocation[t][a].status = "INTERRUPTED" => a = attempts[t] /\ taskStatus[t] = "BLOCKED"

(* Every invocation belongs to an attempt that was made, and no attempt    *)
(* succeeds over an effect that failed, is uncertain or whose row is still *)
(* open.  A row may stay open for good when its attempt failed, but the    *)
(* row of a RUNNING attempt is open only while its effect is under way,    *)
(* while an error is taking it to the retry, or until reconciliation.      *)
EffectsOnRecord ==
  /\ \A t \in Tasks : \A a \in Attempts :
       /\ invocation[t][a].status # "NONE" => a <= attempts[t]
       /\ execution[t][a] = "SUCCEEDED" => invocation[t][a].status \in {"NONE", "SUCCEEDED"}
       /\ OpenInvocation(t, a) => pc \in {"down", "effect"} \/ (pc = "finish" /\ result = "retry")
  /\ pc = "inference" => invocation[claimed][attempts[claimed]].status = "NONE"
  /\ pc = "finish" /\ result = "succeeded" =>
       invocation[claimed][attempts[claimed]].status \in {"NONE", "SUCCEEDED"}

(* Distribution creates all Tasks of a Mission or none.  A Task that has   *)
(* not been readied was never attempted; a RUNNING or SUCCEEDED one was.   *)
DistributedTogether ==
  \A t, u \in Tasks : MissionOf[t] = MissionOf[u] /\ taskStatus[t] = "ABSENT" =>
    taskStatus[u] = "ABSENT"

Attempted ==
  \A t \in Tasks :
    /\ taskStatus[t] \in {"ABSENT", "PENDING"} => attempts[t] = 0
    /\ taskStatus[t] \in {"RUNNING", "SUCCEEDED"} => attempts[t] > 0

(* The inductive invariant: every step keeps all of it.                    *)
KernelInvariant ==
  /\ TypeOK /\ DistributedTogether /\ Attempted
  /\ AttemptLedger /\ NoOrphanedAttempt /\ ReadyHasBudget /\ DependenciesFirst
  /\ ManifestedMeansDone /\ InterruptedStaysBlocked /\ EffectsOnRecord

-----------------------------------------------------------------------------
(* Actions.                                                                *)

(* A finished Task is finished for good: no retry, refresh, redistribution *)
(* or reconciliation touches its status, its attempts or its executions.   *)
FinishedTaskIsFinal ==
  [][\A t \in Tasks : taskStatus[t] \in {"SUCCEEDED", "FAILED", "BLOCKED"} =>
       /\ taskStatus'[t] = taskStatus[t]
       /\ attempts'[t] = attempts[t]
       /\ execution'[t] = execution[t]]_vars

(* Every status change follows TRANSITIONS, except the write a start       *)
(* request makes itself, by a cached status that is no longer the row's.   *)
(* Whatever anyone else writes while such a request is pending follows     *)
(* them too.                                                               *)
StaleStart(m) ==
  \E r \in StartRequests :
    /\ reqMission[r] = m /\ reqCached[r] # missionStatus[m]
    /\ reqMission'[r] # reqMission[r] \/ reqCached'[r] # reqCached[r]
    /\ missionStatus'[m] = steps[reqCached[r]]

TransitionsFollowed ==
  [][\A m \in Missions :
       \/ missionStatus'[m] = missionStatus[m]
       \/ <<missionStatus[m], missionStatus'[m]>> \in TRANSITIONS
       \/ StaleStart(m)]_vars

(* core/domain.py: a cancelled Mission has no transition out.              *)
CancelledIsFinal ==
  [][\A m \in Missions : missionStatus[m] = "cancelled" => missionStatus'[m] = "cancelled"]_vars

-----------------------------------------------------------------------------
(* Progress.                                                               *)

(* A Mission that reached distribution ends, through retries, failures and *)
(* finitely many crashes, as long as its executors stay active.            *)
LiveMissionEnds ==
  \A m \in Missions : missionStatus[m] \in Live ~> missionStatus[m] \in Terminal

-----------------------------------------------------------------------------
(* MissionPromise, read off the kernel's state.                            *)

Outcome(s) ==
  IF s = "RUNNING" THEN "doing"
  ELSE IF s = "SUCCEEDED" THEN "done"
  ELSE IF s \in {"FAILED", "BLOCKED"} THEN "lost" ELSE "todo"

Promise == INSTANCE MissionPromise WITH
  status <- missionStatus, outcome <- [t \in Tasks |-> Outcome(taskStatus[t])],
  Lifecycle <- TRANSITIONS

(* The kernel implements its abstract promise, as long as no start request *)
(* runs (StartRequests = {}): those may overwrite a status they read       *)
(* before.                                                                 *)
KeepsPromise == Promise!Spec
=============================================================================
