---------------------------- MODULE TaskForceRun ----------------------------
(***************************************************************************)
(* A persisted Security Task Force run from the Creator's request to its   *)
(* end: the rows in PostgreSQL, the outbox that starts and cancels the     *)
(* Temporal workflow, the workflow and its activities, and the Rust        *)
(* gateway that puts an action into effect at the Cyber Range.             *)
(*                                                                         *)
(* One action is one transaction, one step of the workflow between two     *)
(* activities, or one message handled by the gateway.  The engine runs an  *)
(* activity at least once, except the dispatch, which it runs at most      *)
(* once; a failed or lost attempt costs one of MaxFaults.                  *)
(*                                                                         *)
(* A plan holds only the capabilities of service.py, whose risk is R1 or   *)
(* R2, so authorization never asks for the Creator's approval and the      *)
(* workflow never reaches AWAITING_CREATOR.                                *)
(***************************************************************************)
EXTENDS Naturals, Sequences, FiniteSets

CONSTANTS
  Runs,            \* rows of stf_runs, each from one start request
  Missions,        \* compiled Missions
  MissionOf,       \* the Mission of a run
  MaxSteps,        \* length of the longest plan
  PlanLength,      \* how many actions the plan of a run has
  Keys,            \* idempotency keys of actions
  KeyOf,           \* the key of the action at a position of a run's plan
  MaxTries,        \* attempts the engine makes at a retried activity
  MaxRevokeTries,  \* attempts it makes at revoking
  MaxDeliveries,   \* outbox deliveries after which a failed one is the last
  MaxFaults        \* bound: lost answers, crashes and restarts considered

Steps == 1 .. MaxSteps   \* positions in a plan

ASSUME PlanShape ==
  /\ MissionOf \in [Runs -> Missions]
  /\ MaxSteps \in Nat
  /\ PlanLength \in [Runs -> Steps]
  /\ KeyOf \in [Runs \X Steps -> Keys]
  /\ \A r \in Runs : \A i, j \in Steps : KeyOf[<<r, i>>] = KeyOf[<<r, j>>] => i = j
ASSUME Limits ==
  /\ {MaxTries, MaxRevokeTries, MaxDeliveries} \subseteq Nat \ {0}
  /\ MaxFaults \in Nat

VARIABLES
  state,          \* stf_runs.state, ABSENT before the row exists
  desired,        \* stf_runs.desired_state
  grants,         \* unspent, unrevoked grants of a run, by plan position
  dispatch,       \* stf_dispatches.status by plan position; "executed" rows
                  \* carry the execution evidence written with them
  startRow,       \* the outbox "start" command of a run and its deliveries
  cancelRow,      \* its "cancel" signal
  cancelling,     \* the Creator's cancel request
  wf,             \* where the workflow stands: the activity it waits for
  at,             \* the plan position the workflow is at
  tries,          \* attempts made at that activity
  told,           \* the workflow has received the cancel signal
  stage,          \* how far a dispatch activity has come
  answer,         \* what it will record
  killFile,       \* kill.json, Missions whose dispatch is stopped
  inbox,          \* requests waiting at the gateway, which serves one at a time
  nonces,         \* nonces.log of the gateway
  gatewayKilled,  \* killed_missions, in the gateway's memory
  effects,        \* effects at the Range, by run and plan position
  faults          \* unforced failures so far

rowVars == <<state, desired, grants, dispatch>>
outboxVars == <<startRow, cancelRow>>
workflowVars == <<wf, at, tries, told>>
dispatchVars == <<stage, answer>>
gatewayVars == <<inbox, nonces, gatewayKilled, effects>>
vars == <<rowVars, outboxVars, cancelling, workflowVars, dispatchVars,
          killFile, gatewayVars, faults>>

-----------------------------------------------------------------------------
RunState == {"QUEUED", "RUNNING", "AWAITING_CREATOR", "VERIFYING", "CANCELLING",
             "UNKNOWN", "COMPLETED", "ABORTED"}
Terminal == {"COMPLETED", "ABORTED"}

Allowed(s) ==
  CASE s = "QUEUED"           -> {"RUNNING", "CANCELLING", "ABORTED"}
    [] s = "RUNNING"          -> {"AWAITING_CREATOR", "VERIFYING", "CANCELLING",
                                  "UNKNOWN", "ABORTED"}
    [] s = "AWAITING_CREATOR" -> {"RUNNING", "CANCELLING", "ABORTED"}
    [] s = "VERIFYING"        -> {"COMPLETED", "CANCELLING", "UNKNOWN", "ABORTED"}
    [] s = "CANCELLING"       -> {"UNKNOWN", "ABORTED"}
    [] s = "UNKNOWN"          -> {"CANCELLING", "ABORTED"}
    [] OTHER                  -> {}

DispatchStatus == {"none", "denied", "authorized", "executed", "unknown"}
RowStatus == {"none", "pending", "acked", "dead"}
NoRow == [status |-> "none", tries |-> 0]

Recording == {"start", "verifying", "completing", "cancelling", "aborting"}
Retried == Recording \cup {"authorize", "verify", "revoke", "kill"}
Over == {"closed", "failed"}
WorkflowPlace == {"unstarted", "dispatch"} \cup Retried \cup Over

Plan(r) == 1 .. PlanLength[r]
Killed(r) == MissionOf[r] \in killFile
AllExecuted(r) == \A i \in Plan(r) : dispatch[r][i] = "executed"

Request(r, i) == [op |-> "execute", run |-> r, step |-> i]
KillMessage(r) == [op |-> "kill", run |-> r, step |-> 0]

(* revoke_run: a run its caller has seen unfinished is to be cancelled,    *)
(* and no grant of it stays usable.                                        *)
Revoked(r, unfinished) ==
  /\ state' = IF unfinished THEN [state EXCEPT ![r] = "CANCELLING"] ELSE state
  /\ desired' = IF unfinished THEN [desired EXCEPT ![r] = "CANCEL"] ELSE desired
  /\ grants' = [grants EXCEPT ![r] = [i \in Steps |-> 0]]

(* set_run_state: refused silently where the table or a cancel forbids it. *)
Accepts(r, s) ==
  /\ state[r] \notin Terminal
  /\ s \in Allowed(state[r])
  /\ desired[r] = "CANCEL" => s \in {"CANCELLING", "UNKNOWN", "ABORTED"}

-----------------------------------------------------------------------------
Init ==
  /\ state = [r \in Runs |-> "ABSENT"]
  /\ desired = [r \in Runs |-> "RUN"]
  /\ grants = [r \in Runs |-> [i \in Steps |-> 0]]
  /\ dispatch = [r \in Runs |-> [i \in Steps |-> "none"]]
  /\ startRow = [r \in Runs |-> NoRow]
  /\ cancelRow = [r \in Runs |-> NoRow]
  /\ cancelling = [r \in Runs |-> "no"]
  /\ wf = [r \in Runs |-> "unstarted"]
  /\ at = [r \in Runs |-> 1]
  /\ tries = [r \in Runs |-> 0]
  /\ told = [r \in Runs |-> FALSE]
  /\ stage = [r \in Runs |-> "idle"]
  /\ answer = [r \in Runs |-> "none"]
  /\ killFile = {}
  /\ inbox = <<>>
  /\ nonces = {}
  /\ gatewayKilled = {}
  /\ effects = [x \in Runs \X Steps |-> 0]
  /\ faults = 0

Fault == faults < MaxFaults /\ faults' = faults + 1

-----------------------------------------------------------------------------
(* The Creator.                                                            *)

(* StfService.start: the run and its start command in one transaction.     *)
(* The same request key again finds the run and adds nothing.              *)
StartRun(r) ==
  /\ state[r] = "ABSENT"
  /\ state' = [state EXCEPT ![r] = "QUEUED"]
  /\ startRow' = [startRow EXCEPT ![r].status = "pending"]
  /\ UNCHANGED <<desired, grants, dispatch, cancelRow, cancelling, workflowVars,
                 dispatchVars, killFile, gatewayVars, faults>>

(* StfService.cancel reads the run without a lock ...                      *)
CancelReads(r) ==
  /\ cancelling[r] = "no"
  /\ state[r] \in RunState \ Terminal
  /\ cancelling' =
       [cancelling EXCEPT ![r] = IF state[r] = "CANCELLING" THEN "readClosing" ELSE "read"]
  /\ UNCHANGED <<rowVars, outboxVars, workflowVars, dispatchVars, killFile,
                 gatewayVars, faults>>

(* ... and revoke_run locks it: the session still holds the state it read, *)
(* which a SELECT FOR UPDATE through the ORM does not refresh.  A column   *)
(* whose value it does not change is not written.                          *)
CancelWrites(r) ==
  /\ cancelling[r] \in {"read", "readClosing"}
  /\ cancelling' = [cancelling EXCEPT ![r] = "done"]
  /\ Revoked(r, cancelling[r] = "read")
  /\ cancelRow' = [cancelRow EXCEPT ![r].status = "pending"]
  /\ UNCHANGED <<dispatch, startRow, workflowVars, dispatchVars, killFile,
                 gatewayVars, faults>>

-----------------------------------------------------------------------------
(* The outbox.  There is one dispatcher, so a lease matters only when its  *)
(* holder is interrupted: the item comes back when the lease lapses, and   *)
(* "pending" stands for both.  A pass claims starts first, but a start and *)
(* its cancel may both be committed between its two claims.                *)

Acked(row) == [status |-> "acked", tries |-> row.tries + 1]

\* Mutant: the claim passes over an item that has had all its deliveries.
Lapsed_ClaimBounded(row) ==
  [status |-> IF row.tries + 1 < MaxDeliveries THEN "pending" ELSE "leased",
   tries  |-> row.tries + 1]

(* The dispatcher dies with the item, before or after delivering it, or    *)
(* cannot record the outcome: the lease lapses and the item is claimed     *)
(* again, however often it has been.                                       *)
Lapsed(row) == [status |-> "pending", tries |-> row.tries + 1]

(* The delivery failed or its answer is uncertain: "retry", which is given *)
(* up on the last attempt and otherwise waits for the lease to lapse.      *)
Kept(row) ==
  IF row.tries + 1 >= MaxDeliveries THEN [status |-> "dead", tries |-> row.tries + 1]
  ELSE Lapsed(row)

Unacked(row) == {Kept(row), Lapsed(row)}

(* Starting twice is harmless: the id is rejected and its memo matches.    *)
Started(r) == IF wf[r] = "unstarted" THEN [wf EXCEPT ![r] = "start"] ELSE wf

DeliverStart(r) ==
  /\ startRow[r].status = "pending"
  /\ \/ /\ wf' = Started(r)
        /\ startRow' = [startRow EXCEPT ![r] = Acked(@)] /\ UNCHANGED faults
     \/ /\ wf' \in {wf, Started(r)}
        /\ \E row \in Unacked(startRow[r]) : startRow' = [startRow EXCEPT ![r] = row]
        /\ Fault
  /\ UNCHANGED <<rowVars, cancelRow, cancelling, at, tries, told, dispatchVars,
                 killFile, gatewayVars>>

(* A workflow that is not there yet, or has ended, takes no signal.        *)
Signalled(r) == IF wf[r] \in {"unstarted"} \cup Over THEN told ELSE [told EXCEPT ![r] = TRUE]

DeliverCancel(r) ==
  /\ cancelRow[r].status = "pending"
  /\ \/ /\ wf[r] \notin {"unstarted"} \cup Over
        /\ told' = Signalled(r)
        /\ cancelRow' = [cancelRow EXCEPT ![r] = Acked(@)] /\ UNCHANGED faults
     \/ /\ told' \in {told, Signalled(r)}
        /\ \E row \in Unacked(cancelRow[r]) : cancelRow' = [cancelRow EXCEPT ![r] = row]
        /\ Fault
     \/ /\ wf[r] \in {"unstarted"} \cup Over
        /\ cancelRow' = [cancelRow EXCEPT ![r] = Kept(@)] /\ UNCHANGED <<told, faults>>
  /\ UNCHANGED <<rowVars, startRow, cancelling, wf, at, tries, dispatchVars,
                 killFile, gatewayVars>>

-----------------------------------------------------------------------------
(* The workflow.  It looks at the cancel signal before each action, after  *)
(* the last one, and when it aborts.                                       *)

AbortFrom(r) == IF told[r] THEN "cancelling" ELSE "revoke"
Onward(r, i) ==
  IF told[r] THEN "cancelling"
  ELSE IF i \in Plan(r) THEN "authorize" ELSE "verifying"

TriesAllowed(place) == IF place \in {"revoke", "kill"} THEN MaxRevokeTries ELSE MaxTries

(* An attempt that failed, or whose answer was lost: the engine tries the  *)
(* whole activity again, or gives up and with it the workflow.             *)
TryAgain(r) ==
  /\ Fault
  /\ IF tries[r] + 1 < TriesAllowed(wf[r])
     THEN /\ wf' = IF wf[r] = "kill" THEN [wf EXCEPT ![r] = "revoke"] ELSE wf
          /\ tries' = [tries EXCEPT ![r] = @ + 1]
     ELSE /\ wf' = [wf EXCEPT ![r] = "failed"]
          /\ tries' = [tries EXCEPT ![r] = 0]

Returns(r, next) ==
  \/ wf' = [wf EXCEPT ![r] = next] /\ tries' = [tries EXCEPT ![r] = 0] /\ UNCHANGED faults
  \/ TryAgain(r)

ActivityFails(r) ==
  /\ wf[r] \in Retried
  /\ TryAgain(r)
  /\ UNCHANGED <<rowVars, outboxVars, cancelling, at, told, dispatchVars,
                 killFile, gatewayVars>>

(* stf_record_state                                                        *)
Record(r, place, s, next) ==
  /\ wf[r] = place
  /\ state' = IF Accepts(r, s) THEN [state EXCEPT ![r] = s] ELSE state
  /\ Returns(r, next)
  /\ UNCHANGED <<desired, grants, dispatch, outboxVars, cancelling, at, told,
                 dispatchVars, killFile, gatewayVars>>

RecordRunning(r)    == Record(r, "start", "RUNNING", Onward(r, 1))
RecordVerifying(r)  == Record(r, "verifying", "VERIFYING", "verify")
RecordCompleted(r)  == Record(r, "completing", "COMPLETED", "closed")
RecordCancelling(r) == Record(r, "cancelling", "CANCELLING", "revoke")
RecordAborted(r)    == Record(r, "aborting", "ABORTED", "closed")

\* Mutant: the kill switch is taken for the whole check.
MayAuthorize_KillSwitchOnly(r) == ~Killed(r)

(* stf_authorize_action: the kill switch, then under the lock of the run   *)
(* its state, the contract, the local rules and OPA, then a grant.         *)
MayAuthorize(r) == ~Killed(r) /\ desired[r] = "RUN" /\ state[r] = "RUNNING"

(* issue_grant: a grant of one use for the action at hand.                 *)
Granted(r) == grants' = [grants EXCEPT ![r][at[r]] = @ + 1]

Authorize(r) ==
  /\ wf[r] = "authorize"
  /\ \/ /\ MayAuthorize(r)
        /\ Granted(r)
        /\ Returns(r, "dispatch")
     \/ /\ UNCHANGED grants
        /\ Returns(r, AbortFrom(r))
  /\ UNCHANGED <<state, desired, dispatch, outboxVars, cancelling, at, told,
                 dispatchVars, killFile, gatewayVars>>

(* stf_verify_mission                                                      *)
Verify(r) ==
  /\ wf[r] = "verify"
  /\ Returns(r, IF AllExecuted(r) THEN "completing" ELSE AbortFrom(r))
  /\ UNCHANGED <<rowVars, outboxVars, cancelling, at, told, dispatchVars,
                 killFile, gatewayVars>>

(* stf_revoke_grants: the rows, then the kill switch and the gateway, in   *)
(* one activity.  A gateway that cannot be reached is passed over.         *)
RevokeRows(r) ==
  /\ wf[r] = "revoke"
  /\ Revoked(r, state[r] \notin Terminal)
  /\ wf' = [wf EXCEPT ![r] = "kill"]
  /\ UNCHANGED <<dispatch, outboxVars, cancelling, at, tries, told, dispatchVars,
                 killFile, gatewayVars, faults>>

KillMission(r) ==
  /\ wf[r] = "kill"
  /\ killFile' = killFile \cup {MissionOf[r]}
  /\ \/ inbox' = Append(inbox, KillMessage(r)) /\ Returns(r, "aborting")
     \/ /\ UNCHANGED inbox /\ Fault
        /\ wf' = [wf EXCEPT ![r] = "aborting"]
        /\ tries' = [tries EXCEPT ![r] = 0]
  /\ UNCHANGED <<rowVars, outboxVars, cancelling, at, told, dispatchVars,
                 nonces, gatewayKilled, effects>>

-----------------------------------------------------------------------------
(* stf_dispatch_action: look at the kill switch, reserve, ask the gateway, *)
(* record.  Its code may outlive the attempt the engine gave up on.        *)

LookAtKillSwitch(r) ==
  /\ wf[r] = "dispatch" /\ stage[r] = "idle"
  /\ IF Killed(r)
     THEN wf' = [wf EXCEPT ![r] = AbortFrom(r)] /\ UNCHANGED stage
     ELSE stage' = [stage EXCEPT ![r] = "looked"] /\ UNCHANGED wf
  /\ UNCHANGED <<rowVars, outboxVars, cancelling, at, tries, told, answer,
                 killFile, gatewayVars, faults>>

\* Mutant: the reservation trusts the decision it is given.
Reservable_TrustsDecision(r) == dispatch[r][at[r]] = "none"

(* _grant_refusal: a grant for the action that is neither used nor revoked. *)
Spendable(r) == grants[r][at[r]] > 0

(* reserve_dispatch, under the lock of the run.  An earlier reservation is *)
(* reported, never repeated.                                               *)
Reservable(r) ==
  /\ desired[r] = "RUN" /\ state[r] = "RUNNING"
  /\ Spendable(r)
  /\ dispatch[r][at[r]] = "none"

Reserve(r) ==
  /\ stage[r] = "looked"
  /\ \/ /\ Reservable(r)
        /\ grants' = [grants EXCEPT ![r][at[r]] = @ - 1]
        /\ dispatch' = [dispatch EXCEPT ![r][at[r]] = "authorized"]
        /\ stage' = [stage EXCEPT ![r] = "reserved"]
        /\ UNCHANGED wf
     \/ /\ wf' = IF wf[r] = "dispatch" THEN [wf EXCEPT ![r] = AbortFrom(r)] ELSE wf
        /\ stage' = [stage EXCEPT ![r] = "idle"]
        /\ UNCHANGED <<grants, dispatch>>
  /\ UNCHANGED <<state, desired, outboxVars, cancelling, at, tries, told, answer,
                 killFile, gatewayVars, faults>>

Answers(r, a) ==
  /\ stage' = [stage EXCEPT ![r] = "answered"]
  /\ answer' = [answer EXCEPT ![r] = a]

(* Nothing was sent when the connection fails.                             *)
AskGateway(r) ==
  /\ stage[r] = "reserved"
  /\ \/ /\ inbox' = Append(inbox, Request(r, at[r]))
        /\ stage' = [stage EXCEPT ![r] = "asked"]
        /\ UNCHANGED <<answer, faults>>
     \/ Answers(r, "denied") /\ Fault /\ UNCHANGED inbox
  /\ UNCHANGED <<rowVars, outboxVars, cancelling, workflowVars, killFile,
                 nonces, gatewayKilled, effects>>

Waiting(r) == \E n \in 1 .. Len(inbox) : inbox[n] = Request(r, at[r])

AnswerTimesOut(r) ==
  /\ stage[r] = "asked"
  /\ IF Waiting(r) THEN Fault ELSE UNCHANGED faults
  /\ Answers(r, "unknown")
  /\ UNCHANGED <<rowVars, outboxVars, cancelling, workflowVars, killFile, gatewayVars>>

(* Evidence and outcome in one transaction; then the workflow goes on, if  *)
(* it still waits for this activity.                                       *)
RecordOutcome(r) ==
  /\ stage[r] = "answered"
  /\ dispatch' = [dispatch EXCEPT ![r][at[r]] = answer[r]]
  /\ stage' = [stage EXCEPT ![r] = "idle"]
  /\ answer' = [answer EXCEPT ![r] = "none"]
  /\ IF wf[r] # "dispatch" THEN UNCHANGED <<wf, at>>
     ELSE IF answer[r] = "executed"
          THEN /\ wf' = [wf EXCEPT ![r] = Onward(r, at[r] + 1)]
               /\ at' = IF at[r] < PlanLength[r] THEN [at EXCEPT ![r] = @ + 1] ELSE at
          ELSE wf' = [wf EXCEPT ![r] = AbortFrom(r)] /\ UNCHANGED at
  /\ UNCHANGED <<state, desired, grants, outboxVars, cancelling, tries, told,
                 killFile, gatewayVars, faults>>

(* The single attempt fails or times out, and so does the workflow.  The   *)
(* activity's code may be dead with its worker or still be running.        *)
DispatchLost(r) ==
  /\ wf[r] = "dispatch" /\ Fault
  /\ wf' = [wf EXCEPT ![r] = "failed"]
  /\ stage' \in {stage, [stage EXCEPT ![r] = "idle"]}
  /\ answer' = IF stage'[r] = "idle" THEN [answer EXCEPT ![r] = "none"] ELSE answer
  /\ UNCHANGED <<rowVars, outboxVars, cancelling, at, tries, told, killFile, gatewayVars>>

-----------------------------------------------------------------------------
(* The gateway serves one connection after the other.                      *)

Refuses(m) ==
  MissionOf[m.run] \in gatewayKilled \/ KeyOf[<<m.run, m.step>>] \in nonces

Replies(m, a) ==
  \/ /\ IF stage[m.run] = "asked" /\ at[m.run] = m.step THEN Answers(m.run, a)
        ELSE UNCHANGED dispatchVars
     /\ UNCHANGED faults
  \/ Fault /\ UNCHANGED dispatchVars

(* The Range does what is asked and says so; or refuses, or cannot be      *)
(* reached; or does it and its answer is lost, which the gateway reports   *)
(* as a refusal as well.                                                   *)
RangeActs(m) ==
  \/ effects' = [effects EXCEPT ![<<m.run, m.step>>] = @ + 1] /\ Replies(m, "executed")
  \/ UNCHANGED effects /\ Replies(m, "denied")
  \/ /\ effects' = [effects EXCEPT ![<<m.run, m.step>>] = @ + 1]
     /\ Fault
     /\ IF stage[m.run] = "asked" /\ at[m.run] = m.step THEN Answers(m.run, "denied")
        ELSE UNCHANGED dispatchVars

GatewayExecutes ==
  /\ inbox # <<>> /\ Head(inbox).op = "execute"
  /\ inbox' = Tail(inbox)
  /\ IF Refuses(Head(inbox))
     THEN Replies(Head(inbox), "denied") /\ UNCHANGED <<nonces, effects>>
     ELSE /\ nonces' = nonces \cup {KeyOf[<<Head(inbox).run, Head(inbox).step>>]}
          /\ RangeActs(Head(inbox))
  /\ UNCHANGED <<rowVars, outboxVars, cancelling, workflowVars, killFile, gatewayKilled>>

GatewayKills ==
  /\ inbox # <<>> /\ Head(inbox).op = "kill"
  /\ inbox' = Tail(inbox)
  /\ gatewayKilled' = gatewayKilled \cup {MissionOf[Head(inbox).run]}
  /\ UNCHANGED <<rowVars, outboxVars, cancelling, workflowVars, dispatchVars,
                 killFile, nonces, effects, faults>>

(* A restart forgets the kills and the connections, not the nonces.        *)
GatewayRestarts ==
  /\ Fault
  /\ inbox' = <<>> /\ gatewayKilled' = {}
  /\ UNCHANGED <<rowVars, outboxVars, cancelling, workflowVars, dispatchVars,
                 killFile, nonces, effects>>

-----------------------------------------------------------------------------
Creator(r) ==
  \/ StartRun(r) \/ CancelReads(r) \/ CancelWrites(r)

WorkflowStep(r) ==
  \/ RecordRunning(r) \/ RecordVerifying(r) \/ RecordCompleted(r)
  \/ RecordCancelling(r) \/ RecordAborted(r)
  \/ Authorize(r) \/ Verify(r) \/ RevokeRows(r) \/ KillMission(r)
  \/ LookAtKillSwitch(r) \/ Reserve(r) \/ AskGateway(r) \/ RecordOutcome(r)

Deliver(r) == DeliverStart(r) \/ DeliverCancel(r)

RunStep(r) ==
  \/ Creator(r) \/ Deliver(r) \/ WorkflowStep(r)
  \/ ActivityFails(r) \/ AnswerTimesOut(r) \/ DispatchLost(r)

Next ==
  \/ \E r \in Runs : RunStep(r)
  \/ GatewayExecutes \/ GatewayKills \/ GatewayRestarts

Spec == Init /\ [][Next]_vars

(* The dispatcher polls, the engine schedules what is due and gives up a   *)
(* request after its timeout, and the gateway serves its listener.         *)
FairSpec ==
  /\ Spec
  /\ WF_vars(\E r \in Runs : Deliver(r))
  /\ \A r \in Runs : WF_vars(WorkflowStep(r) \/ AnswerTimesOut(r))
  /\ WF_vars(GatewayExecutes \/ GatewayKills)

-----------------------------------------------------------------------------
(* Properties.                                                             *)

RowTypes ==
  /\ state \in [Runs -> RunState \cup {"ABSENT"}]
  /\ desired \in [Runs -> {"RUN", "CANCEL"}]
  /\ grants \in [Runs -> [Steps -> Nat]]
  /\ dispatch \in [Runs -> [Steps -> DispatchStatus]]

OutboxTypes ==
  /\ startRow \in [Runs -> [status : RowStatus, tries : Nat]]
  /\ cancelRow \in [Runs -> [status : RowStatus, tries : Nat]]
  /\ cancelling \in [Runs -> {"no", "read", "readClosing", "done"}]

WorkflowTypes ==
  /\ wf \in [Runs -> WorkflowPlace]
  /\ at \in [Runs -> Steps]
  /\ tries \in [Runs -> Nat]
  /\ told \in [Runs -> BOOLEAN]
  /\ stage \in [Runs -> {"idle", "looked", "reserved", "asked", "answered"}]
  /\ answer \in [Runs -> {"none", "denied", "unknown", "executed"}]
  /\ faults \in 0 .. MaxFaults

GatewayTypes ==
  /\ killFile \subseteq Missions
  /\ inbox \in Seq([op : {"execute", "kill"}, run : Runs, step : Nat])
  /\ nonces \subseteq Keys
  /\ gatewayKilled \subseteq Missions
  /\ effects \in [Runs \X Steps -> Nat]

TypeOK == RowTypes /\ OutboxTypes /\ WorkflowTypes /\ GatewayTypes

(* An idempotency key has at most one effect at the Range: the same        *)
(* request twice, the same key in two runs, a redelivery and a gateway     *)
(* restart included (reserve_dispatch, FileReplayStore.reserve).           *)
EffectOncePerKey ==
  \A x, y \in Runs \X Steps :
    /\ effects[x] <= 1
    /\ x # y /\ KeyOf[x] = KeyOf[y] => effects[x] = 0 \/ effects[y] = 0

(* A completed run is one whose every planned action took effect and was   *)
(* recorded with its evidence, whatever retries, lost answers and cancels  *)
(* came on the way (workflows.run, verify_run_evidence, set_run_state).    *)
CompletedMeansProven ==
  \A r \in Runs :
    state[r] = "COMPLETED" =>
      /\ desired[r] = "RUN"
      /\ \A i \in Plan(r) : dispatch[r][i] = "executed" /\ effects[<<r, i>>] = 1

(* Actions take effect in the order of the plan, each after the outcome of *)
(* the earlier ones is on record, and never without a reservation of its   *)
(* own (workflows.run, _dispatch_persisted).                               *)
PlanOrder ==
  \A r \in Runs : \A i \in Plan(r) :
    effects[<<r, i>>] > 0 =>
      /\ dispatch[r][i] # "none"
      /\ \A j \in 1 .. i - 1 : dispatch[r][j] = "executed"

(* A cancelled run holds no authority: no grant of it is left to spend,    *)
(* however the cancel raced authorization (revoke_run, issue_grant).       *)
AuthorityEndsWithCancel ==
  \A r \in Runs : desired[r] = "CANCEL" => \A i \in Steps : grants[r][i] = 0

(* An aborted run is sealed: its authority is gone and dispatch for its    *)
(* Mission is stopped before the terminal state is written, also by an     *)
(* attempt that was repeated (workflows._abort, revoke_grants).            *)
AbortedIsSealed ==
  \A r \in Runs :
    state[r] = "ABORTED" => Killed(r) /\ \A i \in Steps : grants[r][i] = 0

(* Cancellation racing a dispatch: once a run is cancelled and nothing it  *)
(* reserved earlier is under way, no request of it reaches the gateway     *)
(* again, not even from a dispatch activity the engine gave up on          *)
(* (revoke_run, reserve_dispatch).                                         *)
UnderWay(r) ==
  \/ stage[r] \in {"reserved", "asked", "answered"}
  \/ \E n \in 1 .. Len(inbox) : inbox[n].op = "execute" /\ inbox[n].run = r

CancelStaysQuiet ==
  [][\A r \in Runs : desired[r] = "CANCEL" /\ ~UnderWay(r) => ~UnderWay(r)']_vars

(* A started run reaches its end through lost answers, retries and a       *)
(* restarted gateway, and a dispatcher that dies at any delivery of its    *)
(* start command, the last included; unless every delivery of that command *)
(* failed before the workflow existed, an activity used up all its         *)
(* attempts, or the Creator asked to cancel the run                        *)
(* (TemporalDispatcher, claim_outbox, MissionWorkflow).                    *)
StartedRunEnds ==
  \A r \in Runs :
    state[r] = "QUEUED" ~>
      \/ state[r] \in Terminal
      \/ startRow[r].status = "dead" /\ wf[r] = "unstarted"
      \/ wf[r] = "failed" \/ cancelling[r] # "no"

-----------------------------------------------------------------------------
(* The inductive invariant behind the safety properties.                   *)

(* A spent key is on record at the gateway.                                *)
NoncesRemember == \A x \in Runs \X Steps : effects[x] > 0 => KeyOf[x] \in nonces

(* An action was reserved, and every earlier one of its run is done.       *)
InOrder(r, i) ==
  /\ i \in Plan(r)
  /\ dispatch[r][i] # "none"
  /\ \A j \in 1 .. i - 1 : dispatch[r][j] = "executed"

(* What waits at the gateway was reserved in its turn.                     *)
RequestsInOrder ==
  \A n \in 1 .. Len(inbox) :
    inbox[n].op = "execute" => InOrder(inbox[n].run, inbox[n].step)

(* A run stands at its first action that is not done; a dispatch under way *)
(* is of that action, and "executed" is said of effects only.              *)
DispatchOnTrack ==
  \A r \in Runs :
    /\ at[r] \in Plan(r)
    /\ \A j \in 1 .. at[r] - 1 : dispatch[r][j] = "executed"
    /\ stage[r] \in {"reserved", "asked", "answered"} => dispatch[r][at[r]] = "authorized"
    /\ stage[r] = "answered" => answer[r] # "none"
    /\ stage[r] = "answered" /\ answer[r] = "executed" => effects[<<r, at[r]>>] = 1
    /\ \A i \in Plan(r) : dispatch[r][i] = "executed" => effects[<<r, i>>] = 1

(* Where an abort has come decides what it has already taken away.         *)
AbortOnTrack ==
  \A r \in Runs :
    /\ wf[r] \in {"kill", "aborting"} => \A i \in Steps : grants[r][i] = 0
    /\ wf[r] = "aborting" => Killed(r)
    /\ state[r] = "ABORTED" => wf[r] \in {"aborting"} \cup Over

CompletionOnTrack ==
  \A r \in Runs : wf[r] = "completing" \/ state[r] = "COMPLETED" => AllExecuted(r)

(* A command is given up only after MaxDeliveries deliveries; one that is  *)
(* still waiting has had more only by as many interruptions.  It is        *)
(* written only once.                                                      *)
Waited(row) ==
  /\ row.status = "dead" => row.tries >= MaxDeliveries
  /\ row.status = "pending" => row.tries < MaxDeliveries + faults

OutboxOnTrack ==
  \A r \in Runs :
    /\ Waited(startRow[r]) /\ Waited(cancelRow[r])
    /\ state[r] = "ABSENT" => startRow[r] = NoRow
    /\ cancelling[r] # "done" => cancelRow[r] = NoRow

TaskForceInvariant ==
  /\ TypeOK /\ OutboxOnTrack
  /\ EffectOncePerKey /\ NoncesRemember
  /\ PlanOrder /\ RequestsInOrder /\ DispatchOnTrack
  /\ AuthorityEndsWithCancel /\ AbortedIsSealed /\ AbortOnTrack
  /\ CompletedMeansProven /\ CompletionOnTrack
=============================================================================
