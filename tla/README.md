# A TLA+ model of the Creation OS

This repository acts for one person, the *Creator*: it plans and runs Missions,
spends capital, drives a security range, answers questions typed and spoken, and
remembers.  The parts that decide whether what it does happens once, in order,
and stops when it is told to stop are modelled here, checked with TLC on small
instances and, where the prover reaches, proved with TLAPS for every value of
the constants.

Paths below are relative to the root of the repository; `app/` stands for
`backend/app/`.

## 1. The system and its parts

A FastAPI backend (one API process), a task worker, a Temporal worker, a
diagnostics worker, a knowledge worker, a Rust security gateway and a training
range share one PostgreSQL database, a Redis and a few state files; a browser
and a microphone client talk to the API.  A *Mission* becomes a plan, the plan
becomes *Tasks* of *Agents* in *Universes*, a Task becomes a model call that may
ask for a *capability*, and a capability may spend capital and act outside.

| Component (sources) | State | Operations | What is hard |
|---|---|---|---|
| **Mission kernel** (`app/worker.py`, `app/kernel/`) | rows of missions, tasks, agent_executions, capability_invocations | distribute, refresh, claim, infer, finish, evaluate, reconcile | transactions of the worker and the API interleave; the worker dies between two of them |
| **Mission lifecycle, Universe** (`app/services/domain.py`, `app/core/`) | missions.status, active flags of Universes and Agents | transition_mission, start_mission, set_universe_active, set_agent_active | a start request is a chain of transactions on a cached row |
| **Capability runtime** (`app/capabilities/`) | capability_invocations | authorize, claim a key, prepare, call the adapter, record | retries of a key, ambiguous outcomes, death around the effect |
| **Economy of real effects** (`app/services/economy.py`) | append-only ledger, projected by a fold | RESERVE, COMMIT, SETTLING, SETTLE, PROFIT, LOSS, UNKNOWN, RECONCILED, SUSPENSION | check then append under a lock that only one of them takes; settlement over several transactions |
| **Task Force run** (`app/security_task_force/repository.py`, `service.py`, `dispatcher.py`, `workflows.py`, `activities.py`) | runs, grants, dispatches, outbox, workflow history, kill file | start, cancel, deliver, authorize, reserve, dispatch, verify, revoke | at-least-once activities, cancel racing dispatch, lost answers |
| **Security gateway** (`security_gateway/src`) | killed Missions in memory, nonces on disk | execute, kill, restart | a restart forgets one and keeps the other |
| **Opportunities, autonomous competition** (`app/services/opportunity.py`, `app/autonomy/`) | opportunities, theses, claims, backoffs | discover, claim, evaluate, resolve, launch | stale claims are taken over while their owner may still work |
| **Inference routing** (`app/inference/`) | per-provider health in memory | route, fall back, break, cool down | concurrent requests share the breaker; some ends of a call tell it nothing |
| **Semantic cache** (`app/cache/`) | rows in PostgreSQL, copies and locks in Redis | look up, single-flight, admit, invalidate | two stores that fail and expire apart; a request outlives its lock |
| **Deus conversation** (`app/services/deus*.py`, `app/api/deus.py`) | generation rows under a lease, Conversation entries | claim, question, deliberate, answer, store | a client repeats a request whose first attempt is still under way |
| **Voice sessions** (`app/voice_session/`, `app/api/voice_session.py`) | session mode and turn, a queue, claims and pending replies | hear, claim, ask, stream, speak, store, barge in, close | the socket's handler and the pump share everything |
| **Knowledge** (`app/knowledge/`) | items and revisions, an outbox, receipts, an epoch row, files of a vault | write, revise, revoke, import, back-fill, index, export | one message is imported by three paths; the vault is also the Creator's |
| **Diagnostics** (`app/diagnostics/`) | rules in memory, a SQLite journal, incidents, notes | probe, rule, journal, publish, acknowledge, recover | two stores without a common commit |
| **Chronicle, projections** (`app/repositories/domain.py`, `app/projections/`, `app/api/system_state.py`) | hash-chained events, checkpoints, the browser's cursor | append, verify, project, report, stream | order of positions against order of commits; broken connections |
| **Task Force evidence, qualification, training** (`app/security_task_force/evidence.py`, `qualification.py`, `training*.py`) | evidence, scores, training jobs | record, correlate, finalize, schedule one at a time | evidence and finalization are not under the same lock |
| **Task Force state files and events** (`app/security_task_force/_state_file.py`, `grants.py`, `kill_switch.py`, `event_bus.py`) | JSON files, an in-memory set of seen events | read, change, replace | two processes, no lock |
| **Cyber Range** (`cyber_range/`) | scenario containers | act, reset, relay | as far as the gateway sees: acts, refuses or is not heard |
| **Authentication** (`app/auth/`) | refresh tokens in Redis | rotate, revoke | a token used twice |
| **Capability adapters**, **HTTP API and rows**, **observability and admin**, **frontend**, **deployment** | none of their own, or outside this repository's control | I/O | read for what they say about the others |

How they interact: the API changes Mission rows that the worker reads again
under the row's lock; the worker's attempt calls the inference router (through
the cache) and, if the model asks for it, the capability runtime, which asks the
policy, then the economy, then the adapter, and writes its invocation row around
them; the restarted worker's reconciler reads those rows and nothing else.  A
Task Force run is a row and an outbox item in one transaction; the dispatcher
turns the item into a workflow; the workflow's activities write rows, read
`kill.json` and send a line to the gateway, which asks the Range.  A question,
typed or spoken, claims a row of the same table of generations, retrieves from
the knowledge store, asks the router, and stores its answer with the end of its
row.  The diagnostics worker writes what it finds into the knowledge store.
Nearly everything appends to the Chronicle, from which the projections and the
browser follow.

`PROJECT.json` lists the hazards of this code line by line; those with no
property yet carry the reason.

What makes each part correct, in one line each:

* kernel: no attempt is lost, orphaned or made beyond the budget or before its
  dependencies; what is finished stays finished; a Mission ends for the right reason;
* economy and capability runtime: a key buys one effect; what is refused never
  acts; who is told "ok" is told of an effect that happened and whose money is
  booked; capital in flight is what the calls hold;
* Task Force run: a key takes effect once; completed means proven; actions
  follow the plan; a cancelled or aborted run has no authority left;
* opportunities: one Mission per opportunity, whoever takes a claim over;
* inference and cache: an answer from a reserve says so; an invalidation reaches
  every answer stored for it; a lock is freed by its owner;
* conversation and voice: a request id has one answer; a reply is stored only by
  who holds the turn; the session listens again; a turn ends;
* knowledge: a message becomes one item; a revocation is final, in the index and
  in the vault; what the Creator wrote is kept;
* diagnostics: an entry is counted once and lost never;
* Chronicle: the chain verifies; projections only advance; a browser misses nothing;
* evidence and training: a qualification counts all evidence recorded before
  it; one training at a time.

## 2. Modules and plan

```
MissionKernel           the kernel with the Creator's API around it
MissionPromise          what a Mission promises whoever watches it (abstract)
MissionKernelProofs, MCKernel
CapabilityEconomy       a governed capability call and the economic ledger
CapabilityEconomyProofs, MCEconomy
TaskForceRun            run rows, outbox, workflow, activities and gateway
TaskForceRunProofs, MCTaskForce
OpportunityCompetition  opportunities, competing theses, workers and leases
OpportunityCompetitionProofs, MCOpportunity
ModelRouter             providers, circuits, cooldowns, fallback
SemanticCache           the cache around it: EXTENDS ModelRouter
InferenceProofs, MCInference
TurnStore               the rows of generations and their leases
DeusTurn                a typed question: EXTENDS TurnStore
VoiceTurn               a spoken conversation: EXTENDS TurnStore
ConversationProofs, MCDeus
KnowledgeStore          items, revisions, outbox, index and their writers
KnowledgeVault          the export over it: EXTENDS KnowledgeStore
MCKnowledge
DiagnosticObserver      the diagnostics worker, its journal and its incidents
KnowledgeProofs         knowledge and diagnostics
MCDiagnostics
ChronicleFeed           the Chronicle, its projections, its stream
EventLog                what a log promises its readers (abstract)
ChronicleFeedProofs, MCChronicle
```

`MissionKernel` instantiates `MissionPromise`, and `ChronicleFeed` instantiates
`EventLog`, each with a refinement mapping.
`CapabilityEconomy` opens up what `MissionKernel` has as the one step between
`InvokeCapability` and `EffectReturns`: the outcomes of the second are the ways
a call of the first ends (`EffectOutcomes` against `Finish`, `Refuse` and
`Recover`).  `TaskForceRun` holds the gateway too, because every property worth
stating relates a row in the database to an effect behind the gateway.
`SemanticCache` composes the cache with the router it wraps, `DeusTurn` and
`VoiceTurn` are two clients of one `TurnStore`, and `KnowledgeVault` puts the
exporter beside every writer of `KnowledgeStore`.

Left in the plan: evidence, qualification and training of the Task Force with
the two JSON files (their hazards are listed); and, as an abstract specification
worth refining, "one decision for each opportunity".

## 3. The mission kernel: `MissionKernel`

One action is one database transaction, or the stretch of work between two.
The Task worker is one process (`docker-compose.yml:86-104`, one container,
`restart: unless-stopped`), so its place in the loop of `run_worker` is one
variable, `pc`; the Mission it is visiting, the Task it has claimed and the
result in its hands are local variables of that coroutine (`cur`, `claimed`,
`result`) and vanish with it.

| Model | Code |
|---|---|
| `MoveMission`, `AuthorizeMission`, `DistributeMission`, `ExecuteMission` | `LivingCoreService.transition_mission`, by target |
| `BeginStart` .. `StartExecutes`, `StartAborts` | `start_mission`: one transaction per step, one session |
| `SwitchUniverse`, `SwitchAgent` | `set_universe_active`, `set_agent_active` |
| `Reconcile` | restart and `ExecutionReconciler.reconcile` |
| `TakeRound`, `StartExecution`, `VisitExecuting` | `mission_context` and the supervisor |
| `ClaimTask`, `ClaimInactiveAgent`, `ClaimNothing` | `claim_next_ready_task`, with the refresh it begins with |
| `Inference`, `InvokeCapability`, `EffectReturns` | `AgentRuntime.run_next` outside its transactions |
| `FinishAttempt`, `EvaluateCompletion` | `finish_task_attempt` with its refresh; `MissionCompletionEngine.evaluate` |
| `Crash` | the process ends anywhere |

Points where the model had to be careful:

* A Task row is identified with the plan step it comes from (its idempotency
  key is `mission:step`), and is ABSENT before distribution.
* `refresh_task_readiness` walks the Tasks by `created_at`, which is the time
  of the distributing transaction and the same for all Tasks of a Mission.  Any
  order may happen; a Task blocked early blocks its dependents in the same pass
  if they come later.  `BlockedSets` is the set of results such a walk can have.
* The session of a start request keeps the Mission it has loaded across its
  commits (`expire_on_commit=False`), and locking a row through the ORM does
  not refresh an object already loaded: `reqCached` is the status it decides by.
* An *understated* intent asks for a weaker idempotency class than the adapter
  declares.  The runtime acts on the effective class and stores the requested
  one, and the reconciler reads the stored one.  The proofs cover this class;
  the runs leave it out for time (both were also run with it in place of the
  other classes, and hold).
* An error may escape `execute()` after the row was committed as AUTHORIZED (a
  settlement that raises, a profit that is no number, a lost row).  `run_next`
  catches it (`agent_runtime.py:151`) and fails the attempt, so the worker lives on,
  the Task is retried or FAILED, and the row stays AUTHORIZED until the next restart
  reconciles it (the last outcome of `EffectOutcomes`).

`MissionPromise` is the lifecycle without attempts, executions or crashes: a
Mission's status moves along the lifecycle graph, its Tasks go from to-do to
doing to done or lost, one at a time over all Missions, and it is manifested
only with all of them done.  `KeepsPromise` says that the kernel implements it
(without start requests, which may write over a status they read earlier).

Properties: `KernelInvariant`, whose conjuncts are the type invariant and
`AttemptLedger` (the executions are exactly the attempts counted, all but the
last failed, the last agrees with the Task), `NoOrphanedAttempt`,
`ReadyHasBudget`, `DependenciesFirst`, `EffectsOnRecord` (an invocation belongs to
an attempt that was made, and no attempt succeeded over an effect that failed, is
uncertain or still open), `InterruptedStaysBlocked`, `ManifestedMeansDone`, with two facts they rest on,
`DistributedTogether` and `Attempted`; of steps `FinishedTaskIsFinal` and
`TransitionsFollowed`, which excuses one write only: the one a start request makes
itself by its stale status (`StaleStart`), not what anyone else writes while that
request is pending.  `LiveMissionEnds`: a distributed Mission ends.

## 4. Capability calls and their money: `CapabilityEconomy`

One call of `CapabilityRuntime.execute` from its policy decision to its row's
last status, for one Creator, Universe and currency (the ledger is partitioned
by them), with `real_economic_mode` enabled.  Every row of the ledger that the
call writes is an action, because each is a commit of its own; the gates are
checked under an advisory lock that the RESERVE row's commit releases
(`CheckReserve`, `AppendReserve`), and no other entry takes it.

The projection is a left fold over rows that never change, so its value is kept
(`books`) and every append takes one more step of the same fold (`Moved`,
`Posted`); `entries` keeps what the unique index sees, the pairs of entry type
and reference.  Amounts are integers and ratios percentages, compared by
cross-multiplication as the code compares Decimals.

A call may stop for good between any two steps (`Abandon`): its worker dies, or
an error escapes `execute()` (a database error, an adapter result with an
unreadable profit).  `Recover` is the reconciler on such a row; it may choose
UNCERTAIN or ABORTED for an at-most-once call, because the class it reads may
be weaker than the one enforced.  `Reconcile` is the operator's RECONCILED
entry: nothing in the repository writes it, so it is marked external.  The
scope checks of a Mission's authorization (expiry, denials, ceilings) share one
refusal that may happen at any call, before the row and again in the gateway.

Properties: `EconomyInvariant`, which says who owns a key, a row and an entry
(`KeysUnique`, `EntriesOwned`), how far a call at each step has come
(`CallsOnTrack`, `StakePlaced`), what the ledger says of it (`MoneyFollows`) and
what a client is told (`AnsweredMeansSettled`), and what each call may have placed (`LedgerInOrder`, `StakesAdmitted`);
`EffectOncePerKey` and `RefusedNeverActs` are consequences.  `CapitalAccounted`:
the accumulators are the stakes of the calls in flight.  `ExposureBounded`: these
stay within the exposure limit.  `NeverOverdrawn`: what is available covers the
stakes that no accumulator holds just now, which needs ratios in proportion
(`ReserveCoversSettlements`, see section 13).

## 5. A Task Force run: `TaskForceRun`

| Model | Code |
|---|---|
| `StartRun`; `CancelReads`, `CancelWrites` | `StfService.start`; `cancel`, which reads the run without a lock and writes later |
| `DeliverStart`, `DeliverCancel` | `TemporalDispatcher.dispatch_once` on an outbox item |
| `RecordRunning` .. `RecordAborted` | activity `stf_record_state`, at each place the workflow calls it |
| `Authorize`, `Verify`, `RevokeRows` + `KillMission` | the activities of those names |
| `LookAtKillSwitch`, `Reserve`, `AskGateway`, `AnswerTimesOut`, `RecordOutcome` | `stf_dispatch_action`, by its transactions and messages |
| `ActivityFails`, `DispatchLost`, and the second half of `Returns` | an attempt that fails or whose answer is lost |
| `GatewayExecutes`, `GatewayKills`, `GatewayRestarts` | the gateway's loop, one connection after the other |

* The engine runs an activity again after a failed or lost attempt, the whole of
  it; the dispatch has a single attempt, and its code may live on after the
  engine gave up (`DispatchLost` keeps or ends it).
* There is one dispatcher, so a lease only delays an item whose delivery was
  interrupted; "pending" stands for both.
* A delivery that is not acknowledged ends in one of two ways (`Unacked`).  If it
  failed, the dispatcher counts the attempts and gives the item up after the last
  (`Kept`, `dispatcher.py:49`).  If the dispatcher died, before or after the message
  went out, the lease lapses and the item is claimed again (`Lapsed`): the claim
  (`repository.py:620`) bounds no attempts, so a death at the last delivery loses
  nothing, and the number of deliveries has no bound but that of the faults.
* A plan may hold only capabilities of risk R1 or R2 (`service.py`), so the
  approval path and AWAITING_CREATOR are not reached and are not modelled.
* The gateway keeps killed Missions in memory and nonces in `nonces.log`; the
  nonce of a request is the action's idempotency key, unique per run only, so
  two runs may meet in one key.  Signature, expiry and parameter checks that a
  request of this client always passes are left out.
* `kill.json` is written by the worker only in this model.  Resetting the Range
  after a kill, a global kill, the file-only path without a run row, evidence
  from outside and qualification are left out.

Properties: `TaskForceInvariant`, the conjunction of the type invariant,
`EffectOncePerKey`, `CompletedMeansProven`, `PlanOrder`,
`AuthorityEndsWithCancel`, `AbortedIsSealed` and the facts they rest on about the
outbox, the nonces, the queue at the gateway, dispatches, aborts and completions;
of steps `CancelStaysQuiet`; and `StartedRunEnds`.
About the outbox: an item given up has had all its deliveries, and one that still
waits has had more only by interruptions (`Waited`).

## 6. Opportunities and their competition: `OpportunityCompetition`

| Model | Code |
|---|---|
| `Detect` | `create_or_get_opportunity`, which discovery calls for each finding |
| `Claim`, `EndCycle` | `_claim` and the loop of `run_once` |
| `Begin`, `AskCompetitor`, `Judge`, `ComposeThesis` | `_process` up to the resolution, one action for each model call with the `submit_thesis` that follows |
| `Resolve` | `resolve_competition`, one transaction under the opportunity's lock |
| `GiveUp`; `Fails`, `LookAgain`, `Reset` | the three early returns of `_process`; an exception and `_reset_for_retry` |
| `Dies` | the process ends, or the cycle does |
| `ClaimAges`, `LeaseLapses` | time passes 900 s, or the lease's end |
| `LaunchMission` | `create_mission_from_opportunity`, which so far only tests call |

* A session loads the opportunity and its theses once and keeps them
  (`expire_on_commit=False`).  What it writes at the end depends on what it
  loaded: SQLAlchemy writes an attribute only if it differs from the loaded
  value, hence `known` and `Resolved`.
* Theses are compared by (score, confidence, id), which never change after
  submission, so a thesis is identified with its place in that order, and a
  submission may take any free place.
* `_claim` skips locked rows and takes over old claims, so it is written for
  several workers, while one is deployed (`docker-compose.yml:419`).  The model
  has several.  Two of them may then be at one opportunity together, and the
  history variable `contested` remembers where that happened.  In that case the
  code promises less: the slower session may put a decided opportunity back to
  DETECTED, and a status it has cached may leave two theses SELECTED, or none.
  What still holds is the exclusive lease (`LeaseIsExclusive`) and that the
  opportunity is decided (`EveryOpportunityDecided`).  All other properties are
  stated for opportunities that were never contested; workers that die, claims
  that are taken over from the dead and passes that follow each other leave an
  opportunity uncontested.
* Research leases are acquired and released but nothing asks for them; failing
  to release one after the resolution has no effect.  `select_thesis` and
  `acquire_executive_lease` are called by nothing in `app/` and are left out.

Properties: `CompetitionInvariant`, which for an uncontested opportunity implies
one winner (`OneWinner`) that is the best thesis (`BestThesisWins`); of steps
`SelectionIsForGood` and `LeaseIsExclusive`; and `EveryOpportunityDecided`.

## 7. Inference behind the cache: `ModelRouter`, `SemanticCache`

Requests run on one event loop, so a request is atomic between two awaits: in the
router the only await of an attempt is the provider's call, in the cache each
visit to PostgreSQL or Redis is one.

| Model | Code |
|---|---|
| `ChatGPTRaises` .. `CompatibleRaises` | what each kind of provider makes of what its upstream did |
| `Reserves`, `Route`, `First`, `Excluded`, `Disclosed` | `_candidate_names` and `build_model_router` |
| `TakeUp` | the loop of `ModelRouter.generate` from one candidate on: refused ones are passed over without an await |
| `CallSucceeds`, `CallFails`, `CallIsLimited`, `CallEscapes`, `CallIsCancelled` | the ends of one call |
| `CircuitCools`, `LimitLapses` | time |
| `Begin` .. `WaitEnds` | `CacheOrchestrator.lookup`, one action per store it asks |
| `Routed`, `AdmitRow`, `AdmitCopy`, `Abort` | `admit` and `abort` |
| `InvalidateRows`, `InvalidateCopies` | `invalidate`: one transaction, then Redis |
| `RowExpires`, `CopyExpires`, `LockExpires` | the three lifetimes |

* A question's exact key holds the Creator and the history but not the
  Conversation, which is a tag: Conversations that ask the same in the same
  context share an entry.  `sharers` and `due` are history variables that say for
  whom an answer was admitted and which answers an invalidation was to remove.
* Every store may fail at every visit; the code then goes on without it, so each
  visit has a disjunct for that.  A wait for a peer ends with its answer or without.
* Which questions resemble one another is a relation (`Near`, `Close`), in place
  of embeddings.  Only the intents that decide whether a request is
  cacheable are told apart.

Properties: `RouterInvariant` (the types; that a circuit is left HALF_OPEN only by
a probe under way or one whose end the breaker never hears of; whom a request
blames; and where the answers, their makers and their copies are),
`InvalidationReaches`, `FallbackNamed`, and of steps `LockFreedByOwner`.

## 8. Conversations: `TurnStore`, `DeusTurn`, `VoiceTurn`

`TurnStore` is the table of generations: a request id's row is *claimed* under a
lease by one attempt, renewed by its heartbeat, and *finished* in the
transaction that stores the answer, if the lease is still held.  Each operation
is one short transaction on one row and one operator here.

**Typed** (`DeusTurn`).  An attempt is one sending of a request id.

| Model | Code |
|---|---|
| `Claim` | `converse_with_deus` up to the claim, its conflicts and its replay of a stored answer |
| `Open`, `Reason`, `Generate`, `Commit` | `respond`: question, deliberation, answer, one transaction with the end of the row |
| `CommitFails`, `FinishFailed`, `FinishInterrupted` | the failures and what they write |
| `HeartbeatLost`, `TaskCancelled`, `AttemptsDie`, `RowLapses` | a renewal that fails, a client that goes, a process that dies, a lease that ends |

With the context builder enabled (`builder`) the question is committed before
the answer is sought, otherwise with it.  A commit's acknowledgement may be lost.
`DeusInvariant`: the row and the Conversation agree (`RowNamesReply`), an id has
one answer and one Mission and nobody is told another (`AnsweredOnce`), a failed
attempt leaves nothing but, with the builder, its question (`NoTraceOfFailure`).

**Spoken** (`VoiceTurn`).  The socket's handler and the pump are two tasks that
share the session's mode, the queue of transcripts and the bridge to the table.

| Model | Code |
|---|---|
| `Transcript`, `MarkThinking` | `on_transcript`, `mark_thinking` in `VoiceSession` |
| `ClaimCommits`, `Register`, `BuildRequest` | `VoiceConversationBridge.build_request`, by its transactions |
| `Chunk`, `NoFirstToken`, `StreamEnds`, `Sound`, `Drained` | `process_transcript` with `stream_response`'s failover and the speech engine |
| `LookUpClaim`, `Store` | `complete_turn` |
| `TurnFails` | any wait of a turn that fails or outlasts the event timeout; a lease found gone |
| `Hear`, `Put`, `BargeIn`, `AbortCommits`, `Cut` | the handler's loop |
| `Leave`, `CloseNext`, `CloseFails` | the end of the handler, and of `bridge.close` where the database cannot be reached |

`retrieval` is the setting `deus_context_retrieval_enabled`, without which a turn
has no claim; both its values are initial states.  Audio is a transcript with or without the wake word, partial or
committed, with or without a command.

Properties: `VoiceInvariant`, whose parts are the types, `ReplyFenced`,
`PumpInStep`, `ModeInStep`, `HandlerInStep`; `ClosedReleases`, `ListensAgain` and
`EveryTurnEnds`.

## 9. Knowledge: `KnowledgeStore`, `KnowledgeVault`

PostgreSQL under READ COMMITTED is part of the model: a statement sees what is
committed and what its own transaction wrote; the advisory locks of a message and
of a request key, the row lock of an item and the epoch row are held to the end of
the transaction; of two transactions that wait for each other one is aborted.

| Model | Code |
|---|---|
| `AskDeus`, `StartBackfill`, `Create`, `Revise`, `Revoke` | the beginnings of transactions: a turn (which retrieved its context before it asked the model), a page of the backfill, the API |
| `Scan` | the backfill's look whether a message is known |
| `Take` | `KnowledgeService.write` up to the item: message lock, key lock, prior answer, prior import, dependencies |
| `LockRow` | the revision or the revocation, under the item's row lock |
| `Bump` | the epoch row, last |
| `IndexRun` | `process_batch` |
| `DeadlockBroken`, `Break`, `Lapse` | an aborted transaction, a lost connection, a source that changed or a validity that passed |
| `SelectRows`, `JudgeRows`, `Look`, `Replace`, `Quarantine`, `Unlink`, `Forget` | one run of `ObsidianExporter`, by its statements and file operations |
| `Edits`, `ExporterDies` | the Creator in the same folder (external), and a death anywhere |

* An item is identified with its first revision, and its row with the newest
  revision a reader sees, because every write that adds a revision sets both
  columns in the same transaction.
* A hash stands for content; a file is known by the revision that wrote it or as
  the Creator's.
* What a client sends names dependencies and a message, or neither (`MaxCited` bounds
  their number together); a message it may name is one that is stored (`Stored`),
  since `source_hash` finds no other.  A new item that names a message goes through
  the message's lock and prior import; a later revision does not (`service.py:85`), so
  it may name a message another item began with, and a later import of a message no
  item began with may find any of the revisions of highest ordinal (`Priors`).
* One Creator.  Relations, projects, the ranking of a search and the refusals for
  another or an inactive Creator are left out.

Properties: `VaultInvariant` (types, the locks over uncommitted rows, the order of
each item's revisions, and that a note on disk is one the manifest lists),
`MessageImportedOnce` (one item at most begins with a message), `TombstoneIsLast`, of steps `EditsSurvive`, and
`IndexCatchesUp`, `RevokedLeavesVault`.

## 10. Diagnostics: `DiagnosticObserver`

One cycle of the worker: `Collect` (the probes), for each answer `Observe` and
perhaps `Report` (the rules, the journal), `SaveRules`, then for each pending
entry `Publish` and `Acknowledge`, and `Sleep`.  `PublishStops` and
`PublishRefused` are the ways a publication ends the cycle, `Restart` a death at
any step with the rules last saved, `RevokeNote` the Creator in the knowledge API.

* An entry is numbered as it is admitted, and an incident's episode is named by
  its resource and the cycle that opened it, instead of by uuids; the journal is
  the set of its rows, read by number.
* A journal entry is one unit of `Capacity`, in place of bytes.
* What the notes write into knowledge is the part of `KnowledgeService.write` an
  entry can meet: a new request, a repeated one, a conflicting one.

Properties: `ObserverInvariant`: the types, that an incident counts each committed
entry once (`EvidenceCountedOnce`), the order of the journal against what is
committed (`JournalInOrder`) and against the clock (`EntriesInTime`,
`RulesInTime`), that the window still holds what may be published again
(`EvidenceRemembered`), and that a recovery is on record (`RecoveryRecorded`); of steps
`NothingPendingLost` and `RecoveredStaysRecovered`, and `PendingDrains`.

## 11. The Chronicle and its readers: `ChronicleFeed`

| Model | Code |
|---|---|
| `Begin`, `AddEvent`, `Commit`, `Rollback` | `add_event` under its advisory lock, within a transaction of any length |
| `CheckHead`, `ReadState`, `ReadPosition`, `SaveCheckpoint`, `RefresherDies` | `refresh_if_needed`, `system_snapshot`, `save_checkpoint` |
| `AskStatus`, `AnswerStatus` | `GET /system/projections`, which reads the head and then the checkpoints |
| `Poll` | `_stream_chronicle` on the server |
| `Hydrate`, `Connect`, `Receive`, `Drop` | the browser: `App.tsx`, `streamChronicle` in `api.ts` |
| `Halt`, `Reopen` | the page gives up (a stream refused with 4xx, `api.ts:417`; the state not read again after an event, or not loaded at all, `App.tsx:162-188`); the Creator retries, logs in or turns the page |

The five checkpoints are written in one transaction and are one row here; the
state of the system is the number of events committed, which is what a torn
snapshot can be told by.  A hash is the identity of the event it is computed from.

Properties: `FeedInvariant` (`OneAppends`, `ChainUnbroken`, `NothingAhead`,
`StreamFollows`),
`InvalidOnlyWhenOvertaken`, `StreamMissesNothing`, `FeedCatchesUp`, and `KeepsLog`:
`ChronicleFeed` implements `EventLog`, a log that only grows, whose entries are
numbered by their places, with a projection that only advances within it and a
follower who opens it at its head and is shown every entry after that, one by one,
until it stops.  The
mapping reads the log off `chain`, the projection off `checkpoint.position`, and the
follower off the page (`client.from`, `client.got`; it follows while it is neither
hydrating nor halted); drafts, the lock, refreshers,
the wire and broken connections are steps the abstract log does not see.

## 12. The runs

| Run | Instance | Shows |
|---|---|---|
| `kernel_plan` | one Mission, a chain of two Tasks, a start request, a Universe with its Agent switched off and on, two intent classes, effects that end in every way, one worker death | `KernelInvariant`, finished Tasks stay finished, only a stale start's own write leaves the lifecycle graph |
| `kernel_pair` | two Missions of one Task each, one death, fairness | the kernel implements `MissionPromise`; each distributed Mission ends |
| `kernel_cancel` | as `kernel_plan`, without switches | *violation*: a cancelled Mission becomes authorized |
| `economy_gate` | three calls, two at a time, a shared key, a weaker intent with that key, a keyless competitor, losses beyond the stake, a midnight | `EconomyInvariant`, exposure, capital, never overdrawn |
| `taskforce_run` | one run of two actions, four faults anywhere, fairness | `TaskForceInvariant`, a quiet cancel, a started run ends |
| `competition_run` | two workers, one opportunity, two Universes on one provider chain; one fault, fairness | one decision for good, for the best thesis, an exclusive lease, and every opportunity decided |
| `inference` | two Conversations ask one question; three providers, one circuit open and one a failure short of it; one lapse, one change | invalidation, fallback, locks, half-open circuits |
| `deus_turn` | a request id sent three times, and once with another question | `DeusInvariant` |
| `voice_turn` | three turns, four transcripts, a queue of two, two providers, with and without claims, fairness | `VoiceInvariant`, claims after a close, listening, every turn ends |
| `knowledge` | without the export: a turn, a backfill and two clients; with it: one client, the exporter and the Creator; candidates that name a message or a revision; one fault; fairness | imports, tombstones, edits, index, vault |
| `diagnostics` | one probe, six cycles, a journal of five, a window of two, one crash, one outage, one revocation, fairness | evidence, journal, recovery |
| `chronicle` | two transactions, two refreshers, two events, batches of one, one fault (a broken connection, a halt or a dead refresher), fairness | the chain, the projections' status, the stream, and that the Chronicle implements `EventLog` |

Deadlock is checked for the kernel, whose worker never stops.  It is not checked
for the others, which come to an end when their bounds do: all calls made, all
turns over, all events appended.

### Bounds, and why they are enough

* Kernel: `MaxAttempts` is 2 (3 in the code), so a first, an only-remaining and
  a spent attempt all occur.  `MaxCrashes` is 1: a death needs a state to
  strike, and all of them are reached; deaths from an inactive Agent are not
  counted.  The chain is enough for a start request, which treats all Tasks
  alike; any other plan is covered by the proofs.
* Economy: three calls are two that race and a third that retries; two at a time
  is what a lock is for (one worker is deployed, but nothing in the service
  assumes it).  Capital 10 with stakes 1 and 2 against limits of 20 and 30 per
  cent puts every gate within reach of one stake; the loss of 9 exceeds the
  stake, a loss of 1 stays within it and reaches the daily stop; `MaxDays` is 1,
  so a daily stop is lifted once.
* Task Force: three attempts of an activity as in the workflow, four faults, so
  that an activity uses up its retries and something else fails too.  Revoking has
  3 attempts (5 in the code) and an item 3 deliveries (10), so with four faults an
  item is given up, and is also delivered more often than that.  Two runs that share a
  key and a Mission were seen to keep the invariant with one fault (939 464 states), are
  covered by the proof, and take too long for liveness.
* Competition: one opportunity is enough, since opportunities share nothing but
  the batch a worker has claimed and the chains it has found silent.  Two workers
  are what a takeover needs, two Universes what a competition needs; their one
  chain lets the failure of one call silence the composer.  Four theses leave
  room for two proposals, a composition and one that a contest adds.  One fault
  is one failed call, exception, death or missing competitor, anywhere.
* Inference: two requests are what a lock, a shared entry and a shared breaker
  need; three providers are a first, one that must not be left silently and a
  last; `Earlier` puts one circuit at each place of its life, which spares the
  requests that would bring it there.  One lapse and one change: each property
  relates one of them to the requests in flight.
* Deus: three sendings are one under way, one that takes it over and one that
  repeats after both.
* Voice: two turns are what an abort that outlives its turn needs, a third is one
  begun under the abort of the second.  A queue of two is full with the third
  transcript (64 in the code).  The safety properties were also run with four
  turns and six transcripts, 7.4 million states.
* Knowledge: three revisions are an item, its revision and its tombstone, or the
  imports of a question and its reply and a note beside them; two settings with
  their own bounds (`VNext`) because export and writers meet only through what is
  committed.  `MaxCited` is 1: a candidate names a message or depends on a revision,
  and nothing relates the two.  Safety was also run with four revisions, not to the
  end.
* Diagnostics: six cycles are three failures, two successes and one more; five
  entries fill a journal within them, a window of two forgets an id that comes
  back.  Also run with eight cycles and two crashes.
* Chronicle: two writers and two refreshers race for one lock and one row each;
  two events are one to hydrate from or miss and one to follow.  Opening the page
  again costs nothing and may happen at any time.

### Fairness

* Kernel: weak fairness of the worker as a whole.  The container is restarted
  whenever it ends, the loop has no exit, model and adapter calls time out.
  Nothing is asked of the Creator, and nobody switches an Agent off in
  `kernel_pair`: with an inactive Agent a claim ends the worker, again after
  every restart, and no Mission is served (listed as a hazard).
* Task Force: the dispatcher polls every two seconds, the engine schedules what
  is due, a gateway request is abandoned after five seconds, the gateway serves
  its listener; one weak fairness condition each, the engine's for each run.
  `StartedRunEnds` excludes a run all of whose start deliveries failed before its
  workflow existed (a dispatcher that died is no failure), a workflow that gave up, and a run someone asked to cancel: a cancel that commits after the
  workflow has looked for the last time leaves the run CANCELLING for good, its
  COMPLETED write refused.
* Competition: weak fairness of each worker as a whole and of time.  The loop of
  `run` has no exit and catches what a cycle raises, the container is restarted,
  model calls time out.  Failures are bounded by `MaxFaults`: a provider that
  never answers postpones a decision for ever, as the code intends.
* Voice: every wait of a turn is bounded by the event timeout, so the pump gets
  on (`Pump`); the handler is a task that is always scheduled, and it leaves when
  it finds the pump failed.  Nothing is asked of the client.
* Knowledge: each session goes on with its transaction, the knowledge worker runs
  its index every two seconds and its export every thirty, and is restarted.
* Diagnostics: the worker's loop catches what a cycle raises and the container is
  restarted; crashes and outages are bounded.
* Chronicle: transactions end, refreshers loop, and a page that has not halted goes
  on hydrating, reconnecting after a pause and reading.  Nobody has to open a halted
  page again, and `FeedCatchesUp` says nothing of one.
* Inference and typed turns: nothing, their properties are about what may happen.

### Where code and documents part

`kernel_cancel` is the one run that shows a step the code takes and a line of the
repository rules out (`app/core/domain.py:72`): a start request overwrites a
cancellation (`app/services/domain.py:492`).  Modelling met more such places; the
properties are stated so that they hold of the code, and say where it gives less
than its documents:

* Kernel and money.  The reconciler replays an effect whose class the intent
  understated, because the row stores the requested class
  (`app/capabilities/runtime.py:363`).  A restart can leave an UNCERTAIN row
  without the ledger's UNKNOWN entry (`app/kernel/reconciler.py:44`).  After an error
  that escapes `execute()` the row says AUTHORIZED under a worker that lives, until
  the next restart, although its attempt is over (`app/kernel/agent_runtime.py:151`).
* Limits.  `config.py:150-155` bounds each ratio by itself.  With more calls at
  once, or a smaller structural reserve, than `ReserveCoversSettlements` allows,
  the gates can admit a stake that losses not yet booked have already eaten.
* Task Force.  A Range answer that is lost is reported as a refusal, so a denied
  dispatch may have taken effect (`security_gateway/src/range_control.rs:104`).  A
  cancel that read the run earlier reopens a terminal one
  (`app/security_task_force/service.py:110`).
* Inference.  A probe that ends in a rate limit, a cancellation or an unnamed
  exception leaves its circuit HALF_OPEN, which admits nobody again
  (`app/inference/health.py:46`; `README.md:59`: after thirty seconds it is tried first again).
* Typed and spoken turns.  A reply whose claim an abort has taken from the bridge
  is stored without a fence, behind a row that is interrupted
  (`app/services/deus_turns.py:64`, `app/voice_session/conversation.py:181`); with
  the context builder the question of a failed attempt stays
  (`app/services/deus_turns.py:44`).
* Voice.  A turn begun under the abort of an earlier one can leave the session in
  a mode that ignores speech (`app/api/voice_session.py:319`; `README.md:67`).
  With a full queue the handler waits and does not notice that the pump failed
  (`app/voice_session/local.py:338`).  A close can leave the claim of the last turn
  to be renewed for ever (`app/voice_session/conversation.py:219`), and one that
  cannot reach the database leaves pump and renewals running
  (`app/api/voice_session.py:341`).
* Knowledge.  "All import paths share one canonical message source"
  (`app/knowledge/service.py:84`), but a revision may name any message, with no lock
  and no look at prior imports (`service.py:85`, `app/api/knowledge.py:62`): one item
  begins with a message, others may come to name it.  An edit that arrives between the exporter's hash and its replacement
  of the file is lost (`docs/connected-os.md:16`).  A turn's or a focused import
  of a message the backfill has taken meets a key with another payload
  (`app/knowledge/service.py:84`), which the voice path does not catch.  A revision
  may depend on its own item through another (`service.py:137`).  What commits
  between the exporter's two reads leaves the vault until its next run.
* Diagnostics.  An entry committed but not acknowledged whose note is then revoked
  is refused at every retry and blocks the journal behind it (`Poisoned`).  A crash
  before the rules are saved loses what they saw, so three failures need not have
  been consecutive; and a transition that a full journal refused is never written,
  so an incident may stay open (`app/diagnostics/worker.py:532`;
  `docs/connected-os.md:14`).
* Chronicle.  A snapshot reads the state before the position it is saved under, so
  it may lack the effects of events it claims to include
  (`app/projections/system.py:84`), and a status request can report INVALID of a
  checkpoint that is merely newer than the head it read.  A page whose stream is
  refused, or whose state cannot be read once after an event, follows nothing until
  the Creator opens it again (`frontend/src/api.ts:417`, `frontend/src/App.tsx:165`).

## 13. The proofs

All theorems hold for every value of the constants under the assumptions stated
in the modules: plans are acyclic and belong to one Mission (`PlanShape`,
`PlanIsDag`), limits are positive, keys, calls and sentinel values are distinct.

**Kernel** (`MissionKernelProofs`).  `KernelInvariant` adds two facts to the
checked invariants that none of them implies and that they need:
`DistributedTogether` (else a refresh may meet a dependency that does not exist)
and `Attempted` (else a claim's attempt number need not be new).  It is proved
inductive with one lemma per action and one step per conjunct an action can
disturb.  The work is in the refresh: lemmas about `BlockedSets` and `Refreshed`
say that it touches PENDING Tasks only and readies one only with its
dependencies SUCCEEDED, for any order of the walk.
From it follow `TypeCorrect`, `AttemptsAccounted`, `EffectsAccounted`,
`OrderRespected`, `InterruptionsHold`, and of steps `FinishedStays` and
`LifecycleFollowed`.  `KernelKeepsPromise` proves the refinement: the initial
states map to initial states, and every step, `Crash` and `Reconcile` included,
to a step of the promise or to a stutter.

**Economy** (`CapabilityEconomyProofs`).  `EconomyInvariant` says who owns a key,
a row and an entry (`KeysUnique`, `EntriesOwned`), how far a call at each step
has come (`CallsOnTrack`, `StakePlaced`), and what the ledger says of it
(`MoneyFollows`).  A step of a call changes its own row and the entries of its
own reference only, and no other call with a row shares that reference: with
that one argument every conjunct about another call carries over.  From it:
`EconomyTypeCorrect`, `OneEffectPerKey`, `RefusalIsInert`, `AnswersAreSettled`.
Sums of stakes are counted as sets of units, so that a step which moves one stake
moves a sum by a lemma about cardinality (`StakesMove`) and the projection's
accumulators with it (`AccountsKept`): `CapitalIsAccounted`, and, since nothing but
a RESERVE row raises exposure, `ExposureIsBounded`.  `ReserveCoversStakes` is proved
under `ReserveCoversSettlements`, (calls at once - 1) x risk per action <=
structural reserve x (1 - drawdown stop): a gate reads a NAV from which the losses
of settled calls are still missing, at most a stake for each other call.  The
defaults (50 %, 10 %, 20 %) satisfy it up to five calls at once, and one worker
makes one; without it TLC finds a Universe that owes more than it has.

**Task Force** (`TaskForceRunProofs`).  `TaskForceInvariant` adds the nonces
(`NoncesRemember`), the queue at the gateway (`RequestsInOrder`), the position
of a run and its dispatch (`DispatchOnTrack`), the commands in the outbox
(`OutboxOnTrack`; nothing bounds their deliveries), and how far an abort or a
completion has come.  The actions fall into three groups: those that touch
neither dispatches nor effects, the steps of a dispatch, which change its own
position only, and the gateway's, where an effect needs a nonce not seen before.
From it: `TypeCorrect`, `KeyTakesEffectOnce`, `CompletionIsProven`,
`EffectsFollowPlan`, `NoAuthorityLeft`, and of steps `CancelKeepsQuiet`.

**Competition** (`OpportunityCompetitionProofs`).  `CompetitionInvariant` says of
an opportunity that was never contested that it is in one hand: at most one
worker is at it, it is RESEARCHING as long, and what the session holds is what
the rows say (`InOneHand`).  That is why the cached session decides rightly, and
without it `Resolve` could leave two winners.  The other conjuncts follow the
attempt (`AskedInTurn`, `ProposedOnce`) and its result (`OpenUntilDecided`,
`DecidedOnce`).  One lemma (`Calm`) covers every step that is elsewhere or only
ends an attempt; the remaining actions have a lemma each.  From it:
`TypeCorrect`, `WinnerIsUnique`, `WinnerIsBest`, and of steps `SelectionStays`.
`LeaseStaysWithThesis` needs the types only, and so holds for contested
opportunities too.

**Inference** (`InferenceProofs`).  The router: `HalfOpenAccounted` holds because
every end of a call but three moves its circuit on, and `BlameKnown` says whom a
request at each candidate blames, for any chain.  The cache: `CopiersRace` says that
whoever may write a copy carries an answer of a valid row or was in flight when the
row was invalidated; with it the copies out of date are explained (`CopiesExplained`).
`RouterInvariantHolds`, and from it `EveryShareIsReached`, `FallbackIsNamed`, and of
steps `LocksFreedByOwners`.

**Typed turns** (`ConversationProofs`).  The module first states what a claim, a
finish and a lapse make of a row, for both clients of the table.
`DeusInvariant` is inductive: an attempt in flight that still holds its row is
the only one that can complete it, and only a pending row can be completed, so a
second answer would need a completed row to become pending again, which no
operation does (`ClaimedRow`).  From it: `AnswerIsUnique`, `FailureLeavesNothing`.

**Spoken turns** (`ConversationProofs`).  The properties of a session are about one
task each, and neither is inductive without the other: `PumpInStep` says how far
the pump's turn has come among the claims, the pending replies and the
questions, `ModeInStep` which modes go with it, and `HandlerInStep` which claims
the handler has taken from the bridge.  One lemma per action, one step per
conjunct it can disturb.  From it: `RepliesAreFenced`, `ClosedKeepsAtMostOne`,
`WaitingListens`, for any number of turns and transcripts.

**Chronicle** (`ChronicleFeedProofs`).  What a transaction sees is the committed
chain with its own events, and both verify (`OneAppends`); the advisory lock,
held to the commit, makes the draft of one transaction the only one, so a commit
appends to the chain it was numbered for.  Nothing read from the chain is ahead
of it (`NothingAhead`), because it only grows.  `StreamFollows` says where the
browser, the wire and the server's cursor are in the chain; positions are numbered
without a gap, so a poll after a cursor finds the next ones (a lemma about counting
them) and never asks to start over.  From it: `ChronicleVerifies`,
`InvalidMeansOvertaken`, `StreamIsComplete`, and of steps `CheckpointAdvances` (also
that a checkpoint stays saved).  `FeedKeepsLog` proves the refinement of `EventLog`
step by step: a commit extends the log, a snapshot that is not refused projects it,
hydrating opens it, receiving shows its next entry, halting or opening the page again
stops it (`HaltFollows`, `HaltStops`), and every other step stutters; a poll never sends the page back to hydrate, because `StreamFollows` holds after it.

**Knowledge** (`KnowledgeProofs`).  Under READ COMMITTED a session does not see what
others have not committed, so the invariant ties such rows to their session's locks
(`RowsLocked`): a session that holds a message's lock, or an item's row, sees every
item imported from that message, or revision of that item, that may still be kept.  What it sees
is then all there is, and `ChainsInOrder` follows for committed and uncommitted rows
together.  For the exporter, `ExporterInStep` says at each of its steps how the
manifest, the plan and the folder agree (`OwnFilesManaged`).  `VaultInvariantHolds`,
and from it `ImportedOnceOnly`, `RevocationIsFinal`, and of steps `EditsAreKept` and
`CommittedStays`, a committed revision is never changed.

**Diagnostics** (also in `KnowledgeProofs`: its notes are rows of knowledge).  An
entry is published twice only if it is the first pending one and committed, and then
its id is still in the window of its incident: so it is counted once although the
window forgets (`EvidenceRemembered`), for a window of one or more.  An entry that
opened a recovered episode would be older than the recovery.
`ObserverInvariantHolds`, and of steps `PendingIsKept`, `RecoveryIsFinal`.

### Model-checked only

Liveness (`LiveMissionEnds`, `StartedRunEnds`, `EveryOpportunityDecided`,
`EveryTurnEnds`, `IndexCatchesUp`, `RevokedLeavesVault`, `PendingDrains`,
`FeedCatchesUp`), since fairness and ENABLED are beyond the prover, and the
violation, which is a counterexample.  Every other property of a passing run is
the statement of a theorem.

## 14. Not modelled, and why

Planned parts are in section 2.  Left out for good:

* provider, adapter and audio protocols, embeddings and ranking: I/O and data
  work that no state depends on; request parsing, schemas, migrations and
  reporting; the frontend, but for the part that follows the Chronicle;
  deployment, which is read for how many processes there are and when they restart;
* authentication: a refresh token is rotated by one atomic call to Redis and a
  login writes one row, so there is no interleaving to check, and the modelled
  parts depend only on a valid identity;
* the heartbeat files of the workers (`app/diagnostics/heartbeat.py`), which the
  observer's probes read as one answer among others.

Inside the modelled parts: creation and editing of Universes, Agents, Memory and
Conversations; Chronicle events where they are only appended; what section 5 lists
for the Task Force and section 9 for knowledge; the other columns of a system
snapshot and the opportunity projection, which is saved by the same call.
