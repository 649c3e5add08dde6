-------------------------- MODULE CapabilityEconomy --------------------------
(***************************************************************************)
(* A capability call from its policy decision to its recorded result       *)
(* (capabilities/runtime.py) and the append-only economic ledger it        *)
(* reserves, commits and settles capital in (services/economy.py), for one *)
(* Creator, Universe and currency.  Every action is one transaction of the *)
(* call, or the adapter's work between two of them; a call may stop for    *)
(* good between any two, because its process dies or because a database    *)
(* error or an unreadable result escapes execute().                        *)
(*                                                                         *)
(* The projection of the ledger is a left fold over its rows.  The rows    *)
(* are never changed or removed, so `books` is kept as the value of that   *)
(* fold and every append applies one more step of it.  Rows count in the   *)
(* order they commit.                                                      *)
(***************************************************************************)
EXTENDS Integers, FiniteSets

CONSTANTS
  Calls,           \* calls of CapabilityRuntime.execute, and their row's id
  Keys,            \* idempotency keys
  NoKey,           \* idempotency_key is None
  Intents,         \* the intents an Agent may emit
  Pnls,            \* profit (or loss) an adapter may report
  Genesis,         \* economic_genesis_amount
  MaxRisk,         \* economic_max_risk_per_action_ratio, in percent
  MaxExposure,     \* economic_max_exposure_ratio
  MaxOperational,  \* economic_max_operational_ratio
  Structural,      \* economic_structural_reserve_ratio
  DailyStop,       \* economic_daily_stop_ratio
  DrawdownStop,    \* economic_drawdown_stop_ratio
  MaxConcurrent,   \* bound: calls in progress at once
  MaxDays,         \* bound: midnights that pass
  NoCall           \* nobody holds the advisory lock

(* atMostOnce is the effective class; amount is |max_spend|, 0 for a call   *)
(* without an economic part or without an external effect.                  *)
IntentType == [key : Keys \cup {NoKey}, atMostOnce : BOOLEAN, amount : Nat]

ASSUME CallAssumption == IsFiniteSet(Calls)
ASSUME IntentAssumption == Intents \subseteq IntentType
ASSUME PnlAssumption == Pnls \subseteq Int
ASSUME NameAssumption ==
  /\ NoKey \notin Keys
  /\ NoCall \notin Calls \cup Keys
  /\ Keys \cap Calls = {}
ASSUME RatioAssumption ==
  /\ Genesis \in Nat \ {0}
  /\ {MaxRisk, MaxExposure, MaxOperational, Structural, DailyStop, DrawdownStop} \subseteq 0 .. 100
  /\ MaxConcurrent \in Nat
  /\ MaxDays \in Nat

VARIABLES
  pc,        \* where each call stands
  intent,    \* its intent
  row,       \* its capability_invocations row; ABORTED: FAILED, no result_json
  acted,     \* the adapter was invoked
  outcome,   \* what the adapter did, as the call has it in memory
  answer,    \* what the caller of execute() got
  entries,   \* ledger rows, as (entry_type, external_reference)
  books,     \* the projection's accumulators over those rows
  lock,      \* holder of pg_advisory_xact_lock(creator:universe)
  day        \* the current UTC date

callVars == <<pc, intent, row, acted, outcome, answer>>
ledgerVars == <<entries, books>>
vars == <<callVars, ledgerVars, lock, day>>

-----------------------------------------------------------------------------
RowStatus == {"NONE", "AUTHORIZED", "DENIED", "SUCCEEDED", "FAILED", "ABORTED", "UNCERTAIN"}
Preparing == {"reserve", "append", "commit", "settling"}
Settling == {"settle", "pnl", "suspend"}
Stopped == {"idle", "done", "dead"}
Steps == Preparing \cup Settling \cup Stopped \cup {"refuse", "effect", "running", "finish"}
EntryTypes == {"RESERVE", "COMMIT", "SETTLING", "SETTLE", "PROFIT", "LOSS", "UNKNOWN",
               "RECONCILED", "SUSPENSION"}

NoIntent == [key |-> NoKey, atMostOnce |-> FALSE, amount |-> 0]
NoOutcome == [kind |-> "none", pnl |-> 0]
OutcomeType == [kind : {"none", "raised", "notok", "ok"}, pnl : Int]

(* external_reference: the idempotency key, else the invocation's id. *)
Ref(c) == IF intent[c].key = NoKey THEN c ELSE intent[c].key
SuspensionRef == NoCall
Refs == Keys \cup Calls \cup {SuspensionRef}
Entry(type, ref) == [type |-> type, ref |-> ref]
Recorded(type, c) == Entry(type, Ref(c)) \in entries

-----------------------------------------------------------------------------
(* project_universe_economy: one step of its loop, and what it derives.    *)

OpenBooks ==
  [nav |-> Genesis, peak |-> Genesis, reserved |-> 0, committed |-> 0, settling |-> 0,
   todayLoss |-> 0, unresolved |-> {}, suspended |-> FALSE]

Less_Emptied(held, amount) == 0
Less(held, amount) == IF held > amount THEN held - amount ELSE 0

Moved(b, type, amount, ref) ==
  CASE type = "RESERVE"    -> [b EXCEPT !.reserved = @ + amount]
    [] type = "COMMIT"     -> [b EXCEPT !.reserved = Less(@, amount), !.committed = @ + amount]
    [] type = "SETTLING"   -> [b EXCEPT !.committed = Less(@, amount), !.settling = @ + amount]
    [] type = "SETTLE"     -> [b EXCEPT !.settling = Less(@, amount)]
    [] type = "PROFIT"     -> [b EXCEPT !.nav = @ + amount]
    [] type = "LOSS"       -> [b EXCEPT !.nav = @ - amount, !.todayLoss = @ + amount]
    [] type = "UNKNOWN"    -> [b EXCEPT !.unresolved = @ \cup {ref}]
    [] type = "RECONCILED" -> [b EXCEPT !.unresolved = @ \ {ref}, !.settling = Less(@, amount)]
    [] type = "SUSPENSION" -> [b EXCEPT !.suspended = TRUE]

Posted(b, type, amount, ref) ==
  LET moved == Moved(b, type, amount, ref)
  IN  [moved EXCEPT !.peak = IF moved.nav > @ THEN moved.nav ELSE @]

Exposure(b) == b.reserved + b.committed + b.settling
Available(b) == b.nav - Exposure(b)

EconomicStatus(b) ==
  IF b.unresolved # {} THEN "RECONCILIATION_REQUIRED"
  ELSE IF \/ b.suspended
          \/ b.nav <= 0
          \/ 100 * (b.peak - b.nav) >= DrawdownStop * b.peak
          \/ 100 * b.todayLoss >= DailyStop * b.peak
       THEN "ECONOMIC_SUSPENDED"
  ELSE "ACTIVE"

(* append_ledger_entry: a reference passes through each type once. *)
Append(type, amount, ref) ==
  IF Entry(type, ref) \in entries THEN UNCHANGED ledgerVars
  ELSE /\ entries' = entries \cup {Entry(type, ref)}
       /\ books' = Posted(books, type, amount, ref)

AppendOwn(type, c) == Append(type, intent[c].amount, Ref(c))

(* The gates of reserve_for_capability. *)
Admissible(b, amount) ==
  /\ EconomicStatus(b) = "ACTIVE"
  /\ 100 * amount <= MaxRisk * b.nav
  /\ 100 * (Exposure(b) + amount) <= MaxExposure * b.nav
  /\ 100 * (Exposure(b) + amount) <= MaxOperational * b.nav
  /\ 100 * (Available(b) - amount) >= Structural * b.nav
  /\ amount <= Available(b)

-----------------------------------------------------------------------------
Init ==
  /\ pc = [c \in Calls |-> "idle"]
  /\ intent = [c \in Calls |-> NoIntent]
  /\ row = [c \in Calls |-> "NONE"]
  /\ acted = [c \in Calls |-> FALSE]
  /\ outcome = [c \in Calls |-> NoOutcome]
  /\ answer = [c \in Calls |-> "none"]
  /\ entries = {}
  /\ books = OpenBooks
  /\ lock = NoCall
  /\ day = 0

Goto(c, step) == pc' = [pc EXCEPT ![c] = step]
End(c, reply) ==
  /\ pc' = [pc EXCEPT ![c] = "done"]
  /\ answer' = [answer EXCEPT ![c] = reply]

Active == {c \in Calls : pc[c] \notin Stopped}
CanStart(c) == pc[c] = "idle" /\ Cardinality(Active) < MaxConcurrent

Claimants_AtMostOnceOnly(key) ==
  {d \in Calls : row[d] # "NONE" /\ intent[d].key = key /\ key # NoKey /\ intent[d].atMostOnce}

(* Rows of uq_capability_at_most_once_key: every class, DENIED rows too. *)
Claimants(key) == {d \in Calls : row[d] # "NONE" /\ intent[d].key = key /\ key # NoKey}

(* The policy refuses: a DENIED row, unless its key is taken. *)
DeniedByPolicy(c) ==
  /\ CanStart(c)
  /\ \E i \in Intents :
       /\ intent' = [intent EXCEPT ![c] = i]
       /\ row' = IF Claimants(i.key) = {} THEN [row EXCEPT ![c] = "DENIED"] ELSE row
  /\ End(c, "error")
  /\ UNCHANGED <<acted, outcome, ledgerVars, lock, day>>

(* _resolve_at_most_once_replay *)
Replayed(d) ==
  CASE row[d] = "SUCCEEDED" -> "ok"
    [] row[d] = "FAILED"    -> "notok"
    [] OTHER                -> "error"

(* authorize_capability: scope, expiry and denials are left open, any intent *)
(* may be refused; an at-most-once one without a key always is.             *)
PolicyMayAllow(i) == i.atMostOnce => i.key # NoKey

(* The policy allows it.  The key decides: an AUTHORIZED row of its own, or *)
(* a stored answer for an at-most-once call, or the index's refusal.        *)
Claim(c) ==
  /\ CanStart(c)
  /\ \E i \in Intents :
       /\ PolicyMayAllow(i)
       /\ intent' = [intent EXCEPT ![c] = i]
       /\ \/ /\ Claimants(i.key) = {}
             /\ row' = [row EXCEPT ![c] = "AUTHORIZED"]
             /\ Goto(c, IF i.amount = 0 THEN "effect" ELSE "reserve")
             /\ UNCHANGED answer
          \/ \E d \in Claimants(i.key) :
               /\ End(c, IF i.atMostOnce THEN Replayed(d) ELSE "error")
               /\ UNCHANGED row
  /\ UNCHANGED <<acted, outcome, ledgerVars, lock, day>>

-----------------------------------------------------------------------------
(* _prepare_economic_execution *)

CheckReserve_NoLock(c) ==
  /\ pc[c] = "reserve"
  /\ Goto(c, IF Admissible(books, intent[c].amount) THEN "append" ELSE "refuse")
  /\ UNCHANGED <<intent, row, acted, outcome, answer, ledgerVars, lock, day>>

(* Under the lock: the gates, on the ledger as it stands now. *)
CheckReserve(c) ==
  /\ pc[c] = "reserve"
  /\ lock = NoCall
  /\ IF Admissible(books, intent[c].amount)
       THEN Goto(c, "append") /\ lock' = c
       ELSE Goto(c, "refuse") /\ UNCHANGED lock
  /\ UNCHANGED <<intent, row, acted, outcome, answer, ledgerVars, day>>

(* The commit that makes the RESERVE row visible releases the lock. *)
AppendReserve(c) ==
  /\ pc[c] = "append"
  /\ AppendOwn("RESERVE", c)
  /\ Goto(c, "commit")
  /\ lock' = NoCall
  /\ UNCHANGED <<intent, row, acted, outcome, answer, day>>

(* mark_capability_committed, mark_capability_settling: no lock. *)
AppendCommit(c) ==
  /\ pc[c] = "commit"
  /\ AppendOwn("COMMIT", c)
  /\ Goto(c, "settling")
  /\ UNCHANGED <<intent, row, acted, outcome, answer, lock, day>>

AppendSettling(c) ==
  /\ pc[c] = "settling"
  /\ AppendOwn("SETTLING", c)
  /\ Goto(c, "effect")
  /\ UNCHANGED <<intent, row, acted, outcome, answer, lock, day>>

(* Any exception of the preparation; what it appended before stays. *)
PrepareFails(c) ==
  /\ pc[c] \in Preparing
  /\ Goto(c, "refuse")
  /\ lock' = IF lock = c THEN NoCall ELSE lock
  /\ UNCHANGED <<intent, row, acted, outcome, answer, ledgerVars, day>>

Refuse(c) ==
  /\ pc[c] = "refuse"
  /\ row' = [row EXCEPT ![c] = "DENIED"]
  /\ End(c, "error")
  /\ UNCHANGED <<intent, acted, outcome, ledgerVars, lock, day>>

-----------------------------------------------------------------------------
(* gateway.execute *)

AfterEffect(c) == IF intent[c].amount = 0 THEN "finish" ELSE "settle"

(* The gateway asks the policy again, which may have expired by now. *)
GatewayRefuses(c) ==
  /\ pc[c] = "effect"
  /\ outcome' = [outcome EXCEPT ![c] = [kind |-> "raised", pnl |-> 0]]
  /\ Goto(c, AfterEffect(c))
  /\ UNCHANGED <<intent, row, acted, answer, ledgerVars, lock, day>>

Invoke(c) ==
  /\ pc[c] = "effect"
  /\ acted' = [acted EXCEPT ![c] = TRUE]
  /\ Goto(c, "running")
  /\ UNCHANGED <<intent, row, outcome, answer, ledgerVars, lock, day>>

Return(c) ==
  /\ pc[c] = "running"
  /\ \/ \E kind \in {"raised", "notok"} :
          outcome' = [outcome EXCEPT ![c] = [kind |-> kind, pnl |-> 0]]
     \/ \E pnl \in Pnls :
          outcome' = [outcome EXCEPT ![c] = [kind |-> "ok", pnl |-> pnl]]
  /\ Goto(c, AfterEffect(c))
  /\ UNCHANGED <<intent, row, acted, answer, ledgerVars, lock, day>>

-----------------------------------------------------------------------------
(* What the ledger learns of it. *)

Ambiguous(c) == outcome[c].kind = "raised" /\ intent[c].atMostOnce
LosesMoreThanHeld(c) == outcome[c].pnl < -intent[c].amount

Settle_AnyLoss(c) ==
  /\ pc[c] = "settle"
  /\ IF Ambiguous(c)
       THEN AppendOwn("UNKNOWN", c) /\ Goto(c, "finish")
       ELSE AppendOwn("SETTLE", c) /\ Goto(c, IF outcome[c].pnl = 0 THEN "finish" ELSE "pnl")
  /\ UNCHANGED <<intent, row, acted, outcome, answer, lock, day>>

(* mark_capability_uncertain, or the first entry of settle_capability_result *)
Settle(c) ==
  /\ pc[c] = "settle"
  /\ IF Ambiguous(c) \/ LosesMoreThanHeld(c)
       THEN AppendOwn("UNKNOWN", c) /\ Goto(c, "finish")
       ELSE AppendOwn("SETTLE", c) /\ Goto(c, IF outcome[c].pnl = 0 THEN "finish" ELSE "pnl")
  /\ UNCHANGED <<intent, row, acted, outcome, answer, lock, day>>

(* Its second entry, in a transaction of its own. *)
BookPnl(c) ==
  /\ pc[c] = "pnl"
  /\ IF outcome[c].pnl > 0
       THEN Append("PROFIT", outcome[c].pnl, Ref(c)) /\ Goto(c, "finish")
       ELSE Append("LOSS", -outcome[c].pnl, Ref(c)) /\ Goto(c, "suspend")
  /\ UNCHANGED <<intent, row, acted, outcome, answer, lock, day>>

(* _ensure_suspension_if_required, after the LOSS has committed. *)
EnsureSuspension(c) ==
  /\ pc[c] = "suspend"
  /\ IF EconomicStatus(books) = "ECONOMIC_SUSPENDED"
       THEN Append("SUSPENSION", 0, SuspensionRef)
       ELSE UNCHANGED ledgerVars
  /\ Goto(c, "finish")
  /\ UNCHANGED <<intent, row, acted, outcome, answer, lock, day>>

(* The row's final status, and the answer. *)
Finish(c) ==
  /\ pc[c] = "finish"
  /\ CASE outcome[c].kind = "ok" ->
            row' = [row EXCEPT ![c] = "SUCCEEDED"] /\ End(c, "ok")
       [] outcome[c].kind = "notok" ->
            row' = [row EXCEPT ![c] = "FAILED"] /\ End(c, "notok")
       [] outcome[c].kind = "raised" ->
            /\ row' = [row EXCEPT ![c] = IF Ambiguous(c) THEN "UNCERTAIN" ELSE "ABORTED"]
            /\ End(c, "error")
  /\ UNCHANGED <<intent, acted, outcome, ledgerVars, lock, day>>

-----------------------------------------------------------------------------
(* A call that stops here and writes no more: its worker died, or an error  *)
(* escaped execute().  An open transaction rolls back and frees the lock.   *)
Abandon(c) ==
  /\ pc[c] \notin Stopped
  /\ Goto(c, "dead")
  /\ lock' = IF lock = c THEN NoCall ELSE lock
  /\ UNCHANGED <<intent, row, acted, outcome, answer, ledgerVars, day>>

(* ExecutionReconciler.reconcile, on the row a dead call left AUTHORIZED.   *)
(* It goes by the recorded class, which may be weaker than the effective    *)
(* one.  It does not touch the ledger.                                      *)
Recover(c) ==
  /\ pc[c] = "dead"
  /\ row[c] = "AUTHORIZED"
  /\ \E status \in IF intent[c].atMostOnce THEN {"UNCERTAIN", "ABORTED"} ELSE {"ABORTED"} :
       row' = [row EXCEPT ![c] = status]
  /\ UNCHANGED <<pc, intent, acted, outcome, answer, ledgerVars, lock, day>>

(* The operator settles an UNKNOWN by hand: append_ledger_entry with a      *)
(* RECONCILED entry of the amount that was held.                            *)
Reconcile(c) ==
  /\ Ref(c) \in books.unresolved
  /\ row[c] # "NONE"
  /\ AppendOwn("RECONCILED", c)
  /\ UNCHANGED <<callVars, lock, day>>

NextDay ==
  /\ day < MaxDays
  /\ day' = day + 1
  /\ books' = [books EXCEPT !.todayLoss = 0]
  /\ UNCHANGED <<callVars, entries, lock>>

Next ==
  \/ \E c \in Calls :
       \/ DeniedByPolicy(c) \/ Claim(c)
       \/ CheckReserve(c) \/ AppendReserve(c) \/ AppendCommit(c) \/ AppendSettling(c)
       \/ PrepareFails(c) \/ Refuse(c)
       \/ GatewayRefuses(c) \/ Invoke(c) \/ Return(c)
       \/ Settle(c) \/ BookPnl(c) \/ EnsureSuspension(c) \/ Finish(c)
       \/ Abandon(c) \/ Recover(c) \/ Reconcile(c)
  \/ NextDay

Spec == Init /\ [][Next]_vars

-----------------------------------------------------------------------------
(* Types. *)
BooksType ==
  [nav : Int, peak : Int, reserved : Nat, committed : Nat, settling : Nat,
   todayLoss : Nat, unresolved : SUBSET Refs, suspended : BOOLEAN]

EconomyTypeOK ==
  /\ pc \in [Calls -> Steps]
  /\ intent \in [Calls -> IntentType]
  /\ row \in [Calls -> RowStatus]
  /\ acted \in [Calls -> BOOLEAN]
  /\ outcome \in [Calls -> OutcomeType]
  /\ answer \in [Calls -> {"none", "ok", "notok", "error"}]
  /\ entries \subseteq [type : EntryTypes, ref : Refs]
  /\ books \in BooksType
  /\ lock \in Calls \cup {NoCall}
  /\ day \in 0 .. MaxDays

-----------------------------------------------------------------------------
(* Safety. *)

(* A key buys one effect: no two calls that carry the same idempotency key *)
(* ever both reach an adapter, whatever their class, whichever of them     *)
(* failed, was refused or died first (capabilities/runtime.py:87-124).     *)
EffectOncePerKey ==
  \A c, d \in Calls :
    /\ c # d
    /\ acted[c] /\ acted[d]
    => intent[c].key = NoKey \/ intent[c].key # intent[d].key

(* A call that was refused never reached its adapter and holds no capital  *)
(* in settling, even if its preparation broke off half way                 *)
(* (capabilities/runtime.py:125-148).                                      *)
RefusedNeverActs ==
  \A c \in Calls :
    row[c] = "DENIED" => ~acted[c] /\ ~Recorded("SETTLING", c) /\ ~Recorded("SETTLE", c)

(* What the ledger says of a call whose money is not in flight any more:    *)
(* the stake is released and the profit or loss booked, or the whole of it  *)
(* is flagged UNKNOWN.                                                      *)
Settled(c) ==
  \/ intent[c].amount = 0
  \/ Recorded("UNKNOWN", c)
  \/ /\ Recorded("SETTLE", c)
     /\ outcome[c].pnl > 0 => Recorded("PROFIT", c)
     /\ outcome[c].pnl < 0 => Recorded("LOSS", c)

(* Whoever is told "ok", first hand or by a replay of the key, is told of   *)
(* an effect that happened, is recorded as SUCCEEDED and is settled in the  *)
(* ledger, its loss included: no answer overtakes the money                 *)
(* (capabilities/runtime.py:189-214, :322-331).                             *)
Performed(d) == row[d] = "SUCCEEDED" /\ acted[d] /\ Settled(d)
SameEffect(c, d) == d = c \/ (intent[d].key = intent[c].key /\ intent[c].key # NoKey)
AnsweredMeansSettled ==
  \A c \in Calls : answer[c] = "ok" => \E d \in Calls : SameEffect(c, d) /\ Performed(d)

(* However calls race, outstanding capital stays within the exposure limit  *)
(* of the highest NAV the Universe ever had: a check made under the lock    *)
(* is still good when its RESERVE row commits (services/economy.py:421-447).*)
ExposureBounded == 100 * Exposure(books) <= MaxExposure * books.peak

(* The accumulators are what the calls in flight hold: the clamps at zero   *)
(* (services/economy.py:225-257) never swallow or invent an amount.  The    *)
(* stakes of a set of calls are counted as pairs of a call and a unit.      *)
Stake(c) == {c} \X (1 .. intent[c].amount)
HeldBy(C) == Cardinality(UNION {Stake(c) : c \in C})
Owners == {c \in Calls : row[c] # "NONE"}
Released(c) == Recorded("SETTLE", c) \/ Recorded("RECONCILED", c)
Reserving == {c \in Owners : Recorded("RESERVE", c) /\ ~Recorded("COMMIT", c)}
Committing == {c \in Owners : Recorded("COMMIT", c) /\ ~Recorded("SETTLING", c)}
InSettling == {c \in Owners : Recorded("SETTLING", c) /\ ~Released(c)}
CapitalAccounted ==
  /\ books.reserved = HeldBy(Reserving)
  /\ books.committed = HeldBy(Committing)
  /\ books.settling = HeldBy(InSettling)

(* The Universe never owes more than it has: what is available also covers  *)
(* the stakes that no accumulator holds just now, those about to be         *)
(* reserved and those released before their loss is booked                  *)
(* (services/economy.py:263, :429-447, :535-548).                           *)
AtRisk == {c \in Calls : pc[c] = "append" \/ (pc[c] = "pnl" /\ outcome[c].pnl < 0)}
NeverOverdrawn == Available(books) >= HeldBy(AtRisk)

(* When it does: every gate reads a NAV from which the losses of calls just *)
(* settled are still missing, and the structural reserve has to cover them. *)
(* By the default ratios (config.py:150-155) it covers up to five calls.    *)
ReserveCoversSettlements ==
  100 * (MaxConcurrent - 1) * MaxRisk <= Structural * (100 - DrawdownStop)

-----------------------------------------------------------------------------
(* The inductive invariant behind the three properties on keys, refusals    *)
(* and answers: who owns a key, a row and an entry, and how far a call at   *)
(* each step has come.                                                      *)

KeysUnique ==
  \A c, d \in Calls :
    c # d /\ row[c] # "NONE" /\ row[d] # "NONE"
      => intent[c].key = NoKey \/ intent[c].key # intent[d].key

OnTrack(c) ==
  /\ pc[c] = "idle" => row[c] = "NONE" /\ ~acted[c]
  /\ pc[c] # "done" => answer[c] = "none"
  /\ pc[c] \notin Stopped => row[c] = "AUTHORIZED"
  /\ pc[c] = "dead" => row[c] \in {"AUTHORIZED", "UNCERTAIN", "ABORTED"}
  /\ row[c] \in {"NONE", "DENIED"} => ~acted[c]
  /\ pc[c] \in Preparing \cup {"refuse", "effect"} => ~acted[c]
  /\ pc[c] \in Settling \cup {"finish"} => outcome[c].kind # "none"
  /\ pc[c] = "running" \/ outcome[c].kind = "ok" => acted[c]
CallsOnTrack == \A c \in Calls : OnTrack(c)

EntriesOwned ==
  \A e \in entries :
    e.ref = SuspensionRef \/ \E d \in Calls : row[d] # "NONE" /\ Ref(d) = e.ref

Placed(c) ==
  row[c] # "NONE" /\ (Recorded("SETTLING", c) \/ Recorded("SETTLE", c))
    => row[c] # "DENIED" /\ pc[c] \notin Preparing \cup {"refuse"}
StakePlaced == \A c \in Calls : Placed(c)

Followed(c) ==
  /\ pc[c] = "pnl" => Recorded("SETTLE", c)
  /\ pc[c] = "suspend" => outcome[c].pnl <= 0 /\ Recorded("SETTLE", c) /\ Recorded("LOSS", c)
  /\ pc[c] = "finish" => Settled(c)
  /\ row[c] = "SUCCEEDED" => pc[c] = "done" /\ acted[c] /\ Settled(c)
MoneyFollows == \A c \in Calls : Followed(c)

CallInvariant ==
  /\ EconomyTypeOK
  /\ KeysUnique
  /\ CallsOnTrack
  /\ EntriesOwned
  /\ StakePlaced
  /\ MoneyFollows
  /\ AnsweredMeansSettled

(* And behind the three on capital: which entries a call has when, and what *)
(* the gates let through.                                                   *)
InOrder(c) ==
  /\ Recorded("COMMIT", c) => Recorded("RESERVE", c)
  /\ Recorded("SETTLING", c) => Recorded("COMMIT", c)
  /\ Recorded("SETTLE", c) \/ Recorded("UNKNOWN", c) => Recorded("SETTLING", c)
  /\ ~(Recorded("SETTLE", c) /\ Recorded("UNKNOWN", c))
  /\ Recorded("RECONCILED", c) => Recorded("UNKNOWN", c)
  /\ pc[c] \in {"reserve", "append"} => ~Recorded("RESERVE", c)
  /\ pc[c] = "commit" => Recorded("RESERVE", c) /\ ~Recorded("COMMIT", c)
  /\ pc[c] = "settling" => Recorded("COMMIT", c) /\ ~Recorded("SETTLING", c)
  /\ pc[c] \in {"effect", "running", "settle"} /\ intent[c].amount # 0 =>
        Recorded("SETTLING", c) /\ ~Recorded("SETTLE", c) /\ ~Recorded("UNKNOWN", c)
  /\ pc[c] = "settle" => intent[c].amount # 0
  /\ pc[c] = "pnl" => -intent[c].amount <= outcome[c].pnl
LedgerInOrder ==
  /\ \A ref \in books.unresolved : Entry("UNKNOWN", ref) \in entries
  /\ \A c \in Owners : InOrder(c)

Admitted(c) ==
  /\ pc[c] = "append" =>
        lock = c /\ 100 * (Exposure(books) + intent[c].amount) <= MaxExposure * books.peak
  /\ pc[c] = "append" \/ Recorded("RESERVE", c) => 100 * intent[c].amount <= MaxRisk * books.peak
StakesAdmitted == books.nav <= books.peak /\ \A c \in Owners : Admitted(c)

EconomyInvariant == CallInvariant /\ LedgerInOrder /\ StakesAdmitted
=============================================================================
