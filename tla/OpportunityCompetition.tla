----------------------- MODULE OpportunityCompetition -----------------------
(***************************************************************************)
(* Opportunities from their discovery to the one Mission each may become:  *)
(* competition workers claim them, have Universes propose theses, compose  *)
(* a further one from those, and resolve the competition; the winner holds *)
(* an exclusive executive lease that a Mission can be created from.        *)
(*                                                                         *)
(* One action is one transaction or one model call.  Workers share the     *)
(* database only.  A claim that is old enough is taken over, whether its   *)
(* owner has died or is merely slow, so that two workers may be at the     *)
(* same opportunity; each decides by the rows its session loaded before.   *)
(*                                                                         *)
(* A thesis is identified with its place in the order resolve_competition  *)
(* compares theses by (score, confidence, id), all of which are fixed when *)
(* it is submitted.  Research leases decide nothing and are left out.      *)
(***************************************************************************)
EXTENDS Naturals, FiniteSets

CONSTANTS
  Workers,         \* competition worker processes
  Opportunities,   \* what discovery may find, by fingerprint
  Universes,       \* Universes whose Agents may compete
  ChainOf,         \* the provider chain of a Universe's Agent
  Evolution,       \* the Universe that composes when it competes
  CompetitorLimit, \* opportunity_competitor_limit
  MaxPerCycle,     \* opportunity_max_per_cycle
  Composing,       \* opportunity_composition_enabled
  MaxTheses,       \* bound: theses on one opportunity
  MaxFaults,       \* bound: failed calls, deaths and absent competitors
  None             \* no opportunity, no thesis, no Universe

Theses == 1 .. MaxTheses

ASSUME CompetitionAssumption ==
  /\ DOMAIN ChainOf = Universes
  /\ CompetitorLimit \in Nat /\ CompetitorLimit >= 2
  /\ MaxPerCycle \in Nat \ {0}
  /\ Composing \in BOOLEAN
  /\ MaxTheses \in Nat /\ MaxFaults \in Nat
  /\ None \notin Opportunities \cup Universes \cup Nat

VARIABLES
  status,     \* opportunities.status, ABSENT before the row exists
  stale,      \* its claim is older than stale_claim_seconds
  thesis,     \* opportunity_theses
  lease,      \* the ACTIVE executive lease; lapsed: expires_at has passed
  mission,    \* the thesis the Mission of an opportunity was created from
  contested,  \* history: two workers have been at the opportunity together
  pc,         \* where a worker stands
  at,         \* the opportunity it is processing
  batch,      \* those it has claimed and not begun
  field,      \* the Universes competing
  todo,       \* those it has still to ask
  known,      \* statuses of the theses its session holds
  down,       \* provider chains that did not answer in this cycle
  faults      \* unforced failures so far

rowVars == <<status, stale, thesis, lease, mission>>
workerVars == <<pc, at, batch, field, todo, known, down>>
vars == <<rowVars, contested, workerVars, faults>>

-----------------------------------------------------------------------------
NoThesis == [by |-> None, composed |-> FALSE, status |-> "NONE"]
ThesisStatus == {"NONE", "PROPOSED", "SELECTED"}
Unseen == [x \in Theses |-> "NONE"]
NoLease == [thesis |-> None, lapsed |-> FALSE]

Rows(o) == {x \in Theses : thesis[o][x].status # "NONE"}
Mine(w) == {x \in Theses : known[w][x] # "NONE"}
Fault == faults < MaxFaults /\ faults' = faults + 1

Init ==
  /\ status = [o \in Opportunities |-> "ABSENT"]
  /\ stale = [o \in Opportunities |-> FALSE]
  /\ thesis = [o \in Opportunities |-> [x \in Theses |-> NoThesis]]
  /\ lease = [o \in Opportunities |-> NoLease]
  /\ mission = [o \in Opportunities |-> None]
  /\ contested = {}
  /\ pc = [w \in Workers |-> "idle"]
  /\ at = [w \in Workers |-> None]
  /\ batch = [w \in Workers |-> {}]
  /\ field = [w \in Workers |-> {}]
  /\ todo = [w \in Workers |-> {}]
  /\ known = [w \in Workers |-> Unseen]
  /\ down = [w \in Workers |-> {}]
  /\ faults = 0

Goto(w, step) == pc' = [pc EXCEPT ![w] = step]
SetStatus(o, s) == status' = [status EXCEPT ![o] = s]

-----------------------------------------------------------------------------
(* Around the workers. *)

(* create_or_get_opportunity: one row for each fingerprint; finding it      *)
(* again adds evidence at most.                                             *)
Detect(o) ==
  /\ status[o] = "ABSENT"
  /\ SetStatus(o, "DETECTED")
  /\ UNCHANGED <<stale, thesis, lease, mission, contested, workerVars, faults>>

ClaimAges(o) ==
  /\ status[o] = "RESEARCHING" /\ ~stale[o]
  /\ stale' = [stale EXCEPT ![o] = TRUE]
  /\ UNCHANGED <<status, thesis, lease, mission, contested, workerVars, faults>>

LeaseLapses(o) ==
  /\ lease[o].thesis # None /\ ~lease[o].lapsed
  /\ lease' = [lease EXCEPT ![o].lapsed = TRUE]
  /\ UNCHANGED <<status, stale, thesis, mission, contested, workerVars, faults>>

(* Mutant: the thesis the caller names is taken as it is. *)
MayLaunch_AnyThesis(o, x) == TRUE

MayLaunch(o, x) == thesis[o][x].status = "SELECTED" /\ lease[o].thesis = x

(* create_mission_from_opportunity, which nothing but the tests calls yet.  *)
(* A Mission that exists is returned.                                       *)
LaunchMission(o, x) ==
  /\ mission[o] = None
  /\ MayLaunch(o, x)
  /\ IF lease[o].lapsed
     THEN lease' = [lease EXCEPT ![o] = NoLease] /\ UNCHANGED mission
     ELSE mission' = [mission EXCEPT ![o] = x] /\ UNCHANGED lease
  /\ UNCHANGED <<status, stale, thesis, contested, workerVars, faults>>

-----------------------------------------------------------------------------
(* Claiming. *)

(* Mutants: a dead worker's claim stays; anything old may be claimed.       *)
Claimable_OnlyDetected(o) == status[o] = "DETECTED"
Claimable_AnyOld(o) == status[o] = "DETECTED" \/ status[o] = "SELECTED"

Claimable(o) == status[o] = "DETECTED" \/ (status[o] = "RESEARCHING" /\ stale[o])

(* _claim: the oldest first, but rows another transaction has locked are    *)
(* skipped, so that it may come out with any of them.                       *)
Claim(w) ==
  /\ pc[w] = "idle"
  /\ \E S \in SUBSET {o \in Opportunities : Claimable(o)} :
       /\ S # {} /\ Cardinality(S) <= MaxPerCycle
       /\ batch' = [batch EXCEPT ![w] = S]
       /\ status' = [o \in Opportunities |-> IF o \in S THEN "RESEARCHING" ELSE status[o]]
       /\ stale' = [o \in Opportunities |-> IF o \in S THEN FALSE ELSE stale[o]]
  /\ Goto(w, "next")
  /\ down' = [down EXCEPT ![w] = {}]
  /\ UNCHANGED <<thesis, lease, mission, contested, at, field, todo, known, faults>>

(* Somebody else at the same opportunity. *)
Elsewhere(w, o) == \E v \in Workers \ {w} : at[v] = o

(* A competitor keeps the thesis it proposed in an earlier attempt. *)
Unasked(o, C) ==
  {u \in C : \A x \in Theses : thesis[o][x].by = u => thesis[o][x].composed}

(* _process loads the opportunity, the competitors and the theses so far.   *)
(* A Universe or its Agent may have been switched off.                      *)
Begin(w, o) ==
  /\ pc[w] = "next" /\ o \in batch[w]
  /\ batch' = [batch EXCEPT ![w] = @ \ {o}]
  /\ IF status[o] # "RESEARCHING"
     THEN UNCHANGED <<pc, at, field, todo, known, contested, faults>>
     ELSE /\ at' = [at EXCEPT ![w] = o]
          /\ contested' = IF Elsewhere(w, o) THEN contested \cup {o} ELSE contested
          /\ \E C \in SUBSET Universes :
               /\ Cardinality(C) <= CompetitorLimit
               /\ IF Cardinality(C) < 2
                  THEN /\ Fault /\ Goto(w, "giveup")
                       /\ UNCHANGED <<field, todo, known>>
                  ELSE /\ Goto(w, "generate")
                       /\ field' = [field EXCEPT ![w] = C]
                       /\ todo' = [todo EXCEPT ![w] = Unasked(o, C)]
                       /\ known' = [known EXCEPT ![w] = [x \in Theses |-> thesis[o][x].status]]
                       /\ UNCHANGED faults
  /\ UNCHANGED <<rowVars, down>>

EndCycle(w) ==
  /\ pc[w] = "next" /\ batch[w] = {}
  /\ Goto(w, "idle")
  /\ UNCHANGED <<rowVars, contested, at, batch, field, todo, known, down, faults>>

-----------------------------------------------------------------------------
(* Proposing. *)

(* submit_thesis, in a transaction of its own. *)
Submit(w, u, composed) ==
  \E x \in Theses \ Rows(at[w]) :
    /\ thesis' = [thesis EXCEPT ![at[w]][x] =
                    [by |-> u, composed |-> composed, status |-> "PROPOSED"]]
    /\ known' = [known EXCEPT ![w][x] = "PROPOSED"]

Crowded(o) == Rows(o) = Theses

(* No provider of the chain answered, or one did and its answer is unusable. *)
NoteFailure(w, u) == down' \in {down, [down EXCEPT ![w] = @ \cup {ChainOf[u]}]}

(* A call that brings no thesis.  Beyond the bound on theses it costs       *)
(* nothing.                                                                 *)
CallFails(w, u) ==
  /\ NoteFailure(w, u)
  /\ IF Crowded(at[w]) THEN UNCHANGED faults ELSE Fault

AskCompetitor(w, u) ==
  /\ pc[w] = "generate" /\ u \in todo[w]
  /\ todo' = [todo EXCEPT ![w] = @ \ {u}]
  /\ \/ ChainOf[u] \in down[w] /\ UNCHANGED <<thesis, known, down, faults>>
     \/ /\ ChainOf[u] \notin down[w]
        /\ \/ Submit(w, u, FALSE) /\ UNCHANGED <<down, faults>>
           \/ CallFails(w, u) /\ UNCHANGED <<thesis, known>>
  /\ UNCHANGED <<status, stale, lease, mission, contested, pc, at, batch, field>>

Composer(w) == IF Evolution \in field[w] THEN Evolution ELSE CHOOSE u \in field[w] : TRUE
HasComposition(w) == \E x \in Mine(w) : thesis[at[w]][x].composed
ComposerSilent(w) == Composing /\ ChainOf[Composer(w)] \in down[w] /\ ~HasComposition(w)

(* Two theses make a competition; a composer whose chain is silent is       *)
(* waited for in a later cycle.                                             *)
Judge(w) ==
  /\ pc[w] = "generate" /\ todo[w] = {}
  /\ Goto(w, IF Cardinality(Mine(w)) < 2 \/ ComposerSilent(w) THEN "giveup"
             ELSE IF Composing /\ ~HasComposition(w) THEN "compose" ELSE "resolve")
  /\ UNCHANGED <<rowVars, contested, at, batch, field, todo, known, down, faults>>

(* Critique and composition: one thesis more, made of those of the row.     *)
Composed(w) == Submit(w, Composer(w), TRUE)

(* Without it the competition goes on.                                      *)
ComposeThesis(w) ==
  /\ pc[w] = "compose"
  /\ Goto(w, "resolve")
  /\ \/ Composed(w) /\ UNCHANGED <<down, faults>>
     \/ CallFails(w, Composer(w)) /\ UNCHANGED <<thesis, known>>
  /\ UNCHANGED <<status, stale, lease, mission, contested, at, batch, field, todo>>

-----------------------------------------------------------------------------
(* Resolving. *)

Wins(x, S) == x \in S /\ \A y \in S : y <= x

(* Mutant: a lease in force does not matter. *)
LeaseAllows_Always(o, x) == TRUE

LeaseAllows(o, x) == lease[o].thesis \in {None, x} \/ lease[o].lapsed

(* The session writes a status only where it differs from the one it has    *)
(* loaded; theses it did not hold are loaded now.                           *)
Resolved(w, o, x) ==
  [y \in Theses |->
     LET loaded == IF y \in Mine(w) THEN known[w][y] ELSE thesis[o][y].status
         wanted == IF y = x THEN "SELECTED" ELSE "PROPOSED"
     IN  IF y \in Rows(o) /\ loaded # wanted THEN [thesis[o][y] EXCEPT !.status = wanted]
         ELSE thesis[o][y]]

Leave(w) ==
  /\ Goto(w, "next")
  /\ at' = [at EXCEPT ![w] = None]
  /\ field' = [field EXCEPT ![w] = {}]
  /\ todo' = [todo EXCEPT ![w] = {}]
  /\ known' = [known EXCEPT ![w] = Unseen]

(* resolve_competition, under the lock of the opportunity: the theses the   *)
(* worker has scored compete, all others step back.                         *)
Resolve(w, o, x) ==
  /\ pc[w] = "resolve" /\ at[w] = o
  /\ Wins(x, Mine(w))
  /\ IF LeaseAllows(o, x)
     THEN /\ SetStatus(o, "SELECTED")
          /\ thesis' = [thesis EXCEPT ![o] = Resolved(w, o, x)]
          /\ lease' = IF lease[o].thesis = x /\ ~lease[o].lapsed THEN lease
                      ELSE [lease EXCEPT ![o] = [thesis |-> x, lapsed |-> FALSE]]
          /\ Leave(w)
     ELSE /\ Goto(w, "failed")
          /\ UNCHANGED <<status, thesis, lease, at, field, todo, known>>
  /\ UNCHANGED <<stale, mission, contested, batch, down, faults>>

(* The opportunity goes back to be claimed again. *)
Reopen(w, o) == SetStatus(o, "DETECTED") /\ Leave(w)

GiveUp(w, o) ==
  /\ pc[w] = "giveup" /\ at[w] = o
  /\ Reopen(w, o)
  /\ UNCHANGED <<stale, thesis, lease, mission, contested, batch, down, faults>>

(* An exception ends the attempt; _reset_for_retry looks, then writes.      *)
Fails(w) ==
  /\ pc[w] \in {"generate", "compose", "resolve", "giveup"}
  /\ Fault
  /\ Goto(w, "failed")
  /\ UNCHANGED <<rowVars, contested, at, batch, field, todo, known, down>>

LookAgain(w, o) ==
  /\ pc[w] = "failed" /\ at[w] = o
  /\ IF status[o] = "RESEARCHING"
     THEN Goto(w, "reset") /\ UNCHANGED <<at, field, todo, known>>
     ELSE Leave(w)
  /\ UNCHANGED <<rowVars, contested, batch, down, faults>>

Reset(w, o) ==
  /\ pc[w] = "reset" /\ at[w] = o
  /\ Reopen(w, o)
  /\ UNCHANGED <<stale, thesis, lease, mission, contested, batch, down, faults>>

(* The process ends, and with it everything it has not committed; or the    *)
(* cycle does, when putting an opportunity back failed.                     *)
Dies(w) ==
  /\ pc[w] # "idle"
  /\ Fault
  /\ Goto(w, "idle")
  /\ at' = [at EXCEPT ![w] = None]
  /\ batch' = [batch EXCEPT ![w] = {}]
  /\ field' = [field EXCEPT ![w] = {}]
  /\ todo' = [todo EXCEPT ![w] = {}]
  /\ known' = [known EXCEPT ![w] = Unseen]
  /\ down' = [down EXCEPT ![w] = {}]
  /\ UNCHANGED <<rowVars, contested>>

-----------------------------------------------------------------------------
Time(o) == ClaimAges(o) \/ LeaseLapses(o)

Process(w, o) ==
  \/ Begin(w, o) \/ GiveUp(w, o) \/ LookAgain(w, o) \/ Reset(w, o)
  \/ \E x \in Theses : Resolve(w, o, x)

Work(w) ==
  \/ Claim(w) \/ EndCycle(w) \/ Judge(w) \/ ComposeThesis(w)
  \/ \E u \in Universes : AskCompetitor(w, u)
  \/ \E o \in Opportunities : Process(w, o)

Next ==
  \/ \E o \in Opportunities :
       Detect(o) \/ Time(o) \/ \E x \in Theses : LaunchMission(o, x)
  \/ \E w \in Workers : Work(w) \/ Fails(w) \/ Dies(w)

Spec == Init /\ [][Next]_vars

(* Time passes; the workers' loop has no exit and their container is        *)
(* restarted; model calls time out.                                         *)
FairSpec ==
  /\ Spec
  /\ \A o \in Opportunities : WF_vars(ClaimAges(o)) /\ WF_vars(LeaseLapses(o))
  /\ \A w \in Workers : WF_vars(Work(w))

-----------------------------------------------------------------------------
(* Properties. *)

TypeOK ==
  /\ status \in [Opportunities -> {"ABSENT", "DETECTED", "RESEARCHING", "SELECTED"}]
  /\ stale \in [Opportunities -> BOOLEAN]
  /\ thesis \in [Opportunities -> [Theses ->
       [by : Universes \cup {None}, composed : BOOLEAN, status : ThesisStatus]]]
  /\ lease \in [Opportunities -> [thesis : Theses \cup {None}, lapsed : BOOLEAN]]
  /\ mission \in [Opportunities -> Theses \cup {None}]
  /\ contested \subseteq Opportunities
  /\ pc \in [Workers -> {"idle", "next", "generate", "compose", "resolve", "giveup",
                         "failed", "reset"}]
  /\ at \in [Workers -> Opportunities \cup {None}]
  /\ batch \in [Workers -> SUBSET Opportunities]
  /\ field \in [Workers -> SUBSET Universes]
  /\ todo \in [Workers -> SUBSET Universes]
  /\ known \in [Workers -> [Theses -> ThesisStatus]]
  /\ down \in [Workers -> SUBSET {ChainOf[u] : u \in Universes}]
  /\ faults \in 0 .. MaxFaults

Uncontested == Opportunities \ contested
Selected(o) == {x \in Theses : thesis[o][x].status = "SELECTED"}

(* An opportunity that no two workers were at together is SELECTED exactly  *)
(* when one thesis of it is, whatever workers died on the way; its          *)
(* executive lease and its Mission are that thesis's                        *)
(* (resolve_competition, create_mission_from_opportunity).                  *)
OneWinner ==
  \A o \in Uncontested :
    /\ Cardinality(Selected(o)) = IF status[o] = "SELECTED" THEN 1 ELSE 0
    /\ {lease[o].thesis, mission[o]} \subseteq Selected(o) \cup {None}

(* The winner is the best of all the theses there are, of at least two, and *)
(* no Universe is asked twice: an attempt that broke off is continued, not  *)
(* begun again (existing_universe_ids, composition_marker).                 *)
BestThesisWins ==
  \A o \in Uncontested :
    /\ \A x \in Selected(o) : Wins(x, Rows(o)) /\ Rows(o) # {x}
    /\ \A x, y \in Rows(o) :
         /\ thesis[o][x].composed = thesis[o][y].composed
         /\ thesis[o][x].composed \/ thesis[o][x].by = thesis[o][y].by
         => x = y

(* Once selected, an opportunity is not put up again, nor does its          *)
(* selection move, unless two workers were at it together.                  *)
SelectionIsForGood ==
  [][\A o \in Opportunities \ contested' :
       status[o] = "SELECTED" => status'[o] = "SELECTED" /\ thesis'[o] = thesis[o]]_vars

(* However many workers resolve an opportunity, an executive lease in force *)
(* stays with its thesis: it may lapse, never change hands                  *)
(* (uq_opportunity_active_executive_lease, LeaseConflictError).             *)
LeaseIsExclusive ==
  [][\A o \in Opportunities :
       lease[o].thesis # None /\ ~lease[o].lapsed => lease'[o].thesis = lease[o].thesis]_vars

(* Every opportunity is decided: through deaths, takeovers, silent          *)
(* providers and lease conflicts it is selected in the end, as long as      *)
(* failures do not go on for ever (OpportunityCompetitionWorker.run_once).  *)
EveryOpportunityDecided ==
  \A o \in Opportunities : status[o] = "DETECTED" ~> status[o] = "SELECTED"

-----------------------------------------------------------------------------
(* Why the properties hold: an inductive invariant.                         *)

(* A worker is at an opportunity exactly while it processes one.            *)
Standing ==
  \A w \in Workers :
    /\ at[w] = None <=> pc[w] \in {"idle", "next"}
    /\ pc[w] \in {"generate", "compose"} => field[w] # {}

Judging == {"generate", "compose", "resolve"}

(* What is so of an opportunity that was never contested.  One worker at    *)
(* most is at it; it stays RESEARCHING meanwhile, and the session knows the *)
(* theses as they are.                                                      *)
InOneHand(o) ==
  \A w \in Workers : at[w] = o =>
    /\ \A v \in Workers : at[v] = o => v = w
    /\ status[o] = "RESEARCHING"
    /\ pc[w] \in Judging => \A x \in Theses : known[w][x] = thesis[o][x].status

(* Before the decision nothing is selected, leased or launched.             *)
OpenUntilDecided(o) ==
  status[o] # "SELECTED" =>
    /\ \A x \in Theses : thesis[o][x].status # "SELECTED"
    /\ lease[o].thesis = None /\ mission[o] = None

(* After it there is one winner, the best of several.                       *)
DecidedOnce(o) ==
  status[o] = "SELECTED" =>
    \E x \in Theses :
      /\ \A y \in Theses : thesis[o][y].status = "SELECTED" <=> y = x
      /\ {lease[o].thesis, mission[o]} \subseteq {x, None}
      /\ \A y \in Rows(o) : y <= x
      /\ \E y \in Rows(o) : y # x

(* Those still to be asked have not proposed, there is nothing composed     *)
(* before the composition, and a competition has two theses.                *)
AskedInTurn(o) ==
  \A w \in Workers : at[w] = o =>
    /\ pc[w] = "generate" => \A u \in todo[w] : u \in Unasked(o, {u})
    /\ pc[w] = "compose" => \A x \in Rows(o) : ~thesis[o][x].composed
    /\ pc[w] \in {"compose", "resolve"} => \E x, y \in Rows(o) : x # y

ProposedOnce(o) ==
  \A x, y \in Rows(o) :
    /\ thesis[o][x].composed = thesis[o][y].composed
    /\ thesis[o][x].composed \/ thesis[o][x].by = thesis[o][y].by
    => x = y

Sound(o) ==
  /\ InOneHand(o) /\ OpenUntilDecided(o) /\ DecidedOnce(o)
  /\ AskedInTurn(o) /\ ProposedOnce(o)

CompetitionInvariant ==
  TypeOK /\ Standing /\ \A o \in Uncontested : Sound(o)
=============================================================================
