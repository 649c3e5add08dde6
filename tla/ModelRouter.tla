----------------------------- MODULE ModelRouter -----------------------------
(***************************************************************************)
(* The provider router of the inference layer (inference/router.py) with   *)
(* the circuit breaker and the rate-limit cooldown that every router of    *)
(* the process shares (inference/health.py, inference/bootstrap.py).       *)
(* Requests run concurrently on one event loop: a request is atomic        *)
(* between two awaits, and the only await of an attempt is the call of the *)
(* provider, so choosing a candidate is one step and what the call came to *)
(* is another.                                                             *)
(***************************************************************************)
EXTENDS Naturals, Sequences, FiniteSets

CONSTANTS
    Requests,    \* the requests of the run, each routed once
    Chain,       \* the configured provider, then its reserves, in order, each once
    Configured,  \* providers whose key and model are set
    Background,  \* TRUE: a router for work nobody waits on
    Opted,       \* TRUE: the operator let a ChatGPT failure move on, disclosed
    Ungoverned,  \* providers the request's capability or budget gate refuses
    Threshold,   \* failures that open a circuit
    Earlier,     \* provider -> failures in a row that earlier requests met
    MaxLapses    \* bound: cooldowns and lifetimes that lapse

Providers == {Chain[k] : k \in DOMAIN Chain}
NoProvider == "none"

ASSUME RouterConstants ==
    /\ Chain \in Seq(STRING) /\ Chain # <<>> /\ NoProvider \notin Providers
    /\ \A j, k \in DOMAIN Chain : Chain[j] = Chain[k] => j = k
    /\ Configured \subseteq Providers /\ Chain[1] \in Configured
    /\ Ungoverned \subseteq Providers
    /\ {Background, Opted} \subseteq BOOLEAN
    /\ Threshold \in Nat \ {0}
    /\ Earlier \in [Providers -> 0..Threshold]
    /\ MaxLapses \in Nat

VARIABLES
    circuit,   \* provider -> state and consecutive failures of its breaker
    cooled,    \* open circuits whose cooldown has passed
    limited,   \* providers in a rate-limit cooldown
    calling,   \* request -> the index in Chain of the call it awaits, 0 if none
    outcome,   \* request -> what the router gave back
    blamed,    \* request -> first_failure: the candidate it was left to reserves by
    leaked,    \* providers whose probe ended in a way the breaker never hears of
    lapses     \* cooldowns and lifetimes lapsed so far

routerVars == <<circuit, cooled, limited, calling, outcome, blamed, leaked, lapses>>

Pending == [kind |-> "pending", by |-> NoProvider, from |-> NoProvider]
Raised == [kind |-> "raised", by |-> NoProvider, from |-> NoProvider]
Cancelled == [kind |-> "cancelled", by |-> NoProvider, from |-> NoProvider]
Answered(p, first) == [kind |-> "answered", by |-> p, from |-> first]

-----------------------------------------------------------------------------
(* What each provider makes of what its upstream did: "ok", or the class   *)
(* of the exception its generate raises.                                   *)

Upstream == {"answered", "empty", "garbled", "400", "401", "403", "429", "500",
             "timeout", "network", "spent", "ineligible", "unbound", "cut"}

ChatGPTRaises(e) ==
    CASE e \in {"answered", "empty"}              -> "ok"
      [] e \in {"spent", "429"}                   -> "limit"
      [] e \in {"unbound", "401"}                 -> "auth"
      [] OTHER                                    -> "unavailable"

OpenAIRaises(e) ==
    CASE e \in {"answered", "empty"}              -> "ok"
      [] e = "garbled"                            -> "escapes"
      [] OTHER                                    -> "unavailable"

AnthropicRaises(e) ==
    CASE e = "answered"                           -> "ok"
      [] e \in {"401", "403"}                     -> "auth"
      [] e = "429"                                -> "limit"
      [] e = "timeout"                            -> "timeout"
      [] OTHER                                    -> "unavailable"

FreeLLMAPIRaises(e) ==
    CASE e \in {"answered", "empty"}              -> "ok"
      [] e \in {"401", "403"}                     -> "auth"
      [] e = "429"                                -> "limit"
      [] e = "timeout"                            -> "timeout"
      [] OTHER                                    -> "unavailable"

CompatibleRaises(e) ==
    CASE e \in {"answered", "empty"}              -> "ok"
      [] e \in {"401", "403"}                     -> "auth"
      [] e = "429"                                -> "limit"
      [] e = "timeout"                            -> "timeout"
      [] OTHER                                    -> "unavailable"

Generate(p, e) ==
    CASE p = "chatgpt"    -> ChatGPTRaises(e)
      [] p = "openai"     -> OpenAIRaises(e)
      [] p = "anthropic"  -> AnthropicRaises(e)
      [] p = "freellmapi" -> FreeLLMAPIRaises(e)
      [] OTHER            -> CompatibleRaises(e)

-----------------------------------------------------------------------------
(* The breaker.                                                            *)

(* A reserve that is not fully configured is skipped.                      *)
Reserves == {k \in 2..Len(Chain) : Chain[k] \in Configured}

Excluded == IF Background /\ Reserves # {} THEN {"chatgpt"} \cap {Chain[1]} ELSE {}

Disclosed == Opted /\ Reserves # {}

(* The candidates the loop does not skip, by their places in the chain.    *)
Route == {k \in {1} \cup Reserves : Chain[k] \notin Excluded}

First == CHOOSE k \in Route : \A j \in Route : k <= j

MustStop(p) == p = "chatgpt" /\ ~Disclosed

CircuitLets(p) ==
    \/ circuit[p].state = "CLOSED"
    \/ circuit[p].state = "OPEN" /\ p \in cooled

MayTry(p) == p \notin limited /\ CircuitLets(p)

TryCircuit(p) ==
    IF circuit[p].state = "OPEN" THEN [circuit[p] EXCEPT !.state = "HALF_OPEN"]
                                 ELSE circuit[p]

AfterSuccess(p) == [state |-> "CLOSED", failures |-> 0]

(* Mutant: a failed probe leaves its circuit half open.                    *)
AfterFailure_ProbeKept(p) ==
    IF circuit[p].failures + 1 >= Threshold
    THEN [circuit[p] EXCEPT !.state = IF @ = "CLOSED" THEN "OPEN" ELSE @,
                            !.failures = Threshold]
    ELSE [circuit[p] EXCEPT !.failures = @ + 1]

AfterFailure(p) ==
    IF circuit[p].state = "HALF_OPEN" \/ circuit[p].failures + 1 >= Threshold
    THEN [state |-> "OPEN", failures |-> Threshold]
    ELSE [circuit[p] EXCEPT !.failures = @ + 1]

-----------------------------------------------------------------------------
RouterInit ==
    /\ circuit = [p \in Providers |->
                    [state |-> IF Earlier[p] = Threshold THEN "OPEN" ELSE "CLOSED",
                     failures |-> Earlier[p]]]
    /\ cooled = {}
    /\ limited = {}
    /\ calling = [r \in Requests |-> 0]
    /\ outcome = [r \in Requests |-> Pending]
    /\ blamed = [r \in Requests |-> NoProvider]
    /\ leaked = {}
    /\ lapses = 0

(* The candidate the loop stops at: it passes over refused candidates      *)
(* without awaiting, and cannot pass a governance gate or ChatGPT.         *)
Halts(i) ==
    \/ i > Len(Chain)
    \/ i \in Route /\ (Chain[i] \in Ungoverned \/ MayTry(Chain[i]) \/ MustStop(Chain[i]))

NextStop(i) ==
    CHOOSE j \in i..(Len(Chain) + 1) : Halts(j) /\ \A k \in i..(j - 1) : ~Halts(k)

(* Mutant: the last candidate left behind instead of the first.            *)
FirstFailure_Last(r, i, j) == IF j = First THEN NoProvider ELSE Chain[j - 1]

(* first_failure when the loop, entered at candidate i, has reached j: the *)
(* first candidate that was refused or failed.                             *)
FirstFailure(r, i, j) ==
    IF blamed[r] # NoProvider \/ j = First THEN blamed[r]
    ELSE Chain[IF i > 1 THEN i - 1 ELSE First]

(* Take up the candidates from index i on; c, cool and lost are the        *)
(* breakers as the attempt just ended leaves them.                         *)
TakeUp(r, i, c, cool, lost) ==
    LET j == NextStop(i) IN
    IF j <= Len(Chain) /\ Chain[j] \notin Ungoverned /\ MayTry(Chain[j])
    THEN /\ calling' = [calling EXCEPT ![r] = j]
         /\ circuit' = [c EXCEPT ![Chain[j]] = TryCircuit(Chain[j])]
         /\ cooled' = cool \ {Chain[j]}
         /\ leaked' = lost
         /\ blamed' = [blamed EXCEPT ![r] = FirstFailure(r, i, j)]
         /\ UNCHANGED outcome
    ELSE /\ outcome' = [outcome EXCEPT ![r] = Raised]
         /\ calling' = [calling EXCEPT ![r] = 0]
         /\ circuit' = c
         /\ cooled' = cool
         /\ leaked' = lost
         /\ blamed' = [blamed EXCEPT ![r] = NoProvider]

BeginRoute(r) ==
    /\ outcome[r] = Pending
    /\ calling[r] = 0
    /\ TakeUp(r, 1, circuit, cooled, leaked)
    /\ UNCHANGED <<limited, lapses>>

Comes(r, class) ==
    calling[r] # 0 /\ \E e \in Upstream : Generate(Chain[calling[r]], e) = class

CallSucceeds(r) ==
    /\ Comes(r, "ok")
    /\ LET p == Chain[calling[r]] IN
       /\ circuit' = [circuit EXCEPT ![p] = AfterSuccess(p)]
       /\ cooled' = cooled \ {p}
       /\ leaked' = leaked \ {p}
       /\ outcome' = [outcome EXCEPT ![r] = Answered(p, blamed[r])]
    /\ calling' = [calling EXCEPT ![r] = 0]
    /\ blamed' = [blamed EXCEPT ![r] = NoProvider]
    /\ UNCHANGED <<limited, lapses>>

(* A failed attempt goes on to the next candidate, or stops the request.   *)
MoveOn(r, c, cool, lost) ==
    IF MustStop(Chain[calling[r]])
    THEN /\ outcome' = [outcome EXCEPT ![r] = Raised]
         /\ calling' = [calling EXCEPT ![r] = 0]
         /\ circuit' = c
         /\ cooled' = cool
         /\ leaked' = lost
         /\ blamed' = [blamed EXCEPT ![r] = NoProvider]
    ELSE TakeUp(r, calling[r] + 1, c, cool, lost)

(* Timeout, refused credential, unavailable: the breaker records it.       *)
CallFails(r) ==
    /\ \E class \in {"timeout", "auth", "unavailable"} : Comes(r, class)
    /\ LET p == Chain[calling[r]] IN
       MoveOn(r, [circuit EXCEPT ![p] = AfterFailure(p)],
              IF AfterFailure(p).state = "OPEN" THEN cooled \ {p} ELSE cooled,
              leaked \ {p})
    /\ UNCHANGED <<limited, lapses>>

Unheard(p) == IF circuit[p].state = "HALF_OPEN" THEN leaked \cup {p} ELSE leaked

(* A rate limit starts a cooldown of its own and tells the breaker nothing.*)
CallIsLimited(r) ==
    /\ Comes(r, "limit")
    /\ LET p == Chain[calling[r]] IN
       /\ limited' = limited \cup {p}
       /\ MoveOn(r, circuit, cooled, Unheard(p))
    /\ UNCHANGED lapses

(* An exception the router does not name, or the cancellation of the       *)
(* request by a deadline of its caller, leaves the loop at once.           *)
LeaveCall(r, result) ==
    /\ calling[r] # 0
    /\ outcome' = [outcome EXCEPT ![r] = result]
    /\ leaked' = Unheard(Chain[calling[r]])
    /\ calling' = [calling EXCEPT ![r] = 0]
    /\ blamed' = [blamed EXCEPT ![r] = NoProvider]
    /\ UNCHANGED <<circuit, cooled, limited, lapses>>

CallEscapes(r) == Comes(r, "escapes") /\ LeaveCall(r, Raised)

CallIsCancelled(r) == LeaveCall(r, Cancelled)

CallReturns(r) ==
    CallSucceeds(r) \/ CallFails(r) \/ CallIsLimited(r) \/ CallEscapes(r)

(* The clock.                                                              *)
Lapse == lapses < MaxLapses /\ lapses' = lapses + 1

CircuitCools(p) ==
    /\ Lapse
    /\ circuit[p].state = "OPEN"
    /\ p \notin cooled
    /\ cooled' = cooled \cup {p}
    /\ UNCHANGED <<circuit, limited, calling, outcome, blamed, leaked>>

LimitLapses(p) ==
    /\ Lapse
    /\ p \in limited
    /\ limited' = limited \ {p}
    /\ UNCHANGED <<circuit, cooled, calling, outcome, blamed, leaked>>

-----------------------------------------------------------------------------
Outcomes == [kind : {"pending", "raised", "cancelled", "answered"},
             by : Providers \cup {NoProvider}, from : Providers \cup {NoProvider}]

RouterTypeOK ==
    /\ circuit \in [Providers -> [state : {"CLOSED", "OPEN", "HALF_OPEN"},
                                  failures : 0..Threshold]]
    /\ cooled \subseteq {p \in Providers : circuit[p].state = "OPEN"}
    /\ limited \subseteq Providers
    /\ calling \in [Requests -> {0} \cup Route]
    /\ outcome \in [Requests -> Outcomes]
    /\ blamed \in [Requests -> Providers \cup {NoProvider}]
    /\ leaked \subseteq Providers
    /\ lapses \in 0..MaxLapses

(* A circuit in HALF_OPEN that no call is testing is one whose probe ended *)
(* in a rate limit, a cancellation or an exception the router does not     *)
(* name: every other end of a call, of the probe or of a call begun before *)
(* the circuit opened, moves the circuit on (health.py:46).                *)
HalfOpenAccounted ==
    \A p \in Providers :
        circuit[p].state = "HALF_OPEN" =>
            p \in leaked \/ \E r \in Requests : calling[r] # 0 /\ Chain[calling[r]] = p

(* A request that awaits a reserve remembers the candidate it was meant    *)
(* for; one that awaits none blames none.                                  *)
BlameKnown ==
    \A r \in Requests :
        blamed[r] = IF calling[r] \in {0, First} THEN NoProvider ELSE Chain[First]
=============================================================================
