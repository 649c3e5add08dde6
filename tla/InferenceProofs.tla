--------------------------- MODULE InferenceProofs ---------------------------
(***************************************************************************)
(* Proofs about the provider router and the semantic cache in front of it, *)
(* for any chain of providers, any requests and any Conversations.         *)
(*                                                                         *)
(* The router: every end of a call but three moves its circuit on, so a    *)
(* half-open circuit has a call under way or a probe that reported         *)
(* nothing; and a request awaiting a reserve blames the first candidate.   *)
(* The cache: whoever may write a copy of an answer carries one that is    *)
(* still in a valid row, or was in flight when that row was invalidated    *)
(* (CopiersRace); the copies an invalidation does not reach follow from    *)
(* that and from the tags of the rows (CopiesExplained).                   *)
(***************************************************************************)
EXTENDS SemanticCache, WellFoundedInduction, TLAPS

-----------------------------------------------------------------------------
(* The chain of candidates.                                                *)

(* Some member of a set of numbers is the least of them.                   *)
LEMMA LeastNumber ==
    ASSUME NEW T \in SUBSET Nat, T # {}
    PROVE  \E x \in T : \A y \in T : x <= y
  <1> DEFINE R == {p \in Nat \X Nat : p[1] < p[2]}
  <1>0. OpToRel(<, Nat) = R
    BY DEF OpToRel
  <1>1. IsWellFoundedOn(R, Nat)
    BY <1>0, NatLessThanWellFounded
  <1>2. \E x \in T : \A y \in T : ~(<<y, x>> \in R)
    BY <1>1, WFMin
  <1>3. \A x, y \in Nat : y < x => <<y, x>> \in R
    OBVIOUS
  <1> HIDE DEF R
  <1>4. PICK x \in T : \A y \in T : ~(<<y, x>> \in R)
    BY <1>2
  <1>5. \A y \in T : ~(y < x)
    BY <1>3, <1>4
  <1> QED
    BY <1>5

(* The candidates are places in the chain, each with a provider.           *)
LEMMA ChainForms ==
    /\ Len(Chain) \in Nat /\ Len(Chain) >= 1 /\ DOMAIN Chain = 1..Len(Chain)
    /\ Route \subseteq 1..Len(Chain) /\ 0 \notin Route
    /\ \A k \in Route : Chain[k] \in Providers /\ Chain[k] # NoProvider
    /\ \A j, k \in Route : Chain[j] = Chain[k] => j = k
  <1>1. /\ Len(Chain) \in Nat /\ DOMAIN Chain = 1..Len(Chain) /\ Len(Chain) # 0
    BY RouterConstants
  <1>2. Len(Chain) >= 1
    BY <1>1
  <1>3. Route \subseteq 1..Len(Chain) /\ 0 \notin Route
    BY <1>1, <1>2 DEF Route, Reserves
  <1>4. \A k \in 1..Len(Chain) : Chain[k] \in Providers
    BY <1>1 DEF Providers
  <1> QED
    BY <1>1, <1>2, <1>3, <1>4, RouterConstants

(* There is a first candidate: the configured provider, or the first       *)
(* reserve when that provider is excluded.                                 *)
LEMMA FirstIsFirst ==
    /\ First \in Route
    /\ \A j \in Route : First <= j
  <1>1. Route # {}
    <2>1. CASE Reserves = {}
      BY <2>1 DEF Route, Excluded
    <2>2. CASE Reserves # {}
      <3>1. PICK k \in Reserves : k \in 2..Len(Chain)
        BY <2>2 DEF Reserves
      <3>2. 1 \in DOMAIN Chain /\ k \in DOMAIN Chain /\ k # 1
        BY <3>1, ChainForms
      <3>3. Chain[k] # Chain[1]
        BY <3>2, RouterConstants
      <3>4. Chain[k] \notin Excluded
        BY <3>3 DEF Excluded
      <3> QED
        BY <3>1, <3>4 DEF Route
    <2> QED
      BY <2>1, <2>2
  <1>2. Route \in SUBSET Nat
    BY ChainForms
  <1>3. \E x \in Route : \A y \in Route : x <= y
    BY <1>1, <1>2, LeastNumber
  <1> QED
    BY <1>3 DEF First

(* The loop entered at place i stops at a candidate from i on, or after    *)
(* the last place.                                                         *)
LEMMA StopsSomewhere ==
    ASSUME NEW i \in 1..(Len(Chain) + 1)
    PROVE  /\ NextStop(i) \in i..(Len(Chain) + 1)
           /\ NextStop(i) <= Len(Chain) => NextStop(i) \in Route
  <1> DEFINE n == Len(Chain)
             T == {j \in i..(n + 1) : Halts(j)}
  <1>1. n \in Nat /\ n + 1 \in i..(n + 1) /\ T \in SUBSET Nat
    BY ChainForms
  <1>2. Halts(n + 1)
    BY <1>1 DEF Halts
  <1>3. PICK j \in T : \A k \in T : j <= k
    <2>1. T # {}
      BY <1>1, <1>2
    <2> QED
      BY <1>1, <2>1, LeastNumber
  <1>4. \A k \in i..(j - 1) : k \in i..(n + 1) /\ ~(j <= k)
    BY <1>1, <1>3
  <1>5. \A k \in i..(j - 1) : ~Halts(k)
    BY <1>3, <1>4
  <1>6. j \in i..(n + 1) /\ Halts(j)
    BY <1>3
  <1>7. NextStop(i) \in i..(n + 1) /\ Halts(NextStop(i))
    BY <1>5, <1>6 DEF NextStop
  <1>8. \A m \in i..(n + 1) : Halts(m) /\ m <= n => m \in Route
    BY <1>1 DEF Halts
  <1> QED
    BY <1>7, <1>8

-----------------------------------------------------------------------------
(* The router.                                                             *)

Circuits == [Providers -> [state : {"CLOSED", "OPEN", "HALF_OPEN"}, failures : 0..Threshold]]

(* What holds of the router whatever the cache does.                       *)
RouterSound == RouterTypeOK /\ HalfOpenAccounted /\ BlameKnown /\ FallbackNamed

(* What becomes of a request's outcome: an answer comes from the candidate *)
(* it awaits, and is told what to blame.                                   *)
OutcomeFits(r, o) ==
    /\ o \in Outcomes
    /\ o.kind = "answered" =>
          calling[r] \in Route /\ o.by = Chain[calling[r]] /\ o.from = blamed[r]

(* The names FallbackNamed gives are those of BlameKnown.                  *)
LEMMA OutcomesNamed ==
    ASSUME RouterSound, NEW r \in Requests, NEW o, OutcomeFits(r, o),
           outcome' = [outcome EXCEPT ![r] = o]
    PROVE  FallbackNamed' /\ outcome' \in [Requests -> Outcomes]
  <1>1. outcome' \in [Requests -> Outcomes]
    BY DEF RouterSound, RouterTypeOK, OutcomeFits
  <1>2. ASSUME NEW j \in Route, o.kind = "answered", o.by = Chain[j]
        PROVE  o.from = IF j # First THEN Chain[First] ELSE NoProvider
    <2>1. calling[r] = j
      BY <1>2, ChainForms DEF OutcomeFits
    <2>2. j # 0
      BY ChainForms
    <2>3. blamed[r] = IF j = First THEN NoProvider ELSE Chain[First]
      BY <2>1, <2>2 DEF RouterSound, BlameKnown
    <2> QED
      BY <1>2, <2>3 DEF OutcomeFits
  <1>3. ASSUME NEW s \in Requests, NEW j \in Route,
               outcome'[s].kind = "answered", outcome'[s].by = Chain[j]
        PROVE  outcome'[s].from = IF j # First THEN Chain[First] ELSE NoProvider
    <2>1. CASE s = r
      <3>1. outcome'[s] = o
        BY <2>1 DEF RouterSound, RouterTypeOK
      <3> QED
        BY <1>2, <1>3, <3>1
    <2>2. CASE s # r
      <3>1. outcome'[s] = outcome[s]
        BY <2>2 DEF RouterSound, RouterTypeOK
      <3> QED
        BY <1>3, <3>1 DEF RouterSound, FallbackNamed
    <2> QED
      BY <2>1, <2>2
  <1> QED
    BY <1>1, <1>3 DEF FallbackNamed

(* An outcome that is no answer fits any request.                          *)
LEMMA NoAnswersFit ==
    ASSUME NEW r \in Requests
    PROVE  OutcomeFits(r, Raised) /\ OutcomeFits(r, Cancelled)
  BY DEF OutcomeFits, Raised, Cancelled, Outcomes

(* The breaker gives a circuit; a circuit a call has failed is not half    *)
(* open, one that was open stays so, and one that is tried is not open.    *)
LEMMA BreakerForms ==
    ASSUME circuit \in Circuits, NEW p \in Providers
    PROVE  LET C == [state : {"CLOSED", "OPEN", "HALF_OPEN"}, failures : 0..Threshold] IN
           /\ AfterSuccess(p) \in C /\ AfterSuccess(p).state = "CLOSED"
           /\ AfterFailure(p) \in C /\ AfterFailure(p).state # "HALF_OPEN"
           /\ circuit[p].state = "OPEN" => AfterFailure(p).state = "OPEN"
           /\ TryCircuit(p) \in C /\ TryCircuit(p).state # "OPEN"
  <1> DEFINE C == [state : {"CLOSED", "OPEN", "HALF_OPEN"}, failures : 0..Threshold]
  <1>1. Threshold \in Nat \ {0} /\ circuit[p] \in C
    BY RouterConstants DEF Circuits
  <1>2. AfterSuccess(p) \in C /\ AfterSuccess(p).state = "CLOSED"
    BY <1>1 DEF AfterSuccess
  <1>3. /\ AfterFailure(p) \in C /\ AfterFailure(p).state # "HALF_OPEN"
        /\ circuit[p].state = "OPEN" => AfterFailure(p).state = "OPEN"
    BY <1>1 DEF AfterFailure
  <1>4. TryCircuit(p) \in C /\ TryCircuit(p).state # "OPEN"
    BY <1>1 DEF TryCircuit
  <1> QED
    BY <1>2, <1>3, <1>4

(* c, cool and lost are how the attempt of r that just ended leaves the    *)
(* breakers: a circuit is half open only if it was, and then some other    *)
(* request tests it or its probe reported nothing.                         *)
BreakersLeft(r, c, cool, lost) ==
    /\ c \in Circuits
    /\ cool \subseteq {p \in Providers : c[p].state = "OPEN"}
    /\ lost \subseteq Providers
    /\ \A p \in Providers :
          c[p].state = "HALF_OPEN" =>
             p \in lost \/ \E s \in Requests \ {r} : calling[s] # 0 /\ Chain[calling[s]] = p

(* Each end of a call leaves the breakers that way.                        *)
LEMMA EndsLeaveBreakers ==
    ASSUME RouterSound, NEW r \in Requests, calling[r] # 0,
           NEW p, p = Chain[calling[r]]
    PROVE  /\ p \in Providers /\ calling[r] \in Route
           /\ BreakersLeft(r, [circuit EXCEPT ![p] = AfterSuccess(p)], cooled \ {p},
                           leaked \ {p})
           /\ BreakersLeft(r, [circuit EXCEPT ![p] = AfterFailure(p)],
                           IF AfterFailure(p).state = "OPEN" THEN cooled \ {p} ELSE cooled,
                           leaked \ {p})
           /\ BreakersLeft(r, circuit, cooled, Unheard(p))
  <1>1. /\ calling[r] \in Route /\ p \in Providers
        /\ circuit \in Circuits /\ leaked \subseteq Providers
        /\ cooled \subseteq {q \in Providers : circuit[q].state = "OPEN"}
    BY ChainForms DEF RouterSound, RouterTypeOK, Circuits
  <1>2. ASSUME NEW q \in Providers, circuit[q].state = "HALF_OPEN"
        PROVE  \/ q = p \/ q \in leaked
               \/ \E s \in Requests \ {r} : calling[s] # 0 /\ Chain[calling[s]] = q
    BY <1>2 DEF RouterSound, HalfOpenAccounted
  <1>3. ASSUME NEW v, v \in [state : {"CLOSED", "OPEN", "HALF_OPEN"}, failures : 0..Threshold],
               v.state # "HALF_OPEN", NEW cool \in SUBSET cooled,
               p \in cool => v.state = "OPEN"
        PROVE  BreakersLeft(r, [circuit EXCEPT ![p] = v], cool, leaked \ {p})
    <2> DEFINE c == [circuit EXCEPT ![p] = v]
    <2>1. c \in Circuits /\ c[p] = v /\ \A q \in Providers : q # p => c[q] = circuit[q]
      BY <1>1, <1>3 DEF Circuits
    <2>2. cool \subseteq {q \in Providers : c[q].state = "OPEN"}
      BY <1>1, <1>3, <2>1
    <2>3. \A q \in Providers : c[q].state = "HALF_OPEN" =>
             \/ q \in leaked \ {p}
             \/ \E s \in Requests \ {r} : calling[s] # 0 /\ Chain[calling[s]] = q
      BY <1>2, <1>3, <2>1
    <2> QED
      BY <1>1, <2>1, <2>2, <2>3 DEF BreakersLeft
  <1>4. BreakersLeft(r, [circuit EXCEPT ![p] = AfterSuccess(p)], cooled \ {p}, leaked \ {p})
    BY <1>1, <1>3, BreakerForms
  <1>5. BreakersLeft(r, [circuit EXCEPT ![p] = AfterFailure(p)],
                     IF AfterFailure(p).state = "OPEN" THEN cooled \ {p} ELSE cooled,
                     leaked \ {p})
    <2> DEFINE cool == IF AfterFailure(p).state = "OPEN" THEN cooled \ {p} ELSE cooled
    <2>1. cool \in SUBSET cooled /\ p \notin cool
      BY <1>1, BreakerForms
    <2> HIDE DEF cool
    <2>2. BreakersLeft(r, [circuit EXCEPT ![p] = AfterFailure(p)], cool, leaked \ {p})
      BY <1>1, <1>3, <2>1, BreakerForms
    <2> QED
      BY <2>2 DEF cool
  <1>6. BreakersLeft(r, circuit, cooled, Unheard(p))
    BY <1>1, <1>2 DEF BreakersLeft, Unheard
  <1> QED
    BY <1>1, <1>4, <1>5, <1>6

(* A request that ends awaits nothing and blames nobody.                   *)
LEMMA EndsRoute ==
    ASSUME RouterSound, NEW r \in Requests, NEW o, OutcomeFits(r, o),
           outcome' = [outcome EXCEPT ![r] = o],
           calling' = [calling EXCEPT ![r] = 0], blamed' = [blamed EXCEPT ![r] = NoProvider],
           BreakersLeft(r, circuit', cooled', leaked'),
           limited' \subseteq Providers, lapses' \in 0..MaxLapses
    PROVE  RouterSound'
  <1>1. FallbackNamed' /\ outcome' \in [Requests -> Outcomes]
    BY OutcomesNamed
  <1>2. /\ calling' \in [Requests -> {0} \cup Route] /\ calling'[r] = 0
        /\ \A s \in Requests : s # r => calling'[s] = calling[s]
    BY DEF RouterSound, RouterTypeOK
  <1>3. /\ blamed' \in [Requests -> Providers \cup {NoProvider}] /\ blamed'[r] = NoProvider
        /\ \A s \in Requests : s # r => blamed'[s] = blamed[s]
    BY DEF RouterSound, RouterTypeOK
  <1>4. BlameKnown'
    BY <1>2, <1>3 DEF RouterSound, BlameKnown
  <1>5. HalfOpenAccounted'
    BY <1>2 DEF BreakersLeft, HalfOpenAccounted
  <1>6. RouterTypeOK'
    BY <1>1, <1>2, <1>3 DEF BreakersLeft, RouterTypeOK, Circuits
  <1> QED
    BY <1>1, <1>4, <1>5, <1>6 DEF RouterSound

(* The loop entered at the first place, or at the one after a candidate,   *)
(* leaves the router sound whether it finds a candidate or not.            *)
LEMMA TakesUp ==
    ASSUME RouterSound, NEW r \in Requests, NEW i,
           \/ i = 1 /\ calling[r] = 0
           \/ i = calling[r] + 1 /\ calling[r] # 0,
           NEW c, NEW cool, NEW lost, BreakersLeft(r, c, cool, lost),
           TakeUp(r, i, c, cool, lost),
           limited' \subseteq Providers, lapses' \in 0..MaxLapses
    PROVE  RouterSound'
  <1> DEFINE j == NextStop(i)
  <1>1. /\ calling[r] \in {0} \cup Route /\ i \in 1..(Len(Chain) + 1)
        /\ i # 1 => calling[r] = i - 1 /\ i - 1 \in Route
        /\ i = 1 => calling[r] = 0
    <2>1. calling[r] \in {0} \cup Route
      BY DEF RouterSound, RouterTypeOK
    <2>2. CASE i = 1 /\ calling[r] = 0
      BY <2>1, <2>2, ChainForms
    <2>3. CASE i = calling[r] + 1 /\ calling[r] # 0
      <3>1. PICK k \in Route : k = calling[r]
        BY <2>1, <2>3
      <3>2. k \in 1..Len(Chain)
        BY <3>1, ChainForms
      <3>3. i = k + 1 /\ i - 1 = k /\ i # 1
        BY <2>3, <3>1, <3>2
      <3> QED
        BY <3>1, <3>2, <3>3, ChainForms
    <2> QED
      BY <2>2, <2>3
  <1>2. j \in i..(Len(Chain) + 1) /\ (j <= Len(Chain) => j \in Route)
    BY <1>1, StopsSomewhere
  <1>3. CASE j <= Len(Chain) /\ Chain[j] \notin Ungoverned /\ MayTry(Chain[j])
    <2> DEFINE p == Chain[j]
    <2>1. /\ j \in Route /\ j # 0 /\ p \in Providers
          /\ calling' = [calling EXCEPT ![r] = j]
          /\ circuit' = [c EXCEPT ![p] = TryCircuit(p)]
          /\ cooled' = cool \ {p} /\ leaked' = lost
          /\ blamed' = [blamed EXCEPT ![r] = FirstFailure(r, i, j)]
          /\ outcome' = outcome
      BY <1>2, <1>3, ChainForms DEF TakeUp
    <2>2. /\ calling' \in [Requests -> {0} \cup Route] /\ calling'[r] = j
          /\ \A s \in Requests : s # r => calling'[s] = calling[s]
      BY <2>1 DEF RouterSound, RouterTypeOK
    <2>3. FirstFailure(r, i, j) = IF j = First THEN NoProvider ELSE Chain[First]
      <3>1. blamed[r] = IF calling[r] \in {0, First} THEN NoProvider ELSE Chain[First]
        BY DEF RouterSound, BlameKnown
      <3>2. First \in Route /\ Chain[First] # NoProvider /\ First \in Nat /\ First # 0
        BY FirstIsFirst, ChainForms
      <3>3. CASE i = 1
        BY <1>1, <3>1, <3>2, <3>3 DEF FirstFailure
      <3>4. CASE i # 1
        <4> HIDE DEF j
        <4>1. PICK k \in Route : k = calling[r] /\ k = i - 1
          BY <1>1, <3>4
        <4>2. k \in Nat /\ k # 0 /\ First <= k /\ First \in Nat
          BY <3>2, FirstIsFirst, ChainForms
        <4>3. i \in Nat /\ j \in Nat /\ i <= j
          BY <1>1, <1>2, ChainForms
        <4>4. \A f, n, a, b \in Nat : f <= n /\ n # 0 /\ n = a - 1 /\ a <= b => b # f /\ a > 1
          OBVIOUS
        <4>5. j # First /\ i > 1
          <5>1. First <= k /\ k # 0 /\ k = i - 1 /\ i <= j
            BY <4>1, <4>2, <4>3
          <5> QED
            BY <4>2, <4>3, <4>4, <5>1
        <4>6. FirstFailure(r, i, j) = IF blamed[r] # NoProvider THEN blamed[r] ELSE Chain[k]
          BY <4>1, <4>5 DEF FirstFailure
        <4> QED
          BY <3>1, <3>2, <4>1, <4>2, <4>5, <4>6
      <3> QED
        BY <3>3, <3>4
    <2>4. /\ blamed' \in [Requests -> Providers \cup {NoProvider}]
          /\ blamed'[r] = IF j = First THEN NoProvider ELSE Chain[First]
          /\ \A s \in Requests : s # r => blamed'[s] = blamed[s]
      BY <2>1, <2>3, FirstIsFirst, ChainForms DEF RouterSound, RouterTypeOK
    <2>5. BlameKnown'
      BY <2>1, <2>2, <2>4 DEF RouterSound, BlameKnown
    <2>6. /\ circuit' \in Circuits /\ circuit'[p].state # "OPEN"
          /\ \A q \in Providers : q # p => circuit'[q] = c[q]
      <3>1. circuit \in Circuits
        BY DEF RouterSound, RouterTypeOK, Circuits
      <3> QED
        BY <2>1, <3>1, BreakerForms DEF BreakersLeft, Circuits
    <2>7. HalfOpenAccounted'
      <3> SUFFICES ASSUME NEW q \in Providers, circuit'[q].state = "HALF_OPEN"
                   PROVE  \/ q \in leaked'
                          \/ \E s \in Requests : calling'[s] # 0 /\ Chain[calling'[s]] = q
        BY DEF HalfOpenAccounted
      <3>1. CASE q = p
        BY <2>1, <2>2, <3>1
      <3>2. CASE q # p
        BY <2>1, <2>2, <2>6, <3>2 DEF BreakersLeft
      <3> QED
        BY <3>1, <3>2
    <2>8. RouterTypeOK'
      <3>1. cooled' \subseteq {q \in Providers : circuit'[q].state = "OPEN"}
        BY <2>1, <2>6 DEF BreakersLeft
      <3>2. leaked' \subseteq Providers
        BY <2>1 DEF BreakersLeft
      <3> QED
        BY <2>1, <2>2, <2>4, <2>6, <3>1, <3>2
        DEF RouterSound, RouterTypeOK, Circuits
    <2>9. FallbackNamed'
      BY <2>1 DEF RouterSound, FallbackNamed
    <2> QED
      BY <2>5, <2>7, <2>8, <2>9 DEF RouterSound
  <1>4. CASE ~(j <= Len(Chain) /\ Chain[j] \notin Ungoverned /\ MayTry(Chain[j]))
    BY <1>4, EndsRoute, NoAnswersFit DEF TakeUp
  <1> QED
    BY <1>3, <1>4

(* Whatever a call comes to, and whatever the clock does, the router stays *)
(* sound.                                                                  *)
LEMMA RouterSteps ==
    ASSUME RouterSound, NEW r \in Requests
    PROVE  /\ BeginRoute(r) => RouterSound'
           /\ CallReturns(r) => RouterSound'
           /\ CallIsCancelled(r) => RouterSound'
  <1>1. /\ limited \subseteq Providers /\ lapses \in 0..MaxLapses
        /\ circuit \in Circuits /\ leaked \subseteq Providers
        /\ cooled \subseteq {p \in Providers : circuit[p].state = "OPEN"}
    BY DEF RouterSound, RouterTypeOK, Circuits
  <1>2. ASSUME BeginRoute(r) PROVE RouterSound'
    <2>1. BreakersLeft(r, circuit, cooled, leaked)
      BY <1>1, <1>2 DEF BeginRoute, BreakersLeft, RouterSound, HalfOpenAccounted
    <2> QED
      BY <1>1, <1>2, <2>1, TakesUp DEF BeginRoute
  <1>3. ASSUME CallSucceeds(r) PROVE RouterSound'
    <2> DEFINE p == Chain[calling[r]]
    <2>1. calling[r] # 0
      BY <1>3 DEF CallSucceeds, Comes
    <2>2. /\ p \in Providers /\ calling[r] \in Route
          /\ BreakersLeft(r, circuit', cooled', leaked')
      BY <1>3, <2>1, EndsLeaveBreakers DEF CallSucceeds
    <2>3. OutcomeFits(r, Answered(p, blamed[r]))
      BY <2>2 DEF OutcomeFits, Answered, Outcomes, RouterSound, RouterTypeOK
    <2> QED
      BY <1>1, <1>3, <2>2, <2>3, EndsRoute DEF CallSucceeds
  <1>4. ASSUME NEW c, NEW cool, NEW lost, BreakersLeft(r, c, cool, lost),
               MoveOn(r, c, cool, lost), calling[r] # 0,
               limited' \subseteq Providers, lapses' = lapses
        PROVE  RouterSound'
    <2>1. CASE MustStop(Chain[calling[r]])
      BY <1>1, <1>4, <2>1, EndsRoute, NoAnswersFit DEF MoveOn
    <2>2. CASE ~MustStop(Chain[calling[r]])
      <3>1. TakeUp(r, calling[r] + 1, c, cool, lost)
        BY <1>4, <2>2 DEF MoveOn
      <3> QED
        BY <1>1, <1>4, <3>1, TakesUp
    <2> QED
      BY <2>1, <2>2
  <1>5. ASSUME CallFails(r) PROVE RouterSound'
    <2>1. calling[r] # 0
      BY <1>5 DEF CallFails, Comes
    <2> QED
      BY <1>1, <1>4, <1>5, <2>1, EndsLeaveBreakers DEF CallFails
  <1>6. ASSUME CallIsLimited(r) PROVE RouterSound'
    <2>1. calling[r] # 0
      BY <1>6 DEF CallIsLimited, Comes
    <2>2. limited' \subseteq Providers
      BY <1>1, <1>6, <2>1, EndsLeaveBreakers DEF CallIsLimited
    <2> QED
      BY <1>1, <1>4, <1>6, <2>1, <2>2, EndsLeaveBreakers DEF CallIsLimited
  <1>7. ASSUME NEW o, OutcomeFits(r, o), LeaveCall(r, o) PROVE RouterSound'
    <2>1. calling[r] # 0
      BY <1>7 DEF LeaveCall
    <2>2. BreakersLeft(r, circuit', cooled', leaked')
      BY <1>7, <2>1, EndsLeaveBreakers DEF LeaveCall
    <2> QED
      BY <1>1, <1>7, <2>2, EndsRoute DEF LeaveCall
  <1>8. CallEscapes(r) => RouterSound'
    BY <1>7, NoAnswersFit DEF CallEscapes
  <1>9. CallIsCancelled(r) => RouterSound'
    BY <1>7, NoAnswersFit DEF CallIsCancelled
  <1> QED
    BY <1>2, <1>3, <1>5, <1>6, <1>8, <1>9 DEF CallReturns

(* The clock, and what is not the router's, leaves it sound.               *)
LEMMA RouterWaits ==
    ASSUME RouterSound
    PROVE  /\ \A p \in Providers : CircuitCools(p) \/ LimitLapses(p) => RouterSound'
           /\ UNCHANGED routerVars => RouterSound'
           /\ (/\ UNCHANGED <<circuit, cooled, limited, calling, outcome, blamed, leaked>>
               /\ Lapse) => RouterSound'
  <1>1. ASSUME UNCHANGED <<circuit, limited, calling, outcome, blamed, leaked>>,
               cooled' \subseteq {p \in Providers : circuit[p].state = "OPEN"},
               lapses' \in 0..MaxLapses
        PROVE  RouterSound'
    BY <1>1 DEF RouterSound, RouterTypeOK, HalfOpenAccounted, BlameKnown, FallbackNamed
  <1>2. /\ lapses \in 0..MaxLapses /\ limited \subseteq Providers
        /\ cooled \subseteq {p \in Providers : circuit[p].state = "OPEN"}
        /\ Lapse => lapses' \in 0..MaxLapses
    BY RouterConstants DEF RouterSound, RouterTypeOK, Lapse
  <1>3. ASSUME NEW p \in Providers, CircuitCools(p) PROVE RouterSound'
    BY <1>1, <1>2, <1>3 DEF CircuitCools
  <1>4. ASSUME NEW p \in Providers, LimitLapses(p) PROVE RouterSound'
    <2>1. limited' \subseteq Providers
      BY <1>2, <1>4 DEF LimitLapses
    <2> QED
      BY <1>2, <1>4, <2>1 DEF LimitLapses, RouterSound, RouterTypeOK, HalfOpenAccounted,
                              BlameKnown, FallbackNamed
  <1>5. UNCHANGED routerVars => RouterSound'
    BY <1>1, <1>2 DEF routerVars
  <1>6. (/\ UNCHANGED <<circuit, cooled, limited, calling, outcome, blamed, leaked>>
         /\ Lapse) => RouterSound'
    BY <1>1, <1>2
  <1> QED
    BY <1>3, <1>4, <1>5, <1>6

-----------------------------------------------------------------------------
(* The cache.                                                              *)

(* The types of what is the cache's own.                                   *)
CacheTypeOK ==
    /\ pc \in [Requests -> {"idle", "redis", "rows", "refill", "similar", "lock",
                            "waiting", "routing", "admit", "store", "abort", "done"}]
    /\ row \in [Questions -> [status : {"NONE", "VALIDATED", "INVALID"}, live : BOOLEAN,
                              answer : Answers, tags : SUBSET Conversations]]
    /\ hot \in [Questions -> [held : BOOLEAN, answer : Answers,
                              writer : Requests \cup {NoRequest}]]
    /\ lock \in [Questions -> Requests \cup {NoRequest}]
    /\ token \subseteq Requests
    /\ carried \in [Requests -> Answers]
    /\ changes \in 0..MaxChanges
    /\ deleting \in [Conversations -> SUBSET Questions]
    /\ racers \subseteq Requests /\ missed \subseteq Questions
    /\ due \in [Questions -> SUBSET Requests]
    /\ sharers \in [Questions -> SUBSET Conversations]

(* What holds of the cache whatever the router does.                       *)
CacheSound ==
    /\ CacheTypeOK /\ MakersStored /\ CopiersRace /\ CopiesExplained /\ InvalidationReaches

LEMMA InvariantParts ==
    RouterInvariant /\ InvalidationReaches /\ FallbackNamed <=> RouterSound /\ CacheSound
  BY DEF RouterInvariant, RouterSound, CacheSound, TypeOK, CacheTypeOK

LEMMA Questioners ==
    \A r \in Requests : Ask[r] \in Questions /\ In[r] \in Conversations
  BY DEF Questions, Conversations, Ask, In

LEMMA NothingKept == NoAnswer \in Answers /\ NoAnswer.maker = NoRequest
  BY DEF NoAnswer, Answers

(* One request moves on with what it carries, and the rows and what the    *)
(* invalidations left stay as they are.                                    *)
LEMMA Moves ==
    ASSUME CacheSound, NEW r \in Requests, NEW to, NEW a \in Answers,
           pc' = [pc EXCEPT ![r] = to], carried' = [carried EXCEPT ![r] = a],
           to \in {"idle", "redis", "rows", "refill", "similar", "lock",
                   "waiting", "routing", "admit", "store", "abort", "done"},
           Stored(r) => to \in {"store", "abort", "done"},
           to \in {"admit", "store"} => a.maker = r,
           to = "refill" => a.maker = NoRequest \/ (a.maker \in Requests /\ Stored(a.maker)),
           (/\ to \in {"refill", "store"}
            /\ row'[Ask[r]].status # "VALIDATED" \/ a.maker \in due[Ask[r]]) => r \in racers,
           \A q \in Questions : row[q].status = "VALIDATED" => row'[q].status = "VALIDATED",
           due' = due, racers' = racers
    PROVE  /\ CopiersRace'
           /\ pc' \in [Requests -> {"idle", "redis", "rows", "refill", "similar", "lock",
                            "waiting", "routing", "admit", "store", "abort", "done"}]
           /\ carried' \in [Requests -> Answers]
           /\ \A m \in Requests : Stored(m) => Stored(m)'
  <1> DEFINE Kept(m) == pc'[m] \in {"store", "abort", "done"}
  <1>1. /\ pc'[r] = to /\ carried'[r] = a
        /\ \A s \in Requests : s # r => pc'[s] = pc[s] /\ carried'[s] = carried[s]
        /\ carried' \in [Requests -> Answers]
        /\ pc' \in [Requests -> {"idle", "redis", "rows", "refill", "similar", "lock",
                            "waiting", "routing", "admit", "store", "abort", "done"}]
    BY DEF CacheSound, CacheTypeOK
  <1>2. \A m \in Requests : (Stored(m) => Kept(m)) /\ (Stored(m) => Stored(m)')
    BY <1>1 DEF Stored
  <1>3. \A b \in Answers : b.maker \in Requests \cup {NoRequest}
    BY DEF Answers
  <1>4. ASSUME NEW s \in Requests, s # r
        PROVE  /\ pc'[s] \in {"admit", "store"} => carried'[s].maker = s
               /\ pc'[s] = "refill" => Kept(carried'[s].maker) \/ carried'[s].maker = NoRequest
               /\ (/\ pc'[s] \in {"refill", "store"}
                   /\ \/ row'[Ask[s]].status # "VALIDATED"
                      \/ carried'[s].maker \in due'[Ask[s]]) => s \in racers'
    <2>1. pc'[s] = pc[s] /\ carried'[s] = carried[s] /\ carried[s] \in Answers
      BY <1>1, <1>4 DEF CacheSound, CacheTypeOK
    <2>2. /\ pc[s] \in {"admit", "store"} => carried[s].maker = s
          /\ pc[s] = "refill" => Stored(carried[s].maker) \/ carried[s].maker = NoRequest
          /\ (/\ pc[s] \in {"refill", "store"}
              /\ row[Ask[s]].status # "VALIDATED" \/ carried[s].maker \in due[Ask[s]])
                => s \in racers
      BY DEF CacheSound, CopiersRace
    <2>3. pc[s] = "refill" => Kept(carried'[s].maker) \/ carried'[s].maker = NoRequest
      BY <1>2, <1>3, <2>1, <2>2
    <2>4. row'[Ask[s]].status # "VALIDATED" => row[Ask[s]].status # "VALIDATED"
      BY Questioners
    <2> QED
      BY <2>1, <2>2, <2>3, <2>4
  <1>5. /\ pc'[r] \in {"admit", "store"} => carried'[r].maker = r
        /\ pc'[r] = "refill" => Kept(carried'[r].maker) \/ carried'[r].maker = NoRequest
        /\ (/\ pc'[r] \in {"refill", "store"}
            /\ \/ row'[Ask[r]].status # "VALIDATED"
               \/ carried'[r].maker \in due'[Ask[r]]) => r \in racers'
    BY <1>1, <1>2
  <1>6. CopiersRace'
    BY <1>4, <1>5 DEF CopiersRace, Stored
  <1> QED
    BY <1>1, <1>2, <1>6

(* Nothing that is kept changes.                                           *)
LEMMA KeptAsItWas ==
    ASSUME CacheSound, \A m \in Requests : Stored(m) => Stored(m)',
           UNCHANGED <<row, hot, changes, deleting, racers, due, missed, sharers>>
    PROVE  MakersStored' /\ CopiesExplained' /\ InvalidationReaches'
  <1>1. \A q \in Questions :
           /\ row[q].answer.maker \in Requests \cup {NoRequest}
           /\ hot[q].answer.maker \in Requests \cup {NoRequest} /\ due[q] \subseteq Requests
    BY DEF CacheSound, CacheTypeOK, Answers
  <1>2. MakersStored'
    BY <1>1 DEF CacheSound, MakersStored, Stored
  <1>3. CopiesExplained' /\ InvalidationReaches'
    BY DEF CacheSound, CopiesExplained, InvalidationReaches, Usable
  <1> QED
    BY <1>2, <1>3

(* A request that reads or waits, or whose call ends, changes nothing kept.*)
LEMMA ReadsKeep ==
    ASSUME CacheSound, RouterTypeOK, NEW r \in Requests,
           \/ Begin(r) \/ ReadRedis(r) \/ ReadRow(r) \/ LookSimilar(r) \/ TakeLock(r)
           \/ WaitEnds(r) \/ Routed(r) \/ Abort(r) \/ Cancel(r)
    PROVE  CacheSound'
  <1> USE DEF Goes, Return
  <1>0. /\ carried \in [Requests -> Answers] /\ carried[r] \in Answers
        /\ carried = [carried EXCEPT ![r] = carried[r]]
        /\ Ask[r] \in Questions /\ In[r] \in Conversations
        /\ NoAnswer \in Answers /\ NoAnswer.maker = NoRequest
    BY Questioners, NothingKept DEF CacheSound, CacheTypeOK
  <1>1. /\ UNCHANGED <<row, hot, changes, deleting, racers, due, missed, sharers>>
        /\ lock' \in [Questions -> Requests \cup {NoRequest}] /\ token' \subseteq Requests
    <2>1. Begin(r) \/ ReadRedis(r) \/ ReadRow(r) \/ LookSimilar(r) \/ WaitEnds(r)
             \/ Routed(r) \/ Cancel(r) => UNCHANGED <<lock, token>>
      BY DEF Begin, ReadRedis, ReadRow, LookSimilar, WaitEnds, Routed, Cancel
    <2>2. TakeLock(r) \/ Abort(r) =>
             lock' \in [Questions -> Requests \cup {NoRequest}] /\ token' \subseteq Requests
      BY <1>0 DEF TakeLock, Abort, Released, CacheSound, CacheTypeOK
    <2>3. UNCHANGED <<row, hot, changes, deleting, racers, due, missed, sharers>>
      BY DEF Begin, ReadRedis, ReadRow, LookSimilar, TakeLock, WaitEnds, Routed, Abort, Cancel
    <2> QED
      BY <2>1, <2>2, <2>3 DEF CacheSound, CacheTypeOK
  <1>2. ASSUME NEW to, NEW a \in Answers, pc' = [pc EXCEPT ![r] = to],
               carried' = [carried EXCEPT ![r] = a],
               to \in {"idle", "redis", "rows", "refill", "similar", "lock",
                       "waiting", "routing", "admit", "store", "abort", "done"},
               Stored(r) => to \in {"store", "abort", "done"},
               to \in {"admit", "store"} => a.maker = r,
               to = "refill" => a.maker = NoRequest \/ (a.maker \in Requests /\ Stored(a.maker)),
               (/\ to \in {"refill", "store"}
                /\ row[Ask[r]].status # "VALIDATED" \/ a.maker \in due[Ask[r]]) => r \in racers
        PROVE  CacheSound'
    <2>1. /\ CopiersRace'
          /\ pc' \in [Requests -> {"idle", "redis", "rows", "refill", "similar", "lock",
                            "waiting", "routing", "admit", "store", "abort", "done"}]
          /\ carried' \in [Requests -> Answers]
          /\ \A m \in Requests : Stored(m) => Stored(m)'
      BY <1>1, <1>2, Moves
    <2>2. MakersStored' /\ CopiesExplained' /\ InvalidationReaches'
      BY <1>1, <2>1, KeptAsItWas
    <2>3. CacheTypeOK'
      BY <1>1, <2>1 DEF CacheSound, CacheTypeOK
    <2> QED
      BY <2>1, <2>2, <2>3 DEF CacheSound
  <1>3. ASSUME NEW from, NEW to, Goes(r, from, to), UNCHANGED carried,
               from \notin {"store", "abort", "done"},
               to \in {"redis", "rows", "similar", "lock", "waiting", "routing", "abort"}
        PROVE  CacheSound'
    BY <1>0, <1>2, <1>3 DEF Stored
  <1>4. ASSUME NEW from, Return(r, from) PROVE CacheSound'
    BY <1>0, <1>2, <1>4 DEF Stored
  <1>5. CASE Begin(r)
    BY <1>3, <1>5 DEF Begin
  <1>6. CASE ReadRedis(r)
    BY <1>3, <1>4, <1>6 DEF ReadRedis
  <1>7. CASE ReadRow(r)
    <2> DEFINE a == row[Ask[r]].answer
    <2>1. CASE Goes(r, "rows", "similar") /\ UNCHANGED carried
      BY <1>3, <2>1
    <2>2. CASE /\ Usable(Ask[r]) /\ Goes(r, "rows", "refill")
               /\ carried' = [carried EXCEPT ![r] = a]
      <3>1. a \in Answers /\ row[Ask[r]].status = "VALIDATED"
        BY <1>0, <2>2 DEF CacheSound, CacheTypeOK, Usable
      <3>2. a.maker \notin due[Ask[r]]
        BY <1>0, <2>2 DEF CacheSound, InvalidationReaches
      <3>3. a.maker = NoRequest \/ (a.maker \in Requests /\ Stored(a.maker))
        <4>1. a.maker \in Requests \cup {NoRequest}
          BY <3>1 DEF Answers
        <4>2. a.maker # NoRequest => Stored(a.maker)
          BY <1>0 DEF CacheSound, MakersStored
        <4> QED
          BY <4>1, <4>2
      <3>4. ~Stored(r)
        BY <2>2 DEF Stored
      <3> HIDE DEF a
      <3> QED
        BY <1>2, <2>2, <3>1, <3>2, <3>3, <3>4
    <2> QED
      BY <1>7, <2>1, <2>2 DEF ReadRow
  <1>8. CASE LookSimilar(r)
    BY <1>3, <1>4, <1>8 DEF LookSimilar
  <1>9. CASE TakeLock(r)
    BY <1>3, <1>9 DEF TakeLock
  <1>10. CASE WaitEnds(r)
    BY <1>3, <1>4, <1>10 DEF WaitEnds
  <1>11. CASE Routed(r)
    <2> DEFINE a == [by |-> outcome[r].by, from |-> NoProvider, maker |-> r]
    <2>1. CASE Goes(r, "routing", "abort") /\ UNCHANGED carried
      BY <1>3, <2>1
    <2>2. CASE Goes(r, "routing", "admit") /\ carried' = [carried EXCEPT ![r] = a]
      <3>1. a \in Answers /\ a.maker = r
        BY DEF RouterTypeOK, Outcomes, Answers
      <3>2. ~Stored(r)
        BY <2>2 DEF Stored
      <3> HIDE DEF a
      <3> QED
        BY <1>2, <2>2, <3>1, <3>2
    <2> QED
      BY <1>11, <2>1, <2>2 DEF Routed
  <1>12. CASE Abort(r)
    BY <1>4, <1>12 DEF Abort
  <1>13. CASE Cancel(r)
    BY <1>4, <1>13 DEF Cancel
  <1> QED
    BY <1>5, <1>6, <1>7, <1>8, <1>9, <1>10, <1>11, <1>12, <1>13

(* A copy is written by a request that carries its answer: it is the row's *)
(* own, or the writer raced with whatever invalidated the row.             *)
LEMMA CopyKept ==
    ASSUME CacheSound, NEW r \in Requests, pc[r] \in {"refill", "store"},
           \A m \in Requests : Stored(m) => Stored(m)',
           \/ hot' = [hot EXCEPT ![Ask[r]] =
                        [held |-> TRUE, answer |-> carried[r], writer |-> r]]
           \/ hot' = hot,
           UNCHANGED <<row, changes, deleting, racers, due, missed, sharers>>
    PROVE  /\ hot' \in [Questions -> [held : BOOLEAN, answer : Answers,
                                      writer : Requests \cup {NoRequest}]]
           /\ MakersStored' /\ CopiesExplained' /\ InvalidationReaches'
  <1>1. CASE hot' = hot
    BY <1>1, KeptAsItWas DEF CacheSound, CacheTypeOK
  <1>2. CASE hot' # hot
    <2> DEFINE q == Ask[r]
               k == [held |-> TRUE, answer |-> carried[r], writer |-> r]
    <2>1. q \in Questions /\ carried[r] \in Answers
      BY Questioners DEF CacheSound, CacheTypeOK
    <2>2. /\ hot' \in [Questions -> [held : BOOLEAN, answer : Answers,
                                     writer : Requests \cup {NoRequest}]]
          /\ hot'[q] = k /\ \A p \in Questions : p # q => hot'[p] = hot[p]
      <3> DEFINE Copies == [held : BOOLEAN, answer : Answers,
                            writer : Requests \cup {NoRequest}]
      <3>1. k \in Copies
        BY <2>1
      <3>2. hot' = [hot EXCEPT ![q] = k] /\ hot \in [Questions -> Copies]
        BY <1>2 DEF CacheSound, CacheTypeOK
      <3> HIDE DEF k, q, Copies
      <3>3. /\ hot' \in [Questions -> Copies]
            /\ hot'[q] = k /\ \A p \in Questions : p # q => hot'[p] = hot[p]
        BY <2>1, <3>1, <3>2
      <3> QED
        BY <3>3 DEF Copies
    <2>3. carried[r].maker = NoRequest \/ Stored(carried[r].maker)
      <3>1. pc[r] = "store" => carried[r].maker = r
        BY DEF CacheSound, CopiersRace
      <3>2. pc[r] = "refill" => Stored(carried[r].maker) \/ carried[r].maker = NoRequest
        BY DEF CacheSound, CopiersRace
      <3> QED
        BY <3>1, <3>2 DEF Stored
    <2>4. row[q].status # "VALIDATED" \/ carried[r].maker \in due[q] => r \in racers
      BY DEF CacheSound, CopiersRace
    <2>5. \A p \in Questions :
             /\ row[p].answer.maker \in Requests \cup {NoRequest}
             /\ hot[p].answer.maker \in Requests \cup {NoRequest} /\ due[p] \subseteq Requests
      BY DEF CacheSound, CacheTypeOK, Answers
    <2>6. carried[r].maker \in Requests \cup {NoRequest}
      BY <2>1 DEF Answers
    <2>7. MakersStored'
      <3> SUFFICES ASSUME NEW p \in Questions
                   PROVE  /\ \A m \in {row[p].answer.maker, hot'[p].answer.maker} \ {NoRequest} : Stored(m)'
                          /\ \A m \in due[p] : Stored(m)'
        BY DEF MakersStored
      <3>1. /\ \A m \in {row[p].answer.maker, hot[p].answer.maker} \ {NoRequest} : Stored(m)
            /\ \A m \in due[p] : Stored(m)
        BY DEF CacheSound, MakersStored
      <3>2. ASSUME p = q, NEW m, m = hot'[p].answer.maker, m # NoRequest PROVE Stored(m)'
        BY <2>2, <2>3, <2>6, <3>2
      <3>3. ASSUME p # q, NEW m, m = hot'[p].answer.maker, m # NoRequest PROVE Stored(m)'
        BY <2>2, <2>5, <3>1, <3>3
      <3> QED
        BY <2>5, <3>1, <3>2, <3>3
    <2>8. CopiesExplained'
      <3> SUFFICES ASSUME NEW p \in Questions
                   PROVE  /\ sharers[p] \subseteq row[p].tags
                          /\ hot'[p].held /\ row[p].status # "VALIDATED" =>
                                \/ hot'[p].writer \in racers \/ p \in missed
                                \/ \E c \in Conversations : p \in deleting[c]
        BY DEF CopiesExplained
      <3> QED
        BY <2>2, <2>4 DEF CacheSound, CopiesExplained
    <2>9. InvalidationReaches'
      <3> SUFFICES ASSUME NEW p \in Questions
                   PROVE  /\ Usable(p) => row[p].answer.maker \notin due[p]
                          /\ hot'[p].held /\ hot'[p].answer.maker \in due[p] =>
                                \/ hot'[p].writer \in racers \/ p \in missed
                                \/ \E c \in Conversations : p \in deleting[c]
        BY DEF InvalidationReaches, Usable
      <3> QED
        BY <2>2, <2>4 DEF CacheSound, InvalidationReaches
    <2> QED
      BY <2>2, <2>7, <2>8, <2>9
  <1> QED
    BY <1>1, <1>2

LEMMA CopiesKeep ==
    ASSUME CacheSound, NEW r \in Requests, Refill(r) \/ AdmitCopy(r)
    PROVE  CacheSound'
  <1> DEFINE to == pc'[r]
  <1>1. /\ pc[r] \in {"refill", "store"} /\ carried[r] \in Answers /\ NoAnswer \in Answers
        /\ UNCHANGED <<row, lock, token, changes, deleting, racers, due, missed, sharers>>
    BY NothingKept DEF Refill, AdmitCopy, Goes, CacheSound, CacheTypeOK
  <1>2. ASSUME NEW t \in {"similar", "abort", "done"}, pc' = [pc EXCEPT ![r] = t],
               Stored(r) => t \in {"store", "abort", "done"},
               NEW a \in Answers, carried' = [carried EXCEPT ![r] = a]
        PROVE  /\ CopiersRace'
               /\ pc' \in [Requests -> {"idle", "redis", "rows", "refill", "similar", "lock",
                                "waiting", "routing", "admit", "store", "abort", "done"}]
               /\ carried' \in [Requests -> Answers]
               /\ \A m \in Requests : Stored(m) => Stored(m)'
    BY <1>1, <1>2, Moves
  <1>3. /\ CopiersRace'
        /\ pc' \in [Requests -> {"idle", "redis", "rows", "refill", "similar", "lock",
                         "waiting", "routing", "admit", "store", "abort", "done"}]
        /\ carried' \in [Requests -> Answers]
        /\ \A m \in Requests : Stored(m) => Stored(m)'
    <2>1. CASE AdmitCopy(r)
      <3>1. pc' = [pc EXCEPT ![r] = "abort"] /\ carried' = [carried EXCEPT ![r] = carried[r]]
        BY <2>1 DEF AdmitCopy, Goes, CacheSound, CacheTypeOK
      <3> QED
        BY <1>1, <1>2, <3>1
    <2>2. CASE Refill(r)
      <3>1. ~Stored(r) /\ carried' = [carried EXCEPT ![r] = NoAnswer]
        BY <2>2 DEF Refill, Return, Goes, Stored
      <3>2. pc' = [pc EXCEPT ![r] = "done"] \/ pc' = [pc EXCEPT ![r] = "similar"]
        BY <2>2 DEF Refill, Return, Goes
      <3> QED
        BY <1>1, <1>2, <3>1, <3>2
    <2> QED
      BY <2>1, <2>2
  <1>4. \/ hot' = [hot EXCEPT ![Ask[r]] =
                     [held |-> TRUE, answer |-> carried[r], writer |-> r]]
        \/ hot' = hot
    BY DEF Refill, AdmitCopy
  <1>5. /\ hot' \in [Questions -> [held : BOOLEAN, answer : Answers,
                                   writer : Requests \cup {NoRequest}]]
        /\ MakersStored' /\ CopiesExplained' /\ InvalidationReaches'
    BY <1>1, <1>3, <1>4, CopyKept
  <1>6. CacheTypeOK'
    BY <1>1, <1>3, <1>5 DEF CacheSound, CacheTypeOK
  <1> QED
    BY <1>3, <1>5, <1>6 DEF CacheSound

(* An admitted answer is new: no invalidation was to remove it.            *)
LEMMA AdmissionKeeps ==
    ASSUME CacheSound, NEW r \in Requests, AdmitRow(r)
    PROVE  CacheSound'
  <1> DEFINE q == Ask[r]
             u == Upserted(q, r)
  <1>1. /\ q \in Questions /\ In[r] \in Conversations
        /\ carried \in [Requests -> Answers] /\ carried[r] \in Answers
        /\ pc[r] = "admit" /\ ~Stored(r) /\ carried[r].maker = r
        /\ UNCHANGED <<hot, lock, token, carried, changes, deleting, racers, due, missed>>
    <2>1. pc[r] = "admit"
      BY DEF AdmitRow, Goes
    <2> QED
      BY <2>1, Questioners
      DEF AdmitRow, Stored, CacheSound, CacheTypeOK, CopiersRace
  <1>2. carried' = [carried EXCEPT ![r] = carried[r]]
    BY <1>1
  <1>3. CASE Goes(r, "admit", "abort") /\ UNCHANGED <<row, sharers>>
    <2>1. /\ CopiersRace'
          /\ pc' \in [Requests -> {"idle", "redis", "rows", "refill", "similar", "lock",
                           "waiting", "routing", "admit", "store", "abort", "done"}]
          /\ \A m \in Requests : Stored(m) => Stored(m)'
      BY <1>1, <1>2, <1>3, Moves DEF Goes
    <2>2. MakersStored' /\ CopiesExplained' /\ InvalidationReaches'
      BY <1>1, <1>3, <2>1, KeptAsItWas
    <2>3. CacheTypeOK'
      BY <1>1, <1>3, <2>1 DEF CacheSound, CacheTypeOK
    <2> QED
      BY <2>1, <2>2, <2>3 DEF CacheSound
  <1>4. CASE /\ Goes(r, "admit", "store")
             /\ row' = [row EXCEPT ![q] = u]
             /\ sharers' = [sharers EXCEPT ![q] = @ \cup {In[r]}]
    <2> DEFINE Rows == [status : {"NONE", "VALIDATED", "INVALID"}, live : BOOLEAN,
                        answer : Answers, tags : SUBSET Conversations]
    <2>1. /\ row \in [Questions -> Rows] /\ row[q] \in Rows
          /\ sharers \in [Questions -> SUBSET Conversations]
      BY <1>1 DEF CacheSound, CacheTypeOK
    <2>2. /\ u \in Rows /\ u.status = "VALIDATED" /\ u.answer = carried[r]
          /\ u.tags = row[q].tags \cup {In[r]}
      BY <1>1, <2>1 DEF Upserted
    <2> HIDE DEF u, Rows
    <2>3. /\ row' \in [Questions -> Rows] /\ row'[q] = u
          /\ \A p \in Questions : p # q => row'[p] = row[p]
      BY <1>1, <1>4, <2>1, <2>2
    <2>4. /\ sharers' \in [Questions -> SUBSET Conversations]
          /\ sharers'[q] = sharers[q] \cup {In[r]}
          /\ \A p \in Questions : p # q => sharers'[p] = sharers[p]
      BY <1>1, <1>4, <2>1
    <2>5. r \notin due[q]
      BY <1>1 DEF CacheSound, MakersStored
    <2>6. /\ CopiersRace'
          /\ pc' \in [Requests -> {"idle", "redis", "rows", "refill", "similar", "lock",
                           "waiting", "routing", "admit", "store", "abort", "done"}]
          /\ \A m \in Requests : Stored(m) => Stored(m)'
      <3>1. \A p \in Questions : row[p].status = "VALIDATED" => row'[p].status = "VALIDATED"
        BY <2>2, <2>3
      <3>2. row'[q].status = "VALIDATED" /\ pc' = [pc EXCEPT ![r] = "store"]
        BY <1>4, <2>2, <2>3 DEF Goes
      <3>3. /\ due' = due /\ racers' = racers /\ carried' = [carried EXCEPT ![r] = carried[r]]
            /\ carried[r] \in Answers /\ carried[r].maker = r /\ ~Stored(r)
            /\ row'[Ask[r]].status = "VALIDATED" /\ carried[r].maker \notin due[Ask[r]]
        BY <1>1, <1>2, <2>5, <3>2
      <3> HIDE DEF q
      <3> QED
        BY <3>1, <3>2, <3>3, Moves
    <2>7. MakersStored'
      <3>1. Stored(r)'
        BY <1>4 DEF Goes, Stored, CacheSound, CacheTypeOK
      <3>2. \A p \in Questions :
               /\ row[p].answer.maker \in Requests \cup {NoRequest}
               /\ hot[p].answer.maker \in Requests \cup {NoRequest} /\ due[p] \subseteq Requests
        BY DEF CacheSound, CacheTypeOK, Answers
      <3> SUFFICES ASSUME NEW p \in Questions
                   PROVE  /\ \A m \in {row'[p].answer.maker, hot[p].answer.maker} \ {NoRequest} : Stored(m)'
                          /\ \A m \in due[p] : Stored(m)'
        BY <1>1 DEF MakersStored
      <3>3. /\ \A m \in {row[p].answer.maker, hot[p].answer.maker} \ {NoRequest} : Stored(m)
            /\ \A m \in due[p] : Stored(m)
        BY DEF CacheSound, MakersStored
      <3>4. /\ \A m \in {row[p].answer.maker, hot[p].answer.maker} \ {NoRequest} : Stored(m)'
            /\ \A m \in due[p] : Stored(m)'
        BY <2>6, <3>2, <3>3
      <3>5. p = q => row'[p].answer.maker = r
        BY <1>1, <2>2, <2>3
      <3>6. p # q => row'[p] = row[p]
        BY <2>3
      <3>7. ASSUME NEW m, m \in {row'[p].answer.maker, hot[p].answer.maker} \ {NoRequest}
            PROVE  Stored(m)'
        <4>1. m = r \/ m \in {row[p].answer.maker, hot[p].answer.maker} \ {NoRequest}
          BY <3>5, <3>6, <3>7
        <4> QED
          BY <3>1, <3>4, <4>1
      <3> QED
        BY <3>4, <3>7
    <2>8. CopiesExplained'
      <3> SUFFICES ASSUME NEW p \in Questions
                   PROVE  /\ sharers'[p] \subseteq row'[p].tags
                          /\ hot[p].held /\ row'[p].status # "VALIDATED" =>
                                \/ hot[p].writer \in racers \/ p \in missed
                                \/ \E c \in Conversations : p \in deleting[c]
        BY <1>1 DEF CopiesExplained
      <3> QED
        BY <2>2, <2>3, <2>4 DEF CacheSound, CopiesExplained
    <2>9. InvalidationReaches'
      <3> SUFFICES ASSUME NEW p \in Questions
                   PROVE  /\ row'[p].status = "VALIDATED" /\ row'[p].live => row'[p].answer.maker \notin due[p]
                          /\ hot[p].held /\ hot[p].answer.maker \in due[p] =>
                                \/ hot[p].writer \in racers \/ p \in missed
                                \/ \E c \in Conversations : p \in deleting[c]
        BY <1>1 DEF InvalidationReaches, Usable
      <3> QED
        BY <1>1, <2>2, <2>3, <2>5 DEF CacheSound, InvalidationReaches, Usable
    <2>10. CacheTypeOK'
      BY <1>1, <2>3, <2>4, <2>6 DEF CacheSound, CacheTypeOK, Rows
    <2> QED
      BY <2>6, <2>7, <2>8, <2>9, <2>10 DEF CacheSound
  <1> QED
    BY <1>3, <1>4 DEF AdmitRow

(* An invalidation of rows: the rows it takes are those of every entry the *)
(* Conversation was admitted for; who may still write a copy is in flight; *)
(* and every copy it leaves is named in deleting until it is deleted.      *)
LEMMA RowsInvalidated ==
    ASSUME CacheSound, NEW c \in Conversations, InvalidateRows(c)
    PROVE  CacheSound'
  <1> DEFINE keys == {q \in Questions : row[q].status = "VALIDATED" /\ c \in row[q].tags}
             Rows == [status : {"NONE", "VALIDATED", "INVALID"}, live : BOOLEAN,
                      answer : Answers, tags : SUBSET Conversations]
  <1>1. /\ deleting[c] = {} /\ deleting' = [deleting EXCEPT ![c] = keys]
        /\ row' = [q \in Questions |->
                     IF q \in keys THEN [row[q] EXCEPT !.status = "INVALID"] ELSE row[q]]
        /\ due' = [q \in Questions |->
                     IF c \in sharers[q]
                     THEN due[q] \cup ({row[q].answer.maker, hot[q].answer.maker} \ {NoRequest})
                     ELSE due[q]]
        /\ changes < MaxChanges /\ changes' = changes + 1 /\ racers' = racers \cup InFlight
        /\ UNCHANGED <<pc, hot, lock, token, carried, missed, sharers>>
    BY DEF InvalidateRows
  <1>2. /\ row \in [Questions -> Rows] /\ due \in [Questions -> SUBSET Requests]
        /\ deleting \in [Conversations -> SUBSET Questions]
        /\ \A q \in Questions :
              /\ row[q].answer.maker \in Requests \cup {NoRequest}
              /\ hot[q].answer.maker \in Requests \cup {NoRequest} /\ due[q] \subseteq Requests
    BY DEF CacheSound, CacheTypeOK, Answers
  <1>3. \A q \in Questions : row'[q] \in Rows /\ row'[q].answer = row[q].answer
                                /\ row'[q].tags = row[q].tags
    BY <1>1, <1>2
  <1>4. \A q \in Questions : row'[q].status = "VALIDATED" => row'[q] = row[q] /\ q \notin keys
    BY <1>1, <1>2
  <1>5. \A q \in Questions : q \notin keys => row'[q] = row[q]
    BY <1>1
  <1>6. /\ deleting' \in [Conversations -> SUBSET Questions] /\ deleting'[c] = keys
        /\ \A d \in Conversations : d # c => deleting'[d] = deleting[d]
    BY <1>1, <1>2
  <1>7. \A q \in Questions :
           /\ due'[q] \subseteq Requests
           /\ due'[q] \subseteq due[q] \cup ({row[q].answer.maker, hot[q].answer.maker} \ {NoRequest})
           /\ c \notin sharers[q] => due'[q] = due[q]
    BY <1>1, <1>2
  <1>8. row' \in [Questions -> Rows] /\ due' \in [Questions -> SUBSET Requests]
    <2>1. row' = [q \in Questions |-> row'[q]] /\ due' = [q \in Questions |-> due'[q]]
      BY <1>1
    <2> QED
      BY <1>3, <1>7, <2>1
  <1> HIDE DEF keys, Rows
  <1>9. CacheTypeOK'
    <2>1. changes' \in 0..MaxChanges
      BY <1>1, CacheConstants DEF CacheSound, CacheTypeOK
    <2> QED
      BY <1>1, <1>6, <1>8, <2>1 DEF CacheSound, CacheTypeOK, InFlight, Rows
  <1>10. MakersStored'
    <2> SUFFICES ASSUME NEW q \in Questions
                 PROVE  /\ \A m \in {row'[q].answer.maker, hot[q].answer.maker} \ {NoRequest} : Stored(m)
                        /\ \A m \in due'[q] : Stored(m)
      BY <1>1 DEF MakersStored, Stored
    <2> QED
      BY <1>3, <1>7 DEF CacheSound, MakersStored
  <1>11. CopiersRace'
    <2> SUFFICES ASSUME NEW r \in Requests
                 PROVE  /\ pc[r] \in {"admit", "store"} => carried[r].maker = r
                        /\ pc[r] = "refill" => Stored(carried[r].maker) \/ carried[r].maker = NoRequest
                        /\ (/\ pc[r] \in {"refill", "store"}
                            /\ row'[Ask[r]].status # "VALIDATED" \/ carried[r].maker \in due'[Ask[r]])
                              => r \in racers'
      BY <1>1 DEF CopiersRace, Stored
    <2>1. pc[r] \in {"refill", "store"} => r \in racers'
      BY <1>1 DEF InFlight
    <2> QED
      BY <2>1 DEF CacheSound, CopiersRace
  <1>12. ASSUME NEW q \in Questions, hot[q].held,
                q \in keys \/ row[q].status # "VALIDATED" \/ hot[q].answer.maker \in due[q]
         PROVE  \/ hot[q].writer \in racers' \/ q \in missed
                \/ \E d \in Conversations : q \in deleting'[d]
    <2>1. CASE q \in keys
      BY <1>6, <2>1
    <2>2. CASE row[q].status # "VALIDATED" \/ hot[q].answer.maker \in due[q]
      <3>1. \/ hot[q].writer \in racers \/ q \in missed
            \/ \E d \in Conversations : q \in deleting[d]
        BY <1>12, <2>2 DEF CacheSound, CopiesExplained, InvalidationReaches
      <3> QED
        BY <1>1, <1>6, <3>1
    <2> QED
      BY <1>12, <2>1, <2>2
  <1>13. CopiesExplained'
    <2> SUFFICES ASSUME NEW q \in Questions
                 PROVE  /\ sharers[q] \subseteq row'[q].tags
                        /\ hot[q].held /\ row'[q].status # "VALIDATED" =>
                              \/ hot[q].writer \in racers' \/ q \in missed
                              \/ \E d \in Conversations : q \in deleting'[d]
      BY <1>1 DEF CopiesExplained
    <2> QED
      BY <1>3, <1>5, <1>12 DEF CacheSound, CopiesExplained
  <1>14. InvalidationReaches'
    <2> SUFFICES ASSUME NEW q \in Questions
                 PROVE  /\ row'[q].status = "VALIDATED" /\ row'[q].live => row'[q].answer.maker \notin due'[q]
                        /\ hot[q].held /\ hot[q].answer.maker \in due'[q] =>
                              \/ hot[q].writer \in racers' \/ q \in missed
                              \/ \E d \in Conversations : q \in deleting'[d]
      BY <1>1 DEF InvalidationReaches, Usable
    <2>1. sharers[q] \subseteq row[q].tags
      BY DEF CacheSound, CopiesExplained
    <2>2. c \in sharers[q] => row[q].status # "VALIDATED" \/ q \in keys
      BY <2>1 DEF keys
    <2>3. row'[q].status = "VALIDATED" /\ row'[q].live => row'[q].answer.maker \notin due'[q]
      <3> SUFFICES ASSUME row'[q].status = "VALIDATED", row'[q].live
                   PROVE  row'[q].answer.maker \notin due'[q]
        OBVIOUS
      <3>1. row'[q] = row[q] /\ due'[q] = due[q]
        BY <1>4, <1>7, <2>2
      <3> QED
        BY <3>1 DEF CacheSound, InvalidationReaches, Usable
    <2>4. hot[q].held /\ hot[q].answer.maker \in due'[q] =>
             \/ hot[q].writer \in racers' \/ q \in missed
             \/ \E d \in Conversations : q \in deleting'[d]
      BY <1>7, <1>12, <2>2
    <2> QED
      BY <2>3, <2>4
  <1> QED
    BY <1>9, <1>10, <1>11, <1>13, <1>14 DEF CacheSound

(* Copies deleted or expired: one that is gone needs no explanation.       *)
LEMMA CopiesGone ==
    ASSUME CacheSound, NEW gone \in SUBSET Questions, NEW lost \in SUBSET Questions,
           hot' = [q \in Questions |-> IF q \in gone THEN NoCopy ELSE hot[q]],
           missed' = lost, deleting' \in [Conversations -> SUBSET Questions],
           \A q \in Questions \ gone :
              q \in missed \/ (\E d \in Conversations : q \in deleting[d]) =>
                 q \in lost \/ (\E d \in Conversations : q \in deleting'[d]),
           UNCHANGED <<pc, row, lock, token, carried, changes, racers, due, sharers>>
    PROVE  CacheSound'
  <1> DEFINE Copies == [held : BOOLEAN, answer : Answers, writer : Requests \cup {NoRequest}]
  <1>1. /\ hot \in [Questions -> Copies]
        /\ \A q \in Questions :
              /\ q \in gone => hot'[q] = NoCopy
              /\ q \notin gone => hot'[q] = hot[q]
        /\ NoCopy \in Copies /\ ~NoCopy.held /\ NoCopy.answer.maker = NoRequest
    BY NothingKept DEF CacheSound, CacheTypeOK, NoCopy
  <1>2. hot' \in [Questions -> Copies]
    <2> HIDE DEF Copies
    <2> QED
      BY <1>1
  <1>3. CacheTypeOK'
    BY <1>2 DEF CacheSound, CacheTypeOK
  <1>4. MakersStored'
    <2> SUFFICES ASSUME NEW q \in Questions
                 PROVE  /\ \A m \in {row[q].answer.maker, hot'[q].answer.maker} \ {NoRequest} : Stored(m)
                        /\ \A m \in due[q] : Stored(m)
      BY DEF MakersStored, Stored
    <2> QED
      BY <1>1 DEF CacheSound, MakersStored
  <1>5. CopiersRace'
    BY DEF CacheSound, CopiersRace, Stored
  <1>6. ASSUME NEW q \in Questions, hot'[q].held,
               row[q].status # "VALIDATED" \/ hot'[q].answer.maker \in due[q]
        PROVE  \/ hot'[q].writer \in racers \/ q \in lost
               \/ \E d \in Conversations : q \in deleting'[d]
    <2>1. hot'[q] = hot[q] /\ q \notin gone
      BY <1>1, <1>6
    <2>2. \/ hot[q].writer \in racers \/ q \in missed
          \/ \E d \in Conversations : q \in deleting[d]
      BY <1>6, <2>1 DEF CacheSound, CopiesExplained, InvalidationReaches
    <2> QED
      BY <2>1, <2>2
  <1>7. CopiesExplained' /\ InvalidationReaches'
    BY <1>6 DEF CacheSound, CopiesExplained, InvalidationReaches, Usable
  <1> QED
    BY <1>3, <1>4, <1>5, <1>7 DEF CacheSound

LEMMA InvalidationsKeep ==
    ASSUME CacheSound, NEW c \in Conversations, InvalidateRows(c) \/ InvalidateCopies(c)
    PROVE  CacheSound'
  <1>1. CASE InvalidateRows(c)
    BY <1>1, RowsInvalidated
  <1>2. CASE InvalidateCopies(c)
    <2>1. /\ deleting' = [deleting EXCEPT ![c] = {}]
          /\ UNCHANGED <<pc, row, lock, token, carried, changes, racers, due, sharers>>
      BY <1>2 DEF InvalidateCopies
    <2>2. /\ hot = [q \in Questions |-> hot[q]] /\ missed \subseteq Questions
          /\ deleting[c] \subseteq Questions
          /\ deleting' \in [Conversations -> SUBSET Questions]
          /\ \A d \in Conversations : d # c => deleting'[d] = deleting[d]
      BY <2>1 DEF CacheSound, CacheTypeOK
    <2>3. CASE /\ hot' = [q \in Questions |-> IF q \in deleting[c] THEN NoCopy ELSE hot[q]]
               /\ missed' = missed
      BY <2>1, <2>2, <2>3, CopiesGone
    <2>4. CASE hot' = hot /\ missed' = missed \cup deleting[c]
      <3>1. hot' = [q \in Questions |-> IF q \in {} THEN NoCopy ELSE hot[q]]
        BY <2>2, <2>4
      <3>2. \A q \in Questions \ {} :
               q \in missed \/ (\E d \in Conversations : q \in deleting[d]) =>
                  q \in missed' \/ (\E d \in Conversations : q \in deleting'[d])
        BY <2>2, <2>4
      <3>3. missed' \in SUBSET Questions /\ {} \in SUBSET Questions
        BY <2>2, <2>4
      <3> QED
        BY <2>1, <2>2, <3>1, <3>2, <3>3, CopiesGone
    <2> QED
      BY <1>2, <2>3, <2>4 DEF InvalidateCopies
  <1> QED
    BY <1>1, <1>2

LEMMA LifetimesKeep ==
    ASSUME CacheSound, NEW q \in Questions, RowExpires(q) \/ CopyExpires(q) \/ LockExpires(q)
    PROVE  CacheSound'
  <1>1. CASE LockExpires(q)
    <2>1. /\ UNCHANGED <<pc, row, hot, token, carried, changes, deleting, racers, due, missed, sharers>>
          /\ lock' \in [Questions -> Requests \cup {NoRequest}]
      BY <1>1 DEF LockExpires, CacheSound, CacheTypeOK
    <2> QED
      BY <2>1 DEF CacheSound, CacheTypeOK, MakersStored, Stored, CopiersRace, CopiesExplained,
                  InvalidationReaches, Usable
  <1>2. CASE CopyExpires(q)
    <2>1. /\ hot' = [hot EXCEPT ![q] = NoCopy] /\ missed' = missed \ {q} /\ deleting' = deleting
          /\ UNCHANGED <<pc, row, lock, token, carried, changes, racers, due, sharers>>
      BY <1>2 DEF CopyExpires
    <2>2. /\ hot' = [p \in Questions |-> IF p \in {q} THEN NoCopy ELSE hot[p]]
          /\ missed' \in SUBSET Questions /\ deleting' \in [Conversations -> SUBSET Questions]
      BY <2>1 DEF CacheSound, CacheTypeOK
    <2>3. \A p \in Questions \ {q} :
             p \in missed \/ (\E d \in Conversations : p \in deleting[d]) =>
                p \in missed' \/ (\E d \in Conversations : p \in deleting'[d])
      BY <2>1
    <2>4. {q} \in SUBSET Questions
      OBVIOUS
    <2> QED
      BY <2>1, <2>2, <2>3, <2>4, CopiesGone
  <1>3. CASE RowExpires(q)
    <2> DEFINE Rows == [status : {"NONE", "VALIDATED", "INVALID"}, live : BOOLEAN,
                        answer : Answers, tags : SUBSET Conversations]
    <2>1. /\ row' = [row EXCEPT ![q].live = FALSE] /\ row \in [Questions -> Rows]
          /\ UNCHANGED <<pc, hot, lock, token, carried, changes, deleting, racers, due, missed, sharers>>
      BY <1>3 DEF RowExpires, CacheSound, CacheTypeOK
    <2>2. /\ row' \in [Questions -> Rows]
          /\ \A p \in Questions :
                /\ row'[p].status = row[p].status /\ row'[p].answer = row[p].answer
                /\ row'[p].tags = row[p].tags /\ (row'[p].live => row[p].live)
      BY <2>1
    <2>3. CacheTypeOK'
      BY <2>1, <2>2 DEF CacheSound, CacheTypeOK
    <2>4. MakersStored'
      BY <2>1, <2>2 DEF CacheSound, MakersStored, Stored
    <2>5. CopiersRace'
      BY <2>1, <2>2, Questioners DEF CacheSound, CopiersRace, Stored
    <2>6. CopiesExplained'
      BY <2>1, <2>2 DEF CacheSound, CopiesExplained
    <2>7. InvalidationReaches'
      BY <2>1, <2>2 DEF CacheSound, InvalidationReaches, Usable
    <2> QED
      BY <2>3, <2>4, <2>5, <2>6, <2>7 DEF CacheSound
  <1> QED
    BY <1>1, <1>2, <1>3

-----------------------------------------------------------------------------
(* The system.                                                             *)

LEMMA RouterStarts == Init => RouterSound
  <1> SUFFICES ASSUME Init PROVE RouterSound
    OBVIOUS
  <1> USE DEF Init, RouterInit
  <1>1. circuit \in Circuits /\ \A p \in Providers : circuit[p].state # "HALF_OPEN"
    <2>1. Earlier \in [Providers -> 0..Threshold]
      BY RouterConstants
    <2> QED
      BY <2>1 DEF Circuits
  <1>2. RouterTypeOK
    BY <1>1, RouterConstants DEF RouterTypeOK, Circuits, Pending, Outcomes
  <1>3. HalfOpenAccounted /\ FallbackNamed
    BY <1>1 DEF HalfOpenAccounted, FallbackNamed, Pending
  <1>4. BlameKnown
    BY DEF BlameKnown
  <1> QED
    BY <1>2, <1>3, <1>4 DEF RouterSound

LEMMA CacheStarts == Init => CacheSound
  <1> SUFFICES ASSUME Init PROVE CacheSound
    OBVIOUS
  <1> USE DEF Init, CacheInit
  <1>1. CacheTypeOK
    BY CacheConstants, NothingKept DEF CacheTypeOK, NoRow, NoCopy
  <1>2. MakersStored
    BY NothingKept DEF MakersStored, NoRow, NoCopy
  <1>3. CopiersRace
    BY DEF CopiersRace
  <1>4. CopiesExplained /\ InvalidationReaches
    BY DEF CopiesExplained, InvalidationReaches, Usable, NoRow, NoCopy
  <1> QED
    BY <1>1, <1>2, <1>3, <1>4 DEF CacheSound

(* Cancelling a request that awaits no provider.                           *)
LEMMA IdleCancelled ==
    ASSUME RouterSound, NEW r \in Requests, calling[r] = 0,
           outcome' = [outcome EXCEPT ![r] = Cancelled],
           UNCHANGED <<circuit, cooled, limited, calling, blamed, leaked, lapses>>
    PROVE  RouterSound'
  <1>1. FallbackNamed' /\ outcome' \in [Requests -> Outcomes]
    BY NoAnswersFit, OutcomesNamed
  <1> QED
    BY <1>1 DEF RouterSound, RouterTypeOK, HalfOpenAccounted, BlameKnown

LEMMA NextKeeps ==
    ASSUME RouterSound, CacheSound, [Next]_vars
    PROVE  RouterSound' /\ CacheSound'
  <1>0. RouterTypeOK
    BY DEF RouterSound
  <1>1. ASSUME UNCHANGED cacheVars PROVE CacheSound'
    BY <1>1 DEF cacheVars, CacheSound, CacheTypeOK, MakersStored, Stored, CopiersRace,
                CopiesExplained, InvalidationReaches, Usable
  <1>2. UNCHANGED routerVars => RouterSound'
    BY RouterWaits
  <1>3. ASSUME NEW r \in Requests, Lookup(r) \/ Finish(r) PROVE RouterSound' /\ CacheSound'
    <2>1. UNCHANGED routerVars
      BY <1>3 DEF Lookup, Finish, Begin, ReadRedis, ReadRow, Refill, LookSimilar, TakeLock,
                  WaitEnds, Routed, AdmitRow, AdmitCopy, Abort
    <2>2. CacheSound'
      BY <1>0, <1>3, ReadsKeep, CopiesKeep, AdmissionKeeps DEF Lookup, Finish
    <2> QED
      BY <1>2, <2>1, <2>2
  <1>4. ASSUME NEW r \in Requests, StartRouting(r) \/ Calls(r) PROVE RouterSound' /\ CacheSound'
    BY <1>1, <1>4, RouterSteps DEF StartRouting, Calls
  <1>5. ASSUME NEW r \in Requests, Cancel(r) PROVE RouterSound' /\ CacheSound'
    <2>1. CacheSound'
      BY <1>0, <1>5, ReadsKeep
    <2>2. CASE calling[r] # 0
      BY <1>5, <2>1, <2>2, RouterSteps DEF Cancel
    <2>3. CASE calling[r] = 0
      BY <1>5, <2>1, <2>3, IdleCancelled DEF Cancel
    <2> QED
      BY <2>2, <2>3
  <1>6. ASSUME NEW c \in Conversations, InvalidateRows(c) \/ InvalidateCopies(c)
        PROVE  RouterSound' /\ CacheSound'
    <2>1. UNCHANGED routerVars
      BY <1>6 DEF InvalidateRows, InvalidateCopies
    <2> QED
      BY <1>2, <1>6, <2>1, InvalidationsKeep
  <1>7. ASSUME Clock PROVE RouterSound' /\ CacheSound'
    <2>1. ASSUME NEW p \in Providers, CircuitCools(p) \/ LimitLapses(p), UNCHANGED cacheVars
          PROVE  RouterSound' /\ CacheSound'
      BY <1>1, <2>1, RouterWaits
    <2>2. ASSUME NEW q \in Questions, RowExpires(q) \/ CopyExpires(q) \/ LockExpires(q)
          PROVE  RouterSound' /\ CacheSound'
      <3>1. /\ UNCHANGED <<circuit, cooled, limited, calling, outcome, blamed, leaked>>
            /\ Lapse
        BY <2>2 DEF RowExpires, CopyExpires, LockExpires
      <3> QED
        BY <2>2, <3>1, RouterWaits, LifetimesKeep
    <2> QED
      BY <1>7, <2>1, <2>2 DEF Clock
  <1>8. CASE UNCHANGED vars
    BY <1>1, <1>2, <1>8 DEF vars
  <1>9. CASE Next
    BY <1>3, <1>4, <1>5, <1>6, <1>7, <1>9 DEF Next, Step
  <1> QED
    BY <1>8, <1>9

(* Rows, copies, locks and circuits keep their types, a circuit is left    *)
(* half open only by a probe under way or one that reported nothing        *)
(* (health.py:46), and the answers, their makers and their copies are      *)
(* where the loops put them, for any chain of providers.                   *)
THEOREM RouterInvariantHolds == Spec => []RouterInvariant
  <1>1. Init => RouterSound /\ CacheSound
    BY RouterStarts, CacheStarts
  <1>2. RouterSound /\ CacheSound /\ [Next]_vars => (RouterSound /\ CacheSound)'
    BY NextKeeps
  <1>3. RouterSound /\ CacheSound => RouterInvariant
    BY InvariantParts
  <1> QED
    BY <1>1, <1>2, <1>3, PTL DEF Spec

(* An entry shared by Conversations is within reach of the invalidation of *)
(* each (repository.py:104): no usable row gives an answer that one was to *)
(* remove, and every copy of such an answer has a known reason.            *)
THEOREM EveryShareIsReached == Spec => []InvalidationReaches
  <1>1. Init => RouterSound /\ CacheSound
    BY RouterStarts, CacheStarts
  <1>2. RouterSound /\ CacheSound /\ [Next]_vars => (RouterSound /\ CacheSound)'
    BY NextKeeps
  <1>3. CacheSound => InvalidationReaches
    BY DEF CacheSound
  <1> QED
    BY <1>1, <1>2, <1>3, PTL DEF Spec

(* An answer names the candidate the request was meant for when a reserve  *)
(* gave it, and no candidate otherwise (router.py:245).                    *)
THEOREM FallbackIsNamed == Spec => []FallbackNamed
  <1>1. Init => RouterSound /\ CacheSound
    BY RouterStarts, CacheStarts
  <1>2. RouterSound /\ CacheSound /\ [Next]_vars => (RouterSound /\ CacheSound)'
    BY NextKeeps
  <1>3. RouterSound => FallbackNamed
    BY DEF RouterSound
  <1> QED
    BY <1>1, <1>2, <1>3, PTL DEF Spec

(* No request frees the lock of another (redis_store.py:10).               *)
THEOREM LocksFreedByOwners == Spec => LockFreedByOwner
  <1>1. Init => RouterSound /\ CacheSound
    BY RouterStarts, CacheStarts
  <1>2. RouterSound /\ CacheSound /\ [Next]_vars => (RouterSound /\ CacheSound)'
    BY NextKeeps
  <1>3. ASSUME CacheSound, [Next]_vars
        PROVE  [\A q \in Questions :
                   lock[q] # NoRequest /\ lock'[q] # lock[q] =>
                       pc' = pc \/ pc'[lock[q]] # pc[lock[q]]]_vars
    <2>1. SUFFICES ASSUME Next, NEW q \in Questions, lock[q] # NoRequest, lock'[q] # lock[q]
                   PROVE  pc' = pc \/ pc'[lock[q]] # pc[lock[q]]
      BY <1>3
    <2>2. ASSUME NEW r \in Requests, TakeLock(r) PROVE lock'[q] = lock[q]
      BY <1>3, <2>1, <2>2 DEF TakeLock, CacheSound, CacheTypeOK
    <2>3. ASSUME NEW r \in Requests, Abort(r) PROVE pc'[lock[q]] # pc[lock[q]]
      <3>1. /\ lock' = [lock EXCEPT ![Ask[r]] = Released(Ask[r], r)] \/ lock' = lock
            /\ pc[r] = "abort" /\ pc'[r] = "done"
        BY <1>3, <2>3 DEF Abort, Return, Goes, CacheSound, CacheTypeOK
      <3>2. lock[q] = r
        BY <2>1, <3>1, <1>3 DEF Released, CacheSound, CacheTypeOK
      <3> QED
        BY <3>1, <3>2
    <2>4. ASSUME NEW p \in Questions, LockExpires(p) PROVE pc' = pc
      BY <2>4 DEF LockExpires
    <2>5. CASE \E r \in Requests : TakeLock(r)
      BY <2>1, <2>2, <2>5
    <2>6. CASE \E r \in Requests : Abort(r)
      BY <2>3, <2>6
    <2>7. CASE \E p \in Questions : LockExpires(p)
      BY <2>4, <2>7
    <2>8. CASE /\ ~\E r \in Requests : TakeLock(r) \/ Abort(r)
               /\ ~\E p \in Questions : LockExpires(p)
      <3>1. lock' = lock
        BY <2>1, <2>8
        DEF Next, Step, Lookup, Finish, Begin, ReadRedis, ReadRow, Refill, LookSimilar, WaitEnds,
            StartRouting, Calls, Routed, AdmitRow, AdmitCopy, Cancel, InvalidateRows,
            InvalidateCopies, Clock, RowExpires, CopyExpires, cacheVars
      <3> QED
        BY <2>1, <3>1
    <2> QED
      BY <2>5, <2>6, <2>7, <2>8
  <1> QED
    BY <1>1, <1>2, <1>3, PTL DEF Spec, LockFreedByOwner
=============================================================================
