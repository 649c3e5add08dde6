-------------------- MODULE OpportunityCompetitionProofs --------------------
(***************************************************************************)
(* Proofs about opportunities and their competition workers.  An           *)
(* opportunity that no two workers were at together is in the hands of one *)
(* session from its claim to its decision, and what that session holds is  *)
(* what the rows say (CompetitionInvariant); so its decision is unique, by *)
(* the best thesis and for good.  The executive lease is exclusive even    *)
(* when workers meet, because its rows are decided under the opportunity's *)
(* lock.                                                                   *)
(***************************************************************************)
EXTENDS OpportunityCompetition, FiniteSetTheorems, TLAPS

(* More than one theses are two different ones. *)
LEMMA TwoOf ==
  ASSUME NEW S, ~(Cardinality(S) < 2)
  PROVE  \E x, y \in S : x # y
<1> SUFFICES ASSUME \A x, y \in S : x = y PROVE FALSE
  OBVIOUS
<1>1. CASE S = {}
  BY <1>1, FS_EmptySet
<1>2. CASE S # {}
  <2>1. PICK x \in S : S = {x}
    BY <1>2
  <2> QED
    BY <2>1, FS_Singleton
<1> QED
  BY <1>1, <1>2

(* Writing its status leaves a thesis one. *)
LEMMA StatusWritten ==
  ASSUME NEW A, NEW B, NEW S, NEW t \in [by : A, composed : B, status : S], NEW s \in S
  PROVE  /\ [t EXCEPT !.status = s] \in [by : A, composed : B, status : S]
         /\ [t EXCEPT !.status = s].status = s
         /\ [t EXCEPT !.status = s].by = t.by
         /\ [t EXCEPT !.status = s].composed = t.composed
OBVIOUS

(* What a submitted thesis changes in its opportunity and in the session.   *)
LEMMA SubmitAdds ==
  ASSUME TypeOK, NEW w \in Workers, NEW u, NEW c,
         NEW o \in Opportunities, at[w] = o, Submit(w, u, c)
  PROVE  /\ \A p \in Opportunities \ {o} : thesis'[p] = thesis[p]
         /\ \A v \in Workers \ {w} : known'[v] = known[v]
         /\ \E x \in Theses :
              /\ thesis[o][x].status = "NONE"
              /\ thesis'[o][x] = [by |-> u, composed |-> c, status |-> "PROPOSED"]
              /\ known'[w][x] = "PROPOSED"
              /\ \A y \in Theses \ {x} :
                   thesis'[o][y] = thesis[o][y] /\ known'[w][y] = known[w][y]
<1>1. PICK x \in Theses \ Rows(o) :
        /\ thesis' = [thesis EXCEPT ![o][x] =
                        [by |-> u, composed |-> c, status |-> "PROPOSED"]]
        /\ known' = [known EXCEPT ![w][x] = "PROPOSED"]
  BY DEF Submit
<1>2. thesis[o][x].status = "NONE"
  BY <1>1 DEF Rows
<1>3. \A p \in Opportunities \ {o} : thesis'[p] = thesis[p]
  BY <1>1 DEF TypeOK
<1>4. \A v \in Workers \ {w} : known'[v] = known[v]
  BY <1>1 DEF TypeOK
<1>5. /\ thesis'[o][x] = [by |-> u, composed |-> c, status |-> "PROPOSED"]
      /\ \A y \in Theses \ {x} : thesis'[o][y] = thesis[o][y]
  BY <1>1 DEF TypeOK
<1>6. known'[w][x] = "PROPOSED" /\ \A y \in Theses \ {x} : known'[w][y] = known[w][y]
  BY <1>1 DEF TypeOK
<1> QED
  BY <1>2, <1>3, <1>4, <1>5, <1>6

LEMMA SubmitTypes ==
  ASSUME TypeOK, NEW w \in Workers, NEW u \in Universes, NEW c \in BOOLEAN,
         at[w] \in Opportunities, Submit(w, u, c)
  PROVE  /\ thesis' \in [Opportunities -> [Theses ->
               [by : Universes \cup {None}, composed : BOOLEAN, status : ThesisStatus]]]
         /\ known' \in [Workers -> [Theses -> ThesisStatus]]
<1>1. PICK x \in Theses :
        /\ thesis' = [thesis EXCEPT ![at[w]][x] =
                        [by |-> u, composed |-> c, status |-> "PROPOSED"]]
        /\ known' = [known EXCEPT ![w][x] = "PROPOSED"]
  BY DEF Submit
<1>2. [by |-> u, composed |-> c, status |-> "PROPOSED"] \in
        [by : Universes \cup {None}, composed : BOOLEAN, status : ThesisStatus]
  BY DEF ThesisStatus
<1> QED
  BY <1>1, <1>2 DEF TypeOK, ThesisStatus

-----------------------------------------------------------------------------
(* Types, and where workers stand.                                          *)

LEMMA InitTypes == Init => TypeOK /\ Standing
<1> SUFFICES ASSUME Init PROVE TypeOK /\ Standing
  OBVIOUS
<1> USE CompetitionAssumption
<1>1. TypeOK
  BY DEF Init, TypeOK, NoThesis, NoLease, Unseen, ThesisStatus
<1>2. Standing
  BY DEF Init, Standing
<1> QED
  BY <1>1, <1>2

LEMMA StepTypes == TypeOK /\ Standing /\ [Next]_vars => TypeOK' /\ Standing'
<1> SUFFICES ASSUME TypeOK, Standing, [Next]_vars PROVE TypeOK' /\ Standing'
  OBVIOUS
<1>n. None \notin Opportunities \cup Universes \cup Nat
  BY CompetitionAssumption
<1>s. "PROPOSED" \in ThesisStatus /\ "SELECTED" \in ThesisStatus /\ "NONE" \in ThesisStatus
  BY DEF ThesisStatus
<1>u. Unseen \in [Theses -> ThesisStatus]
  BY <1>s DEF Unseen
<1>f. MaxFaults \in Nat /\ (Fault => faults' \in 0 .. MaxFaults)
  BY CompetitionAssumption DEF Fault, TypeOK
<1>1. ASSUME NEW o \in Opportunities, Detect(o) PROVE TypeOK' /\ Standing'
  BY <1>1 DEF Detect, SetStatus, TypeOK, Standing, workerVars
<1>2. ASSUME NEW o \in Opportunities, ClaimAges(o) PROVE TypeOK' /\ Standing'
  BY <1>2 DEF ClaimAges, TypeOK, Standing, workerVars
<1>3. ASSUME NEW o \in Opportunities, LeaseLapses(o) PROVE TypeOK' /\ Standing'
  <2>1. lease' \in [Opportunities -> [thesis : Theses \cup {None}, lapsed : BOOLEAN]]
    BY <1>3 DEF LeaseLapses, TypeOK
  <2> QED
    BY <1>3, <2>1 DEF LeaseLapses, TypeOK, Standing, workerVars
<1>4. ASSUME NEW o \in Opportunities, NEW x \in Theses, LaunchMission(o, x)
      PROVE  TypeOK' /\ Standing'
  <2>1. /\ lease' \in {lease, [lease EXCEPT ![o] = NoLease]}
        /\ mission' \in {mission, [mission EXCEPT ![o] = x]}
    BY <1>4 DEF LaunchMission
  <2>2. NoLease \in [thesis : Theses \cup {None}, lapsed : BOOLEAN]
    BY DEF NoLease
  <2>3. lease' \in [Opportunities -> [thesis : Theses \cup {None}, lapsed : BOOLEAN]]
    BY <2>1, <2>2 DEF TypeOK
  <2>4. mission' \in [Opportunities -> Theses \cup {None}]
    BY <2>1 DEF TypeOK
  <2> QED
    BY <1>4, <2>3, <2>4 DEF LaunchMission, TypeOK, Standing, workerVars
<1>5. ASSUME NEW w \in Workers, Claim(w) PROVE TypeOK' /\ Standing'
  <2>1. PICK S \in SUBSET Opportunities :
          /\ batch' = [batch EXCEPT ![w] = S]
          /\ status' = [o \in Opportunities |-> IF o \in S THEN "RESEARCHING" ELSE status[o]]
          /\ stale' = [o \in Opportunities |-> IF o \in S THEN FALSE ELSE stale[o]]
    BY <1>5 DEF Claim
  <2>2. /\ batch' \in [Workers -> SUBSET Opportunities]
        /\ status' \in [Opportunities -> {"ABSENT", "DETECTED", "RESEARCHING", "SELECTED"}]
        /\ stale' \in [Opportunities -> BOOLEAN]
    BY <2>1 DEF TypeOK
  <2> QED
    BY <1>5, <2>2 DEF Claim, Goto, TypeOK, Standing
<1>6. ASSUME NEW w \in Workers, NEW o \in Opportunities, Begin(w, o)
      PROVE  TypeOK' /\ Standing'
  <2>1. CASE status[o] # "RESEARCHING"
    BY <1>6, <2>1 DEF Begin, TypeOK, Standing, rowVars
  <2>2. CASE status[o] = "RESEARCHING"
    <3>1. PICK C \in SUBSET Universes :
            IF Cardinality(C) < 2
            THEN Fault /\ Goto(w, "giveup") /\ UNCHANGED <<field, todo, known>>
            ELSE /\ Goto(w, "generate")
                 /\ field' = [field EXCEPT ![w] = C]
                 /\ todo' = [todo EXCEPT ![w] = Unasked(o, C)]
                 /\ known' = [known EXCEPT ![w] = [x \in Theses |-> thesis[o][x].status]]
                 /\ UNCHANGED faults
      BY <1>6, <2>2 DEF Begin
    <3>2. /\ pc[w] = "next"
          /\ batch' = [batch EXCEPT ![w] = @ \ {o}]
          /\ at' = [at EXCEPT ![w] = o]
          /\ contested' = IF Elsewhere(w, o) THEN contested \cup {o} ELSE contested
          /\ UNCHANGED <<rowVars, down>>
      BY <1>6, <2>2 DEF Begin
    <3>3. Cardinality(C) < 2 \/ C # {}
      BY FS_EmptySet
    <3>4. [x \in Theses |-> thesis[o][x].status] \in [Theses -> ThesisStatus]
      BY DEF TypeOK
    <3>5. TypeOK'
      <4>1. /\ at' \in [Workers -> Opportunities \cup {None}]
            /\ batch' \in [Workers -> SUBSET Opportunities]
            /\ contested' \subseteq Opportunities
        BY <3>2 DEF TypeOK
      <4>2. CASE Cardinality(C) < 2
        BY <1>f, <3>1, <3>2, <4>1, <4>2 DEF Goto, TypeOK, rowVars
      <4>3. CASE ~(Cardinality(C) < 2)
        <5>1. /\ Goto(w, "generate") /\ UNCHANGED faults
              /\ field' = [field EXCEPT ![w] = C]
              /\ todo' = [todo EXCEPT ![w] = Unasked(o, C)]
              /\ known' = [known EXCEPT ![w] = [x \in Theses |-> thesis[o][x].status]]
          BY <3>1, <4>3
        <5>2. Unasked(o, C) \in SUBSET Universes
          BY DEF Unasked
        <5>3. /\ field' \in [Workers -> SUBSET Universes]
              /\ todo' \in [Workers -> SUBSET Universes]
          BY <5>1, <5>2 DEF TypeOK
        <5>4. known' \in [Workers -> [Theses -> ThesisStatus]]
          BY <3>4, <5>1 DEF TypeOK
        <5> QED
          BY <3>2, <4>1, <5>1, <5>3, <5>4 DEF Goto, TypeOK, rowVars
      <4> QED
        BY <4>2, <4>3
    <3>6. Standing'
      BY <1>n, <3>1, <3>2, <3>3 DEF Goto, TypeOK, Standing
    <3> QED
      BY <3>5, <3>6
  <2> QED
    BY <2>1, <2>2
<1>7. ASSUME NEW w \in Workers, EndCycle(w) PROVE TypeOK' /\ Standing'
  BY <1>7 DEF EndCycle, Goto, TypeOK, Standing, rowVars
<1>8. ASSUME NEW w \in Workers, NEW u \in Universes, AskCompetitor(w, u)
      PROVE  TypeOK' /\ Standing'
  <2>1. at[w] \in Opportunities /\ todo' \in [Workers -> SUBSET Universes]
    BY <1>8 DEF AskCompetitor, TypeOK, Standing
  <2>2. Standing'
    BY <1>8 DEF AskCompetitor, Standing
  <2>3. CASE Submit(w, u, FALSE) /\ UNCHANGED <<down, faults>>
    BY <1>8, <2>1, <2>2, <2>3, SubmitTypes DEF AskCompetitor, TypeOK
  <2>4. CASE CallFails(w, u) /\ UNCHANGED <<thesis, known>>
    <3> DEFINE Chains == {ChainOf[v] : v \in Universes}
    <3>c. down \in [Workers -> SUBSET Chains] /\ ChainOf[u] \in Chains
      BY <2>1 DEF TypeOK
    <3>d. down' \in [Workers -> SUBSET Chains]
      <4> HIDE DEF Chains
      <4> QED
        BY <2>4, <3>c DEF CallFails, NoteFailure
    <3>1. down' \in [Workers -> SUBSET {ChainOf[v] : v \in Universes}]
      BY <3>d
    <3>2. faults' \in 0 .. MaxFaults
      BY <1>f, <2>4 DEF CallFails, NoteFailure, TypeOK
    <3> QED
      BY <1>8, <2>1, <2>2, <2>4, <3>1, <3>2 DEF AskCompetitor, TypeOK
  <2>5. CASE UNCHANGED <<thesis, known, down, faults>>
    BY <1>8, <2>1, <2>2, <2>5 DEF AskCompetitor, TypeOK
  <2> QED
    BY <1>8, <2>3, <2>4, <2>5 DEF AskCompetitor
<1>9. ASSUME NEW w \in Workers, Judge(w) PROVE TypeOK' /\ Standing'
  BY <1>9 DEF Judge, Goto, TypeOK, Standing, rowVars
<1>10. ASSUME NEW w \in Workers, ComposeThesis(w) PROVE TypeOK' /\ Standing'
  <2>1. at[w] \in Opportunities /\ Composer(w) \in Universes
    BY <1>10 DEF ComposeThesis, Composed, Composer, TypeOK, Standing
  <2>2. Standing'
    BY <1>10 DEF ComposeThesis, Composed, Goto, TypeOK, Standing
  <2>3. CASE Submit(w, Composer(w), TRUE) /\ UNCHANGED <<down, faults>>
    BY <1>10, <2>1, <2>2, <2>3, SubmitTypes DEF ComposeThesis, Composed, Goto, TypeOK
  <2>4. CASE CallFails(w, Composer(w)) /\ UNCHANGED <<thesis, known>>
    <3> DEFINE Chains == {ChainOf[v] : v \in Universes}
    <3>c. down \in [Workers -> SUBSET Chains] /\ ChainOf[Composer(w)] \in Chains
      BY <2>1 DEF TypeOK
    <3>d. down' \in [Workers -> SUBSET Chains]
      <4> HIDE DEF Chains
      <4> QED
        BY <2>4, <3>c DEF CallFails, NoteFailure
    <3>1. down' \in [Workers -> SUBSET {ChainOf[v] : v \in Universes}]
      BY <3>d
    <3>2. faults' \in 0 .. MaxFaults
      BY <1>f, <2>4 DEF CallFails, NoteFailure, TypeOK
    <3> QED
      BY <1>10, <2>1, <2>2, <2>4, <3>1, <3>2 DEF ComposeThesis, Composed, Goto, TypeOK
  <2> QED
    BY <1>10, <2>3, <2>4 DEF ComposeThesis, Composed
<1>11. ASSUME NEW w \in Workers, NEW o \in Opportunities, NEW x \in Theses, Resolve(w, o, x)
       PROVE  TypeOK' /\ Standing'
  <2>1. Resolved(w, o, x) \in [Theses ->
           [by : Universes \cup {None}, composed : BOOLEAN, status : ThesisStatus]]
    <3>1. \A y \in Theses : thesis[o][y] \in
            [by : Universes \cup {None}, composed : BOOLEAN, status : ThesisStatus]
      BY DEF TypeOK
    <3>2. ASSUME NEW y \in Theses, NEW s \in ThesisStatus
          PROVE  [thesis[o][y] EXCEPT !.status = s] \in
                   [by : Universes \cup {None}, composed : BOOLEAN, status : ThesisStatus]
      BY <3>1, StatusWritten
    <3> QED
      BY <1>s, <3>1, <3>2 DEF Resolved
  <2>2. CASE LeaseAllows(o, x)
    <3>1. thesis' = [thesis EXCEPT ![o] = Resolved(w, o, x)]
      BY <1>11, <2>2 DEF Resolve
    <3>2. thesis' \in [Opportunities -> [Theses ->
             [by : Universes \cup {None}, composed : BOOLEAN, status : ThesisStatus]]]
      BY <2>1, <3>1 DEF TypeOK
    <3>3. lease' \in [Opportunities -> [thesis : Theses \cup {None}, lapsed : BOOLEAN]]
      <4>1. lease' \in {lease, [lease EXCEPT ![o] = [thesis |-> x, lapsed |-> FALSE]]}
        BY <1>11, <2>2 DEF Resolve
      <4>2. [thesis |-> x, lapsed |-> FALSE] \in [thesis : Theses \cup {None}, lapsed : BOOLEAN]
        OBVIOUS
      <4> QED
        BY <4>1, <4>2 DEF TypeOK
    <3>4. /\ SetStatus(o, "SELECTED") /\ Leave(w)
          /\ UNCHANGED <<stale, mission, contested, batch, down, faults>>
      BY <1>11, <2>2 DEF Resolve
    <3> QED
      BY <1>u, <3>2, <3>3, <3>4 DEF SetStatus, Leave, Goto, TypeOK, Standing
  <2>3. CASE ~LeaseAllows(o, x)
    BY <1>11, <2>3 DEF Resolve, Goto, TypeOK, Standing
  <2> QED
    BY <2>2, <2>3
<1>12. ASSUME NEW w \in Workers, NEW o \in Opportunities, GiveUp(w, o)
       PROVE  TypeOK' /\ Standing'
  BY <1>12, <1>u DEF GiveUp, Reopen, SetStatus, Leave, Goto, TypeOK, Standing
<1>13. ASSUME NEW w \in Workers, Fails(w) PROVE TypeOK' /\ Standing'
  BY <1>13, <1>f DEF Fails, Goto, TypeOK, Standing, rowVars
<1>14. ASSUME NEW w \in Workers, NEW o \in Opportunities, LookAgain(w, o)
       PROVE  TypeOK' /\ Standing'
  <2>1. CASE status[o] = "RESEARCHING"
    BY <1>14, <2>1 DEF LookAgain, Goto, TypeOK, Standing, rowVars
  <2>2. CASE status[o] # "RESEARCHING"
    <3>1. Leave(w) /\ UNCHANGED <<rowVars, contested, batch, down, faults>>
      BY <1>14, <2>2 DEF LookAgain
    <3> QED
      BY <1>u, <3>1 DEF Leave, Goto, TypeOK, Standing, rowVars
  <2> QED
    BY <2>1, <2>2
<1>15. ASSUME NEW w \in Workers, NEW o \in Opportunities, Reset(w, o)
       PROVE  TypeOK' /\ Standing'
  BY <1>15, <1>u DEF Reset, Reopen, SetStatus, Leave, Goto, TypeOK, Standing
<1>16. ASSUME NEW w \in Workers, Dies(w) PROVE TypeOK' /\ Standing'
  BY <1>16, <1>u, <1>f DEF Dies, Goto, TypeOK, Standing, rowVars
<1>17. CASE UNCHANGED vars
  BY <1>17 DEF vars, rowVars, workerVars, TypeOK, Standing
<1> QED
  BY <1>1, <1>2, <1>3, <1>4, <1>5, <1>6, <1>7, <1>8, <1>9, <1>10, <1>11, <1>12, <1>13,
     <1>14, <1>15, <1>16, <1>17 DEF Next, Time, Work, Process

-----------------------------------------------------------------------------
(* Steps that leave an opportunity undecided, or decided, as it was.        *)
LEMMA Calm ==
  ASSUME NEW o \in Opportunities, Sound(o),
         thesis'[o] = thesis[o], mission'[o] = mission[o],
         lease'[o].thesis \in {lease[o].thesis, None},
         \/ status'[o] = status[o]
         \/ /\ "SELECTED" \notin {status[o], status'[o]}
            /\ status'[o] = "RESEARCHING" \/ \A w \in Workers : at'[w] # o,
         \A w \in Workers : at'[w] = o =>
           /\ at[w] = o
           /\ pc'[w] \in Judging =>
                pc'[w] = pc[w] /\ known'[w] = known[w] /\ todo'[w] \subseteq todo[w]
  PROVE  Sound(o)'
<1>1. InOneHand(o)'
  BY DEF Sound, InOneHand
<1>2. OpenUntilDecided(o)'
  BY DEF Sound, OpenUntilDecided
<1>3. Rows(o)' = Rows(o)
  BY DEF Rows
<1>4. DecidedOnce(o)'
  <2> SUFFICES ASSUME status'[o] = "SELECTED"
               PROVE  \E x \in Theses :
                        /\ \A y \in Theses : thesis'[o][y].status = "SELECTED" <=> y = x
                        /\ {lease'[o].thesis, mission'[o]} \subseteq {x, None}
                        /\ \A y \in Rows(o)' : y <= x
                        /\ \E y \in Rows(o)' : y # x
    BY DEF DecidedOnce
  <2>1. PICK x \in Theses :
          /\ \A y \in Theses : thesis[o][y].status = "SELECTED" <=> y = x
          /\ {lease[o].thesis, mission[o]} \subseteq {x, None}
          /\ \A y \in Rows(o) : y <= x
          /\ \E y \in Rows(o) : y # x
    BY DEF Sound, DecidedOnce
  <2> QED
    BY <1>3, <2>1
<1>5. AskedInTurn(o)'
  BY <1>3 DEF Sound, AskedInTurn, Judging, Unasked
<1>6. ProposedOnce(o)'
  BY <1>3 DEF Sound, ProposedOnce
<1> QED
  BY <1>1, <1>2, <1>4, <1>5, <1>6 DEF Sound

(* A worker that submits at an opportunity in its hand keeps it sound, if   *)
(* this Universe has not proposed, or nothing was composed before.          *)
LEMMA SubmitSound ==
  ASSUME TypeOK, NEW o \in Opportunities, Sound(o), NEW w \in Workers, at[w] = o,
         NEW u \in Universes, NEW c \in BOOLEAN, Submit(w, u, c),
         UNCHANGED <<status, lease, mission, at>>,
         IF c THEN \A x \in Rows(o) : ~thesis[o][x].composed ELSE u \in Unasked(o, {u}),
         \A v \in Workers \ {w} : pc'[v] = pc[v],
         pc[w] \in Judging,
         \/ pc'[w] = "generate" /\ pc[w] = "generate" /\ ~c /\ todo'[w] = todo[w] \ {u}
         \/ pc'[w] = "resolve" /\ \E x, y \in Rows(o) : x # y
  PROVE  Sound(o)'
<1>1. PICK x \in Theses :
        /\ thesis[o][x].status = "NONE"
        /\ thesis'[o][x] = [by |-> u, composed |-> c, status |-> "PROPOSED"]
        /\ known'[w][x] = "PROPOSED"
        /\ \A y \in Theses \ {x} :
             thesis'[o][y] = thesis[o][y] /\ known'[w][y] = known[w][y]
  BY SubmitAdds
<1>2. Rows(o)' = Rows(o) \cup {x} /\ x \notin Rows(o) /\ Rows(o) \subseteq Theses
  BY <1>1 DEF Rows
<1>3. /\ thesis'[o][x].by = u /\ thesis'[o][x].composed = c
      /\ thesis'[o][x].status = "PROPOSED"
  BY <1>1
<1>4. InOneHand(o)'
  BY <1>1, <1>3 DEF Sound, InOneHand, Judging
<1>5. OpenUntilDecided(o)' /\ DecidedOnce(o)'
  BY <1>1, <1>3 DEF Sound, InOneHand, OpenUntilDecided, DecidedOnce
<1>6. AskedInTurn(o)'
  <2>1. \A v \in Workers : at'[v] = o => v = w
    BY DEF Sound, InOneHand
  <2>2. ASSUME pc'[w] = "generate", NEW t \in todo'[w], NEW y \in Theses,
               thesis'[o][y].by = t
        PROVE  thesis'[o][y].composed
    BY <1>1, <1>3, <2>2 DEF Sound, AskedInTurn, Unasked
  <2>3. \A t \in todo'[w] : pc'[w] = "generate" => (t \in Unasked(o, {t}))'
    BY <2>2 DEF Unasked
  <2>4. pc'[w] = "resolve" => \E y, z \in Rows(o)' : y # z
    BY <1>2
  <2> QED
    BY <2>1, <2>3, <2>4 DEF AskedInTurn
<1>7. ProposedOnce(o)'
  <2>1. \A y \in Rows(o) : thesis'[o][y] = thesis[o][y]
    BY <1>1, <1>2
  <2>2. \A y \in Rows(o) :
          ~(/\ thesis[o][y].composed = c
            /\ c \/ thesis[o][y].by = u)
    BY <1>2 DEF Unasked
  <2> QED
    BY <1>2, <1>3, <2>1, <2>2 DEF Sound, ProposedOnce
<1> QED
  BY <1>4, <1>5, <1>6, <1>7 DEF Sound

-----------------------------------------------------------------------------
(* Every step keeps every opportunity that it leaves uncontested sound.     *)

LEMMA InitSound == Init => \A o \in Uncontested : Sound(o)
<1> SUFFICES ASSUME Init, NEW o \in Opportunities PROVE Sound(o)
  BY DEF Uncontested
<1>1. None \notin Opportunities
  BY CompetitionAssumption
<1>2. /\ \A w \in Workers : at[w] # o
      /\ \A x \in Theses : thesis[o][x].status = "NONE"
  BY <1>1 DEF Init, NoThesis
<1>3. status[o] = "ABSENT" /\ lease[o].thesis = None /\ mission[o] = None
  BY DEF Init, NoLease
<1> QED
  BY <1>2, <1>3
  DEF Sound, InOneHand, OpenUntilDecided, DecidedOnce, AskedInTurn, ProposedOnce, Rows

LEMMA RowStepSound ==
  ASSUME TypeOK, NEW p \in Opportunities, NEW o \in Opportunities, Sound(o),
         \/ Detect(p) \/ Time(p) \/ \E x \in Theses : LaunchMission(p, x)
  PROVE  Sound(o)'
<1>1. CASE Detect(p)
  <2>1. o = p => \A w \in Workers : at[w] # o
    BY <1>1 DEF Detect, Sound, InOneHand
  <2>2. UNCHANGED <<thesis, lease, mission, pc, at, todo, known>>
    BY <1>1 DEF Detect, workerVars
  <2>3. CASE o # p
    <3>1. status'[o] = status[o]
      BY <1>1, <2>3 DEF Detect, SetStatus, TypeOK
    <3> QED
      BY <2>2, <3>1, Calm
  <2>4. CASE o = p
    <3>1. status[o] = "ABSENT" /\ status'[o] = "DETECTED"
      BY <1>1, <2>4 DEF Detect, SetStatus, TypeOK
    <3> QED
      BY <2>1, <2>2, <2>4, <3>1, Calm
  <2> QED
    BY <2>3, <2>4
<1>2. CASE ClaimAges(p)
  BY <1>2, Calm DEF ClaimAges, workerVars
<1>3. CASE LeaseLapses(p)
  BY <1>3, Calm DEF LeaseLapses, workerVars, TypeOK
<1>4. ASSUME NEW x \in Theses, LaunchMission(p, x) PROVE Sound(o)'
  <2>1. CASE lease[p].lapsed
    <3>1. lease'[o].thesis \in {lease[o].thesis, None}
      <4>1. lease' = [lease EXCEPT ![p] = NoLease] /\ NoLease.thesis = None
        BY <1>4, <2>1 DEF LaunchMission, NoLease
      <4> QED
        BY <4>1 DEF TypeOK
    <3> QED
      BY <1>4, <2>1, <3>1, Calm DEF LaunchMission, workerVars
  <2>2. CASE ~lease[p].lapsed /\ o # p
    BY <1>4, <2>2, Calm DEF LaunchMission, workerVars, TypeOK
  <2>3. CASE ~lease[p].lapsed /\ o = p
    <3>1. /\ UNCHANGED <<status, thesis, lease, workerVars>>
          /\ mission'[o] = x /\ thesis[o][x].status = "SELECTED"
      BY <1>4, <2>3 DEF LaunchMission, MayLaunch, TypeOK
    <3>2. status[o] = "SELECTED"
      BY <3>1 DEF Sound, OpenUntilDecided
    <3>3. DecidedOnce(o)'
      BY <3>1, <3>2 DEF Sound, DecidedOnce, Rows
    <3> QED
      BY <3>1, <3>2, <3>3
      DEF Sound, InOneHand, OpenUntilDecided, AskedInTurn, ProposedOnce, Rows, Unasked, workerVars
  <2> QED
    BY <2>1, <2>2, <2>3
<1> QED
  BY <1>1, <1>2, <1>3, <1>4 DEF Time

LEMMA ClaimSound ==
  ASSUME TypeOK, NEW w \in Workers, Claim(w), NEW o \in Opportunities, Sound(o)
  PROVE  Sound(o)'
<1>1. PICK S \in SUBSET {p \in Opportunities : Claimable(p)} :
        status' = [p \in Opportunities |-> IF p \in S THEN "RESEARCHING" ELSE status[p]]
  BY DEF Claim
<1>2. \/ status'[o] = status[o]
      \/ status[o] # "SELECTED" /\ status'[o] = "RESEARCHING"
  BY <1>1 DEF Claimable
<1>3. \A v \in Workers : pc'[v] \in Judging => pc'[v] = pc[v]
  BY DEF Claim, Goto, Judging, TypeOK
<1> QED
  BY <1>2, <1>3, Calm DEF Claim

LEMMA BeginSound ==
  ASSUME TypeOK, Standing, NEW w \in Workers, NEW p \in Opportunities, Begin(w, p),
         NEW o \in Opportunities, o \notin contested', Sound(o)
  PROVE  Sound(o)'
<1>1. CASE status[p] # "RESEARCHING"
  BY <1>1, Calm DEF Begin, rowVars
<1>2. CASE status[p] = "RESEARCHING"
  <2>1. PICK C \in SUBSET Universes :
          IF Cardinality(C) < 2
          THEN Goto(w, "giveup") /\ UNCHANGED <<todo, known>>
          ELSE /\ Goto(w, "generate")
               /\ todo' = [todo EXCEPT ![w] = Unasked(p, C)]
               /\ known' = [known EXCEPT ![w] = [x \in Theses |-> thesis[p][x].status]]
    BY <1>2 DEF Begin
  <2>2. /\ at' = [at EXCEPT ![w] = p] /\ UNCHANGED rowVars
        /\ contested' = IF Elsewhere(w, p) THEN contested \cup {p} ELSE contested
    BY <1>2 DEF Begin
  <2>3. CASE o # p
    BY <2>1, <2>2, <2>3, Calm DEF Goto, Judging, rowVars, TypeOK
  <2>4. CASE o = p
    <3>1. \A v \in Workers : at'[v] = o => v = w
      BY <2>2, <2>4 DEF Elsewhere, TypeOK
    <3>2. InOneHand(o)'
      <4>1. CASE Cardinality(C) < 2
        BY <1>2, <2>1, <2>2, <2>4, <3>1, <4>1 DEF InOneHand, Goto, Judging, rowVars, TypeOK
      <4>2. CASE ~(Cardinality(C) < 2)
        <5>1. \A x \in Theses : known'[w][x] = thesis'[o][x].status
          BY <2>1, <2>2, <2>4, <4>2 DEF rowVars, TypeOK
        <5> QED
          BY <1>2, <2>2, <2>4, <3>1, <5>1 DEF InOneHand, rowVars
      <4> QED
        BY <4>1, <4>2
    <3>3. AskedInTurn(o)'
      <4>1. pc'[w] \in {"generate", "giveup"}
        BY <2>1 DEF Goto, TypeOK
      <4>2. pc'[w] = "generate" => todo'[w] = Unasked(p, C)
        BY <2>1 DEF Goto, TypeOK
      <4>3. UNCHANGED thesis
        BY <2>2 DEF rowVars
      <4> QED
        BY <2>4, <3>1, <4>1, <4>2, <4>3 DEF AskedInTurn, Unasked
    <3>4. OpenUntilDecided(o)' /\ DecidedOnce(o)' /\ ProposedOnce(o)'
      BY <2>2 DEF Sound, OpenUntilDecided, DecidedOnce, ProposedOnce, Rows, rowVars
    <3> QED
      BY <3>2, <3>3, <3>4 DEF Sound
  <2> QED
    BY <2>3, <2>4
<1> QED
  BY <1>1, <1>2

LEMMA AskSound ==
  ASSUME TypeOK, Standing, NEW w \in Workers, NEW u \in Universes, AskCompetitor(w, u),
         NEW o \in Opportunities, Sound(o)
  PROVE  Sound(o)'
<1>1. at[w] \in Opportunities /\ pc[w] = "generate" /\ u \in todo[w]
  BY DEF AskCompetitor, TypeOK, Standing
<1>2. /\ todo' = [todo EXCEPT ![w] = @ \ {u}]
      /\ UNCHANGED <<status, lease, mission, pc, at>>
  BY DEF AskCompetitor
<1>3. CASE Submit(w, u, FALSE) /\ at[w] = o
  <2>1. u \in Unasked(o, {u})
    BY <1>1, <1>3 DEF Sound, AskedInTurn
  <2>2. todo'[w] = todo[w] \ {u}
    BY <1>2 DEF TypeOK
  <2> QED
    BY <1>1, <1>2, <1>3, <2>1, <2>2, SubmitSound DEF Judging
<1>4. CASE Submit(w, u, FALSE) /\ at[w] # o
  <2>1. thesis'[o] = thesis[o] /\ \A v \in Workers \ {w} : known'[v] = known[v]
    BY <1>1, <1>4, SubmitAdds
  <2> QED
    BY <1>2, <1>4, <2>1, Calm DEF TypeOK
<1>5. CASE UNCHANGED <<thesis, known>>
  BY <1>2, <1>5, Calm DEF TypeOK
<1> QED
  BY <1>3, <1>4, <1>5 DEF AskCompetitor

LEMMA JudgeSound ==
  ASSUME TypeOK, NEW w \in Workers, Judge(w), NEW o \in Opportunities, Sound(o)
  PROVE  Sound(o)'
<1>1. /\ pc[w] = "generate"
      /\ pc'[w] \in {"giveup", "compose", "resolve"}
      /\ pc'[w] \in {"compose", "resolve"} => ~(Cardinality(Mine(w)) < 2)
      /\ pc'[w] = "compose" => ~HasComposition(w)
      /\ \A v \in Workers \ {w} : pc'[v] = pc[v]
  BY DEF Judge, Goto, TypeOK
<1>2. UNCHANGED <<rowVars, at, todo, known>>
  BY DEF Judge
<1>3. CASE at[w] # o
  BY <1>1, <1>2, <1>3, Calm DEF rowVars
<1>4. CASE at[w] = o
  <2>1. Mine(w) = Rows(o)
    BY <1>1, <1>4 DEF Sound, InOneHand, Mine, Rows, Judging
  <2>2. \A v \in Workers : at[v] = o => v = w
    BY <1>4 DEF Sound, InOneHand
  <2>3. InOneHand(o)'
    BY <1>1, <1>2, <1>4, <2>2 DEF Sound, InOneHand, Judging, rowVars
  <2>4. AskedInTurn(o)'
    <3>1. pc'[w] \in {"compose", "resolve"} => \E x, y \in Rows(o) : x # y
      BY <1>1, <2>1, TwoOf
    <3>2. pc'[w] = "compose" => \A x \in Rows(o) : ~thesis[o][x].composed
      BY <1>1, <1>4, <2>1 DEF HasComposition
    <3>3. Rows(o)' = Rows(o)
      BY <1>2 DEF Rows, rowVars
    <3> QED
      BY <1>1, <1>2, <2>2, <3>1, <3>2, <3>3 DEF AskedInTurn, rowVars
  <2>5. OpenUntilDecided(o)' /\ DecidedOnce(o)' /\ ProposedOnce(o)'
    BY <1>2 DEF Sound, OpenUntilDecided, DecidedOnce, ProposedOnce, Rows, rowVars
  <2> QED
    BY <2>3, <2>4, <2>5 DEF Sound
<1> QED
  BY <1>3, <1>4

LEMMA ComposeSound ==
  ASSUME TypeOK, Standing, NEW w \in Workers, ComposeThesis(w),
         NEW o \in Opportunities, Sound(o)
  PROVE  Sound(o)'
<1>1. /\ at[w] \in Opportunities /\ Composer(w) \in Universes
      /\ pc[w] = "compose" /\ pc'[w] = "resolve"
      /\ \A v \in Workers \ {w} : pc'[v] = pc[v]
  BY DEF ComposeThesis, Composed, Composer, Goto, TypeOK, Standing
<1>2. UNCHANGED <<status, lease, mission, at, todo>>
  BY DEF ComposeThesis, Composed
<1>3. at[w] = o => /\ \A x \in Rows(o) : ~thesis[o][x].composed
                   /\ \E x, y \in Rows(o) : x # y
  BY <1>1 DEF Sound, AskedInTurn
<1>4. CASE Submit(w, Composer(w), TRUE) /\ at[w] = o
  BY <1>1, <1>2, <1>3, <1>4, SubmitSound DEF Judging
<1>5. CASE Submit(w, Composer(w), TRUE) /\ at[w] # o
  <2>1. thesis'[o] = thesis[o] /\ \A v \in Workers \ {w} : known'[v] = known[v]
    BY <1>1, <1>5, SubmitAdds
  <2> QED
    BY <1>1, <1>2, <1>5, <2>1, Calm
<1>6. CASE UNCHANGED <<thesis, known>> /\ at[w] # o
  BY <1>1, <1>2, <1>6, Calm
<1>7. CASE UNCHANGED <<thesis, known>> /\ at[w] = o
  <2>1. InOneHand(o)'
    BY <1>1, <1>2, <1>7 DEF Sound, InOneHand, Judging
  <2>2. AskedInTurn(o)'
    BY <1>1, <1>2, <1>3, <1>7 DEF Sound, InOneHand, AskedInTurn, Rows
  <2>3. OpenUntilDecided(o)' /\ DecidedOnce(o)' /\ ProposedOnce(o)'
    BY <1>2, <1>7 DEF Sound, OpenUntilDecided, DecidedOnce, ProposedOnce, Rows
  <2> QED
    BY <2>1, <2>2, <2>3 DEF Sound
<1> QED
  BY <1>4, <1>5, <1>6, <1>7 DEF ComposeThesis, Composed

(* A decision leaves the winner SELECTED and nothing else.                  *)
LEMMA ResolveDecides ==
  ASSUME TypeOK, NEW w \in Workers, NEW o \in Opportunities, NEW x \in Theses,
         Resolve(w, o, x), LeaseAllows(o, x), Sound(o)
  PROVE  /\ status'[o] = "SELECTED" /\ Rows(o)' = Rows(o)
         /\ \A y \in Theses : thesis'[o][y].status = "SELECTED" <=> y = x
         /\ \A y \in Theses : /\ thesis'[o][y].by = thesis[o][y].by
                             /\ thesis'[o][y].composed = thesis[o][y].composed
         /\ lease'[o].thesis = x /\ mission'[o] = None
         /\ x \in Rows(o) /\ \A y \in Rows(o) : y <= x
         /\ \A v \in Workers : at'[v] # o
<1>1. /\ pc[w] = "resolve" /\ at[w] = o /\ Wins(x, Mine(w))
      /\ SetStatus(o, "SELECTED") /\ thesis' = [thesis EXCEPT ![o] = Resolved(w, o, x)]
      /\ Leave(w) /\ UNCHANGED mission
  BY DEF Resolve
<1>2. /\ \A v \in Workers : at[v] = o => v = w
      /\ status[o] = "RESEARCHING"
      /\ \A y \in Theses : known[w][y] = thesis[o][y].status
  BY <1>1 DEF Sound, InOneHand, Judging
<1>3. Mine(w) = Rows(o)
  BY <1>2 DEF Mine, Rows
<1>4. \A v \in Workers : at'[v] # o
  BY <1>1, <1>2, CompetitionAssumption DEF Leave, TypeOK
<1>5. status'[o] = "SELECTED" /\ mission'[o] = None
  BY <1>1, <1>2 DEF SetStatus, TypeOK, Sound, OpenUntilDecided
<1>6. lease'[o].thesis = x
  BY DEF Resolve, TypeOK
<1>7. \A y \in Theses :
        thesis'[o][y] = IF y \in Rows(o) /\ thesis[o][y].status # (IF y = x THEN "SELECTED" ELSE "PROPOSED")
                        THEN [thesis[o][y] EXCEPT !.status = IF y = x THEN "SELECTED" ELSE "PROPOSED"]
                        ELSE thesis[o][y]
  BY <1>1, <1>2, <1>3 DEF Resolved, TypeOK
<1>8. ASSUME NEW y \in Theses
      PROVE  /\ thesis'[o][y].status = IF y \in Rows(o)
                                       THEN IF y = x THEN "SELECTED" ELSE "PROPOSED"
                                       ELSE "NONE"
             /\ thesis'[o][y].by = thesis[o][y].by
             /\ thesis'[o][y].composed = thesis[o][y].composed
  <2>1. thesis[o][y] \in [by : Universes \cup {None}, composed : BOOLEAN, status : ThesisStatus]
    BY DEF TypeOK
  <2>2. "SELECTED" \in ThesisStatus /\ "PROPOSED" \in ThesisStatus
    BY DEF ThesisStatus
  <2> DEFINE s == IF y = x THEN "SELECTED" ELSE "PROPOSED"
  <2>3. /\ [thesis[o][y] EXCEPT !.status = s].status = s
        /\ [thesis[o][y] EXCEPT !.status = s].by = thesis[o][y].by
        /\ [thesis[o][y] EXCEPT !.status = s].composed = thesis[o][y].composed
    BY <2>1, <2>2, StatusWritten
  <2>4. CASE y \in Rows(o) /\ thesis[o][y].status # s
    BY <1>7, <2>3, <2>4
  <2>5. CASE ~(y \in Rows(o) /\ thesis[o][y].status # s)
    BY <1>7, <2>5 DEF Rows
  <2> QED
    BY <2>4, <2>5
<1>9. x \in Rows(o) /\ \A y \in Rows(o) : y <= x
  BY <1>1, <1>3 DEF Wins
<1>10. Rows(o)' = Rows(o)
  BY <1>8 DEF Rows
<1> QED
  BY <1>4, <1>5, <1>6, <1>8, <1>9, <1>10

LEMMA ResolveSound ==
  ASSUME TypeOK, NEW w \in Workers, NEW p \in Opportunities, NEW x \in Theses,
         Resolve(w, p, x), NEW o \in Opportunities, Sound(o)
  PROVE  Sound(o)'
<1>1. CASE ~LeaseAllows(p, x)
  BY <1>1, Calm DEF Resolve, Goto, Judging, TypeOK
<1>2. CASE LeaseAllows(p, x) /\ o # p
  <2>1. UNCHANGED <<status[o], thesis[o], lease[o], mission[o]>>
    BY <1>2 DEF Resolve, SetStatus, TypeOK
  <2>2. \A v \in Workers : at'[v] = o =>
          at[v] = o /\ pc'[v] = pc[v] /\ known'[v] = known[v] /\ todo'[v] = todo[v]
    BY <1>2, CompetitionAssumption DEF Resolve, Leave, Goto, TypeOK
  <2> QED
    BY <2>1, <2>2, Calm
<1>3. CASE LeaseAllows(p, x) /\ o = p
  <2>1. /\ status'[o] = "SELECTED" /\ Rows(o)' = Rows(o)
        /\ \A y \in Theses : thesis'[o][y].status = "SELECTED" <=> y = x
        /\ \A y \in Theses : /\ thesis'[o][y].by = thesis[o][y].by
                            /\ thesis'[o][y].composed = thesis[o][y].composed
        /\ lease'[o].thesis = x /\ mission'[o] = None
        /\ x \in Rows(o) /\ \A y \in Rows(o) : y <= x
        /\ \A v \in Workers : at'[v] # o
    BY <1>3, ResolveDecides
  <2>2. \E y \in Rows(o) : y # x
    BY <1>3, <2>1 DEF Resolve, Sound, AskedInTurn
  <2>3. InOneHand(o)' /\ AskedInTurn(o)' /\ OpenUntilDecided(o)'
    BY <2>1 DEF InOneHand, AskedInTurn, OpenUntilDecided
  <2>4. DecidedOnce(o)'
    BY <2>1, <2>2 DEF DecidedOnce
  <2>5. ProposedOnce(o)'
    BY <2>1 DEF Sound, ProposedOnce, Rows
  <2> QED
    BY <2>3, <2>4, <2>5 DEF Sound
<1> QED
  BY <1>1, <1>2, <1>3

(* The ends of an attempt. *)
LEMMA EndSound ==
  ASSUME TypeOK, NEW w \in Workers, NEW o \in Opportunities, Sound(o),
         \/ EndCycle(w) \/ Fails(w) \/ Dies(w)
         \/ \E p \in Opportunities : GiveUp(w, p) \/ LookAgain(w, p) \/ Reset(w, p)
  PROVE  Sound(o)'
<1>n. None # o
  BY CompetitionAssumption
<1>1. CASE EndCycle(w)
  BY <1>1, Calm DEF EndCycle, Goto, Judging, rowVars, TypeOK
<1>2. CASE Fails(w)
  BY <1>2, Calm DEF Fails, Goto, Judging, rowVars, TypeOK
<1>3. CASE Dies(w)
  BY <1>n, <1>3, Calm DEF Dies, Goto, Judging, rowVars, TypeOK
<1>4. ASSUME NEW p \in Opportunities, LookAgain(w, p) PROVE Sound(o)'
  <2>1. UNCHANGED rowVars
    BY <1>4 DEF LookAgain
  <2>2. \A v \in Workers : at'[v] = o =>
          /\ at[v] = o
          /\ pc'[v] \in Judging =>
               pc'[v] = pc[v] /\ known'[v] = known[v] /\ todo'[v] = todo[v]
    BY <1>n, <1>4 DEF LookAgain, Leave, Goto, Judging, TypeOK
  <2> QED
    BY <2>1, <2>2, Calm DEF rowVars
<1>5. ASSUME NEW p \in Opportunities, GiveUp(w, p) \/ Reset(w, p) PROVE Sound(o)'
  <2>1. /\ at[w] = p /\ SetStatus(p, "DETECTED") /\ Leave(w)
        /\ UNCHANGED <<thesis, lease, mission>>
    BY <1>5 DEF GiveUp, Reset, Reopen
  <2>2. \A v \in Workers : at'[v] = o =>
          /\ v # w /\ at[v] = o
          /\ pc'[v] = pc[v] /\ known'[v] = known[v] /\ todo'[v] = todo[v]
    BY <1>n, <2>1 DEF Leave, Goto, TypeOK
  <2>3. CASE o # p
    <3>1. status'[o] = status[o]
      BY <2>1, <2>3 DEF SetStatus, TypeOK
    <3> QED
      BY <2>1, <2>2, <3>1, Calm
  <2>4. CASE o = p
    <3>1. /\ status[o] = "RESEARCHING" /\ status'[o] = "DETECTED"
          /\ \A v \in Workers : at'[v] # o
      BY <2>1, <2>2, <2>4 DEF SetStatus, TypeOK, Sound, InOneHand
    <3> QED
      BY <2>1, <3>1, Calm
  <2> QED
    BY <2>3, <2>4
<1> QED
  BY <1>1, <1>2, <1>3, <1>4, <1>5

LEMMA StepSound ==
  ASSUME TypeOK, Standing, [Next]_vars, NEW o \in Opportunities, o \notin contested', Sound(o)
  PROVE  Sound(o)'
<1>1. CASE UNCHANGED vars
  BY <1>1, Calm DEF vars, rowVars, workerVars
<1>2. CASE Next
  BY <1>2, RowStepSound, ClaimSound, BeginSound, AskSound, JudgeSound, ComposeSound,
     ResolveSound, EndSound DEF Next, Work, Process
<1> QED
  BY <1>1, <1>2

(* Once contested, always contested. *)
LEMMA ContestedStays == TypeOK /\ [Next]_vars => contested \subseteq contested'
<1> SUFFICES ASSUME TypeOK, [Next]_vars PROVE contested \subseteq contested'
  OBVIOUS
<1>1. CASE UNCHANGED vars
  BY <1>1 DEF vars
<1>2. ASSUME NEW o \in Opportunities,
             Detect(o) \/ Time(o) \/ \E x \in Theses : LaunchMission(o, x)
      PROVE  contested' = contested
  BY <1>2 DEF Detect, Time, ClaimAges, LeaseLapses, LaunchMission
<1>3. ASSUME NEW w \in Workers, NEW o \in Opportunities, Process(w, o)
      PROVE  contested \subseteq contested'
  <2>1. CASE Begin(w, o)
    BY <2>1 DEF Begin
  <2>2. CASE GiveUp(w, o) \/ LookAgain(w, o) \/ Reset(w, o)
    BY <2>2 DEF GiveUp, LookAgain, Reset
  <2>3. ASSUME NEW x \in Theses, Resolve(w, o, x)
        PROVE  contested' = contested
    BY <2>3 DEF Resolve
  <2> QED
    BY <1>3, <2>1, <2>2, <2>3 DEF Process
<1>4. ASSUME NEW w \in Workers, Claim(w) \/ EndCycle(w) \/ Judge(w) \/ ComposeThesis(w)
      PROVE  contested' = contested
  BY <1>4 DEF Claim, EndCycle, Judge, ComposeThesis, Composed
<1>5. ASSUME NEW w \in Workers, NEW u \in Universes, AskCompetitor(w, u)
      PROVE  contested' = contested
  BY <1>5 DEF AskCompetitor
<1>6. ASSUME NEW w \in Workers, Fails(w) \/ Dies(w)
      PROVE  contested' = contested
  BY <1>6 DEF Fails, Dies
<1> QED
  BY <1>1, <1>2, <1>3, <1>4, <1>5, <1>6 DEF Next, Work

-----------------------------------------------------------------------------
(* The theorems.                                                            *)

(* In every reachable state an uncontested opportunity is in one hand until *)
(* it is decided, and then decided once (OpportunityCompetitionWorker).     *)
THEOREM CompetitionInvariantHolds == Spec => []CompetitionInvariant
<1>1. Init => CompetitionInvariant
  BY InitTypes, InitSound DEF CompetitionInvariant
<1>2. CompetitionInvariant /\ [Next]_vars => CompetitionInvariant'
  BY StepTypes, StepSound, ContestedStays DEF CompetitionInvariant, Uncontested
<1> QED
  BY <1>1, <1>2, PTL DEF Spec

(* Rows and sessions keep their types. *)
THEOREM TypeCorrect == Spec => []TypeOK
<1>1. CompetitionInvariant => TypeOK
  BY DEF CompetitionInvariant
<1> QED
  BY <1>1, CompetitionInvariantHolds, PTL

(* An uncontested opportunity is SELECTED exactly when one of its theses    *)
(* is; its lease and its Mission are that thesis's (resolve_competition).   *)
THEOREM WinnerIsUnique == Spec => []OneWinner
<1>1. CompetitionInvariant => OneWinner
  <2> SUFFICES ASSUME CompetitionInvariant, NEW o \in Uncontested
               PROVE  /\ Cardinality(Selected(o)) = IF status[o] = "SELECTED" THEN 1 ELSE 0
                      /\ {lease[o].thesis, mission[o]} \subseteq Selected(o) \cup {None}
    BY DEF OneWinner
  <2>1. CASE status[o] # "SELECTED"
    <3>1. Selected(o) = {} /\ lease[o].thesis = None /\ mission[o] = None
      BY <2>1 DEF CompetitionInvariant, Sound, OpenUntilDecided, Selected
    <3> QED
      BY <2>1, <3>1, FS_EmptySet
  <2>2. CASE status[o] = "SELECTED"
    <3>1. PICK x \in Theses : /\ Selected(o) = {x}
                              /\ {lease[o].thesis, mission[o]} \subseteq {x, None}
      BY <2>2 DEF CompetitionInvariant, Sound, DecidedOnce, Selected
    <3>2. Cardinality({x}) = 1
      BY FS_Singleton
    <3> QED
      BY <2>2, <3>1, <3>2
  <2> QED
    BY <2>1, <2>2
<1> QED
  BY <1>1, CompetitionInvariantHolds, PTL

(* The winner is the best of several, and nobody proposes twice             *)
(* (existing_universe_ids, composition_marker).                             *)
THEOREM WinnerIsBest == Spec => []BestThesisWins
<1>1. CompetitionInvariant => BestThesisWins
  <2> SUFFICES ASSUME CompetitionInvariant, NEW o \in Uncontested
               PROVE  /\ \A x \in Selected(o) : Wins(x, Rows(o)) /\ Rows(o) # {x}
                      /\ ProposedOnce(o)
    BY DEF BestThesisWins, ProposedOnce
  <2>1. ASSUME NEW x \in Selected(o) PROVE Wins(x, Rows(o)) /\ Rows(o) # {x}
    <3>1. status[o] = "SELECTED" /\ x \in Rows(o)
      BY <2>1 DEF CompetitionInvariant, Sound, OpenUntilDecided, Selected, Rows
    <3> QED
      BY <2>1, <3>1 DEF CompetitionInvariant, Sound, DecidedOnce, Selected, Wins
  <2> QED
    BY <2>1 DEF CompetitionInvariant, Sound
<1> QED
  BY <1>1, CompetitionInvariantHolds, PTL

(* No step takes a selection back or moves it, unless two workers were at   *)
(* the opportunity together (_claim, _process).                             *)
THEOREM SelectionStays == Spec => SelectionIsForGood
<1>1. ASSUME CompetitionInvariant, Next, NEW o \in Opportunities, o \notin contested',
             status[o] = "SELECTED"
      PROVE  status'[o] = "SELECTED" /\ thesis'[o] = thesis[o]
  <2>1. TypeOK /\ Standing /\ \A w \in Workers : at[w] # o
    BY <1>1, ContestedStays DEF CompetitionInvariant, Uncontested, Sound, InOneHand
  <2>2. ASSUME NEW p \in Opportunities,
               \/ Detect(p) \/ Time(p) \/ \E x \in Theses : LaunchMission(p, x)
        PROVE  status'[o] = "SELECTED" /\ thesis'[o] = thesis[o]
    BY <1>1, <2>1, <2>2
    DEF Detect, SetStatus, Time, ClaimAges, LeaseLapses, LaunchMission, TypeOK
  <2>3. ASSUME NEW w \in Workers, Claim(w)
        PROVE  status'[o] = "SELECTED" /\ thesis'[o] = thesis[o]
    BY <1>1, <2>3 DEF Claim, Claimable
  <2>4. ASSUME NEW w \in Workers, NEW u \in Universes, AskCompetitor(w, u)
        PROVE  status'[o] = "SELECTED" /\ thesis'[o] = thesis[o]
    <3>1. at[w] \in Opportunities
      BY <2>1, <2>4 DEF AskCompetitor, TypeOK, Standing
    <3>2. status' = status /\ (Submit(w, u, FALSE) \/ thesis' = thesis)
      BY <2>4 DEF AskCompetitor
    <3>3. CASE Submit(w, u, FALSE)
      <4>1. \A p \in Opportunities \ {at[w]} : thesis'[p] = thesis[p]
        BY <2>1, <3>1, <3>3 DEF Submit, TypeOK
      <4> QED
        BY <1>1, <2>1, <3>2, <4>1
    <3> QED
      BY <1>1, <3>2, <3>3
  <2>5. ASSUME NEW w \in Workers, ComposeThesis(w)
        PROVE  status'[o] = "SELECTED" /\ thesis'[o] = thesis[o]
    <3>1. at[w] \in Opportunities
      BY <2>1, <2>5 DEF ComposeThesis, Composed, TypeOK, Standing
    <3>2. status' = status /\ (Submit(w, Composer(w), TRUE) \/ thesis' = thesis)
      BY <2>5 DEF ComposeThesis, Composed
    <3>3. CASE Submit(w, Composer(w), TRUE)
      <4>1. \A p \in Opportunities \ {at[w]} : thesis'[p] = thesis[p]
        BY <2>1, <3>1, <3>3 DEF Submit, TypeOK
      <4> QED
        BY <1>1, <2>1, <3>2, <4>1
    <3> QED
      BY <1>1, <3>2, <3>3
  <2>6. ASSUME NEW w \in Workers, NEW p \in Opportunities, NEW x \in Theses, Resolve(w, p, x)
        PROVE  status'[o] = "SELECTED" /\ thesis'[o] = thesis[o]
    BY <1>1, <2>1, <2>6 DEF Resolve, SetStatus, TypeOK
  <2>7. ASSUME NEW w \in Workers, NEW p \in Opportunities, GiveUp(w, p) \/ Reset(w, p)
        PROVE  status'[o] = "SELECTED" /\ thesis'[o] = thesis[o]
    BY <1>1, <2>1, <2>7 DEF GiveUp, Reset, Reopen, SetStatus, TypeOK
  <2>8. ASSUME NEW w \in Workers,
               \/ EndCycle(w) \/ Judge(w) \/ Fails(w) \/ Dies(w)
               \/ \E p \in Opportunities : Begin(w, p) \/ LookAgain(w, p)
        PROVE  status'[o] = "SELECTED" /\ thesis'[o] = thesis[o]
    BY <1>1, <2>8 DEF EndCycle, Judge, Fails, Dies, Begin, LookAgain, rowVars
  <2> QED
    BY <1>1, <2>2, <2>3, <2>4, <2>5, <2>6, <2>7, <2>8 DEF Next, Work, Process
<1>2. CompetitionInvariant /\ [Next]_vars =>
        [\A o \in Opportunities \ contested' :
           status[o] = "SELECTED" => status'[o] = "SELECTED" /\ thesis'[o] = thesis[o]]_vars
  BY <1>1
<1> QED
  BY <1>2, CompetitionInvariantHolds, PTL DEF Spec, SelectionIsForGood

(* An executive lease in force never changes hands, however many workers    *)
(* resolve its opportunity (resolve_competition).                           *)
THEOREM LeaseStaysWithThesis == Spec => LeaseIsExclusive
<1>1. ASSUME TypeOK, Next, NEW o \in Opportunities, lease[o].thesis # None, ~lease[o].lapsed
      PROVE  lease'[o].thesis = lease[o].thesis
  <2>1. ASSUME NEW p \in Opportunities, LeaseLapses(p)
        PROVE  lease'[o].thesis = lease[o].thesis
    BY <1>1, <2>1 DEF LeaseLapses, TypeOK
  <2>2. ASSUME NEW p \in Opportunities, NEW x \in Theses, LaunchMission(p, x)
        PROVE  lease'[o].thesis = lease[o].thesis
    BY <1>1, <2>2 DEF LaunchMission, TypeOK
  <2>3. ASSUME NEW w \in Workers, NEW p \in Opportunities, NEW x \in Theses, Resolve(w, p, x)
        PROVE  lease'[o].thesis = lease[o].thesis
    <3>1. CASE ~LeaseAllows(p, x)
      BY <2>3, <3>1 DEF Resolve
    <3>2. CASE LeaseAllows(p, x) /\ o # p
      <4>1. lease' \in {lease, [lease EXCEPT ![p] = [thesis |-> x, lapsed |-> FALSE]]}
        BY <2>3, <3>2 DEF Resolve
      <4> QED
        BY <1>1, <3>2, <4>1 DEF TypeOK
    <3>3. CASE LeaseAllows(p, x) /\ o = p
      <4>1. lease[p].thesis = x /\ ~lease[p].lapsed
        BY <1>1, <3>3 DEF LeaseAllows
      <4>2. lease' = lease
        BY <2>3, <3>3, <4>1 DEF Resolve
      <4> QED
        BY <4>2
    <3> QED
      BY <3>1, <3>2, <3>3
  <2>4. ASSUME NEW p \in Opportunities, Detect(p) \/ ClaimAges(p)
        PROVE  lease' = lease
    BY <2>4 DEF Detect, ClaimAges
  <2>5. ASSUME NEW w \in Workers, NEW p \in Opportunities,
               Begin(w, p) \/ GiveUp(w, p) \/ LookAgain(w, p) \/ Reset(w, p)
        PROVE  lease' = lease
    BY <2>5 DEF Begin, GiveUp, LookAgain, Reset, rowVars
  <2>6. ASSUME NEW w \in Workers, Claim(w) \/ EndCycle(w) \/ Judge(w) \/ ComposeThesis(w)
        PROVE  lease' = lease
    BY <2>6 DEF Claim, EndCycle, Judge, ComposeThesis, Composed, rowVars
  <2>7. ASSUME NEW w \in Workers, NEW u \in Universes, AskCompetitor(w, u)
        PROVE  lease' = lease
    BY <2>7 DEF AskCompetitor
  <2>8. ASSUME NEW w \in Workers, Fails(w) \/ Dies(w)
        PROVE  lease' = lease
    BY <2>8 DEF Fails, Dies, rowVars
  <2> QED
    BY <1>1, <2>1, <2>2, <2>3, <2>4, <2>5, <2>6, <2>7, <2>8 DEF Next, Time, Work, Process
<1>2. TypeOK /\ [Next]_vars =>
        [\A o \in Opportunities :
           lease[o].thesis # None /\ ~lease[o].lapsed => lease'[o].thesis = lease[o].thesis]_vars
  BY <1>1
<1> QED
  BY <1>2, TypeCorrect, PTL DEF Spec, LeaseIsExclusive
=============================================================================
