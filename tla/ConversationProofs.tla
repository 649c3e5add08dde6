------------------------- MODULE ConversationProofs -------------------------
(***************************************************************************)
(* Proofs about conversations with Deus, typed and spoken, which share the *)
(* ledger of generations (TurnStore), for any number of attempts, turns,   *)
(* transcripts and providers and any capacity of the queue.  The theorems  *)
(* about typed turns are about DeusSpec, those about spoken ones about     *)
(* VoiceSpec; each uses the assumptions on its own constants only.         *)
(*                                                                         *)
(* Typed: an id is answered once because an answer is stored only by the   *)
(* owner of a pending row and leaves the row completed, and no claim takes *)
(* a completed row over: that the row and the Conversation agree           *)
(* (RowNamesReply) is what makes AnsweredOnce inductive.  Spoken: the pump *)
(* and the handler step in any order, so the invariant says of each place  *)
(* of one what the other may have done meanwhile: PumpInStep, ModeInStep,  *)
(* HandlerInStep.                                                          *)
(***************************************************************************)
EXTENDS DeusTurn, VoiceTurn, TLAPS

-----------------------------------------------------------------------------
(* The ledger: what its operations make of a row.                          *)

States == {"none", "pending", "completed", "failed", "interrupted"}
Rows == [state : States, owner : Generations \cup {Nobody}, live : BOOLEAN,
         content : Contents \cup {Nobody}]

(* A row of the type is its four fields.                                   *)
LEMMA RowFields ==
    ASSUME NEW row \in Rows
    PROVE  /\ row.state \in States /\ row.owner \in Generations \cup {Nobody}
           /\ row.live \in BOOLEAN /\ row.content \in Contents \cup {Nobody}
  BY DEF Rows

(* A claim gives the row to the claimant, or leaves it what it is but for  *)
(* a lost lease, which becomes interrupted; a completed row it leaves.     *)
LEMMA ClaimedRow ==
    ASSUME TurnTypeOK, NEW k \in Keys, NEW a \in Generations, NEW c \in Contents
    PROVE  LET row == AfterClaim(k, a, c) IN
           /\ row \in Rows
           /\ row.state = "completed" <=> turn[k].state = "completed"
           /\ turn[k].state = "completed" => row = turn[k]
           /\ row # Pending(a, c) => row.owner = turn[k].owner
  <1> DEFINE row == AfterClaim(k, a, c)
  <1>1. turn[k] \in Rows
    BY DEF TurnTypeOK, Rows, States
  <1>2. CASE Claimed(k, c) = "owned"
    <2>1. turn[k].state \in {"none", "failed"}
      BY <1>2, <1>1, RowFields DEF Claimed, States
    <2>2. row = Pending(a, c)
      BY <1>2, <2>1 DEF AfterClaim
    <2>3. Pending(a, c) \in Rows /\ Pending(a, c).state = "pending"
      BY DEF Pending, Rows, States
    <2> QED
      BY <2>1, <2>2, <2>3
  <1>3. CASE /\ Claimed(k, c) # "owned"
             /\ turn[k].content = c /\ turn[k].state = "pending" /\ ~turn[k].live
    <2>1. row = [turn[k] EXCEPT !.state = "interrupted"]
      BY <1>3 DEF AfterClaim
    <2>2. row \in Rows /\ row.state = "interrupted" /\ row.owner = turn[k].owner
      BY <2>1, <1>1 DEF Rows, States
    <2> QED
      BY <2>2, <1>3
  <1>4. CASE /\ Claimed(k, c) # "owned"
             /\ ~(turn[k].content = c /\ turn[k].state = "pending" /\ ~turn[k].live)
    <2>1. row = turn[k]
      BY <1>4 DEF AfterClaim
    <2> QED
      BY <2>1, <1>1
  <1> QED
    BY <1>2, <1>3, <1>4

(* Closing a row as anything but completed leaves completed rows alone and *)
(* makes none.                                                             *)
LEMMA ClosedRow ==
    ASSUME TurnTypeOK, NEW k \in Keys, NEW a, NEW s \in {"failed", "interrupted"}
    PROVE  /\ Finished(k, a, s) \in Rows
           /\ Finished(k, a, s).state = "completed" <=> turn[k].state = "completed"
           /\ turn[k].state = "completed" => Finished(k, a, s) = turn[k]
  <1>1. turn[k] \in Rows
    BY DEF TurnTypeOK, Rows, States
  <1>2. CASE Holds(k, a)
    <2>1. Finished(k, a, s) = [turn[k] EXCEPT !.state = s] /\ turn[k].state = "pending"
      BY <1>2 DEF Finished, Holds
    <2> QED
      BY <2>1, <1>1 DEF Rows, States
  <1>3. CASE ~Holds(k, a)
    BY <1>3, <1>1 DEF Finished
  <1> QED
    BY <1>2, <1>3

(* Closing a row the lease of which is held as completed.                  *)
LEMMA CompletedRow ==
    ASSUME TurnTypeOK, NEW k \in Keys, NEW a, Holds(k, a)
    PROVE  /\ Finished(k, a, "completed") \in Rows
           /\ Finished(k, a, "completed").state = "completed"
  <1>1. turn[k] \in Rows
    BY DEF TurnTypeOK, Rows, States
  <1>2. Finished(k, a, "completed") = [turn[k] EXCEPT !.state = "completed"]
    BY DEF Finished
  <1> QED
    BY <1>1, <1>2 DEF Rows, States

(* A lapse takes the lease of a pending row and nothing else.              *)
LEMMA LapsedRow ==
    ASSUME TurnTypeOK, NEW k \in Keys, LeaseLapses(k)
    PROVE  /\ turn' \in [Keys -> Rows]
           /\ \A n \in Keys : turn'[n].state = turn[n].state
  <1>1. turn \in [Keys -> Rows]
    BY DEF TurnTypeOK, Rows, States
  <1>2. turn' = [turn EXCEPT ![k] = [turn[k] EXCEPT !.live = FALSE]]
    BY DEF LeaseLapses
  <1> QED
    BY <1>1, <1>2 DEF Rows

-----------------------------------------------------------------------------
(* Typed turns.                                                            *)

(* While the Conversation does not change, and the rows change in no way   *)
(* that touches completed ones, row and Conversation go on agreeing.       *)
LEMMA AgreementKept ==
    ASSUME DeusInvariant, answers' = answers,
           \A k \in Keys : /\ turn[k].state = "completed" => turn'[k] = turn[k]
                           /\ turn'[k].state = "completed" => turn[k].state = "completed"
    PROVE  RowNamesReply'
  <1>1. \A a \in answers : a \in Attempts /\ Key[a] \in Keys
    BY DeusTurnConstants DEF DeusInvariant, DeusTypeOK
  <1> QED
    BY <1>1 DEF DeusInvariant, RowNamesReply

-----------------------------------------------------------------------------
THEOREM DeusInitiallySound == DeusInit => DeusInvariant
  <1> SUFFICES ASSUME DeusInit PROVE DeusInvariant
    OBVIOUS
  <1>1. TurnTypeOK
    BY DEF DeusInit, TurnInit, NoTurn, TurnTypeOK
  <1>2. DeusTypeOK
    BY <1>1 DEF DeusInit, DeusTypeOK
  <1>3. RowNamesReply
    BY DEF DeusInit, TurnInit, NoTurn, RowNamesReply
  <1>4. AnsweredOnce
    BY DeusTurnConstants DEF DeusInit, AnsweredOnce
  <1>5. NoTraceOfFailure
    BY DEF DeusInit, NoTraceOfFailure
  <1> QED
    BY <1>2, <1>3, <1>4, <1>5 DEF DeusInvariant

-----------------------------------------------------------------------------
(* The steps of an attempt.                                                *)

(* What a step that moves attempt a and gives its client g must keep of    *)
(* the types.                                                              *)
LEMMA MovedTypes ==
    ASSUME DeusTypeOK, NEW a \in Attempts,
           at' = at \/ \E to \in {"idle", "failing", "cancelled", "done"} \cup InFlight :
                          at' = [at EXCEPT ![a] = to],
           given' = given \/ \E g \in Attempts \cup {"nothing", "error", "conflict"} :
                          given' = [given EXCEPT ![a] = g],
           TurnTypeOK', questions' \subseteq Attempts, proposes' \subseteq Attempts,
           answers' \subseteq Attempts, active' \in BOOLEAN, builder' \in BOOLEAN
    PROVE  DeusTypeOK'
  BY DEF DeusTypeOK

LEMMA ClaimSound ==
    ASSUME DeusInvariant, NEW a \in Attempts, Claim(a)
    PROVE  DeusInvariant'
  <1> DEFINE k == Key[a]
             row == AfterClaim(k, a, Content[a])
  <1>1. k \in Keys /\ a \in Generations /\ Content[a] \in Contents /\ TurnTypeOK
    BY DeusTurnConstants DEF DeusInvariant, DeusTypeOK
  <1>2. turn \in [Keys -> Rows] /\ turn[k] \in Rows
    BY <1>1 DEF TurnTypeOK, Rows, States
  <1>3. turn' = turn \/ turn' = [turn EXCEPT ![k] = row]
    BY DEF Claim
  <1>4. /\ row \in Rows
        /\ row.state = "completed" <=> turn[k].state = "completed"
        /\ turn[k].state = "completed" => row = turn[k]
    BY <1>1, ClaimedRow
  <1>5. TurnTypeOK'
    BY <1>2, <1>3, <1>4 DEF TurnTypeOK, Rows, States
  <1>6. UNCHANGED <<questions, proposes, answers, missions, active, builder>>
    BY DEF Claim, content
  <1>7. RowNamesReply'
    BY <1>1, <1>2, <1>3, <1>4, <1>6, AgreementKept
  <1>8. /\ \E to \in {"claimed", "done"} : at' = [at EXCEPT ![a] = to]
        /\ given' = given \/ \E g \in Attempts \cup {"error", "conflict"} :
              /\ given' = [given EXCEPT ![a] = g]
              /\ g \in Attempts => g \in answers /\ Key[g] = k
    <2>1. CASE ~active
      BY <2>1, DeusTurnConstants DEF Claim, Ends, Steps
    <2>2. CASE active /\ turn'[k] = Pending(a, Content[a])
      <3>1. row.state = "pending"
        BY <2>2, <1>1, <1>2 DEF Claim, Pending
      <3>2. Claimed(k, Content[a]) # "replay"
        BY <3>1, <1>2, <1>4, RowFields DEF Claimed, States
      <3> QED
        BY <2>2, <3>2 DEF Claim, Ends, Steps
    <2>3. CASE /\ active /\ turn'[k] # Pending(a, Content[a])
               /\ Claimed(k, Content[a]) = "replay"
      <3>1. turn[k].state = "completed"
        BY <2>3, <1>2, RowFields DEF Claimed, States
      <3>2. turn[k].owner \in answers /\ Key[turn[k].owner] = k
        BY <3>1, <1>1 DEF DeusInvariant, RowNamesReply
      <3>3. turn[k].owner \in Attempts
        BY <3>2 DEF DeusInvariant, DeusTypeOK
      <3>4. at' = [at EXCEPT ![a] = "done"] /\ given' = [given EXCEPT ![a] = turn[k].owner]
        BY <2>3 DEF Claim, Ends, Steps
      <3> QED
        BY <3>2, <3>3, <3>4
    <2>4. CASE /\ active /\ turn'[k] # Pending(a, Content[a])
               /\ Claimed(k, Content[a]) # "replay"
      <3>1. at' = [at EXCEPT ![a] = "done"] /\ given' = [given EXCEPT ![a] = "conflict"]
        BY <2>4 DEF Claim, Ends, Steps
      <3> QED
        BY <3>1, DeusTurnConstants
    <2> QED
      BY <2>1, <2>2, <2>3, <2>4
  <1>9. DeusTypeOK'
    BY <1>5, <1>6, <1>8, MovedTypes DEF DeusInvariant, DeusTypeOK, InFlight
  <1>10. AnsweredOnce'
    BY <1>6, <1>8 DEF DeusInvariant, DeusTypeOK, AnsweredOnce
  <1>11. NoTraceOfFailure'
    BY <1>6 DEF DeusInvariant, NoTraceOfFailure
  <1> QED
    BY <1>7, <1>9, <1>10, <1>11 DEF DeusInvariant

LEMMA CommitSound ==
    ASSUME DeusInvariant, NEW a \in Attempts, Commit(a)
    PROVE  DeusInvariant'
  <1> DEFINE k == Key[a]
  <1>1. k \in Keys /\ a \in Generations /\ TurnTypeOK /\ turn \in [Keys -> Rows]
    BY DeusTurnConstants DEF DeusInvariant, DeusTypeOK, TurnTypeOK, Rows, States
  <1>2. UNCHANGED <<proposes, active, builder>>
    BY DEF Commit
  <1>3. CASE Holds(k, a)
    <2>1. turn[k].state = "pending" /\ turn[k].owner = a
      BY <1>3 DEF Holds
    <2>2. /\ turn' = [turn EXCEPT ![k] = [turn[k] EXCEPT !.state = "completed"]]
          /\ answers' = answers \cup {a} /\ questions' = questions \cup {a}
          /\ missions' = missions \cup ({a} \cap proposes)
      BY <1>3 DEF Commit, Finished, RecordReasoning
    <2>3. TurnTypeOK'
      BY <1>1, <2>2 DEF TurnTypeOK, Rows, States
    <2>4. turn'[k].state = "completed" /\ turn'[k].owner = a
      BY <1>1, <2>1, <2>2 DEF Rows
    <2>5. \A x \in Keys : x # k => turn'[x] = turn[x]
      BY <1>1, <2>2
    <2>6. \A b \in answers : b \in Attempts /\ Key[b] \in Keys /\ Key[b] # k
      BY <2>1, DeusTurnConstants DEF DeusInvariant, DeusTypeOK, RowNamesReply
    <2>7. RowNamesReply'
      BY <2>2, <2>4, <2>5, <2>6 DEF DeusInvariant, RowNamesReply
    <2>8. /\ \E to \in {"done", "failing", "cancelled"} : at' = [at EXCEPT ![a] = to]
          /\ given' = given \/ given' = [given EXCEPT ![a] = a]
      BY <1>3 DEF Commit, Ends, Steps
    <2>9. DeusTypeOK'
      BY <1>2, <2>2, <2>3, <2>8, MovedTypes DEF DeusInvariant, DeusTypeOK, InFlight
    <2>10. AnsweredOnce'
      BY <2>2, <2>6, <2>8 DEF DeusInvariant, DeusTypeOK, AnsweredOnce
    <2>11. NoTraceOfFailure'
      BY <1>2, <2>2 DEF DeusInvariant, NoTraceOfFailure
    <2> QED
      BY <2>7, <2>9, <2>10, <2>11 DEF DeusInvariant
  <1>4. CASE ~Holds(k, a)
    <2>1. /\ UNCHANGED <<turn, answers, questions, missions>>
          /\ at' = [at EXCEPT ![a] = "done"]
          /\ given' = [given EXCEPT ![a] = "conflict"]
      BY <1>4 DEF Commit, Ends, Steps
    <2>2. TurnTypeOK'
      BY <1>1, <2>1 DEF TurnTypeOK
    <2>3. DeusTypeOK'
      BY <1>2, <2>1, <2>2, MovedTypes DEF DeusInvariant, DeusTypeOK
    <2>4. RowNamesReply' /\ NoTraceOfFailure'
      BY <1>2, <2>1 DEF DeusInvariant, RowNamesReply, NoTraceOfFailure
    <2>5. AnsweredOnce'
      BY <2>1, DeusTurnConstants DEF DeusInvariant, DeusTypeOK, AnsweredOnce
    <2> QED
      BY <2>3, <2>4, <2>5 DEF DeusInvariant
  <1> QED
    BY <1>3, <1>4

LEMMA FinishSound ==
    ASSUME DeusInvariant, NEW a \in Attempts, FinishFailed(a) \/ FinishInterrupted(a)
    PROVE  DeusInvariant'
  <1> DEFINE k == Key[a]
  <1>1. k \in Keys /\ TurnTypeOK /\ turn \in [Keys -> Rows]
    BY DeusTurnConstants DEF DeusInvariant, DeusTypeOK, TurnTypeOK, Rows, States
  <1>2. PICK s \in {"failed", "interrupted"} : turn' = [turn EXCEPT ![k] = Finished(k, a, s)]
    BY DEF FinishFailed, FinishInterrupted
  <1>3. /\ UNCHANGED <<questions, proposes, answers, missions, active, builder>>
        /\ at' = [at EXCEPT ![a] = "done"] /\ given' = [given EXCEPT ![a] = "error"]
    BY DEF FinishFailed, FinishInterrupted, Ends, Steps, content
  <1>4. /\ Finished(k, a, s) \in Rows
        /\ Finished(k, a, s).state = "completed" <=> turn[k].state = "completed"
        /\ turn[k].state = "completed" => Finished(k, a, s) = turn[k]
    BY <1>1, ClosedRow
  <1>5. TurnTypeOK'
    BY <1>1, <1>2, <1>4 DEF TurnTypeOK, Rows, States
  <1>6. DeusTypeOK'
    BY <1>3, <1>5, MovedTypes DEF DeusInvariant, DeusTypeOK
  <1>7. RowNamesReply'
    BY <1>1, <1>2, <1>3, <1>4, AgreementKept
  <1>8. AnsweredOnce'
    BY <1>3, DeusTurnConstants DEF DeusInvariant, DeusTypeOK, AnsweredOnce
  <1>9. NoTraceOfFailure'
    BY <1>3 DEF DeusInvariant, NoTraceOfFailure
  <1> QED
    BY <1>6, <1>7, <1>8, <1>9 DEF DeusInvariant

(* The steps that touch neither rows nor answers: opening commits the      *)
(* question early only where there is a context builder.                   *)
LEMMA QuietStepSound ==
    ASSUME DeusInvariant, NEW a \in Attempts,
           \/ Open(a) \/ Reason(a) \/ Generate(a) \/ CommitFails(a)
           \/ HeartbeatLost(a) \/ TaskCancelled(a)
    PROVE  DeusInvariant'
  <1>1. UNCHANGED <<turn, answers, missions, active, builder>>
    BY DEF Open, Reason, Generate, CommitFails, HeartbeatLost, TaskCancelled, content
  <1>2. /\ \E to \in {"idle", "failing", "cancelled", "done"} \cup InFlight :
              at' = [at EXCEPT ![a] = to]
        /\ given' = given \/ given' = [given EXCEPT ![a] = "conflict"]
    BY DEF Open, Reason, Generate, CommitFails, HeartbeatLost, TaskCancelled, content,
           Steps, Ends, InFlight
  <1>3. /\ \/ questions' = questions
           \/ builder /\ questions' = questions \cup {a}
        /\ proposes' \in {proposes, proposes \cup {a}}
    BY DEF Open, Reason, Generate, CommitFails, HeartbeatLost, TaskCancelled, content
  <1>4. TurnTypeOK'
    BY <1>1 DEF DeusInvariant, DeusTypeOK, TurnTypeOK
  <1>5. DeusTypeOK'
    BY <1>1, <1>2, <1>3, <1>4, MovedTypes DEF DeusInvariant, DeusTypeOK
  <1>6. RowNamesReply'
    BY <1>1 DEF DeusInvariant, RowNamesReply
  <1>7. AnsweredOnce'
    BY <1>1, <1>2, DeusTurnConstants DEF DeusInvariant, DeusTypeOK, AnsweredOnce
  <1>8. NoTraceOfFailure'
    BY <1>1, <1>3 DEF DeusInvariant, DeusTypeOK, NoTraceOfFailure
  <1> QED
    BY <1>5, <1>6, <1>7, <1>8 DEF DeusInvariant

-----------------------------------------------------------------------------
(* What happens around the attempts.                                       *)

LEMMA RowLapsesSound ==
    ASSUME DeusInvariant, NEW k \in Keys, RowLapses(k)
    PROVE  DeusInvariant'
  <1>1. turn \in [Keys -> Rows]
    BY DEF DeusInvariant, DeusTypeOK, TurnTypeOK, Rows, States
  <1>2. turn[k].state = "pending" /\ turn' = [turn EXCEPT ![k] = [turn[k] EXCEPT !.live = FALSE]]
    BY DEF RowLapses, LeaseLapses
  <1>3. UNCHANGED textVars
    BY DEF RowLapses
  <1>4. TurnTypeOK'
    BY <1>1, <1>2 DEF TurnTypeOK, Rows, States
  <1>5. DeusTypeOK'
    BY <1>3, <1>4 DEF DeusInvariant, DeusTypeOK, textVars, content
  <1>6. turn'[k].state = "pending" /\ \A x \in Keys : x # k => turn'[x] = turn[x]
    BY <1>1, <1>2 DEF Rows
  <1>7. answers' = answers
    BY <1>3 DEF textVars, content
  <1>8. RowNamesReply'
    BY <1>2, <1>6, <1>7, AgreementKept
  <1>9. AnsweredOnce' /\ NoTraceOfFailure'
    BY <1>3 DEF DeusInvariant, AnsweredOnce, NoTraceOfFailure, textVars, content
  <1> QED
    BY <1>5, <1>8, <1>9 DEF DeusInvariant

LEMMA SurroundingsSound ==
    ASSUME DeusInvariant, AttemptsDie \/ CloseConversation
    PROVE  DeusInvariant'
  <1>1. UNCHANGED <<turn, questions, proposes, answers, missions, builder>> /\ active' \in BOOLEAN
    BY DEF AttemptsDie, CloseConversation, content, DeusInvariant, DeusTypeOK
  <1>2. /\ at' \in [Attempts -> {"idle", "failing", "cancelled", "done"} \cup InFlight]
        /\ given' \in [Attempts -> Attempts \cup {"nothing", "error", "conflict"}]
        /\ \A a \in Attempts : given'[a] \in {given[a], "error"}
    BY DEF AttemptsDie, CloseConversation, DeusInvariant, DeusTypeOK
  <1>3. TurnTypeOK'
    BY <1>1 DEF DeusInvariant, DeusTypeOK, TurnTypeOK
  <1>4. DeusTypeOK'
    BY <1>1, <1>2, <1>3 DEF DeusInvariant, DeusTypeOK
  <1>5. RowNamesReply' /\ NoTraceOfFailure'
    BY <1>1 DEF DeusInvariant, RowNamesReply, NoTraceOfFailure
  <1>6. AnsweredOnce'
    BY <1>1, <1>2, DeusTurnConstants DEF DeusInvariant, AnsweredOnce
  <1> QED
    BY <1>4, <1>5, <1>6 DEF DeusInvariant

THEOREM DeusStepSound == DeusInvariant /\ [DeusNext]_turnVars => DeusInvariant'
  <1> SUFFICES ASSUME DeusInvariant, [DeusNext]_turnVars PROVE DeusInvariant'
    OBVIOUS
  <1>1. ASSUME NEW a \in Attempts, TextStep(a) PROVE DeusInvariant'
    <2>1. CASE Claim(a)
      BY <2>1, ClaimSound
    <2>2. CASE Commit(a)
      BY <2>2, CommitSound
    <2>3. CASE FinishFailed(a) \/ FinishInterrupted(a)
      BY <2>3, FinishSound
    <2>4. CASE \/ Open(a) \/ Reason(a) \/ Generate(a) \/ CommitFails(a)
               \/ HeartbeatLost(a) \/ TaskCancelled(a)
      BY <2>4, QuietStepSound
    <2> QED
      BY <1>1, <2>1, <2>2, <2>3, <2>4 DEF TextStep, Respond
  <1>2. ASSUME NEW k \in Keys, RowLapses(k) PROVE DeusInvariant'
    BY <1>2, RowLapsesSound
  <1>3. CASE AttemptsDie \/ CloseConversation
    BY <1>3, SurroundingsSound
  <1>4. CASE UNCHANGED turnVars
    BY <1>4 DEF DeusInvariant, DeusTypeOK, TurnTypeOK, RowNamesReply, AnsweredOnce,
                NoTraceOfFailure, turnVars, textVars, content
  <1> QED
    BY <1>1, <1>2, <1>3, <1>4 DEF DeusNext

-----------------------------------------------------------------------------
(* Row and Conversation agree, an id is answered once, and an attempt that *)
(* gave no answer leaves nothing behind: converse_with_deus and TurnStore, *)
(* for any number of attempts, ids, lost answers, leases and processes.    *)
THEOREM DeusInvariantHolds == DeusSpec => []DeusInvariant
  <1>1. DeusInit => DeusInvariant
    BY DeusInitiallySound
  <1>2. DeusInvariant /\ [DeusNext]_turnVars => DeusInvariant'
    BY DeusStepSound
  <1> QED
    BY <1>1, <1>2, PTL DEF DeusSpec

(* What a client is given is the one answer its request id has.            *)
THEOREM AnswerIsUnique == DeusSpec => []AnsweredOnce
  <1>1. DeusInvariant => AnsweredOnce
    BY DEF DeusInvariant
  <1> QED
    BY <1>1, DeusInvariantHolds, PTL

(* A failed attempt leaves no Mission, and without the context builder no  *)
(* question either.                                                        *)
THEOREM FailureLeavesNothing == DeusSpec => []NoTraceOfFailure
  <1>1. DeusInvariant => NoTraceOfFailure
    BY DEF DeusInvariant
  <1> QED
    BY <1>1, DeusInvariantHolds, PTL

-----------------------------------------------------------------------------
(* Spoken turns.                                                           *)

-----------------------------------------------------------------------------
(* A socket that has just been asked for is in step.                       *)
THEOREM VoiceInitiallySound == VoiceInit => VoiceInvariant
  <1> SUFFICES ASSUME VoiceInit PROVE VoiceInvariant
    OBVIOUS
  <1>1. TurnTypeOK
    BY DEF VoiceInit, TurnInit, NoTurn, TurnTypeOK
  <1>2. VoiceTypeOK
    <2>1. <<>> \in Seq(Speech) /\ Len(<<>>) = 0
      OBVIOUS
    <2>2. 0 \in 0..MaxTurns /\ 0 \in 0..MaxHeard /\ 0 \in 0..Providers /\ 0 <= QueueMax
      BY VoiceConstants
    <2>3. pump = [at |-> "gone", turn |-> 0, via |-> 0]
      BY DEF VoiceInit, Idle
    <2>4. /\ pump \in [at : Busy \cup {"listening", "failed", "gone"},
                     turn : 0..MaxTurns, via : 0..Providers]
          /\ handler \in [at : {"opening", "serving", "putting", "aborting", "aborted", "closing",
                              "closed", "broken"},
                        turn : 0..MaxTurns, left : SUBSET Turns]
      <3>1. handler = [at |-> "opening", turn |-> 0, left |-> {}]
        BY DEF VoiceInit, NoWork
      <3>2. {} \in SUBSET Turns
        OBVIOUS
      <3> QED
        BY <2>2, <2>3, <3>1, <3>2
    <2>5. mode \in Listening
      BY DEF VoiceInit, Listening
    <2> QED
      BY <1>1, <2>1, <2>2, <2>4, <2>5 DEF VoiceInit, VoiceTypeOK
  <1>3. ReplyFenced
    BY VoiceConstants DEF VoiceInit, TurnInit, NoTurn, ReplyFenced, Turns
  <1>4. PumpInStep
    BY DEF VoiceInit, PumpInStep, Idle, Busy, Before, Wording, Storing
  <1>5. ModeInStep
    BY DEF VoiceInit, ModeInStep, Idle, NoWork, Storing, Aborts
  <1>6. HandlerInStep
    BY DEF VoiceInit, HandlerInStep, ClosedReleases, Idle, NoWork, Aborts
  <1> QED
    BY <1>2, <1>3, <1>4, <1>5, <1>6 DEF VoiceInvariant

-----------------------------------------------------------------------------
(* What is heard is committed or not.                                      *)
LEMMA SpeechFields ==
    ASSUME NEW h \in Speech
    PROVE  h.committed \in BOOLEAN
  <1>1. \E w, c, k \in BOOLEAN : h = [wake |-> w, committed |-> c, command |-> k]
    BY DEF Speech
  <1> QED
    BY <1>1

LEMMA TranscriptSound ==
    ASSUME VoiceInvariant, Transcript
    PROVE  VoiceInvariant'
  <1>1. VoiceTypeOK'
    <2>1. /\ Head(queue) \in Speech /\ Tail(queue) \in Seq(Speech)
          /\ Len(Tail(queue)) <= QueueMax
      BY VoiceConstants DEF VoiceInvariant, VoiceTypeOK, Transcript
    <2>2. TurnTypeOK'
      BY DEF VoiceInvariant, VoiceTypeOK, TurnTypeOK, Transcript
    <2>3. /\ current' \in 0..MaxTurns /\ current <= current'
          /\ mode' \in Listening \cup {"COMMITTING", "THINKING", "SPEAKING", "CLOSED"}
          /\ awake' \in BOOLEAN
      <3>1. Head(queue).committed \in BOOLEAN
        BY <2>1, SpeechFields
      <3>2. awake' \in {TRUE, awake, Head(queue).committed}
        BY DEF Transcript, session
      <3>3. mode' \in {mode, "COMMITTING", "LISTENING", "WAKE_DETECTED"}
        BY DEF Transcript, session
      <3>4. current' = current \/ (current' = current + 1 /\ current < MaxTurns)
        BY DEF Transcript, session
      <3> QED
        <4>1. awake' \in BOOLEAN
          BY <3>1, <3>2 DEF VoiceInvariant, VoiceTypeOK
        <4>2. mode' \in Listening \cup {"COMMITTING", "THINKING", "SPEAKING", "CLOSED"}
          BY <3>3 DEF VoiceInvariant, VoiceTypeOK, Listening
        <4>3. current' \in 0..MaxTurns /\ current <= current'
          BY <3>4, VoiceConstants DEF VoiceInvariant, VoiceTypeOK
        <4> QED
          BY <4>1, <4>2, <4>3
    <2>4. \/ pump' = pump
          \/ pump' = [at |-> "committing", turn |-> current', via |-> 1]
      BY DEF Transcript
    <2>5. pump' \in [at : Busy \cup {"listening", "failed", "gone"},
                    turn : 0..MaxTurns, via : 0..Providers]
      BY <2>3, <2>4, VoiceConstants DEF VoiceInvariant, VoiceTypeOK, Busy
    <2>6. claims \cup pending \cup asked \cup replies \subseteq 1..current'
      BY <2>3 DEF VoiceInvariant, VoiceTypeOK
    <2> QED
      BY <2>1, <2>2, <2>3, <2>5, <2>6
      DEF VoiceInvariant, VoiceTypeOK, Transcript, bridge, stored
  <1>2. ReplyFenced'
    BY VoiceConstants DEF VoiceInvariant, VoiceTypeOK, ReplyFenced, PumpInStep,
        Transcript, session, bridge, stored, Turns, Busy, Before, Wording, Storing,
        Listening
  <1>3. PumpInStep'
    BY SMTT(30), VoiceConstants DEF VoiceInvariant, VoiceTypeOK, PumpInStep, ModeInStep,
        HandlerInStep, Transcript, session, bridge, stored, Turns, Busy, Before,
        Wording, Storing, Listening, Aborts
  <1>4. ModeInStep'
    BY SMTT(30), VoiceConstants DEF VoiceInvariant, VoiceTypeOK, PumpInStep, ModeInStep,
        HandlerInStep, Transcript, session, bridge, stored, Turns, Busy, Before,
        Wording, Storing, Listening, Aborts
  <1>5. HandlerInStep'
    <2>1. handler' = handler /\ claims' = claims
      BY DEF Transcript, bridge
    <2>2. handler.at \notin {"opening", "closed"} /\ pump.at = "listening"
      BY DEF VoiceInvariant, HandlerInStep, Transcript
    <2>3. /\ current \in Nat /\ current' \in {current, current + 1}
          /\ mode = "CLOSED" => current' = current /\ mode' = mode
      BY VoiceConstants DEF VoiceInvariant, VoiceTypeOK, Transcript, session, Listening
    <2>4. 1..current \subseteq 1..current'
      BY <2>3
    <2>5. ASSUME handler.left # {}, NEW t \in claims \ handler.left
          PROVE  t = current' /\ mode' = "CLOSED"
      <3>1. pump.at \notin (Busy \ Before) \cup {"failed"}
        BY <2>2 DEF Busy
      <3>2. t = current /\ mode = "CLOSED"
        BY <2>5, <3>1 DEF VoiceInvariant, HandlerInStep
      <3> QED
        BY <2>3, <3>2
    <2> QED
      BY <2>1, <2>2, <2>4, <2>5
      DEF VoiceInvariant, HandlerInStep, ClosedReleases, Aborts
  <1> QED
    BY <1>1, <1>2, <1>3, <1>4, <1>5 DEF VoiceInvariant

LEMMA MarkThinkingSound ==
    ASSUME VoiceInvariant, MarkThinking
    PROVE  VoiceInvariant'
  <1>1. VoiceTypeOK'
    BY VoiceConstants DEF VoiceInvariant, VoiceTypeOK, TurnTypeOK, MarkThinking,
        PumpGoes, Current, Idle, bridge, stored, Turns, Busy, Listening
  <1>2. ReplyFenced'
    BY VoiceConstants DEF VoiceInvariant, VoiceTypeOK, ReplyFenced, PumpInStep,
        MarkThinking, PumpGoes, Current, Idle, bridge, stored, Turns, Busy, Before,
        Wording, Storing, Listening
  <1>3. PumpInStep'
    BY VoiceConstants DEF VoiceInvariant, VoiceTypeOK, PumpInStep, ModeInStep,
        HandlerInStep, MarkThinking, PumpGoes, Current, Idle, bridge, stored, Turns,
        Busy, Before, Wording, Storing, Listening, Aborts
  <1>4. ModeInStep'
    BY VoiceConstants DEF VoiceInvariant, VoiceTypeOK, PumpInStep, ModeInStep,
        HandlerInStep, MarkThinking, PumpGoes, Current, Idle, bridge, stored, Turns,
        Busy, Before, Wording, Storing, Listening, Aborts
  <1>5. HandlerInStep'
    BY VoiceConstants DEF VoiceInvariant, VoiceTypeOK, PumpInStep, ModeInStep,
        HandlerInStep, ClosedReleases, MarkThinking, PumpGoes, Current, Idle, bridge,
        stored, Turns, Busy, Before, Wording, Storing, Listening, Aborts
  <1> QED
    BY <1>1, <1>2, <1>3, <1>4, <1>5 DEF VoiceInvariant

LEMMA ClaimCommitsSound ==
    ASSUME VoiceInvariant, ClaimCommits
    PROVE  VoiceInvariant'
  <1> DEFINE t == pump.turn
             row == AfterClaim(t, t, t)
  <1>a. /\ TurnTypeOK /\ t \in Keys /\ t \in Generations /\ t \in Contents
        /\ turn' = [turn EXCEPT ![t] = row]
    BY VoiceConstants
    DEF VoiceInvariant, VoiceTypeOK, PumpInStep, ClaimCommits, PumpGoes, Busy
  <1>b. turn \in [Keys -> Rows]
    BY <1>a DEF TurnTypeOK, Rows, States
  <1>c. row \in Rows /\ (row.state = "completed" <=> turn[t].state = "completed")
    BY <1>a, ClaimedRow
  <1>d. TurnTypeOK' /\ \A n \in Keys : turn'[n].state = "completed" <=> turn[n].state = "completed"
    BY <1>a, <1>b, <1>c DEF TurnTypeOK, Rows, States
  <1> HIDE DEF t, row
  <1>1. VoiceTypeOK'
    BY <1>d, VoiceConstants DEF VoiceInvariant, VoiceTypeOK, ClaimCommits, PumpGoes,
        session, bridge, stored, Turns, Busy, Listening
  <1>2. ReplyFenced'
    <2>1. Turns = Keys /\ replies \subseteq Turns
      BY VoiceConstants DEF VoiceInvariant, VoiceTypeOK, Turns
    <2>2. UNCHANGED <<asked, replies, claims>>
      BY DEF ClaimCommits, bridge, stored
    <2> QED
      BY <1>d, <2>1, <2>2 DEF VoiceInvariant, ReplyFenced
  <1>3. PumpInStep'
    BY VoiceConstants DEF VoiceInvariant, VoiceTypeOK, PumpInStep, ModeInStep,
        HandlerInStep, ClaimCommits, PumpGoes, session, bridge, stored, Turns, Busy,
        Before, Wording, Storing, Listening, Aborts
  <1>4. ModeInStep'
    BY VoiceConstants DEF VoiceInvariant, VoiceTypeOK, PumpInStep, ModeInStep,
        HandlerInStep, ClaimCommits, PumpGoes, session, bridge, stored, Turns, Busy,
        Before, Wording, Storing, Listening, Aborts
  <1>5. HandlerInStep'
    BY VoiceConstants DEF VoiceInvariant, VoiceTypeOK, PumpInStep, ModeInStep,
        HandlerInStep, ClosedReleases, ClaimCommits, PumpGoes, session, bridge, stored,
        Turns, Busy, Before, Wording, Storing, Listening, Aborts
  <1> QED
    BY <1>1, <1>2, <1>3, <1>4, <1>5 DEF VoiceInvariant

LEMMA RegisterSound ==
    ASSUME VoiceInvariant, Register
    PROVE  VoiceInvariant'
  <1>1. VoiceTypeOK'
    <2>1. TurnTypeOK'
      BY DEF VoiceInvariant, VoiceTypeOK, TurnTypeOK, Register
    <2>2. pump.turn = current /\ current # 0
      BY DEF VoiceInvariant, PumpInStep, Register, PumpGoes, Busy
    <2> QED
      BY <2>1, <2>2, VoiceConstants DEF VoiceInvariant, VoiceTypeOK, Register, PumpGoes,
          session, stored, Turns, Busy, Listening
  <1>2. ReplyFenced'
    BY VoiceConstants DEF VoiceInvariant, VoiceTypeOK, ReplyFenced, PumpInStep,
        Register, PumpGoes, session, stored, Turns, Busy, Before, Wording, Storing,
        Listening
  <1>3. PumpInStep'
    BY VoiceConstants DEF VoiceInvariant, VoiceTypeOK, PumpInStep, ModeInStep,
        HandlerInStep, Register, PumpGoes, session, stored, Turns, Busy, Before,
        Wording, Storing, Listening, Aborts
  <1>4. ModeInStep'
    BY VoiceConstants DEF VoiceInvariant, VoiceTypeOK, PumpInStep, ModeInStep,
        HandlerInStep, Register, PumpGoes, session, stored, Turns, Busy, Before,
        Wording, Storing, Listening, Aborts
  <1>5. HandlerInStep'
    BY VoiceConstants DEF VoiceInvariant, VoiceTypeOK, PumpInStep, ModeInStep,
        HandlerInStep, ClosedReleases, Register, PumpGoes, session, stored, Turns, Busy,
        Before, Wording, Storing, Listening, Aborts
  <1> QED
    BY <1>1, <1>2, <1>3, <1>4, <1>5 DEF VoiceInvariant

LEMMA BuildRequestSound ==
    ASSUME VoiceInvariant, BuildRequest
    PROVE  VoiceInvariant'
  <1>1. VoiceTypeOK'
    <2>1. TurnTypeOK'
      BY DEF VoiceInvariant, VoiceTypeOK, TurnTypeOK, BuildRequest
    <2>2. pump.turn = current /\ current # 0
      BY DEF VoiceInvariant, PumpInStep, BuildRequest, PumpGoes, Busy
    <2> QED
      BY <2>1, <2>2, VoiceConstants DEF VoiceInvariant, VoiceTypeOK, BuildRequest,
          PumpGoes, session, Turns, Busy, Listening
  <1>2. ReplyFenced'
    BY VoiceConstants DEF VoiceInvariant, VoiceTypeOK, ReplyFenced, PumpInStep,
        BuildRequest, PumpGoes, session, Turns, Busy, Before, Wording, Storing,
        Listening
  <1>3. PumpInStep'
    BY VoiceConstants DEF VoiceInvariant, VoiceTypeOK, PumpInStep, ModeInStep,
        HandlerInStep, BuildRequest, PumpGoes, session, Turns, Busy, Before, Wording,
        Storing, Listening, Aborts
  <1>4. ModeInStep'
    BY VoiceConstants DEF VoiceInvariant, VoiceTypeOK, PumpInStep, ModeInStep,
        HandlerInStep, BuildRequest, PumpGoes, session, Turns, Busy, Before, Wording,
        Storing, Listening, Aborts
  <1>5. HandlerInStep'
    BY VoiceConstants DEF VoiceInvariant, VoiceTypeOK, PumpInStep, ModeInStep,
        HandlerInStep, ClosedReleases, BuildRequest, PumpGoes, session, Turns, Busy,
        Before, Wording, Storing, Listening, Aborts
  <1> QED
    BY <1>1, <1>2, <1>3, <1>4, <1>5 DEF VoiceInvariant

LEMMA ChunkSound ==
    ASSUME VoiceInvariant, Chunk
    PROVE  VoiceInvariant'
  <1>1. VoiceTypeOK'
    BY SMTT(30), VoiceConstants DEF VoiceInvariant, VoiceTypeOK, TurnTypeOK, Chunk, Current, Idle,
        session, bridge, stored, Turns, Busy, Listening
  <1>2. ReplyFenced'
    BY VoiceConstants DEF VoiceInvariant, VoiceTypeOK, ReplyFenced, PumpInStep, Chunk,
        Current, Idle, session, bridge, stored, Turns, Busy, Before, Wording, Storing,
        Listening
  <1>3. PumpInStep'
    BY VoiceConstants DEF VoiceInvariant, VoiceTypeOK, PumpInStep, ModeInStep,
        HandlerInStep, Chunk, Current, Idle, session, bridge, stored, Turns, Busy,
        Before, Wording, Storing, Listening, Aborts
  <1>4. ModeInStep'
    BY VoiceConstants DEF VoiceInvariant, VoiceTypeOK, PumpInStep, ModeInStep,
        HandlerInStep, Chunk, Current, Idle, session, bridge, stored, Turns, Busy,
        Before, Wording, Storing, Listening, Aborts
  <1>5. HandlerInStep'
    BY VoiceConstants DEF VoiceInvariant, VoiceTypeOK, PumpInStep, ModeInStep,
        HandlerInStep, ClosedReleases, Chunk, Current, Idle, session, bridge, stored,
        Turns, Busy, Before, Wording, Storing, Listening, Aborts
  <1> QED
    BY <1>1, <1>2, <1>3, <1>4, <1>5 DEF VoiceInvariant

LEMMA NoFirstTokenSound ==
    ASSUME VoiceInvariant, NoFirstToken
    PROVE  VoiceInvariant'
  <1>1. VoiceTypeOK'
    BY VoiceConstants DEF VoiceInvariant, VoiceTypeOK, TurnTypeOK, NoFirstToken,
        session, bridge, stored, Turns, Busy, Listening
  <1>2. ReplyFenced'
    BY VoiceConstants DEF VoiceInvariant, VoiceTypeOK, ReplyFenced, PumpInStep,
        NoFirstToken, session, bridge, stored, Turns, Busy, Before, Wording, Storing,
        Listening
  <1>3. PumpInStep'
    BY VoiceConstants DEF VoiceInvariant, VoiceTypeOK, PumpInStep, ModeInStep,
        HandlerInStep, NoFirstToken, session, bridge, stored, Turns, Busy, Before,
        Wording, Storing, Listening, Aborts
  <1>4. ModeInStep'
    BY VoiceConstants DEF VoiceInvariant, VoiceTypeOK, PumpInStep, ModeInStep,
        HandlerInStep, NoFirstToken, session, bridge, stored, Turns, Busy, Before,
        Wording, Storing, Listening, Aborts
  <1>5. HandlerInStep'
    BY VoiceConstants DEF VoiceInvariant, VoiceTypeOK, PumpInStep, ModeInStep,
        HandlerInStep, ClosedReleases, NoFirstToken, session, bridge, stored, Turns,
        Busy, Before, Wording, Storing, Listening, Aborts
  <1> QED
    BY <1>1, <1>2, <1>3, <1>4, <1>5 DEF VoiceInvariant

LEMMA StreamEndsSound ==
    ASSUME VoiceInvariant, StreamEnds
    PROVE  VoiceInvariant'
  <1>1. VoiceTypeOK'
    BY VoiceConstants DEF VoiceInvariant, VoiceTypeOK, TurnTypeOK, StreamEnds, PumpGoes,
        session, bridge, stored, Turns, Busy, Listening
  <1>2. ReplyFenced'
    BY VoiceConstants DEF VoiceInvariant, VoiceTypeOK, ReplyFenced, PumpInStep,
        StreamEnds, PumpGoes, session, bridge, stored, Turns, Busy, Before, Wording,
        Storing, Listening
  <1>3. PumpInStep'
    BY VoiceConstants DEF VoiceInvariant, VoiceTypeOK, PumpInStep, ModeInStep,
        HandlerInStep, StreamEnds, PumpGoes, session, bridge, stored, Turns, Busy,
        Before, Wording, Storing, Listening, Aborts
  <1>4. ModeInStep'
    BY VoiceConstants DEF VoiceInvariant, VoiceTypeOK, PumpInStep, ModeInStep,
        HandlerInStep, StreamEnds, PumpGoes, session, bridge, stored, Turns, Busy,
        Before, Wording, Storing, Listening, Aborts
  <1>5. HandlerInStep'
    BY VoiceConstants DEF VoiceInvariant, VoiceTypeOK, PumpInStep, ModeInStep,
        HandlerInStep, ClosedReleases, StreamEnds, PumpGoes, session, bridge, stored,
        Turns, Busy, Before, Wording, Storing, Listening, Aborts
  <1> QED
    BY <1>1, <1>2, <1>3, <1>4, <1>5 DEF VoiceInvariant

LEMMA SoundSound ==
    ASSUME VoiceInvariant, Sound
    PROVE  VoiceInvariant'
  <1>1. VoiceTypeOK'
    BY VoiceConstants DEF VoiceInvariant, VoiceTypeOK, TurnTypeOK, Sound, Current,
        bridge, stored, Turns, Busy, Listening
  <1>2. ReplyFenced'
    BY VoiceConstants DEF VoiceInvariant, VoiceTypeOK, ReplyFenced, PumpInStep, Sound,
        Current, bridge, stored, Turns, Busy, Before, Wording, Storing, Listening
  <1>3. PumpInStep'
    BY VoiceConstants DEF VoiceInvariant, VoiceTypeOK, PumpInStep, ModeInStep,
        HandlerInStep, Sound, Current, bridge, stored, Turns, Busy, Before, Wording,
        Storing, Listening, Aborts
  <1>4. ModeInStep'
    BY VoiceConstants DEF VoiceInvariant, VoiceTypeOK, PumpInStep, ModeInStep,
        HandlerInStep, Sound, Current, bridge, stored, Turns, Busy, Before, Wording,
        Storing, Listening, Aborts
  <1>5. HandlerInStep'
    BY VoiceConstants DEF VoiceInvariant, VoiceTypeOK, PumpInStep, ModeInStep,
        HandlerInStep, ClosedReleases, Sound, Current, bridge, stored, Turns, Busy,
        Before, Wording, Storing, Listening, Aborts
  <1> QED
    BY <1>1, <1>2, <1>3, <1>4, <1>5 DEF VoiceInvariant

LEMMA DrainedSound ==
    ASSUME VoiceInvariant, Drained
    PROVE  VoiceInvariant'
  <1>1. VoiceTypeOK'
    BY SMTT(30), VoiceConstants DEF VoiceInvariant, VoiceTypeOK, TurnTypeOK, Drained, Current,
        SpokenMode, Idle, stored, Turns, Busy, Listening
  <1>2. ReplyFenced'
    BY VoiceConstants DEF VoiceInvariant, VoiceTypeOK, ReplyFenced, PumpInStep, Drained,
        Current, SpokenMode, Idle, stored, Turns, Busy, Before, Wording, Storing,
        Listening
  <1>3. PumpInStep'
    BY VoiceConstants DEF VoiceInvariant, VoiceTypeOK, PumpInStep, ModeInStep,
        HandlerInStep, Drained, Current, SpokenMode, Idle, stored, Turns, Busy, Before,
        Wording, Storing, Listening, Aborts
  <1>4. ModeInStep'
    BY VoiceConstants DEF VoiceInvariant, VoiceTypeOK, PumpInStep, ModeInStep,
        HandlerInStep, Drained, Current, SpokenMode, Idle, stored, Turns, Busy, Before,
        Wording, Storing, Listening, Aborts
  <1>5. HandlerInStep'
    BY VoiceConstants DEF VoiceInvariant, VoiceTypeOK, PumpInStep, ModeInStep,
        HandlerInStep, ClosedReleases, Drained, Current, SpokenMode, Idle, stored,
        Turns, Busy, Before, Wording, Storing, Listening, Aborts
  <1> QED
    BY <1>1, <1>2, <1>3, <1>4, <1>5 DEF VoiceInvariant

LEMMA LookUpClaimSound ==
    ASSUME VoiceInvariant, LookUpClaim
    PROVE  VoiceInvariant'
  <1>1. VoiceTypeOK'
    BY VoiceConstants DEF VoiceInvariant, VoiceTypeOK, TurnTypeOK, LookUpClaim,
        PumpGoes, session, bridge, stored, Turns, Busy, Listening
  <1>2. ReplyFenced'
    BY VoiceConstants DEF VoiceInvariant, VoiceTypeOK, ReplyFenced, PumpInStep,
        LookUpClaim, PumpGoes, session, bridge, stored, Turns, Busy, Before, Wording,
        Storing, Listening
  <1>3. PumpInStep'
    BY VoiceConstants DEF VoiceInvariant, VoiceTypeOK, PumpInStep, ModeInStep,
        HandlerInStep, LookUpClaim, PumpGoes, session, bridge, stored, Turns, Busy,
        Before, Wording, Storing, Listening, Aborts
  <1>4. ModeInStep'
    BY VoiceConstants DEF VoiceInvariant, VoiceTypeOK, PumpInStep, ModeInStep,
        HandlerInStep, LookUpClaim, PumpGoes, session, bridge, stored, Turns, Busy,
        Before, Wording, Storing, Listening, Aborts
  <1>5. HandlerInStep'
    BY VoiceConstants DEF VoiceInvariant, VoiceTypeOK, PumpInStep, ModeInStep,
        HandlerInStep, ClosedReleases, LookUpClaim, PumpGoes, session, bridge, stored,
        Turns, Busy, Before, Wording, Storing, Listening, Aborts
  <1> QED
    BY <1>1, <1>2, <1>3, <1>4, <1>5 DEF VoiceInvariant

LEMMA StoreSound ==
    ASSUME VoiceInvariant, Store
    PROVE  VoiceInvariant'
  <1> DEFINE t == pump.turn
  <1>a. /\ TurnTypeOK /\ t \in Turns /\ t \in Keys /\ t = current /\ t \in asked
        /\ t \in 1..current /\ (pump.at = "unfenced" => t \notin claims)
    BY VoiceConstants
    DEF VoiceInvariant, VoiceTypeOK, PumpInStep, Store, Busy, Turns, Wording, Storing
  <1>b. turn \in [Keys -> Rows]
    BY <1>a DEF TurnTypeOK, Rows, States
  <1>c. ASSUME pump.at = "fenced", Holds(t, t) PROVE TurnTypeOK' /\ ReplyFenced'
    <2>1. turn' = [turn EXCEPT ![t] = Finished(t, t, "completed")] /\ replies' = replies \cup {t}
      BY <1>c DEF Store
    <2>2. turn' \in [Keys -> Rows] /\ turn'[t].state = "completed"
      BY <1>a, <1>b, <1>c, <2>1, CompletedRow
    <2>3. \A n \in Keys : n # t => turn'[n] = turn[n]
      BY <1>b, <2>1
    <2>4. ReplyFenced'
      BY <1>a, <2>1, <2>2, <2>3, VoiceConstants
      DEF VoiceInvariant, ReplyFenced, Store, Turns, stored
    <2> QED
      BY <2>2, <2>4 DEF TurnTypeOK, Rows, States
  <1>d. ASSUME ~(pump.at = "fenced" /\ Holds(t, t)) PROVE TurnTypeOK' /\ ReplyFenced'
    <2>1. turn' = turn
      BY <1>d DEF Store
    <2>2. ReplyFenced'
      BY <1>a, <1>d, <2>1, VoiceConstants DEF VoiceInvariant, ReplyFenced, Store, Turns
    <2> QED
      BY <1>a, <2>1, <2>2 DEF TurnTypeOK
  <1>e. TurnTypeOK' /\ ReplyFenced'
    BY <1>c, <1>d
  <1>1. VoiceTypeOK'
    BY <1>a, <1>e, VoiceConstants DEF VoiceInvariant, VoiceTypeOK, Store, Idle, session,
        Turns, Busy, Listening
  <1>2. ReplyFenced'
    BY <1>e
  <1>3. PumpInStep'
    BY VoiceConstants DEF VoiceInvariant, VoiceTypeOK, PumpInStep, ModeInStep,
        HandlerInStep, Store, Idle, session, Turns, Busy, Before, Wording, Storing,
        Listening, Aborts
  <1>4. ModeInStep'
    BY VoiceConstants DEF VoiceInvariant, VoiceTypeOK, PumpInStep, ModeInStep,
        HandlerInStep, Store, Idle, session, Turns, Busy, Before, Wording, Storing,
        Listening, Aborts
  <1>5. HandlerInStep'
    BY VoiceConstants DEF VoiceInvariant, VoiceTypeOK, PumpInStep, ModeInStep,
        HandlerInStep, ClosedReleases, Store, Idle, session, Turns, Busy, Before,
        Wording, Storing, Listening, Aborts
  <1> QED
    BY <1>1, <1>2, <1>3, <1>4, <1>5 DEF VoiceInvariant

LEMMA TurnFailsSound ==
    ASSUME VoiceInvariant, TurnFails
    PROVE  VoiceInvariant'
  <1>1. VoiceTypeOK'
    BY VoiceConstants DEF VoiceInvariant, VoiceTypeOK, TurnTypeOK, TurnFails, session,
        bridge, stored, Turns, Busy, Listening
  <1>2. ReplyFenced'
    BY VoiceConstants DEF VoiceInvariant, VoiceTypeOK, ReplyFenced, PumpInStep,
        TurnFails, session, bridge, stored, Turns, Busy, Before, Wording, Storing,
        Listening
  <1>3. PumpInStep'
    BY VoiceConstants DEF VoiceInvariant, VoiceTypeOK, PumpInStep, ModeInStep,
        HandlerInStep, TurnFails, session, bridge, stored, Turns, Busy, Before, Wording,
        Storing, Listening, Aborts
  <1>4. ModeInStep'
    BY VoiceConstants DEF VoiceInvariant, VoiceTypeOK, PumpInStep, ModeInStep,
        HandlerInStep, TurnFails, session, bridge, stored, Turns, Busy, Before, Wording,
        Storing, Listening, Aborts
  <1>5. HandlerInStep'
    BY VoiceConstants DEF VoiceInvariant, VoiceTypeOK, PumpInStep, ModeInStep,
        HandlerInStep, ClosedReleases, TurnFails, session, bridge, stored, Turns, Busy,
        Before, Wording, Storing, Listening, Aborts
  <1> QED
    BY <1>1, <1>2, <1>3, <1>4, <1>5 DEF VoiceInvariant

LEMMA OpenSocketSound ==
    ASSUME VoiceInvariant, OpenSocket
    PROVE  VoiceInvariant'
  <1>1. VoiceTypeOK'
    BY SMTT(30), VoiceConstants DEF VoiceInvariant, VoiceTypeOK, TurnTypeOK, OpenSocket,
        HandlerGoes, Idle, session, bridge, stored, Turns, Busy, Listening
  <1>2. ReplyFenced'
    BY VoiceConstants DEF VoiceInvariant, VoiceTypeOK, ReplyFenced, PumpInStep,
        OpenSocket, HandlerGoes, Idle, session, bridge, stored, Turns, Busy, Before,
        Wording, Storing, Listening
  <1>3. PumpInStep'
    BY VoiceConstants DEF VoiceInvariant, VoiceTypeOK, PumpInStep, ModeInStep,
        HandlerInStep, OpenSocket, HandlerGoes, Idle, session, bridge, stored, Turns,
        Busy, Before, Wording, Storing, Listening, Aborts
  <1>4. ModeInStep'
    BY VoiceConstants DEF VoiceInvariant, VoiceTypeOK, PumpInStep, ModeInStep,
        HandlerInStep, OpenSocket, HandlerGoes, Idle, session, bridge, stored, Turns,
        Busy, Before, Wording, Storing, Listening, Aborts
  <1>5. HandlerInStep'
    BY VoiceConstants DEF VoiceInvariant, VoiceTypeOK, PumpInStep, ModeInStep,
        HandlerInStep, ClosedReleases, OpenSocket, HandlerGoes, Idle, session, bridge,
        stored, Turns, Busy, Before, Wording, Storing, Listening, Aborts
  <1> QED
    BY <1>1, <1>2, <1>3, <1>4, <1>5 DEF VoiceInvariant

LEMMA HearSound ==
    ASSUME VoiceInvariant, Hear
    PROVE  VoiceInvariant'
  <1>1. VoiceTypeOK'
    <2>1. TurnTypeOK'
      BY DEF VoiceInvariant, VoiceTypeOK, TurnTypeOK, Hear
    <2>2. ASSUME NEW h \in Speech, Len(queue) < QueueMax
          PROVE  Append(queue, h) \in Seq(Speech) /\ Len(Append(queue, h)) <= QueueMax
      BY <2>2, VoiceConstants DEF VoiceInvariant, VoiceTypeOK
    <2>3. queue' \in Seq(Speech) /\ Len(queue') <= QueueMax
      BY <2>2 DEF VoiceInvariant, VoiceTypeOK, Hear
    <2>4. heard' \in 0..MaxHeard
      BY SMTT(30), VoiceConstants DEF VoiceInvariant, VoiceTypeOK, Hear
    <2>5. \/ handler' = handler \/ handler' = [handler EXCEPT !.at = "putting"]
      BY DEF Hear
    <2> QED
      BY <2>1, <2>3, <2>4, <2>5
      DEF VoiceInvariant, VoiceTypeOK, Hear, session, bridge, stored
  <1>2. ReplyFenced'
    BY VoiceConstants DEF VoiceInvariant, VoiceTypeOK, ReplyFenced, PumpInStep, Hear,
        session, bridge, stored, Turns, Busy, Before, Wording, Storing, Listening
  <1>3. PumpInStep'
    BY VoiceConstants DEF VoiceInvariant, VoiceTypeOK, PumpInStep, ModeInStep,
        HandlerInStep, Hear, session, bridge, stored, Turns, Busy, Before, Wording,
        Storing, Listening, Aborts
  <1>4. ModeInStep'
    BY VoiceConstants DEF VoiceInvariant, VoiceTypeOK, PumpInStep, ModeInStep,
        HandlerInStep, Hear, session, bridge, stored, Turns, Busy, Before, Wording,
        Storing, Listening, Aborts
  <1>5. HandlerInStep'
    BY VoiceConstants DEF VoiceInvariant, VoiceTypeOK, PumpInStep, ModeInStep,
        HandlerInStep, ClosedReleases, Hear, session, bridge, stored, Turns, Busy,
        Before, Wording, Storing, Listening, Aborts
  <1> QED
    BY <1>1, <1>2, <1>3, <1>4, <1>5 DEF VoiceInvariant

LEMMA PutSound ==
    ASSUME VoiceInvariant, Put
    PROVE  VoiceInvariant'
  <1>1. VoiceTypeOK'
    <2>1. TurnTypeOK'
      BY DEF VoiceInvariant, VoiceTypeOK, TurnTypeOK, Put
    <2>2. ASSUME NEW h \in Speech, Len(queue) < QueueMax
          PROVE  Append(queue, h) \in Seq(Speech) /\ Len(Append(queue, h)) <= QueueMax
      BY <2>2, VoiceConstants DEF VoiceInvariant, VoiceTypeOK
    <2> QED
      BY <2>1, <2>2, VoiceConstants DEF VoiceInvariant, VoiceTypeOK, Put, HandlerGoes,
          session, bridge, stored, Turns, Busy, Listening
  <1>2. ReplyFenced'
    BY VoiceConstants DEF VoiceInvariant, VoiceTypeOK, ReplyFenced, PumpInStep, Put,
        HandlerGoes, session, bridge, stored, Turns, Busy, Before, Wording, Storing,
        Listening
  <1>3. PumpInStep'
    BY VoiceConstants DEF VoiceInvariant, VoiceTypeOK, PumpInStep, ModeInStep,
        HandlerInStep, Put, HandlerGoes, session, bridge, stored, Turns, Busy, Before,
        Wording, Storing, Listening, Aborts
  <1>4. ModeInStep'
    BY VoiceConstants DEF VoiceInvariant, VoiceTypeOK, PumpInStep, ModeInStep,
        HandlerInStep, Put, HandlerGoes, session, bridge, stored, Turns, Busy, Before,
        Wording, Storing, Listening, Aborts
  <1>5. HandlerInStep'
    BY VoiceConstants DEF VoiceInvariant, VoiceTypeOK, PumpInStep, ModeInStep,
        HandlerInStep, ClosedReleases, Put, HandlerGoes, session, bridge, stored, Turns,
        Busy, Before, Wording, Storing, Listening, Aborts
  <1> QED
    BY <1>1, <1>2, <1>3, <1>4, <1>5 DEF VoiceInvariant

LEMMA BargeInSound ==
    ASSUME VoiceInvariant, BargeIn
    PROVE  VoiceInvariant'
  <1>1. VoiceTypeOK'
    BY VoiceConstants DEF VoiceInvariant, VoiceTypeOK, TurnTypeOK, BargeIn, Idle,
        stored, Turns, Busy, Listening
  <1>2. ReplyFenced'
    BY VoiceConstants DEF VoiceInvariant, VoiceTypeOK, ReplyFenced, PumpInStep, BargeIn,
        Idle, stored, Turns, Busy, Before, Wording, Storing, Listening
  <1>3. PumpInStep'
    BY VoiceConstants DEF VoiceInvariant, VoiceTypeOK, PumpInStep, ModeInStep,
        HandlerInStep, BargeIn, Idle, stored, Turns, Busy, Before, Wording, Storing,
        Listening, Aborts
  <1>4. ModeInStep'
    BY VoiceConstants DEF VoiceInvariant, VoiceTypeOK, PumpInStep, ModeInStep,
        HandlerInStep, BargeIn, Idle, stored, Turns, Busy, Before, Wording, Storing,
        Listening, Aborts
  <1>5. HandlerInStep'
    BY VoiceConstants DEF VoiceInvariant, VoiceTypeOK, PumpInStep, ModeInStep,
        HandlerInStep, ClosedReleases, BargeIn, Idle, stored, Turns, Busy, Before,
        Wording, Storing, Listening, Aborts
  <1> QED
    BY <1>1, <1>2, <1>3, <1>4, <1>5 DEF VoiceInvariant

LEMMA AbortCommitsSound ==
    ASSUME VoiceInvariant, AbortCommits
    PROVE  VoiceInvariant'
  <1> DEFINE t == handler.turn
             row == Finished(t, t, "interrupted")
  <1>a. TurnTypeOK /\ t \in Keys /\ turn' = [turn EXCEPT ![t] = row]
    BY VoiceConstants
    DEF VoiceInvariant, VoiceTypeOK, HandlerInStep, AbortCommits, HandlerGoes, Aborts
  <1>b. turn \in [Keys -> Rows]
    BY <1>a DEF TurnTypeOK, Rows, States
  <1>c. row \in Rows /\ (row.state = "completed" <=> turn[t].state = "completed")
    BY <1>a, ClosedRow
  <1>d. TurnTypeOK' /\ \A n \in Keys : turn'[n].state = "completed" <=> turn[n].state = "completed"
    BY <1>a, <1>b, <1>c DEF TurnTypeOK, Rows, States
  <1> HIDE DEF t, row
  <1>1. VoiceTypeOK'
    BY <1>d, VoiceConstants DEF VoiceInvariant, VoiceTypeOK, AbortCommits, HandlerGoes,
        session, bridge, stored, Turns, Busy, Listening
  <1>2. ReplyFenced'
    <2>1. Turns = Keys /\ replies \subseteq Turns
      BY VoiceConstants DEF VoiceInvariant, VoiceTypeOK, Turns
    <2>2. UNCHANGED <<asked, replies, claims>>
      BY DEF AbortCommits, bridge, stored
    <2> QED
      BY <1>d, <2>1, <2>2 DEF VoiceInvariant, ReplyFenced
  <1>3. PumpInStep'
    BY VoiceConstants DEF VoiceInvariant, VoiceTypeOK, PumpInStep, ModeInStep,
        HandlerInStep, AbortCommits, HandlerGoes, session, bridge, stored, Turns, Busy,
        Before, Wording, Storing, Listening, Aborts
  <1>4. ModeInStep'
    BY VoiceConstants DEF VoiceInvariant, VoiceTypeOK, PumpInStep, ModeInStep,
        HandlerInStep, AbortCommits, HandlerGoes, session, bridge, stored, Turns, Busy,
        Before, Wording, Storing, Listening, Aborts
  <1>5. HandlerInStep'
    BY VoiceConstants DEF VoiceInvariant, VoiceTypeOK, PumpInStep, ModeInStep,
        HandlerInStep, ClosedReleases, AbortCommits, HandlerGoes, session, bridge,
        stored, Turns, Busy, Before, Wording, Storing, Listening, Aborts
  <1> QED
    BY <1>1, <1>2, <1>3, <1>4, <1>5 DEF VoiceInvariant

LEMMA CutSound ==
    ASSUME VoiceInvariant, Cut
    PROVE  VoiceInvariant'
  <1>1. VoiceTypeOK'
    BY VoiceConstants DEF VoiceInvariant, VoiceTypeOK, TurnTypeOK, Cut, Idle, Serving,
        session, stored, Turns, Busy, Listening
  <1>2. ReplyFenced'
    BY VoiceConstants DEF VoiceInvariant, VoiceTypeOK, ReplyFenced, PumpInStep, Cut,
        Idle, Serving, session, stored, Turns, Busy, Before, Wording, Storing, Listening
  <1>3. PumpInStep'
    BY VoiceConstants DEF VoiceInvariant, VoiceTypeOK, PumpInStep, ModeInStep,
        HandlerInStep, Cut, Idle, Serving, session, stored, Turns, Busy, Before,
        Wording, Storing, Listening, Aborts
  <1>4. ModeInStep'
    BY VoiceConstants DEF VoiceInvariant, VoiceTypeOK, PumpInStep, ModeInStep,
        HandlerInStep, Cut, Idle, Serving, session, stored, Turns, Busy, Before,
        Wording, Storing, Listening, Aborts
  <1>5. HandlerInStep'
    BY VoiceConstants DEF VoiceInvariant, VoiceTypeOK, PumpInStep, ModeInStep,
        HandlerInStep, ClosedReleases, Cut, Idle, Serving, session, stored, Turns, Busy,
        Before, Wording, Storing, Listening, Aborts
  <1> QED
    BY <1>1, <1>2, <1>3, <1>4, <1>5 DEF VoiceInvariant

LEMMA LeaveSound ==
    ASSUME VoiceInvariant, Leave
    PROVE  VoiceInvariant'
  <1>1. VoiceTypeOK'
    BY VoiceConstants DEF VoiceInvariant, VoiceTypeOK, TurnTypeOK, Leave, NoWork,
        bridge, stored, Turns, Busy, Listening
  <1>2. ReplyFenced'
    BY VoiceConstants DEF VoiceInvariant, VoiceTypeOK, ReplyFenced, PumpInStep, Leave,
        NoWork, bridge, stored, Turns, Busy, Before, Wording, Storing, Listening
  <1>3. PumpInStep'
    BY VoiceConstants DEF VoiceInvariant, VoiceTypeOK, PumpInStep, ModeInStep,
        HandlerInStep, Leave, NoWork, bridge, stored, Turns, Busy, Before, Wording,
        Storing, Listening, Aborts
  <1>4. ModeInStep'
    BY VoiceConstants DEF VoiceInvariant, VoiceTypeOK, PumpInStep, ModeInStep,
        HandlerInStep, Leave, NoWork, bridge, stored, Turns, Busy, Before, Wording,
        Storing, Listening, Aborts
  <1>5. HandlerInStep'
    BY VoiceConstants DEF VoiceInvariant, VoiceTypeOK, PumpInStep, ModeInStep,
        HandlerInStep, ClosedReleases, Leave, NoWork, bridge, stored, Turns, Busy,
        Before, Wording, Storing, Listening, Aborts
  <1> QED
    BY <1>1, <1>2, <1>3, <1>4, <1>5 DEF VoiceInvariant

LEMMA CloseNextSound ==
    ASSUME VoiceInvariant, CloseNext
    PROVE  VoiceInvariant'
  <1>1. VoiceTypeOK'
    BY SMTT(30), VoiceConstants DEF VoiceInvariant, VoiceTypeOK, TurnTypeOK, CloseNext, Idle,
        NoWork, session, stored, Turns, Busy, Listening
  <1>2. ReplyFenced'
    BY VoiceConstants DEF VoiceInvariant, VoiceTypeOK, ReplyFenced, PumpInStep,
        CloseNext, Idle, NoWork, session, stored, Turns, Busy, Before, Wording, Storing,
        Listening
  <1>3. PumpInStep'
    BY VoiceConstants DEF VoiceInvariant, VoiceTypeOK, PumpInStep, ModeInStep,
        HandlerInStep, CloseNext, Idle, NoWork, session, stored, Turns, Busy, Before,
        Wording, Storing, Listening, Aborts
  <1>4. ModeInStep'
    BY SMTT(30), VoiceConstants DEF VoiceInvariant, VoiceTypeOK, PumpInStep, ModeInStep,
        HandlerInStep, CloseNext, Idle, NoWork, session, stored, Turns, Busy, Before,
        Wording, Storing, Listening, Aborts
  <1>5. HandlerInStep'
    BY SMTT(30), VoiceConstants DEF VoiceInvariant, VoiceTypeOK, PumpInStep, ModeInStep,
        HandlerInStep, ClosedReleases, CloseNext, Idle, NoWork, session, stored, Turns,
        Busy, Before, Wording, Storing, Listening, Aborts
  <1> QED
    BY <1>1, <1>2, <1>3, <1>4, <1>5 DEF VoiceInvariant

LEMMA CloseFailsSound ==
    ASSUME VoiceInvariant, CloseFails
    PROVE  VoiceInvariant'
  <1>1. VoiceTypeOK'
    BY VoiceConstants DEF VoiceInvariant, VoiceTypeOK, TurnTypeOK, CloseFails, NoWork,
        session, bridge, stored, Turns, Busy, Listening
  <1>2. ReplyFenced'
    BY VoiceConstants DEF VoiceInvariant, VoiceTypeOK, ReplyFenced, PumpInStep,
        CloseFails, NoWork, session, bridge, stored, Turns, Busy, Before, Wording,
        Storing, Listening
  <1>3. PumpInStep'
    BY VoiceConstants DEF VoiceInvariant, VoiceTypeOK, PumpInStep, ModeInStep,
        HandlerInStep, CloseFails, NoWork, session, bridge, stored, Turns, Busy, Before,
        Wording, Storing, Listening, Aborts
  <1>4. ModeInStep'
    BY VoiceConstants DEF VoiceInvariant, VoiceTypeOK, PumpInStep, ModeInStep,
        HandlerInStep, CloseFails, NoWork, session, bridge, stored, Turns, Busy, Before,
        Wording, Storing, Listening, Aborts
  <1>5. HandlerInStep'
    BY VoiceConstants DEF VoiceInvariant, VoiceTypeOK, PumpInStep, ModeInStep,
        HandlerInStep, ClosedReleases, CloseFails, NoWork, session, bridge, stored,
        Turns, Busy, Before, Wording, Storing, Listening, Aborts
  <1> QED
    BY <1>1, <1>2, <1>3, <1>4, <1>5 DEF VoiceInvariant

LEMMA LapseSound ==
    ASSUME VoiceInvariant, Lapse
    PROVE  VoiceInvariant'
  <1>a. PICK k \in Turns : LeaseLapses(k)
    BY DEF Lapse
  <1>b. k \in Keys /\ TurnTypeOK
    BY VoiceConstants DEF Turns, VoiceInvariant, VoiceTypeOK
  <1>d. TurnTypeOK' /\ \A n \in Keys : turn'[n].state = "completed" <=> turn[n].state = "completed"
    BY <1>a, <1>b, LapsedRow DEF TurnTypeOK, Rows, States
  <1>1. VoiceTypeOK'
    BY <1>d, VoiceConstants DEF VoiceInvariant, VoiceTypeOK, Lapse, session, bridge,
        stored, Turns, Busy, Listening
  <1>2. ReplyFenced'
    <2>1. Turns = Keys /\ replies \subseteq Turns
      BY VoiceConstants DEF VoiceInvariant, VoiceTypeOK, Turns
    <2>2. UNCHANGED <<asked, replies, claims>>
      BY DEF Lapse, bridge, stored
    <2> QED
      BY <1>d, <2>1, <2>2 DEF VoiceInvariant, ReplyFenced
  <1>3. PumpInStep'
    BY VoiceConstants DEF VoiceInvariant, VoiceTypeOK, PumpInStep, ModeInStep,
        HandlerInStep, Lapse, session, bridge, stored, Turns, Busy, Before, Wording,
        Storing, Listening, Aborts
  <1>4. ModeInStep'
    BY VoiceConstants DEF VoiceInvariant, VoiceTypeOK, PumpInStep, ModeInStep,
        HandlerInStep, Lapse, session, bridge, stored, Turns, Busy, Before, Wording,
        Storing, Listening, Aborts
  <1>5. HandlerInStep'
    BY VoiceConstants DEF VoiceInvariant, VoiceTypeOK, PumpInStep, ModeInStep,
        HandlerInStep, ClosedReleases, Lapse, session, bridge, stored, Turns, Busy,
        Before, Wording, Storing, Listening, Aborts
  <1> QED
    BY <1>1, <1>2, <1>3, <1>4, <1>5 DEF VoiceInvariant

-----------------------------------------------------------------------------
LEMMA StutterSound ==
    ASSUME VoiceInvariant, UNCHANGED voiceVars
    PROVE  VoiceInvariant'
  <1>1. VoiceTypeOK' /\ ReplyFenced'
    BY DEF VoiceInvariant, VoiceTypeOK, TurnTypeOK, ReplyFenced, voiceVars, session, bridge, stored
  <1>2. PumpInStep' /\ ModeInStep' /\ HandlerInStep'
    BY DEF VoiceInvariant, PumpInStep, ModeInStep, HandlerInStep, ClosedReleases, Aborts,
        voiceVars, session, bridge, stored
  <1> QED
    BY <1>1, <1>2 DEF VoiceInvariant

(* Every step of pump, handler, client or clock keeps the invariant.       *)
THEOREM VoiceStepSound == VoiceInvariant /\ [VoiceNext]_voiceVars => VoiceInvariant'
  <1> SUFFICES ASSUME VoiceInvariant, [VoiceNext]_voiceVars PROVE VoiceInvariant'
    OBVIOUS
  <1>1. CASE Pump
    BY <1>1, TranscriptSound, MarkThinkingSound, BuildRequestSound, ChunkSound,
       NoFirstTokenSound, StreamEndsSound, SoundSound, DrainedSound, ClaimCommitsSound,
       RegisterSound, LookUpClaimSound, StoreSound DEF Pump, ProcessTranscript
  <1>2. CASE Handler
    BY <1>2, PutSound, AbortCommitsSound, CutSound, CloseNextSound DEF Handler
  <1>3. CASE Client
    BY <1>3, OpenSocketSound, HearSound, BargeInSound DEF Client
  <1>4. CASE TurnFails \/ Leave \/ CloseFails \/ Lapse
    BY <1>4, TurnFailsSound, LeaveSound, CloseFailsSound, LapseSound
  <1>5. CASE Done \/ UNCHANGED voiceVars
    BY <1>5, StutterSound DEF Done
  <1> QED
    BY <1>1, <1>2, <1>3, <1>4, <1>5 DEF VoiceNext

(* Types hold, replies and rows agree, and pump, mode and handler stay in  *)
(* step, however the two tasks interleave (voice_session.py:245-345).      *)
THEOREM VoiceInvariantHolds == VoiceSpec => []VoiceInvariant
  BY VoiceInitiallySound, VoiceStepSound, PTL DEF VoiceSpec

(* A reply follows its question, and a row is completed only with its      *)
(* reply (conversation.py:185).                                            *)
THEOREM RepliesAreFenced == VoiceSpec => []ReplyFenced
  <1>1. VoiceInvariant => ReplyFenced
    BY DEF VoiceInvariant
  <1> QED
    BY <1>1, VoiceInvariantHolds, PTL

(* A closed socket renews no claim but, at most, one its last turn took    *)
(* while the close was aborting others (conversation.py:219).              *)
THEOREM ClosedKeepsAtMostOne == VoiceSpec => []ClosedReleases
  <1>1. VoiceInvariant => ClosedReleases
    BY DEF VoiceInvariant, HandlerInStep
  <1> QED
    BY <1>1, VoiceInvariantHolds, PTL

(* A session whose pump waits for speech listens to it, except after a     *)
(* turn started under an abort (session.py:120).                           *)
THEOREM WaitingListens == VoiceSpec => []ListensAgain
  <1>1. VoiceInvariant => ListensAgain
    BY DEF VoiceInvariant, ModeInStep, ListensAgain
  <1> QED
    BY <1>1, VoiceInvariantHolds, PTL
=============================================================================
