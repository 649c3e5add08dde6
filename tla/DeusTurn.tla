------------------------------- MODULE DeusTurn -------------------------------
(***************************************************************************)
(* A typed question to DEUS (api/deus.py and DeusConversationService in    *)
(* services/deus.py).  A client that got no answer sends its request id    *)
(* again, and each sending is an attempt: it claims the id, stores the     *)
(* question, generates, and stores question, answer, decisions and events  *)
(* with the end of the turn in one transaction.  Attempts run concurrently *)
(* and a process may die under all of them.                                *)
(***************************************************************************)
EXTENDS TurnStore

CONSTANTS
    Attempts,   \* sendings of typed questions
    Key,        \* attempt -> its request id
    Content     \* attempt -> what it asks

ASSUME DeusTurnConstants ==
    /\ Attempts \subseteq Generations
    /\ Key \in [Attempts -> Keys]
    /\ Content \in [Attempts -> Contents]
    /\ Attempts \cap {"nothing", "error", "conflict"} = {}

VARIABLES
    at,        \* attempt -> where its request is
    given,     \* attempt -> whose answer its client was given, or an error
    questions, \* attempts whose question is committed in the Conversation
    proposes,  \* attempts whose deliberation found a viable Mission
    answers,   \* attempts whose answer is committed
    missions,  \* attempts whose proposal is committed as a validated Mission
    active,    \* the Conversation is active
    builder    \* context retrieval is enabled

content  == <<questions, proposes, answers, missions>>
textVars == <<at, given, content, active, builder>>
turnVars == <<turn, textVars>>

DeusInit ==
    /\ TurnInit
    /\ at = [a \in Attempts |-> "idle"]
    /\ given = [a \in Attempts |-> "nothing"]
    /\ questions = {}
    /\ proposes = {}
    /\ answers = {}
    /\ missions = {}
    /\ active = TRUE
    /\ builder \in BOOLEAN

Steps(a, from, to) == at[a] = from /\ at' = [at EXCEPT ![a] = to]
Ends(a, from, with) == Steps(a, from, "done") /\ given' = [given EXCEPT ![a] = with]

-----------------------------------------------------------------------------

(* converse_with_deus claims the id; an answer already stored is returned. *)
Claim(a) ==
    LET k == Key[a] IN
    /\ at[a] = "idle"
    /\ IF ~active THEN Ends(a, "idle", "error") /\ UNCHANGED turn
       ELSE /\ turn' = [turn EXCEPT ![k] = AfterClaim(k, a, Content[a])]
            /\ CASE turn'[k] = Pending(a, Content[a]) ->
                        Steps(a, "idle", "claimed") /\ UNCHANGED given
                 [] Claimed(k, Content[a]) = "replay" -> Ends(a, "idle", turn[k].owner)
                 [] OTHER -> Ends(a, "idle", "conflict")
    /\ UNCHANGED <<content, active, builder>>

(* respond: the question is flushed, and committed at once when the context *)
(* builder is to read it in a transaction of its own.                      *)
Open(a) ==
    /\ IF active THEN Steps(a, "claimed", "thinking") ELSE Steps(a, "claimed", "failing")
    /\ questions' = IF active /\ builder THEN questions \cup {a} ELSE questions
    /\ UNCHANGED <<turn, given, proposes, answers, missions, active, builder>>

(* _reason fails open: the answer is sought with a proposal or without.    *)
Reason(a) ==
    /\ Steps(a, "thinking", "asking")
    /\ proposes' \in {proposes, proposes \cup {a}}
    /\ UNCHANGED <<turn, given, questions, answers, missions, active, builder>>

(* The router answers; or nobody does within the deadline.                 *)
Generate(a) ==
    /\ Steps(a, "asking", "writing") \/ Steps(a, "asking", "failing")
    /\ UNCHANGED <<turn, given, content, active, builder>>

(* _record_reasoning: a viable proposal becomes an approved inception and a *)
(* validated Mission, in the transaction that writes the answer.           *)
RecordReasoning(a) == missions' = missions \cup ({a} \cap proposes)

(* Question, answer, events, the Mission that was found viable and the end *)
(* of the turn commit together, or the guard raises TurnConflict.  The     *)
(* acknowledgement of the commit may be lost.                              *)
Commit(a) ==
    LET k == Key[a] IN
    /\ IF Holds(k, a)
       THEN /\ turn' = [turn EXCEPT ![k] = Finished(k, a, "completed")]
            /\ answers' = answers \cup {a}
            /\ questions' = questions \cup {a}
            /\ RecordReasoning(a)
            /\ \/ Ends(a, "writing", a)
               \/ \E to \in {"failing", "cancelled"} : Steps(a, "writing", to) /\ UNCHANGED given
       ELSE Ends(a, "writing", "conflict") /\ UNCHANGED <<turn, answers, questions, missions>>
    /\ UNCHANGED <<proposes, active, builder>>

CommitFails(a) ==
    /\ Steps(a, "writing", "failing")
    /\ UNCHANGED <<turn, given, content, active, builder>>

(* The transaction is rolled back before finish is called.                 *)
FinishFailed(a) ==
    /\ turn' = [turn EXCEPT ![Key[a]] = Finished(Key[a], a, "failed")]
    /\ Ends(a, "failing", "error")
    /\ UNCHANGED <<content, active, builder>>

FinishInterrupted(a) ==
    /\ turn' = [turn EXCEPT ![Key[a]] = Finished(Key[a], a, "interrupted")]
    /\ Ends(a, "cancelled", "error")
    /\ UNCHANGED <<content, active, builder>>

InFlight == {"claimed", "thinking", "asking", "writing"}

(* renewing: a heartbeat that did not renew the lease cancels the          *)
(* generation, and the row is left as it is.                               *)
HeartbeatLost(a) ==
    /\ \E from \in InFlight : Ends(a, from, "conflict")
    /\ UNCHANGED <<turn, content, active, builder>>

TaskCancelled(a) ==
    /\ \E from \in InFlight : Steps(a, from, "cancelled")
    /\ UNCHANGED <<turn, given, content, active, builder>>

Respond(a) ==
    \/ Open(a) \/ Reason(a) \/ Generate(a) \/ Commit(a) \/ CommitFails(a)
    \/ FinishFailed(a) \/ FinishInterrupted(a)

TextStep(a) == Claim(a) \/ Respond(a) \/ HeartbeatLost(a) \/ TaskCancelled(a)

(* The process dies under every attempt in flight.                         *)
AttemptsDie ==
    /\ at' = [a \in Attempts |-> IF at[a] = "idle" THEN "idle" ELSE "done"]
    /\ given' = [a \in Attempts |-> IF at[a] \in {"idle", "done"} THEN given[a] ELSE "error"]
    /\ UNCHANGED <<turn, content, active, builder>>

CloseConversation ==
    /\ active
    /\ active' = FALSE
    /\ UNCHANGED <<turn, at, given, content, builder>>

RowLapses(k) == LeaseLapses(k) /\ UNCHANGED textVars

DeusNext ==
    \/ \E a \in Attempts : TextStep(a)
    \/ \E k \in Keys : RowLapses(k)
    \/ AttemptsDie
    \/ CloseConversation

DeusSpec == DeusInit /\ [][DeusNext]_turnVars

-----------------------------------------------------------------------------
DeusTypeOK ==
    /\ TurnTypeOK
    /\ at \in [Attempts -> {"idle", "failing", "cancelled", "done"} \cup InFlight]
    /\ given \in [Attempts -> Attempts \cup {"nothing", "error", "conflict"}]
    /\ questions \subseteq Attempts
    /\ proposes \subseteq Attempts
    /\ answers \subseteq Attempts
    /\ {active, builder} \subseteq BOOLEAN

(* The row of a request id and the Conversation agree: an answer is stored *)
(* exactly under a completed row, by the attempt the row names.            *)
RowNamesReply ==
    /\ \A a \in answers : turn[Key[a]].state = "completed" /\ turn[Key[a]].owner = a
    /\ \A k \in Keys : turn[k].state = "completed" =>
          turn[k].owner \in answers /\ Key[turn[k].owner] = k

(* However often a request is sent, and whatever is lost on the way, its   *)
(* id has one answer in the Conversation at most, and with it one Mission  *)
(* (deus_turns.py:43); what a client is given, by its own attempt or by an *)
(* earlier one it repeats, is that answer.                                 *)
AnsweredOnce ==
    /\ \A a, b \in answers : Key[a] = Key[b] => a = b
    /\ \A a \in Attempts : given[a] \in Attempts => given[a] \in answers /\ Key[given[a]] = Key[a]

(* An attempt that gave no answer leaves no Mission behind, and, without   *)
(* the context builder, which has the question committed early, no         *)
(* question either (deus_turns.py:44).                                     *)
NoTraceOfFailure ==
    /\ missions \subseteq answers
    /\ ~builder => questions = answers

(* What a typed question comes to, over attempts that overlap, repeat and  *)
(* are lost: one answer for an id, known to its row, and nothing else.     *)
DeusInvariant == DeusTypeOK /\ RowNamesReply /\ AnsweredOnce /\ NoTraceOfFailure
=============================================================================
