------------------------------ MODULE VoiceTurn ------------------------------
(***************************************************************************)
(* A spoken conversation (api/voice_session.py, voice_session/): the       *)
(* handler of one socket reads what the client sends, and a task of its    *)
(* own, the pump, takes one transcript after another and answers it.  The  *)
(* two share the mode of the session, the queue of transcripts, and the    *)
(* bridge that keeps a claim (TurnStore) and a pending reply per turn.     *)
(***************************************************************************)
EXTENDS TurnStore, Sequences

CONSTANTS
    MaxTurns,   \* bound: turns of the session
    MaxHeard,   \* bound: transcripts recognised
    QueueMax,   \* capacity of the queue of transcripts
    Providers   \* attempts at a first token, over models and providers

(* Every turn has a request id and words of its own.                       *)
ASSUME VoiceConstants ==
    /\ {MaxTurns, MaxHeard, QueueMax, Providers} \subseteq Nat \ {0}
    /\ Keys = 1..MaxTurns
    /\ Generations = Keys
    /\ Contents = Keys

Turns == 1..MaxTurns

(* What the recogniser delivers: with the wake word or not, a partial      *)
(* hypothesis or a committed utterance, with words beside the wake word or *)
(* none.                                                                   *)
Speech == { [wake |-> TRUE,  committed |-> FALSE, command |-> FALSE],
            [wake |-> TRUE,  committed |-> TRUE,  command |-> FALSE],
            [wake |-> TRUE,  committed |-> TRUE,  command |-> TRUE],
            [wake |-> FALSE, committed |-> TRUE,  command |-> TRUE] }

VARIABLES
    retrieval, \* context retrieval is enabled: turns are claimed
    mode,      \* SessionState
    awake,     \* the wake word has been said
    current,   \* turn_id
    queue,     \* transcripts the pump has not taken
    heard,     \* transcripts so far
    pump,      \* where the pump is, on which turn, at which provider
    handler,   \* where the handler is, which turn it aborts, which are left
    claims,    \* turns the bridge holds a claim of, and renews
    pending,   \* turns the bridge awaits a reply of
    asked,     \* turns whose question is stored
    replies    \* turns whose reply is stored

session  == <<mode, awake, current>>
bridge   == <<claims, pending>>
stored   == <<asked, replies>>
voiceVars == <<turn, retrieval, session, queue, heard, pump, handler, bridge, stored>>

Idle == [at |-> "listening", turn |-> 0, via |-> 0]
NoWork == [at |-> "opening", turn |-> 0, left |-> {}]
Serving == [at |-> "serving", turn |-> 0, left |-> {}]

VoiceInit ==
    /\ TurnInit
    /\ retrieval \in BOOLEAN
    /\ mode = "ARMED"
    /\ awake = FALSE
    /\ current = 0
    /\ queue = <<>>
    /\ heard = 0
    /\ pump = [Idle EXCEPT !.at = "gone"]
    /\ handler = NoWork
    /\ claims = {}
    /\ pending = {}
    /\ asked = {}
    /\ replies = {}

-----------------------------------------------------------------------------
(* The pump.                                                               *)

Listening == {"ARMED", "WAKE_DETECTED", "LISTENING"}
Busy == {"committing", "claiming", "claimed", "building", "asking", "streaming",
         "draining", "storing", "fenced", "unfenced"}

PumpGoes(from, to) == pump.at = from /\ pump' = [pump EXCEPT !.at = to]

(* on_transcript: nothing while a turn is answered; the wake word first,   *)
(* then every committed utterance starts a turn.                           *)
Transcript ==
    LET h == Head(queue)
        ignored == \/ mode \notin Listening
                   \/ ~awake /\ ~h.wake
                   \/ awake /\ ~h.committed
        starts == h.committed /\ (awake \/ h.command)
    IN
    /\ pump.at = "listening"
    /\ queue # <<>>
    /\ queue' = Tail(queue)
    /\ \/ ignored /\ UNCHANGED <<session, pump>>
       \/ /\ ~ignored /\ starts
          /\ current < MaxTurns
          /\ current' = current + 1
          /\ mode' = "COMMITTING"
          /\ awake' = TRUE
          /\ pump' = [at |-> "committing", turn |-> current + 1, via |-> 1]
       \/ /\ ~ignored /\ ~starts
          /\ mode' = IF h.committed THEN "LISTENING" ELSE "WAKE_DETECTED"
          /\ awake' = h.committed
          /\ UNCHANGED <<current, pump>>
    /\ UNCHANGED <<turn, retrieval, heard, handler, bridge, stored>>

Current(m) == pump.turn = current /\ mode \in m

(* finish_speaking and finish_without_audio.                               *)
SpokenMode == IF Current({"THINKING", "SPEAKING"}) THEN "LISTENING" ELSE mode

(* The commit is announced, then mark_thinking.                            *)
MarkThinking ==
    /\ IF Current({"COMMITTING"})
       THEN /\ mode' = "THINKING"
            /\ PumpGoes("committing", IF retrieval THEN "claiming" ELSE "building")
       ELSE /\ pump.at = "committing"
            /\ pump' = Idle
            /\ UNCHANGED mode
    /\ UNCHANGED <<turn, retrieval, awake, current, queue, heard, handler, bridge, stored>>

(* build_request: the claim commits, is registered with its renewal when   *)
(* the pump resumes, and the question is committed.                        *)
ClaimCommits ==
    /\ PumpGoes("claiming", "claimed")
    /\ turn' = [turn EXCEPT ![pump.turn] = AfterClaim(pump.turn, pump.turn, pump.turn)]
    /\ UNCHANGED <<retrieval, session, queue, heard, handler, bridge, stored>>

Register ==
    /\ PumpGoes("claimed", "building")
    /\ claims' = claims \cup {pump.turn}
    /\ UNCHANGED <<turn, retrieval, session, queue, heard, handler, pending, stored>>

BuildRequest ==
    /\ PumpGoes("building", "asking")
    /\ pending' = pending \cup {pump.turn}
    /\ asked' = asked \cup {pump.turn}
    /\ UNCHANGED <<turn, retrieval, session, queue, heard, handler, claims, replies>>

(* A chunk of text: the turn is dropped when it is no longer the session's. *)
Chunk ==
    /\ pump.at \in {"asking", "streaming"}
    /\ pump' = IF Current({"THINKING", "SPEAKING"})
               THEN [pump EXCEPT !.at = "streaming"] ELSE Idle
    /\ UNCHANGED <<turn, retrieval, session, queue, heard, handler, bridge, stored>>

(* Mutant: a list of providers that is used up is started again.           *)
NoFirstToken_Rewinds ==
    /\ pump.at = "asking"
    /\ pump' = [pump EXCEPT !.via = (pump.via % Providers) + 1]
    /\ UNCHANGED <<turn, retrieval, session, queue, heard, handler, bridge, stored>>

(* stream_response fails over before any text; when every attempt failed   *)
(* the unavailable notice is spoken instead.                               *)
NoFirstToken ==
    /\ pump.at = "asking"
    /\ pump' = IF pump.via < Providers THEN [pump EXCEPT !.via = @ + 1]
               ELSE [pump EXCEPT !.at = "draining"]
    /\ UNCHANGED <<turn, retrieval, session, queue, heard, handler, bridge, stored>>

StreamEnds ==
    /\ PumpGoes("streaming", "draining")
    /\ UNCHANGED <<turn, retrieval, session, queue, heard, handler, bridge, stored>>

(* The first synthesised sound of the turn: mark_speaking.                 *)
Sound ==
    /\ pump.at \in {"streaming", "draining"}
    /\ Current({"THINKING"})
    /\ mode' = "SPEAKING"
    /\ UNCHANGED <<turn, retrieval, awake, current, queue, heard, pump, handler, bridge, stored>>

(* Mutant: a turn that ended without a sound leaves the mode as it was.    *)
Drained_OnlySpeaking ==
    /\ pump.at = "draining"
    /\ mode' = IF Current({"SPEAKING"}) THEN "LISTENING" ELSE mode
    /\ pending' = pending \ {pump.turn}
    /\ pump' = IF pump.turn \in pending THEN [pump EXCEPT !.at = "storing"] ELSE Idle
    /\ UNCHANGED <<turn, retrieval, awake, current, queue, heard, handler, claims, stored>>

(* The last sound; then complete_turn takes the pending reply.             *)
Drained ==
    /\ pump.at = "draining"
    /\ mode' = SpokenMode
    /\ pending' = pending \ {pump.turn}
    /\ pump' = IF pump.turn \in pending THEN [pump EXCEPT !.at = "storing"] ELSE Idle
    /\ UNCHANGED <<turn, retrieval, awake, current, queue, heard, handler, claims, stored>>

(* The reply and its event are written before the claim is looked up.      *)
LookUpClaim ==
    /\ PumpGoes("storing", IF pump.turn \in claims THEN "fenced" ELSE "unfenced")
    /\ UNCHANGED <<turn, retrieval, session, queue, heard, handler, bridge, stored>>

(* Mutant: the reply is stored whether or not the lease is still held.     *)
Store_NoFence ==
    LET t == pump.turn IN
    /\ pump.at \in {"fenced", "unfenced"}
    /\ replies' = replies \cup {t}
    /\ turn' = IF pump.at = "fenced"
               THEN [turn EXCEPT ![t] = Finished(t, t, "completed")] ELSE turn
    /\ \/ claims' = claims \ {t} /\ pump' = Idle
       \/ pump' = [pump EXCEPT !.at = "failed"] /\ UNCHANGED claims
    /\ UNCHANGED <<retrieval, session, queue, heard, handler, pending, asked>>

(* The transaction of the reply; with a claim it closes the row too.  The  *)
(* acknowledgement may be lost.                                            *)
Store ==
    LET t == pump.turn
        commits == pump.at = "unfenced" \/ Holds(t, t)
    IN
    /\ pump.at \in {"fenced", "unfenced"}
    /\ IF commits
       THEN /\ replies' = replies \cup {t}
            /\ turn' = IF pump.at = "fenced"
                       THEN [turn EXCEPT ![t] = Finished(t, t, "completed")] ELSE turn
            /\ \/ claims' = claims \ {t} /\ pump' = Idle
               \/ pump' = [pump EXCEPT !.at = "failed"] /\ UNCHANGED claims
       ELSE pump' = [pump EXCEPT !.at = "failed"] /\ UNCHANGED <<replies, turn, claims>>
    /\ UNCHANGED <<retrieval, session, queue, heard, handler, pending, asked>>

(* Any wait of the turn fails, or outlasts the event timeout; or the       *)
(* renewal of its claim found the lease gone and cancelled the pump.       *)
TurnFails ==
    /\ pump.at \in Busy
    /\ pump' = [pump EXCEPT !.at = "failed"]
    /\ UNCHANGED <<turn, retrieval, session, queue, heard, handler, bridge, stored>>

ProcessTranscript ==
    \/ Transcript \/ MarkThinking \/ BuildRequest \/ Chunk \/ NoFirstToken
    \/ StreamEnds \/ Sound \/ Drained

Pump == ProcessTranscript \/ ClaimCommits \/ Register \/ LookUpClaim \/ Store

-----------------------------------------------------------------------------
(* The handler.                                                            *)

HandlerGoes(from, to) == handler.at = from /\ handler' = [handler EXCEPT !.at = to]

(* The ticket, the configuration, the speech engine and the Conversation   *)
(* are checked before the socket is accepted.                              *)
OpenSocket ==
    /\ \/ HandlerGoes("opening", "serving") /\ pump' = Idle
       \/ HandlerGoes("opening", "closed") /\ UNCHANGED pump
    /\ UNCHANGED <<turn, retrieval, session, queue, heard, bridge, stored>>

(* Sound the client sends becomes a transcript; put waits for room.        *)
Hear ==
    /\ handler.at = "serving" /\ pump.at # "failed"
    /\ heard < MaxHeard
    /\ heard' = heard + 1
    /\ \E h \in Speech :
          IF Len(queue) < QueueMax
          THEN queue' = Append(queue, h) /\ UNCHANGED handler
          ELSE UNCHANGED queue /\ handler' = [handler EXCEPT !.at = "putting"]
    /\ UNCHANGED <<turn, retrieval, session, pump, bridge, stored>>

Put ==
    /\ HandlerGoes("putting", "serving")
    /\ Len(queue) < QueueMax
    /\ \E h \in Speech : queue' = Append(queue, h)
    /\ UNCHANGED <<turn, retrieval, session, heard, pump, bridge, stored>>

(* The creator speaks over the reply.  With claims the turn is aborted     *)
(* first, else the pump is cancelled at once and started anew.             *)
BargeIn ==
    /\ handler.at = "serving" /\ pump.at # "failed"
    /\ mode = "SPEAKING"
    /\ mode' = "LISTENING"
    /\ IF retrieval
       THEN /\ handler' = [at |-> "aborting", turn |-> current, left |-> {}]
            /\ claims' = claims \ {current}
            /\ UNCHANGED pump
       ELSE pump' = Idle /\ UNCHANGED <<handler, claims>>
    /\ UNCHANGED <<turn, retrieval, awake, current, queue, heard, pending, stored>>

(* abort_turn: the row is closed in a transaction of its own.              *)
AbortCommits ==
    /\ HandlerGoes("aborting", "aborted")
    /\ turn' = [turn EXCEPT ![handler.turn] = Finished(handler.turn, handler.turn, "interrupted")]
    /\ UNCHANGED <<retrieval, session, queue, heard, pump, bridge, stored>>

(* The abort returns; after a barge-in whatever the pump does is cancelled *)
(* and it is started anew.                                                 *)
Cut ==
    /\ handler.at = "aborted"
    /\ handler.left = {}
    /\ pending' = pending \ {handler.turn}
    /\ handler' = Serving
    /\ pump' = Idle
    /\ UNCHANGED <<turn, retrieval, session, queue, heard, claims, stored>>

(* Mutant: a client that went is not waited for, nor its claims.           *)
Leave_KeepsClaims ==
    /\ handler.at = "serving"
    /\ handler' = [NoWork EXCEPT !.at = "closed"]
    /\ pump' = [Idle EXCEPT !.at = "gone"]
    /\ UNCHANGED <<turn, retrieval, session, queue, heard, bridge, stored>>

(* The handler leaves: the client stopped or went, the pump failed, or the *)
(* abort could not reach the database.                                     *)
Leave ==
    /\ \/ handler.at = "serving" /\ pump.at # "failed" /\ mode' = "CLOSED"
       \/ handler.at = "serving" /\ pump.at = "failed" /\ UNCHANGED mode
       \/ handler.at = "aborting" /\ handler.left = {} /\ UNCHANGED mode
    /\ handler' = [NoWork EXCEPT !.at = "closing"]
    /\ UNCHANGED <<turn, retrieval, awake, current, queue, heard, pump, bridge, stored>>

(* bridge.close aborts the claims it finds one after another; then the     *)
(* pump is cancelled.                                                      *)
CloseNext ==
    /\ \/ handler.at = "closing" /\ UNCHANGED pending
       \/ handler.at = "aborted" /\ handler.left # {} /\ pending' = pending \ {handler.turn}
    /\ LET left == IF handler.at = "closing" THEN claims ELSE handler.left \ {handler.turn} IN
       IF left = {} THEN /\ handler' = [NoWork EXCEPT !.at = "closed"]
                         /\ pump' = [Idle EXCEPT !.at = "gone"]
                         /\ UNCHANGED claims
       ELSE \E t \in left : /\ handler' = [at |-> "aborting", turn |-> t, left |-> left]
                            /\ claims' = claims \ {t}
                            /\ UNCHANGED pump
    /\ UNCHANGED <<turn, retrieval, session, queue, heard, stored>>

Handler == Put \/ AbortCommits \/ Cut \/ CloseNext
Client == OpenSocket \/ Hear \/ BargeIn

(* An abort of the close that cannot reach the database raises past the    *)
(* cancellation of the pump: pump and renewals outlive the handler.        *)
CloseFails ==
    /\ handler.at = "aborting" /\ handler.left # {}
    /\ handler' = [NoWork EXCEPT !.at = "broken"]
    /\ UNCHANGED <<turn, retrieval, session, queue, heard, pump, bridge, stored>>

(* A lease is renewed while the bridge holds its claim; the database may   *)
(* be out of reach for as long as it lasts.                                *)
Lapse == \E t \in Turns : LeaseLapses(t) /\ UNCHANGED <<retrieval, session, queue, heard,
                                                        pump, handler, bridge, stored>>

Done ==
    /\ handler.at \in {"closed", "broken"}
    /\ UNCHANGED voiceVars

VoiceNext == Pump \/ TurnFails \/ Handler \/ Leave \/ CloseFails \/ Client \/ Lapse \/ Done

(* Every wait of a turn is bounded by the event timeout, so the pump gets  *)
(* on; the handler is a task that is always scheduled, and it leaves when  *)
(* the pump has failed.                                                    *)
VoiceSpec ==
    /\ VoiceInit /\ [][VoiceNext]_voiceVars
    /\ WF_voiceVars(Pump) /\ WF_voiceVars(Handler)
    /\ WF_voiceVars(Leave /\ pump.at = "failed")

-----------------------------------------------------------------------------
VoiceTypeOK ==
    /\ TurnTypeOK
    /\ retrieval \in BOOLEAN /\ awake \in BOOLEAN
    /\ mode \in Listening \cup {"COMMITTING", "THINKING", "SPEAKING", "CLOSED"}
    /\ current \in 0..MaxTurns /\ heard \in 0..MaxHeard
    /\ queue \in Seq(Speech) /\ Len(queue) <= QueueMax
    /\ pump \in [at : Busy \cup {"listening", "failed", "gone"},
                 turn : 0..MaxTurns, via : 0..Providers]
    /\ handler \in [at : {"opening", "serving", "putting", "aborting", "aborted", "closing",
                          "closed", "broken"},
                    turn : 0..MaxTurns, left : SUBSET Turns]
    /\ claims \cup pending \cup asked \cup replies \subseteq 1..current

(* A turn closed as completed has its reply in the Conversation, a reply   *)
(* is never stored without its question, and while the bridge holds the    *)
(* claim no reply is stored unless the row is completed with it: only an   *)
(* abort that ran beside the reply leaves one behind another row           *)
(* (deus_turns.py:65, conversation.py:181).                                *)
ReplyFenced ==
    /\ replies \subseteq asked
    /\ \A t \in Turns : turn[t].state = "completed" => t \in replies
    /\ \A t \in replies \cap claims : turn[t].state = "completed"

(* A socket that has closed keeps no claim, whose renewal would keep the   *)
(* row pending for ever (conversation.py:219), but at most the one the     *)
(* last turn took while the close was aborting an earlier turn's: then the *)
(* pump was cancelled after the claims had been gone through.              *)
ClosedReleases ==
    handler.at = "closed" => claims \subseteq {current} \ {1}

(* The session listens whenever the pump is waiting for a transcript: no   *)
(* mode that ignores what is said outlives its turn (session.py:120),      *)
(* except where an earlier turn was aborted and the next one started       *)
(* under the abort.                                                        *)
ListensAgain ==
    pump.at = "listening" /\ handler.at = "serving" =>
        \/ mode \in Listening
        \/ retrieval /\ current > 1

(* Every turn the pump takes up comes to an end (voice_session.py:272).    *)
EveryTurnEnds ==
    \A t \in Turns : (pump.turn = t /\ pump.at \in Busy) ~> (pump.turn # t \/ pump.at \notin Busy)

Before == {"committing", "claiming", "claimed"}
Wording == {"asking", "streaming", "draining"}
Storing == {"storing", "fenced", "unfenced"}
Aborts == handler.at \in {"aborting", "aborted"}

(* The pump is at the session's last turn, which it has not registered     *)
(* before its claim is, nor answered before it stores the answer.          *)
PumpInStep ==
    /\ pump.at \in Busy => pump.turn = current /\ current # 0 /\ current \notin replies
    /\ pump.at \in Before => current \notin claims \cup handler.left \cup {handler.turn}
    /\ pump.at \in Wording \cup Storing => current \in asked
    /\ pump.at \in Wording => current \in pending \/ current \notin claims
    /\ pump.at = "unfenced" => current \notin claims

(* The mode says where the pump is, unless the session was closed or the   *)
(* turn interrupted.                                                       *)
ModeInStep ==
    /\ mode \in {"COMMITTING", "THINKING", "SPEAKING"} => current # 0
    /\ pump.at = "committing" => mode \in {"COMMITTING", "CLOSED"}
    /\ pump.at \in {"claiming", "claimed", "building", "asking"} => mode \in {"THINKING", "CLOSED"}
    /\ pump.at \in {"streaming", "draining"} =>
          \/ mode \in {"THINKING", "SPEAKING", "CLOSED"}
          \/ mode = "LISTENING" /\ current \notin claims
    /\ pump.at \in Storing => mode \in {"LISTENING", "CLOSED"}
    /\ mode = "CLOSED" => handler.left # {} \/ handler.at \in {"closing", "closed", "broken"}
    /\ handler.at = "opening" => mode = "ARMED"
    /\ Aborts /\ handler.left = {} => retrieval /\ (current = 1 => mode \in Listening)
    /\ pump.at = "listening" /\ handler.at \in {"serving", "putting"} =>
          mode \in Listening \/ (retrieval /\ current > 1)

(* What the handler aborts is a claim taken from the bridge; while it goes *)
(* through them the last turn alone may register another.                  *)
HandlerInStep ==
    /\ ~Aborts => handler.turn = 0 /\ handler.left = {}
    /\ Aborts => handler.turn \in 1..current \ claims
    /\ handler.left # {} =>
          /\ handler.left \subseteq 1..current /\ handler.turn \in handler.left
          /\ \A t \in claims \ handler.left :
                t = current /\ (mode = "CLOSED" \/ pump.at \in (Busy \ Before) \cup {"failed"})
    /\ handler.at \in {"opening", "closed"} => pump.at = "gone"
    /\ handler.at = "opening" => claims = {}
    /\ ClosedReleases

(* Session, queue, claims and rows keep their types, replies and rows stay *)
(* in step, and so do the pump, the mode and the handler.                  *)
VoiceInvariant == VoiceTypeOK /\ ReplyFenced /\ PumpInStep /\ ModeInStep /\ HandlerInStep
=============================================================================
