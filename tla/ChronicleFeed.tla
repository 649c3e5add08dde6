---------------------------- MODULE ChronicleFeed ----------------------------
(***************************************************************************)
(* The Chronicle and what is read from it. Transactions append events under *)
(* one advisory lock that each holds until it commits                       *)
(* (repositories/domain.py add_event); the worker's refresher copies the    *)
(* system's state beside the Chronicle's head into the projection           *)
(* checkpoints (app/projections); the API reports how far each checkpoint   *)
(* is behind, and streams the events to the frontend, which reconnects      *)
(* after the last one it has seen (api/system_state.py,                     *)
(* frontend/src/api.ts).                                                    *)
(*                                                                          *)
(* Every statement of a transaction reads what is committed when it runs    *)
(* (READ COMMITTED). The rest of a transaction's effects is abstracted to   *)
(* its events: a read of the system's state sees the effects of those       *)
(* committed by then, and their number stands for it. The five checkpoints  *)
(* are written in one order, under row locks, in one transaction: they are  *)
(* one row here. A hash is the identity of the event it is computed from.   *)
(***************************************************************************)
EXTENDS Naturals, Sequences, FiniteSets, SequencesExt

CONSTANTS
    Writers,      \* transactions that append events
    Refreshers,   \* workers that refresh the projections
    StreamBatch,  \* events one poll of the stream reads (100)
    MaxEvents,    \* bound: events appended
    MaxFaults,    \* bound: broken connections, halted pages and dead refreshers together
    Nobody

ASSUME FeedAssumption ==
    /\ Nobody \notin Writers
    /\ StreamBatch \in Nat \ {0} /\ MaxEvents \in Nat /\ MaxFaults \in Nat

VARIABLES
    chain,      \* the committed Chronicle, in the order of its commits
    lock,       \* who holds the advisory lock 84739201
    draft,      \* each transaction: whether it is open, and the events it has appended
    checkpoint, \* the projections, once saved: their position and their state
    refresher,  \* what each refresher has read so far
    report,     \* GET /system/projections: whether it has read the head, and that head
    server,     \* the stream's cursor on the server
    wire,       \* events sent on the connection and not yet received
    client,     \* the frontend: its position, and the events it was handed
    faults      \* connections broken, pages halted and refreshers dead so far

store == <<chain, lock, draft>>
projections == <<checkpoint, refresher>>
feed == <<server, wire, client>>
vars == <<store, projections, report, feed, faults>>

---------------------------------------------------------------------------
(* Appending                                                                *)

Closed == [open |-> FALSE, events |-> <<>>]
NoHash == 0

Event(position, previous, id) == [position |-> position, previous |-> previous, id |-> id]

\* The events a transaction sees: the committed ones and its own.
Visible(w) == chain \o draft[w].events

NextPosition(w) == IF Visible(w) = <<>> THEN 1 ELSE Last(Visible(w)).position + 1
PreviousHash(w) == IF Visible(w) = <<>> THEN NoHash ELSE Last(Visible(w)).id

\* Event ids are random: one that is not drawn yet is taken.
Ids == 1 .. MaxEvents
IdsUsed == {chain[k].id : k \in DOMAIN chain}
             \cup UNION {{e.id : e \in ToSet(draft[w].events)} : w \in Writers}
Fresh == Ids \ IdsUsed

Begin(w) ==
    /\ ~draft[w].open
    /\ draft' = [draft EXCEPT ![w].open = TRUE]
    /\ UNCHANGED <<chain, lock, projections, report, feed, faults>>

\* Mutant: the last event is read and the new one numbered without the lock.
MayAppend_Unlocked(w) == TRUE

\* The advisory lock is free or the transaction's own already.
MayAppend(w) == lock \in {Nobody, w}

\* add_event: the lock, the last event, the next position and its hash link.
AddEvent(w) ==
    /\ draft[w].open /\ MayAppend(w) /\ Fresh # {}
    /\ lock' = w
    /\ LET id == CHOOSE n \in Fresh : TRUE IN
       draft' = [draft EXCEPT ![w].events = Append(@, Event(NextPosition(w), PreviousHash(w), id))]
    /\ UNCHANGED <<chain, projections, report, feed, faults>>

\* The commit publishes the events and frees the lock with the transaction.
Commit(w) ==
    /\ draft[w].open
    /\ chain' = chain \o draft[w].events
    /\ draft' = [draft EXCEPT ![w] = Closed]
    /\ lock' = IF lock = w THEN Nobody ELSE lock
    /\ UNCHANGED <<projections, report, feed, faults>>

Rollback(w) ==
    /\ draft[w].open
    /\ draft' = [draft EXCEPT ![w] = Closed]
    /\ lock' = IF lock = w THEN Nobody ELSE lock
    /\ UNCHANGED <<chain, projections, report, feed, faults>>

\* verify_chronicle: positions without a gap, each event linked to the one before.
Verified(events) ==
    \A k \in DOMAIN events :
        /\ events[k].position = k
        /\ events[k].previous = IF k = 1 THEN NoHash ELSE events[k - 1].id

---------------------------------------------------------------------------
(* The projections                                                          *)

NoRequest == [asked |-> FALSE, head |-> 0]
NoCheckpoint == [saved |-> FALSE, position |-> 0, state |-> 0]
Resting == [at |-> "idle", state |-> 0, position |-> 0]

HeadPosition == IF chain = <<>> THEN 0 ELSE Last(chain).position

\* Mutant: a projection one event behind is left as it is.
NeedsRefresh_Lagging(head) == ~checkpoint.saved \/ checkpoint.position + 1 < head

NeedsRefresh(head) == ~checkpoint.saved \/ checkpoint.position # head

\* refresh_if_needed compares the head with the checkpoint.
CheckHead(r) ==
    /\ refresher[r].at = "idle" /\ NeedsRefresh(HeadPosition)
    /\ refresher' = [refresher EXCEPT ![r].at = "state"]
    /\ UNCHANGED <<store, checkpoint, report, feed, faults>>

\* system_snapshot counts and lists the state first ...
ReadState(r) ==
    /\ refresher[r].at = "state"
    /\ refresher' = [refresher EXCEPT ![r].at = "position", ![r].state = Len(chain)]
    /\ UNCHANGED <<store, checkpoint, report, feed, faults>>

\* ... and reads the position it will be saved under afterwards.
ReadPosition(r) ==
    /\ refresher[r].at = "position"
    /\ refresher' = [refresher EXCEPT ![r].at = "save", ![r].position = HeadPosition]
    /\ UNCHANGED <<store, checkpoint, report, feed, faults>>

\* Mutant: a snapshot is saved whatever the checkpoint already says.
Regresses_Never(position) == FALSE

\* save_checkpoint refuses a position behind the one saved.
Regresses(position) == checkpoint.saved /\ position < checkpoint.position

\* save_checkpoint under the row's lock; a refused snapshot ends its worker, which
\* starts again from the first comparison.
SaveCheckpoint(r) ==
    /\ refresher[r].at = "save"
    /\ checkpoint' = IF Regresses(refresher[r].position) THEN checkpoint
                     ELSE [saved |-> TRUE, position |-> refresher[r].position, state |-> refresher[r].state]
    /\ refresher' = [refresher EXCEPT ![r] = Resting]
    /\ UNCHANGED <<store, report, feed, faults>>

\* The worker dies between two of its steps and is restarted.
RefresherDies(r) ==
    /\ refresher[r].at # "idle" /\ faults < MaxFaults /\ faults' = faults + 1
    /\ refresher' = [refresher EXCEPT ![r] = Resting]
    /\ UNCHANGED <<store, checkpoint, report, feed>>

\* GET /system/projections reads the head ...
AskStatus ==
    /\ ~report.asked
    /\ report' = [asked |-> TRUE, head |-> HeadPosition]
    /\ UNCHANGED <<store, projections, feed, faults>>

\* Mutant: a checkpoint that lags is told apart from a current one the wrong way round.
StatusOf_Swapped(head) ==
    CASE ~checkpoint.saved -> "MISSING"
      [] checkpoint.saved /\ checkpoint.position = head -> "CURRENT"
      [] checkpoint.saved /\ checkpoint.position < head -> "INVALID"
      [] OTHER -> "LAGGING"

\* projection_lag: a checkpoint cannot be ahead of the head it is compared with.
StatusOf(head) ==
    CASE ~checkpoint.saved -> "MISSING"
      [] checkpoint.saved /\ checkpoint.position = head -> "CURRENT"
      [] checkpoint.saved /\ checkpoint.position < head -> "LAGGING"
      [] OTHER -> "INVALID"

\* ... then the checkpoints, and answers StatusOf(report.head).
AnswerStatus ==
    /\ report.asked
    /\ report' = NoRequest
    /\ UNCHANGED <<store, projections, feed, faults>>

---------------------------------------------------------------------------
(* The stream                                                               *)

\* The events a poll looks for, and the place of one of them by position (positions
\* are unique: the column is).
Later(cursor) == {k \in DOMAIN chain : chain[k].position > cursor}
Place(k, cursor) == Cardinality({j \in Later(cursor) : chain[j].position <= chain[k].position})

\* The events after the cursor, in the order of their positions, a batch at most.
After(cursor) ==
    LET found == Cardinality(Later(cursor))
        size == IF found > StreamBatch THEN StreamBatch ELSE found
    IN [n \in 1 .. size |-> chain[CHOOSE k \in Later(cursor) : Place(k, cursor) = n]]

\* cursor_resync_reason: the cursor is ahead of the head, or events are missing.
MustResync(cursor, events) ==
    \/ cursor > HeadPosition
    \/ cursor > 0 /\ events # <<>> /\ events[1].position # cursor + 1

\* The frontend hydrates: the state's position is where its stream starts.
Hydrate ==
    /\ client.at = "hydrate"
    /\ client' = [client EXCEPT !.at = "broken", !.position = HeadPosition,
                                !.from = HeadPosition, !.got = <<>>]
    /\ UNCHANGED <<store, projections, report, server, wire, faults>>

\* Mutant: the stream is resumed from where the page first opened it.
Resume_FromStart == client.from

\* Where a new connection resumes: after the last event the frontend has handled.
Resume == client.position

Connect ==
    /\ client.at = "broken"
    /\ client' = [client EXCEPT !.at = "live"]
    /\ server' = Resume /\ wire' = <<>>
    /\ UNCHANGED <<store, projections, report, faults>>

\* One poll of the stream: what is new is sent, or a resync is asked for.
Poll ==
    /\ client.at = "live" /\ wire = <<>>
    /\ LET events == After(server) IN
       IF MustResync(server, events)
       THEN /\ client' = [client EXCEPT !.at = "hydrate", !.resyncs = 1]
            /\ UNCHANGED <<server, wire>>
       ELSE /\ events # <<>>
            /\ wire' = events /\ server' = Last(events).position
            /\ UNCHANGED client
    /\ UNCHANGED <<store, projections, report, faults>>

Receive ==
    /\ client.at = "live" /\ wire # <<>>
    /\ client' = [client EXCEPT !.position = wire[1].position, !.got = Append(@, wire[1])]
    /\ wire' = Tail(wire)
    /\ UNCHANGED <<store, projections, report, server, faults>>

\* The connection breaks; what was on it is lost.
Drop ==
    /\ client.at = "live" /\ faults < MaxFaults
    /\ faults' = faults + 1 /\ wire' = <<>>
    /\ client' = [client EXCEPT !.at = "broken"]
    /\ UNCHANGED <<store, projections, report, server>>

\* The page gives up, and tries nothing more by itself: its snapshot could not be
\* loaded, the stream was refused (HTTP_4xx, AUTH_REQUIRED), or the state could not be
\* read again after an event, which aborts a stream that was good.
Halt ==
    /\ \/ client.at \in {"hydrate", "broken"}
       \/ client.at = "live" /\ client.got # <<>>
    /\ faults < MaxFaults
    /\ faults' = faults + 1 /\ wire' = <<>>
    /\ client' = [client EXCEPT !.at = "halted"]
    /\ UNCHANGED <<store, projections, report, server>>

\* The Creator presses Retry, logs in or turns the page: what was open is aborted and
\* the page hydrates again.
Reopen ==
    /\ client.at # "hydrate"
    /\ wire' = <<>>
    /\ client' = [client EXCEPT !.at = "hydrate"]
    /\ UNCHANGED <<store, projections, report, server, faults>>

---------------------------------------------------------------------------
FeedInit ==
    /\ chain = <<>> /\ lock = Nobody /\ draft = [w \in Writers |-> Closed]
    /\ checkpoint = NoCheckpoint /\ refresher = [r \in Refreshers |-> Resting]
    /\ report = NoRequest /\ faults = 0
    /\ server = 0 /\ wire = <<>>
    /\ client = [at |-> "hydrate", position |-> 0, from |-> 0, got |-> <<>>, resyncs |-> 0]

Refresh(r) == CheckHead(r) \/ ReadState(r) \/ ReadPosition(r) \/ SaveCheckpoint(r)

FollowStream == Hydrate \/ Connect \/ Poll \/ Receive

FeedNext ==
    \/ \E w \in Writers : Begin(w) \/ AddEvent(w) \/ Commit(w) \/ Rollback(w)
    \/ \E r \in Refreshers : Refresh(r) \/ RefresherDies(r)
    \/ AskStatus \/ AnswerStatus
    \/ FollowStream \/ Drop \/ Halt \/ Reopen

\* Workers loop, transactions end, and a page that has not halted goes on hydrating,
\* reconnecting after a pause and reading. Nobody has to open a halted page again.
FeedSpec ==
    /\ FeedInit /\ [][FeedNext]_vars
    /\ \A w \in Writers : WF_vars(Commit(w) \/ Rollback(w))
    /\ \A r \in Refreshers : WF_vars(Refresh(r))
    /\ WF_vars(FollowStream)

---------------------------------------------------------------------------
(* Properties                                                               *)

Events == [position : Nat \ {0}, previous : Ids \cup {NoHash}, id : Ids]

\* Every variable keeps its type; positions start at one.
FeedTypeOK ==
    /\ chain \in Seq(Events) /\ lock \in Writers \cup {Nobody}
    /\ draft \in [Writers -> [open : BOOLEAN, events : Seq(Events)]]
    /\ checkpoint \in [saved : BOOLEAN, position : Nat, state : Nat]
    /\ refresher \in [Refreshers -> [at : {"idle", "state", "position", "save"},
                                     state : Nat, position : Nat]]
    /\ report \in [asked : BOOLEAN, head : Nat]
    /\ faults \in 0 .. MaxFaults

\* Only the holder of the lock has events that are not committed yet, and they go on
\* from the Chronicle as it is.
OneAppends ==
    \A w \in Writers : /\ draft[w].events # <<>> => lock = w
                       /\ lock = w => draft[w].open
                       /\ Verified(Visible(w))

\* The committed Chronicle always verifies: positions and hash links are assigned in
\* the order of the commits although transactions append at the same time.
ChainUnbroken == Verified(chain)

\* No projection, finished or in the making, is ahead of the Chronicle.
NothingAhead ==
    /\ checkpoint.position <= Len(chain) /\ report.head <= Len(chain)
    /\ \A r \in Refreshers : refresher[r].position <= Len(chain)

\* A saved projection never moves back to an earlier position, with two workers
\* refreshing at once.
CheckpointNeverRegresses ==
    [][checkpoint.saved =>
          checkpoint'.saved /\ checkpoint'.position >= checkpoint.position]_vars

\* EventLog, read off the Chronicle, its checkpoint and the frontend.
Log == INSTANCE EventLog WITH
    log <- chain, projected <- checkpoint.position,
    following <- (client.at \notin {"hydrate", "halted"}), start <- client.from, shown <- client.got

\* Appended to under one lock, projected by workers that die and followed over
\* connections that break, the Chronicle is one log to all its readers: it only grows,
\* its projection only advances, and until it halts or is opened again a page is shown
\* each entry after its snapshot, over any number of connections.
KeepsLog == Log!Spec

\* The status INVALID (a checkpoint ahead of the Chronicle's head) is only ever
\* reported when events were committed between the two reads of the request.
InvalidOnlyWhenOvertaken ==
    report.asked /\ StatusOf(report.head) = "INVALID" => report.head < HeadPosition

\* The frontend is handed each event after its snapshot once, in order and without
\* a gap, over any number of reconnections, and the server never tells it to start over.
StreamMissesNothing ==
    /\ client.resyncs = 0
    /\ client.got = SubSeq(chain, client.from + 1, client.position)

\* When appending stops, the projections reach the head, and so does the frontend
\* unless it has halted: then it shows an error and may stay behind (Halt).
FeedCatchesUp ==
    <>[](/\ checkpoint.saved /\ checkpoint.position = HeadPosition
         /\ client.at = "halted" \/ client.position = HeadPosition)

\* The Chronicle, what is appended to it and what is projected from it, at any moment.
ChronicleInvariant == FeedTypeOK /\ OneAppends /\ ChainUnbroken /\ NothingAhead

\* What the frontend was handed goes on from its snapshot up to its position, what is
\* on the wire goes on from there up to the server's cursor, and all of it is committed.
StreamFollows ==
    /\ server \in Nat /\ wire \in Seq(Events)
    /\ client \in [at : {"hydrate", "broken", "live", "halted"}, position : Nat, from : Nat,
                   got : Seq(Events), resyncs : {0}]
    /\ IF client.at = "live" THEN server = client.position + Len(wire) ELSE wire = <<>>
    /\ client.position + Len(wire) <= Len(chain)
    /\ \A k \in DOMAIN wire : wire[k] = chain[client.position + k]
    /\ client.from + Len(client.got) = client.position
    /\ \A k \in DOMAIN client.got : client.got[k] = chain[client.from + k]

FeedInvariant == ChronicleInvariant /\ StreamFollows
=============================================================================
