---------------------------- MODULE KnowledgeStore ----------------------------
(***************************************************************************)
(* DEUS's knowledge (app/knowledge): items, each a chain of revisions, with  *)
(* the message a revision was imported from, the revisions it was derived    *)
(* from, and an outbox of events its index consumes. Three kinds of session  *)
(* write it: a conversation's turn, which retrieves a context, waits for the *)
(* model and then writes the question and the reply in one transaction       *)
(* (services/deus.py, deus_context.py); the backfill, which imports a page   *)
(* of messages in one transaction; and the API.                              *)
(*                                                                           *)
(* PostgreSQL under READ COMMITTED: a statement sees what is committed and   *)
(* what its own transaction wrote; advisory, row and epoch locks are held to *)
(* the end of the transaction, and of two transactions that wait for each    *)
(* other one is aborted. An item is known by its first revision, and its row *)
(* (current_revision_id, active) by the newest revision a reader sees: every *)
(* write that adds a revision sets both columns in the same transaction. One *)
(* Creator; texts are abstracted to what was asked for.                      *)
(***************************************************************************)
EXTENDS Naturals, Sequences, FiniteSets, SequencesExt

CONSTANTS
    Turns,         \* sessions that answer a question
    Backfills,     \* sessions that import messages
    Clients,       \* sessions of the API
    Question,      \* the question each turn answers, already a stored message
    Reply,         \* the message that will hold its answer
    Past,          \* messages the Creator wrote before
    IndexBatch,    \* outbox events one run of the index takes (100)
    MaxRevisions,  \* bound: revisions ever inserted, and outbox events
    MaxRequests,   \* bound: transactions begun
    MaxCited,      \* bound: what a client's candidate names, its message included
    MaxFaults      \* bound: broken connections and lapsed revisions together

Writers == Turns \cup Backfills \cup Clients
Questions == Past \cup {Question[t] : t \in Turns}
Messages == Questions \cup {Reply[t] : t \in Turns}
NoMessage == "manual"

ASSUME KnowledgeAssumption ==
    /\ Turns \cap (Backfills \cup Clients) = {} /\ Backfills \cap Clients = {}
    /\ DOMAIN Question = Turns /\ DOMAIN Reply = Turns
    /\ NoMessage \notin Messages /\ {"kept", "void"} \cap Writers = {}
    /\ IsFiniteSet(Questions)
    /\ IndexBatch \in Nat \ {0}
    /\ MaxRevisions \in Nat /\ MaxRequests \in Nat /\ MaxFaults \in Nat
    /\ MaxCited \in Nat

VARIABLES
    rev,      \* the revisions in the order of their insertion
    outbox,   \* the events: the index is the sequence number a transaction was given
    lapsed,   \* revisions whose source has changed or whose validity has passed
    tx,       \* each session: its transaction
    receipts, \* sequence numbers the index has receipted
    asked,    \* transactions begun
    faults

store == <<rev, outbox, lapsed, receipts>>
kvars == <<rev, outbox, lapsed, tx, receipts, asked, faults>>

RevIds == 1..MaxRevisions

---------------------------------------------------------------------------
(* What a reader sees                                                       *)

\* `held` is "kept" once committed, "void" once rolled back, and until then
\* the session whose transaction inserted the row.
Seen(w) == {n \in DOMAIN rev : rev[n].held \in {"kept", w}}
Kept == {n \in DOMAIN rev : rev[n].held = "kept"}

Chain(V, i) == {n \in V : rev[n].item = i}
Current(V, i) == CHOOSE n \in Chain(V, i) : \A o \in Chain(V, i) : rev[o].ordinal <= rev[n].ordinal
Active(V, i) == rev[Current(V, i)].life = "active"
Items(V) == {rev[n].item : n \in V}

\* A revision is only used while it is current in an active item, its source
\* is as it was, and so is all it was derived from.
Eligible(V) ==
    LET ok[n \in DOMAIN rev] ==
            /\ n \in V /\ n \notin lapsed
            /\ rev[n].life = "active" /\ n = Current(V, rev[n].item)
            /\ \A d \in rev[n].deps : ok[d]
    IN {n \in V : ok[n]}

Imported(V, m) == {n \in V : rev[n].source = m}

\* The revisions `write` may find for a message: those of the highest ordinal,
\* more than one when later revisions of several items name the message.
Priors(V, m) == {n \in Imported(V, m) : \A o \in Imported(V, m) : rev[o].ordinal <= rev[n].ordinal}

Answered(w, key) == {e \in DOMAIN outbox : outbox[e].key = key /\ outbox[e].held \in {"kept", w}}

---------------------------------------------------------------------------
(* Transactions                                                             *)

\* One call of `write` or `revoke`. A message's own key is the same on every
\* path but the API's; `form` is what else of the candidate the path decides.
NoKey == [of |-> "revoke", nr |-> 0]
RequestKey(r) == [of |-> "request", nr |-> r]
Call(op, key, m, form, deps, item, expected) ==
    [op |-> op, key |-> key, source |-> m, form |-> form, deps |-> deps, item |-> item, expected |-> expected]

Import(m, form, deps) == Call("create", [of |-> m, nr |-> 0], m, form, deps, 0, 0)

Idle == [pc |-> "idle", todo |-> <<>>, sources |-> {}, keys |-> {}, rows |-> {}, epoch |-> FALSE]

KInit ==
    /\ rev = <<>> /\ outbox = <<>> /\ lapsed = {}
    /\ tx = [w \in Writers |-> Idle]
    /\ receipts = {} /\ asked = 0 /\ faults = 0

Begin(w, todo, pc) ==
    /\ tx[w].pc = "idle" /\ asked < MaxRequests
    /\ tx' = [tx EXCEPT ![w] = [Idle EXCEPT !.pc = pc, !.todo = todo]]
    /\ asked' = asked + 1
    /\ UNCHANGED <<store, faults>>

\* What a search may return: some of the eligible revisions, at most six; one
\* is enough to tell a derived note from its source.
Found == {D \in SUBSET Eligible(Kept) : Cardinality(D) <= 1}

\* A turn's context is read in a session of its own before the model is asked;
\* the model answers later, and the reply is derived from that context. A
\* project the Conversation is focused on is part of what is written.
AskDeus(t) ==
    \E D \in Found, form \in {"text", "focused"} :
        Begin(t, <<Import(Question[t], form, {}), Import(Reply[t], "reply", D)>>, "take")

\* The backfill takes the creator's messages, if there are any, in the order of
\* their ids.
StartBackfill(b) ==
    /\ Questions # {}
    /\ Begin(b, [k \in 1..Cardinality(Questions) |-> Import(SetToSeq(Questions)[k], "text", {})], "scan")

\* The request_ids (UUIDs, here numbers) a client may send: a new one, or one
\* sent before, by a client that retries or is mistaken.
RequestIds == 1..MaxRequests
Used == {r \in RequestIds :
            \/ \E e \in DOMAIN outbox : outbox[e].key = RequestKey(r)
            \/ \E w \in Writers : tx[w].todo # <<>> /\ tx[w].todo[1].key = RequestKey(r)}
MaySend == {r \in RequestIds : 1..(r - 1) \subseteq Used}

\* What a client's candidate may say it comes from: nothing, or a message that is
\* stored; a reply is once its turn is over.
Stored == Questions \cup {Reply[t] : t \in {u \in Turns : tx[u].pc = "done"}}

Cited(m, D) == Cardinality(D) + (IF m = NoMessage THEN 0 ELSE 1)

Create(c) ==
    \E r \in MaySend, m \in Stored \cup {NoMessage}, D \in Found :
        /\ Cited(m, D) <= MaxCited
        /\ Begin(c, <<Call("create", RequestKey(r), m, "api", D, 0, 0)>>, "take")

\* A client revises or revokes the revision it was last shown, which need not
\* be the current one any more; its revision may name a message too, one that
\* another item was imported from included.
Revise(c) ==
    \E r \in MaySend, m \in Stored \cup {NoMessage}, n \in Kept, D \in Found :
        /\ Cited(m, D) <= MaxCited
        /\ Begin(c, <<Call("revise", RequestKey(r), m, "api", D, rev[n].item, n)>>, "take")

Revoke(c) ==
    \E n \in Kept : Begin(c, <<Call("revoke", NoKey, NoMessage, "api", {}, rev[n].item, n)>>, "row")

\* The lock a session must get before its next statement is done, and who has it.
Head1(w) == tx[w].todo[1]
NeedsSource(call) == call.op = "create" /\ call.source # NoMessage
SourceHolders_KeysOnly(w) == {}
SourceHolders(w) ==
    {v \in Writers \ {w} : NeedsSource(Head1(w)) /\ Head1(w).source \in tx[v].sources}
Blockers(w) ==
    CASE tx[w].pc = "take" -> SourceHolders(w) \cup {v \in Writers \ {w} : Head1(w).key \in tx[v].keys}
      [] tx[w].pc = "row"  -> {v \in Writers \ {w} : Head1(w).item \in tx[v].rows}
      [] tx[w].pc = "bump" -> {v \in Writers \ {w} : tx[v].epoch}
      [] OTHER -> {}

\* Rows of a transaction that ends: a rollback leaves their numbers unused.
VoidRow == [held |-> "void", key |-> NoKey]
Committed(rows, w) == [n \in DOMAIN rows |-> IF rows[n].held = w THEN [rows[n] EXCEPT !.held = "kept"] ELSE rows[n]]
Voided(rows, w) == [n \in DOMAIN rows |-> IF rows[n].held = w THEN VoidRow ELSE rows[n]]

Rollback(w) ==
    /\ rev' = Voided(rev, w) /\ outbox' = Voided(outbox, w)
    /\ tx' = [tx EXCEPT ![w] = Idle]

\* After a call: the next one, or the commit. (Nothing is read or taken between
\* the last statement of a transaction and its commit.) A turn asks once.
Proceed(w, t, revs, events) ==
    IF Len(t.todo) > 1
    THEN /\ tx' = [tx EXCEPT ![w] = [t EXCEPT !.pc = IF w \in Backfills THEN "scan" ELSE "take", !.todo = Tail(@)]]
         /\ rev' = revs /\ outbox' = events
    ELSE /\ tx' = [tx EXCEPT ![w] = IF w \in Turns THEN [Idle EXCEPT !.pc = "done"] ELSE Idle]
         /\ rev' = Committed(revs, w) /\ outbox' = Committed(events, w)

\* The turn of a conversation keeps its exchange and goes on without the note
\* a KnowledgeConflict refuses; the API and the backfill give everything up.
Conflict(w, t) ==
    IF w \in Turns THEN Proceed(w, t, rev, outbox) ELSE Rollback(w)

Event(w, call, n) == [key |-> call.key, call |-> call, rev |-> n, held |-> w]

\* bind_question_source: what was written for the question joins what the reply
\* is derived from.
Bound(w, t, n) ==
    IF w \in Turns /\ Len(t.todo) = 2
    THEN [t EXCEPT !.todo[2].deps = @ \cup {n}]
    ELSE t

\* A new revision, its event's sequence number taken before the epoch row is
\* waited for.
Insert(w, t, call, item, ordinal, life) ==
    LET n == Len(rev) + 1 IN
    /\ n \in RevIds /\ Len(outbox) < MaxRevisions
    /\ rev' = Append(rev, [item |-> IF item = 0 THEN n ELSE item, ordinal |-> ordinal,
                           source |-> call.source, deps |-> call.deps, life |-> life, held |-> w])
    /\ outbox' = Append(outbox, Event(w, call, n))
    /\ tx' = [tx EXCEPT ![w] = [Bound(w, t, n) EXCEPT !.pc = "bump"]]

Locked(w) ==
    LET call == Head1(w) IN
    [tx[w] EXCEPT !.keys = @ \cup {call.key},
                  !.sources = @ \cup (IF NeedsSource(call) THEN {call.source} ELSE {})]

\* `write` up to the item: the locks of the message and of the key, the answer
\* already given to this key, the message's earlier import, the dependencies.
Take(w) ==
    LET call  == Head1(w)
        t     == Locked(w)
        given == Answered(w, call.key)
    IN  /\ tx[w].pc = "take" /\ Blockers(w) = {}
        /\ \/ /\ given # {}
              /\ \E e \in given :
                    IF outbox[e].call = call
                    THEN Proceed(w, Bound(w, t, outbox[e].rev), rev, outbox)
                    ELSE Conflict(w, t)
           \/ /\ given = {} /\ NeedsSource(call) /\ Imported(Seen(w), call.source) # {}
              /\ Len(outbox) < MaxRevisions
              /\ \E n \in Priors(Seen(w), call.source) :
                    Proceed(w, Bound(w, t, n), rev, Append(outbox, Event(w, call, n)))
           \/ /\ given = {} /\ (NeedsSource(call) => Imported(Seen(w), call.source) = {})
              /\ IF ~(call.deps \subseteq Eligible(Seen(w))) THEN Conflict(w, t)
                 ELSE IF call.op = "create" THEN Insert(w, t, call, 0, 1, "active")
                 ELSE tx' = [tx EXCEPT ![w] = [t EXCEPT !.pc = "row"]] /\ UNCHANGED <<rev, outbox>>
        /\ UNCHANGED <<lapsed, receipts, asked, faults>>

\* The backfill looks whether a message is known before it writes it, without
\* a lock.
Scan(b) ==
    /\ tx[b].pc = "scan"
    /\ IF Imported(Seen(b), Head1(b).source) # {} THEN Proceed(b, tx[b], rev, outbox)
       ELSE tx' = [tx EXCEPT ![b].pc = "take"] /\ UNCHANGED <<rev, outbox>>
    /\ UNCHANGED <<lapsed, receipts, asked, faults>>

\* The item's row, FOR UPDATE. A revision needs an active item whose current
\* revision is the expected one, and not to be derived from its own item; a
\* revocation needs the expected revision only, and its tombstone comes last.
MayRevise_AnyItem(w, call) ==
    LET V == Seen(w) IN Current(V, call.item) = call.expected /\ \A d \in call.deps : rev[d].item # call.item
MayRevise(w, call) ==
    LET V == Seen(w) IN
    /\ Active(V, call.item) /\ Current(V, call.item) = call.expected
    /\ \A d \in call.deps : rev[d].item # call.item

MayRevoke(w, call) == Current(Seen(w), call.item) = call.expected

LockRow(w) ==
    LET call == Head1(w)
        t    == [tx[w] EXCEPT !.rows = @ \cup {call.item}]
        next == rev[Current(Seen(w), call.item)].ordinal + 1
    IN  /\ tx[w].pc = "row" /\ Blockers(w) = {}
        /\ IF call.op = "revise"
           THEN IF MayRevise(w, call) THEN Insert(w, t, call, call.item, next, "active") ELSE Conflict(w, t)
           ELSE IF MayRevoke(w, call) THEN Insert(w, t, call, call.item, next, "revoked") ELSE Conflict(w, t)
        /\ UNCHANGED <<lapsed, receipts, asked, faults>>

\* The Creator's epoch row, held from here to the end of the transaction.
Bump(w) ==
    /\ tx[w].pc = "bump" /\ Blockers(w) = {}
    /\ Proceed(w, [tx[w] EXCEPT !.epoch = TRUE], rev, outbox)
    /\ UNCHANGED <<lapsed, receipts, asked, faults>>

\* PostgreSQL aborts one of two transactions that wait for each other.
DeadlockBroken(w) ==
    /\ \E v \in Blockers(w) : w \in Blockers(v)
    /\ Rollback(w)
    /\ UNCHANGED <<lapsed, receipts, asked, faults>>

\* A session dies or its connection breaks before the commit.
Break(w) ==
    /\ tx[w].pc \notin {"idle", "done"} /\ faults < MaxFaults
    /\ Rollback(w)
    /\ faults' = faults + 1
    /\ UNCHANGED <<lapsed, receipts, asked>>

\* The source of a revision changes, or its validity passes.
Lapse(n) ==
    /\ n \in Kept \ lapsed /\ rev[n].life = "active" /\ faults < MaxFaults
    /\ lapsed' = lapsed \cup {n}
    /\ faults' = faults + 1
    /\ UNCHANGED <<rev, outbox, tx, receipts, asked>>

---------------------------------------------------------------------------
(* The index                                                                *)

Landed == {e \in DOMAIN outbox : outbox[e].held = "kept"}
Unreceipted_Watermark == {e \in Landed : \A r \in receipts : r < e}
Unreceipted == Landed \ receipts

\* One run of process_batch: the oldest events without a receipt, whatever
\* sequence numbers have been receipted before.
IndexRun ==
    /\ Unreceipted # {}
    /\ receipts' = receipts \cup
           {e \in Unreceipted : Cardinality({o \in Unreceipted : o < e}) < IndexBatch}
    /\ UNCHANGED <<rev, outbox, lapsed, tx, asked, faults>>

Work(w) == Take(w) \/ (w \in Backfills /\ Scan(w)) \/ LockRow(w) \/ Bump(w) \/ DeadlockBroken(w)

KNext ==
    \/ \E t \in Turns : AskDeus(t)
    \/ \E b \in Backfills : StartBackfill(b)
    \/ \E c \in Clients : Create(c) \/ Revise(c) \/ Revoke(c)
    \/ \E w \in Writers : Work(w) \/ Break(w)
    \/ \E n \in RevIds : Lapse(n)
    \/ IndexRun

\* A session goes on with its transaction, and the worker runs its index again
\* and again.
KFairness == (\A w \in Writers : WF_kvars(Work(w))) /\ WF_kvars(IndexRun)

KSpec == KInit /\ [][KNext]_kvars /\ KFairness

---------------------------------------------------------------------------
(* Properties                                                               *)

Keys == [of : Messages \cup {"revoke", "request"}, nr : Nat]
Calls == [op : {"create", "revise", "revoke"}, key : Keys, source : Messages \cup {NoMessage},
          form : {"text", "focused", "reply", "api"}, deps : SUBSET RevIds,
          item : 0..MaxRevisions, expected : 0..MaxRevisions]
RevRows == [item : RevIds, ordinal : RevIds, source : Messages \cup {NoMessage}, deps : SUBSET RevIds,
            life : {"active", "revoked"}, held : Writers \cup {"kept"}]
EventRows == [key : Keys, call : Calls, rev : RevIds, held : Writers \cup {"kept"}]
Transactions == [pc : {"idle", "scan", "take", "row", "bump", "done"}, todo : Seq(Calls),
                 sources : SUBSET Messages, keys : SUBSET Keys, rows : SUBSET (0..MaxRevisions),
                 epoch : BOOLEAN]

\* Every column holds what its code writes.
KnowledgeTypeOK ==
    /\ rev \in Seq(RevRows \cup {VoidRow}) /\ Len(rev) <= MaxRevisions
    /\ outbox \in Seq(EventRows \cup {VoidRow}) /\ Len(outbox) <= MaxRevisions
    /\ lapsed \subseteq DOMAIN rev /\ receipts \subseteq DOMAIN outbox
    /\ tx \in [Writers -> Transactions]

\* Rows that are kept or still may be.
Live == {n \in DOMAIN rev : rev[n].held # "void"}

\* What a call refers to is there: a revision or a revocation names a committed
\* revision of its item.
Refers(call) ==
    /\ call.deps \subseteq DOMAIN rev
    /\ call.op # "create" => call.expected \in Kept /\ rev[call.expected].item = call.item

InOrder(t) ==
    /\ t.pc = "idle" => t = Idle
    /\ t.pc \in {"scan", "take", "row", "bump"} => t.todo # <<>>
    /\ t.pc = "row" => t.todo[1].op # "create"
    /\ \A k \in DOMAIN t.todo : Refers(t.todo[k])

EventsRefer == \A e \in DOMAIN outbox : outbox[e].held # "void" => outbox[e].rev \in DOMAIN rev

\* A row that is not committed yet is under a lock of its session's: of its message
\* if it begins an item imported from one, of its item's row if it does not begin it.
RowsLocked ==
    \A n \in Live : rev[n].held \in Writers =>
        /\ rev[n].source # NoMessage /\ rev[n].ordinal = 1
               => rev[n].source \in tx[rev[n].held].sources
        /\ rev[n].ordinal > 1 => rev[n].item \in tx[rev[n].held].rows

\* The chain of each item, committed or not: it begins with an active revision, and
\* no two begin with one message; its ordinals differ; its tombstones are last.
ChainsInOrder ==
    /\ \A n \in Live :
          /\ rev[n].item <= n /\ rev[n].ordinal <= n /\ rev[n].deps \subseteq 1..(n - 1)
          /\ rev[n].ordinal = 1 => rev[n].item = n /\ rev[n].life = "active"
    /\ \A n, o \in Live :
          /\ (rev[n].source = rev[o].source /\ rev[n].source # NoMessage
              /\ rev[n].ordinal = 1 /\ rev[o].ordinal = 1) => n = o
          /\ rev[n].item = rev[o].item /\ rev[n].ordinal = rev[o].ordinal => n = o
          /\ (rev[n].item = rev[o].item /\ rev[n].life = "revoked"
              /\ rev[o].ordinal > rev[n].ordinal) => rev[o].life = "revoked"

KnowledgeInvariant ==
    /\ KnowledgeTypeOK /\ (\A w \in Writers : InOrder(tx[w])) /\ EventsRefer
    /\ RowsLocked /\ ChainsInOrder

\* However a message is imported (a turn, the backfill, a client that chooses a
\* key of its own), and however these overlap, at most one item is born of it.
\* (Later revisions of other items may name it: revise_item takes any candidate.)
MessageImportedOnce ==
    \A m \in Messages : Cardinality({n \in Imported(Kept, m) : rev[n].ordinal = 1}) <= 1

\* Nothing follows a tombstone but tombstones: no revision that was waiting for
\* the row, and no later import, brings an item back.
TombstoneIsLast ==
    \A n, o \in Kept :
        (rev[n].item = rev[o].item /\ rev[n].life = "revoked" /\ rev[o].ordinal > rev[n].ordinal)
            => rev[o].life = "revoked"

\* The index catches up again and again: every event that commits is receipted
\* in the end, one whose transaction commits after events with higher sequence
\* numbers included.
IndexCatchesUp == []<>(Landed \subseteq receipts)
=============================================================================
