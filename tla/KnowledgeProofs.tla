--------------------------- MODULE KnowledgeProofs ---------------------------
(***************************************************************************)
(* Proofs about DEUS's knowledge, the folder it is exported to and the     *)
(* diagnostics whose notes are written into it, for any number of          *)
(* sessions, messages, revisions, files, probes and cycles.  The theorems  *)
(* about knowledge are about VSpec, those about diagnostics about          *)
(* ObserverSpec; each uses the assumptions on its own constants only.      *)
(*                                                                         *)
(* A message is imported once although its importers read under READ       *)
(* COMMITTED: a row that is not committed yet is under its session's locks *)
(* (RowsLocked), so a session that has a message's lock, or an item's row, *)
(* sees every item imported from that message, or every revision of that   *)
(* item, that may still be kept.  ChainsInOrder then follows for the rows  *)
(* of every session at once, committed or not.                             *)
(*                                                                         *)
(* The diagnostics worker publishes its journal from the lowest number up, *)
(* so only the first pending entry can be committed already                *)
(* (JournalInOrder), its id is still in its incident's window              *)
(* (EvidenceRemembered), and an entry that would open a recovered episode  *)
(* again would be older than the recovery (EntriesInTime).                 *)
(***************************************************************************)
EXTENDS KnowledgeVault, DiagnosticObserver, FiniteSetTheorems, SequenceTheorems,
        WellFoundedInduction, TLAPS

-----------------------------------------------------------------------------
(* Numbers and rows.                                                       *)

(* Some member of a set of numbers is the least of them.                   *)
LEMMA LeastNumber ==
    ASSUME NEW T \in SUBSET Nat, T # {}
    PROVE  \E x \in T : \A y \in T : x <= y
  <1> DEFINE R == {p \in Nat \X Nat : p[1] < p[2]}
  <1>0. OpToRel(<, Nat) = R
    BY DEF OpToRel
  <1>1. IsWellFoundedOn(R, Nat)
    BY <1>0, NatLessThanWellFounded
  <1>2. \E x \in T : \A y \in T : ~(<<y, x>> \in R)
    BY <1>1, WFMin
  <1>3. \A x, y \in Nat : y < x => <<y, x>> \in R
    OBVIOUS
  <1> HIDE DEF R
  <1>4. PICK x \in T : \A y \in T : ~(<<y, x>> \in R)
    BY <1>2
  <1>5. \A y \in T : ~(y < x)
    BY <1>3, <1>4
  <1> QED
    BY <1>5

(* What the rows of the two tables look like.                              *)
LEMMA RowForms ==
    ASSUME KnowledgeTypeOK
    PROVE  /\ Len(rev) \in Nat /\ Len(rev) <= MaxRevisions /\ MaxRevisions \in Nat
           /\ DOMAIN rev = 1..Len(rev) /\ RevIds = 1..MaxRevisions
           /\ \A n \in DOMAIN rev : rev[n] \in RevRows \cup {VoidRow}
           /\ \A n \in Live : n \in DOMAIN rev /\ n \in RevIds /\ rev[n] \in RevRows
           /\ Kept \subseteq Live /\ Kept \subseteq RevIds
           /\ \A w \in Writers : Kept \subseteq Seen(w) /\ Seen(w) \subseteq Live
           /\ \A e \in DOMAIN outbox : outbox[e].held # "void" => outbox[e] \in EventRows
  <1>1. /\ Len(rev) \in Nat /\ Len(rev) <= MaxRevisions /\ MaxRevisions \in Nat
        /\ DOMAIN rev = 1..Len(rev) /\ RevIds = 1..MaxRevisions
        /\ \A n \in DOMAIN rev : rev[n] \in RevRows \cup {VoidRow}
    BY KnowledgeAssumption DEF KnowledgeTypeOK, RevIds
  <1>2. \A n \in Live : n \in DOMAIN rev /\ n \in RevIds /\ rev[n] \in RevRows
    BY <1>1 DEF Live, VoidRow
  <1>3. Kept \subseteq Live /\ \A w \in Writers : Kept \subseteq Seen(w) /\ Seen(w) \subseteq Live
    BY KnowledgeAssumption DEF Kept, Live, Seen
  <1>4. \A e \in DOMAIN outbox : outbox[e] \in EventRows \cup {VoidRow}
    BY DEF KnowledgeTypeOK
  <1>5. \A e \in DOMAIN outbox : outbox[e].held # "void" => outbox[e] \in EventRows
    BY <1>4 DEF VoidRow
  <1> QED
    BY <1>1, <1>2, <1>3, <1>5

(* A row that is not void has its columns.                                 *)
LEMMA RowColumns ==
    ASSUME NEW r \in RevRows
    PROVE  /\ r.item \in RevIds /\ r.ordinal \in RevIds /\ r.ordinal \in Nat /\ r.item \in Nat
           /\ r.source \in Messages \cup {NoMessage} /\ r.deps \subseteq RevIds
           /\ r.life \in {"active", "revoked"} /\ r.held \in Writers \cup {"kept"}
  BY KnowledgeAssumption DEF RevRows, RevIds

(* The current revision of an item exists while one of its rows is seen.   *)
LEMMA CurrentExists ==
    ASSUME KnowledgeTypeOK, NEW V, V \subseteq Live, NEW i, Chain(V, i) # {}
    PROVE  /\ Current(V, i) \in Chain(V, i)
           /\ \A o \in Chain(V, i) : rev[o].ordinal <= rev[Current(V, i)].ordinal
  <1>1. \A n \in Chain(V, i) : rev[n].ordinal \in Nat /\ rev[n].ordinal <= MaxRevisions
    BY RowForms, RowColumns DEF Chain, RevIds
  <1> DEFINE T == {k \in Nat : \A n \in Chain(V, i) : rev[n].ordinal <= k}
  <1>2. T \in SUBSET Nat /\ MaxRevisions \in T
    BY <1>1, KnowledgeAssumption
  <1>3. PICK x \in T : \A y \in T : x <= y
    BY <1>2, LeastNumber
  <1>4. \E n \in Chain(V, i) : rev[n].ordinal = x
    <2> SUFFICES ASSUME \A n \in Chain(V, i) : rev[n].ordinal # x PROVE FALSE
      OBVIOUS
    <2>1. \A n \in Chain(V, i) : rev[n].ordinal <= x - 1
      BY <1>1, <1>3
    <2>2. x - 1 \in Nat
      BY <1>1, <1>3, <2>1
    <2>3. x - 1 \in T
      BY <2>1, <2>2
    <2> QED
      BY <1>3, <2>3
  <1>5. \E n \in Chain(V, i) : \A o \in Chain(V, i) : rev[o].ordinal <= rev[n].ordinal
    BY <1>3, <1>4
  <1> QED
    BY <1>5 DEF Current

-----------------------------------------------------------------------------
(* What a step can make of the rows and of one session.                    *)

(* What refers to rows still does when rows are added or committed.        *)
LEMMA StillInOrder ==
    ASSUME DOMAIN rev \subseteq DOMAIN rev',
           \A n \in Kept : n \in Kept' /\ rev'[n].item = rev[n].item
    PROVE  \A t : InOrder(t) => InOrder(t)'
  <1>1. ASSUME NEW call, Refers(call) PROVE Refers(call)'
    BY <1>1 DEF Refers
  <1> QED
    BY <1>1 DEF InOrder

(* One session moves to t; the others stay in order.                       *)
LEMMA SessionsKept ==
    ASSUME KnowledgeInvariant, NEW w \in Writers, NEW t \in Transactions,
           tx' = [tx EXCEPT ![w] = t], InOrder(t)',
           DOMAIN rev \subseteq DOMAIN rev',
           \A n \in Kept : n \in Kept' /\ rev'[n].item = rev[n].item
    PROVE  /\ tx' \in [Writers -> Transactions]
           /\ tx'[w] = t /\ \A v \in Writers : v # w => tx'[v] = tx[v]
           /\ \A v \in Writers : InOrder(tx[v])'
  <1>1. tx \in [Writers -> Transactions] /\ \A v \in Writers : InOrder(tx[v])
    BY DEF KnowledgeInvariant, KnowledgeTypeOK
  <1>2. /\ tx' \in [Writers -> Transactions]
        /\ tx'[w] = t /\ \A v \in Writers : v # w => tx'[v] = tx[v]
    BY <1>1
  <1>3. \A u : InOrder(u) => InOrder(u)'
    BY StillInOrder
  <1>4. ASSUME NEW v \in Writers PROVE InOrder(tx[v])'
    <2>1. CASE v = w
      BY <1>2, <2>1 DEF InOrder, Refers
    <2>2. CASE v # w
      <3>1. InOrder(tx[v])
        BY <1>1
      <3>2. tx'[v] = tx[v]
        BY <1>2, <2>2
      <3> QED
        BY <1>3, <3>1, <3>2 DEF InOrder, Refers
    <2> QED
      BY <2>1, <2>2
  <1> QED
    BY <1>2, <1>4

(* Chains stay in order while no row is added and none changes but in who  *)
(* holds it.                                                               *)
LEMMA ChainsKept ==
    ASSUME ChainsInOrder, Live' \subseteq Live,
           \A n \in Live' : /\ rev'[n].item = rev[n].item /\ rev'[n].ordinal = rev[n].ordinal
                            /\ rev'[n].source = rev[n].source /\ rev'[n].deps = rev[n].deps
                            /\ rev'[n].life = rev[n].life
    PROVE  ChainsInOrder'
  BY DEF ChainsInOrder

(* A table whose transaction has ended: committed, its rows are kept;      *)
(* rolled back, they are void.                                             *)
MayCommit(F, w) == \A r \in F : r.held = w => [r EXCEPT !.held = "kept"] \in F

LEMMA CommittedRows ==
    ASSUME NEW F, NEW rows \in Seq(F), NEW w, MayCommit(F, w)
    PROVE  /\ Committed(rows, w) \in Seq(F) /\ Len(Committed(rows, w)) = Len(rows)
           /\ \A n \in DOMAIN rows : Committed(rows, w)[n] =
                 IF rows[n].held = w THEN [rows[n] EXCEPT !.held = "kept"] ELSE rows[n]
  <1>1. DOMAIN rows = 1..Len(rows) /\ Len(rows) \in Nat /\ \A n \in DOMAIN rows : rows[n] \in F
    OBVIOUS
  <1> DEFINE c == Committed(rows, w)
  <1>2. c = [n \in 1..Len(rows) |-> IF rows[n].held = w THEN [rows[n] EXCEPT !.held = "kept"] ELSE rows[n]]
    BY <1>1 DEF Committed
  <1> HIDE DEF c
  <1>3. c \in [1..Len(rows) -> F]
    BY <1>1, <1>2 DEF MayCommit
  <1>4. c \in Seq(F) /\ Len(c) = Len(rows)
    BY <1>1, <1>3
  <1> QED
    BY <1>1, <1>2, <1>4 DEF c

LEMMA VoidedRows ==
    ASSUME NEW F, NEW rows \in Seq(F), NEW w, VoidRow \in F
    PROVE  /\ Voided(rows, w) \in Seq(F) /\ Len(Voided(rows, w)) = Len(rows)
           /\ \A n \in DOMAIN rows : Voided(rows, w)[n] = IF rows[n].held = w THEN VoidRow ELSE rows[n]
  <1>1. DOMAIN rows = 1..Len(rows) /\ Len(rows) \in Nat /\ \A n \in DOMAIN rows : rows[n] \in F
    OBVIOUS
  <1> DEFINE v == Voided(rows, w)
  <1>2. v = [n \in 1..Len(rows) |-> IF rows[n].held = w THEN VoidRow ELSE rows[n]]
    BY <1>1 DEF Voided
  <1> HIDE DEF v
  <1>3. v \in [1..Len(rows) -> F]
    BY <1>1, <1>2
  <1>4. v \in Seq(F) /\ Len(v) = Len(rows)
    BY <1>1, <1>3
  <1> QED
    BY <1>1, <1>2, <1>4 DEF v

LEMMA RowsStayTyped ==
    ASSUME NEW w \in Writers
    PROVE  MayCommit(RevRows \cup {VoidRow}, w) /\ MayCommit(EventRows \cup {VoidRow}, w)
  BY KnowledgeAssumption DEF MayCommit, RevRows, EventRows, VoidRow

(* A session goes on: it may take locks, and gives none back.              *)
LEMMA GoesOn ==
    ASSUME KnowledgeInvariant, NEW w \in Writers, NEW t \in Transactions,
           tx' = [tx EXCEPT ![w] = t], rev' = rev, InOrder(t),
           tx[w].sources \subseteq t.sources, tx[w].rows \subseteq t.rows
    PROVE  /\ tx' \in [Writers -> Transactions] /\ \A v \in Writers : InOrder(tx[v])'
           /\ RowsLocked' /\ ChainsInOrder'
  <1>1. Live' = Live /\ Kept' = Kept
    BY DEF Live, Kept
  <1>2. InOrder(t)'
    BY <1>1 DEF InOrder, Refers
  <1>3. /\ tx' \in [Writers -> Transactions] /\ \A v \in Writers : InOrder(tx[v])'
        /\ tx'[w] = t /\ \A v \in Writers : v # w => tx'[v] = tx[v]
    BY <1>1, <1>2, SessionsKept
  <1>4. RowsLocked'
    BY <1>1, <1>3 DEF KnowledgeInvariant, RowsLocked
  <1>5. ChainsInOrder'
    BY <1>1, ChainsKept DEF KnowledgeInvariant
  <1> QED
    BY <1>3, <1>4, <1>5

(* A transaction ends.                                                     *)
LEMMA Ends ==
    ASSUME KnowledgeInvariant, NEW w \in Writers, NEW t \in {Idle, [Idle EXCEPT !.pc = "done"]},
           tx' = [tx EXCEPT ![w] = t], rev' \in {Committed(rev, w), Voided(rev, w)}
    PROVE  /\ tx' \in [Writers -> Transactions] /\ \A v \in Writers : InOrder(tx[v])'
           /\ rev' \in Seq(RevRows \cup {VoidRow}) /\ Len(rev') = Len(rev)
           /\ RowsLocked' /\ ChainsInOrder'
  <1>1. KnowledgeTypeOK /\ rev \in Seq(RevRows \cup {VoidRow})
    BY DEF KnowledgeInvariant, KnowledgeTypeOK
  <1>2. /\ rev' \in Seq(RevRows \cup {VoidRow}) /\ Len(rev') = Len(rev) /\ DOMAIN rev' = DOMAIN rev
        /\ \A n \in DOMAIN rev :
              rev'[n] = IF rev[n].held = w
                        THEN (IF rev' = Committed(rev, w) THEN [rev[n] EXCEPT !.held = "kept"] ELSE VoidRow)
                        ELSE rev[n]
    <2> DEFINE F == RevRows \cup {VoidRow}
    <2>1. rev \in Seq(F) /\ VoidRow \in F /\ MayCommit(F, w)
      BY <1>1, RowsStayTyped
    <2> HIDE DEF F
    <2>2. /\ Committed(rev, w) \in Seq(F) /\ Len(Committed(rev, w)) = Len(rev)
          /\ \A n \in DOMAIN rev : Committed(rev, w)[n] =
                IF rev[n].held = w THEN [rev[n] EXCEPT !.held = "kept"] ELSE rev[n]
      BY <2>1, CommittedRows
    <2>3. /\ Voided(rev, w) \in Seq(F) /\ Len(Voided(rev, w)) = Len(rev)
          /\ \A n \in DOMAIN rev : Voided(rev, w)[n] = IF rev[n].held = w THEN VoidRow ELSE rev[n]
      BY <2>1, VoidedRows
    <2> USE DEF F
    <2>4. CASE rev' = Committed(rev, w)
      BY <2>2, <2>4
    <2>5. CASE rev' # Committed(rev, w)
      <3>1. rev' = Voided(rev, w)
        BY <2>5
      <3> QED
        BY <2>3, <2>5, <3>1
    <2> QED
      BY <2>4, <2>5
  <1>3. \A n \in Live : rev[n] \in RevRows /\ n \in DOMAIN rev
    BY <1>1, RowForms
  <1>4. ASSUME NEW n \in Live'
        PROVE  /\ n \in Live /\ rev'[n].item = rev[n].item /\ rev'[n].ordinal = rev[n].ordinal
               /\ rev'[n].source = rev[n].source /\ rev'[n].deps = rev[n].deps
               /\ rev'[n].life = rev[n].life
               /\ rev'[n].held = IF rev[n].held = w THEN "kept" ELSE rev[n].held
    <2>1. n \in DOMAIN rev /\ rev'[n].held # "void"
      BY <1>2 DEF Live
    <2>2. n \in Live
      BY <1>2, <2>1, KnowledgeAssumption DEF Live
    <2>3. CASE rev[n].held # w
      BY <1>2, <2>1, <2>2, <2>3
    <2>4. CASE rev[n].held = w
      <3>1. rev'[n] = [rev[n] EXCEPT !.held = "kept"]
        BY <1>2, <2>1, <2>4 DEF VoidRow
      <3> QED
        BY <1>3, <2>2, <2>4, <3>1 DEF RevRows
    <2> QED
      BY <2>3, <2>4
  <1>5. ASSUME NEW n \in Kept PROVE n \in Kept' /\ rev'[n] = rev[n]
    BY <1>2, <1>5, KnowledgeAssumption DEF Kept
  <1>6. t \in Transactions /\ InOrder(t)'
    <2>1. <<>> \in Seq(Calls) /\ DOMAIN <<>> = {}
      OBVIOUS
    <2>2. t.todo = <<>> /\ t.pc \in {"idle", "done"} /\ (t.pc = "idle" => t = Idle)
      BY DEF Idle
    <2>3. t \in Transactions
      <3>1. Idle \in Transactions
        BY <2>1 DEF Idle, Transactions
      <3>2. [Idle EXCEPT !.pc = "done"] \in Transactions
        BY <3>1 DEF Transactions
      <3> QED
        BY <3>1, <3>2
    <2>4. DOMAIN t.todo = {}
      BY <2>1, <2>2
    <2>5. InOrder(t)'
      BY <2>2, <2>4 DEF InOrder
    <2> QED
      BY <2>3, <2>5
  <1>7. /\ tx' \in [Writers -> Transactions] /\ \A v \in Writers : InOrder(tx[v])'
        /\ \A v \in Writers : v # w => tx'[v] = tx[v]
    BY <1>2, <1>5, <1>6, SessionsKept
  <1>8. ChainsInOrder'
    <2>1. Live' \subseteq Live
      BY <1>4
    <2> QED
      BY <1>4, <2>1, ChainsKept DEF KnowledgeInvariant
  <1>9. RowsLocked'
    <2> SUFFICES ASSUME NEW n \in Live', rev'[n].held \in Writers
                 PROVE  /\ rev'[n].source # NoMessage /\ rev'[n].ordinal = 1
                               => rev'[n].source \in tx'[rev'[n].held].sources
                        /\ rev'[n].ordinal > 1 => rev'[n].item \in tx'[rev'[n].held].rows
      BY DEF RowsLocked
    <2>1. rev[n].held # w /\ rev'[n].held = rev[n].held
      BY <1>4, KnowledgeAssumption
    <2>2. tx'[rev[n].held] = tx[rev[n].held]
      BY <1>7, <2>1
    <2> QED
      BY <1>4, <2>1, <2>2 DEF KnowledgeInvariant, RowsLocked
  <1> QED
    BY <1>2, <1>7, <1>8, <1>9

-----------------------------------------------------------------------------
(* What a step can make of the events.                                     *)

(* A list of events that may follow the outbox, of these revisions.        *)
EventsFit(events, rows) ==
    /\ events \in Seq(EventRows \cup {VoidRow}) /\ Len(events) <= MaxRevisions
    /\ Len(outbox) <= Len(events)
    /\ \A e \in DOMAIN events : events[e].held # "void" => events[e].rev \in DOMAIN rows

LEMMA EventsAsTheyAre ==
    ASSUME KnowledgeInvariant
    PROVE  EventsFit(outbox, rev)
  BY DEF KnowledgeInvariant, KnowledgeTypeOK, EventsRefer, EventsFit

(* One event is added, of a revision that is there.                        *)
LEMMA EventAdded ==
    ASSUME KnowledgeInvariant, NEW w \in Writers, NEW call \in Calls, NEW n \in RevIds,
           NEW rows, n \in DOMAIN rows, DOMAIN rev \subseteq DOMAIN rows,
           Len(outbox) < MaxRevisions
    PROVE  EventsFit(Append(outbox, Event(w, call, n)), rows)
  <1> DEFINE ev == Event(w, call, n)
  <1>1. ev \in EventRows /\ ev.rev = n
    BY DEF Event, EventRows, Calls
  <1>2. /\ outbox \in Seq(EventRows \cup {VoidRow})
        /\ \A e \in DOMAIN outbox : outbox[e].held # "void" => outbox[e].rev \in DOMAIN rev
    BY DEF KnowledgeInvariant, KnowledgeTypeOK, EventsRefer
  <1> HIDE DEF ev
  <1>3. /\ Append(outbox, ev) \in Seq(EventRows \cup {VoidRow})
        /\ Len(Append(outbox, ev)) = Len(outbox) + 1
        /\ \A e \in DOMAIN Append(outbox, ev) :
              \/ e \in DOMAIN outbox /\ Append(outbox, ev)[e] = outbox[e]
              \/ Append(outbox, ev)[e] = ev
    BY <1>1, <1>2
  <1>4. Len(outbox) \in Nat /\ MaxRevisions \in Nat
    BY <1>2, KnowledgeAssumption
  <1>5. EventsFit(Append(outbox, ev), rows)
    BY <1>1, <1>2, <1>3, <1>4 DEF EventsFit
  <1> QED
    BY <1>5 DEF ev

(* The events stay, or their transaction ends.                             *)
LEMMA EventsKept ==
    ASSUME KnowledgeInvariant, NEW w \in Writers, NEW events, EventsFit(events, rev'),
           outbox' \in {events, Committed(events, w), Voided(events, w)}, receipts' = receipts
    PROVE  /\ outbox' \in Seq(EventRows \cup {VoidRow}) /\ Len(outbox') <= MaxRevisions
           /\ receipts' \subseteq DOMAIN outbox' /\ EventsRefer'
  <1> DEFINE F == EventRows \cup {VoidRow}
  <1>1. events \in Seq(F) /\ VoidRow \in F /\ MayCommit(F, w) /\ outbox \in Seq(F)
    BY RowsStayTyped DEF EventsFit, KnowledgeInvariant, KnowledgeTypeOK
  <1>2. \A r \in F : r.held = w => r \in EventRows
    BY KnowledgeAssumption DEF VoidRow
  <1>3. \A r \in EventRows : [r EXCEPT !.held = "kept"].rev = r.rev
    BY DEF EventRows
  <1> HIDE DEF F
  <1>4. /\ Committed(events, w) \in Seq(F) /\ Len(Committed(events, w)) = Len(events)
        /\ \A e \in DOMAIN events : Committed(events, w)[e] =
              IF events[e].held = w THEN [events[e] EXCEPT !.held = "kept"] ELSE events[e]
    BY <1>1, CommittedRows
  <1>5. /\ Voided(events, w) \in Seq(F) /\ Len(Voided(events, w)) = Len(events)
        /\ \A e \in DOMAIN events : Voided(events, w)[e] = IF events[e].held = w THEN VoidRow ELSE events[e]
    BY <1>1, VoidedRows
  <1>6. \A e \in DOMAIN events : events[e] \in F
    BY <1>1
  <1>7. outbox' \in Seq(F) /\ Len(outbox') = Len(events)
    BY <1>1, <1>4, <1>5
  <1>8. DOMAIN outbox' = DOMAIN events /\ DOMAIN outbox \subseteq DOMAIN outbox'
    BY <1>1, <1>7 DEF EventsFit
  <1>9. ASSUME NEW e \in DOMAIN outbox', outbox'[e].held # "void" PROVE outbox'[e].rev \in DOMAIN rev'
    <2>1. e \in DOMAIN events /\ events[e] \in F
      BY <1>6, <1>8
    <2>2. events[e].held # "void" => events[e].rev \in DOMAIN rev'
      BY <2>1 DEF EventsFit
    <2>3. CASE outbox' = events
      BY <1>9, <2>2, <2>3
    <2>4. CASE outbox' = Committed(events, w)
      <3>1. CASE events[e].held = w
        <4>1. events[e] \in EventRows /\ outbox'[e] = [events[e] EXCEPT !.held = "kept"]
          BY <1>2, <1>4, <2>1, <2>4, <3>1
        <4>2. events[e].held # "void"
          BY <3>1, KnowledgeAssumption
        <4> QED
          BY <1>3, <2>2, <4>1, <4>2
      <3>2. CASE events[e].held # w
        BY <1>4, <1>9, <2>1, <2>2, <2>4, <3>2
      <3> QED
        BY <3>1, <3>2
    <2>5. CASE outbox' = Voided(events, w)
      <3>1. events[e].held # w /\ outbox'[e] = events[e]
        BY <1>5, <1>9, <2>1, <2>5 DEF VoidRow
      <3> QED
        BY <1>9, <2>2, <3>1
    <2> QED
      BY <2>3, <2>4, <2>5
  <1>10. receipts \subseteq DOMAIN outbox
    BY DEF KnowledgeInvariant, KnowledgeTypeOK
  <1> QED
    BY <1>7, <1>8, <1>9, <1>10 DEF EventsRefer, EventsFit, F

-----------------------------------------------------------------------------
(* The calls of a transaction.                                             *)

(* A session at work on calls that refer to what is there.                 *)
AtWork(t) == t \in Transactions /\ t.todo # <<>> /\ \A k \in DOMAIN t.todo : Refers(t.todo[k])

LEMMA SessionForms ==
    ASSUME KnowledgeInvariant, NEW w \in Writers
    PROVE  /\ tx[w] \in Transactions /\ InOrder(tx[w])
           /\ tx[w].pc \in {"scan", "take", "row", "bump"} => AtWork(tx[w])
           /\ \A k \in DOMAIN tx[w].todo : Refers(tx[w].todo[k])
  BY DEF KnowledgeInvariant, KnowledgeTypeOK, InOrder, AtWork

(* The first call of a session at work, and the calls that are left.       *)
LEMMA Calling ==
    ASSUME NEW t, AtWork(t)
    PROVE  /\ t.todo \in Seq(Calls) /\ Len(t.todo) \in Nat /\ Len(t.todo) >= 1
           /\ t.todo[1] \in Calls /\ Refers(t.todo[1])
           /\ Tail(t.todo) \in Seq(Calls)
           /\ Len(t.todo) > 1 => Tail(t.todo) # <<>>
           /\ \A k \in DOMAIN Tail(t.todo) : Refers(Tail(t.todo)[k])
  <1>1. t.todo \in Seq(Calls) /\ t.todo # <<>>
    BY DEF AtWork, Transactions
  <1> DEFINE s == t.todo
  <1>2. s \in Seq(Calls) /\ s # <<>> /\ \A k \in DOMAIN s : Refers(s[k])
    BY <1>1 DEF AtWork
  <1> HIDE DEF s
  <1>3. Len(s) \in Nat /\ Len(s) >= 1 /\ 1 \in DOMAIN s /\ s[1] \in Calls
    BY <1>2
  <1>4. /\ Tail(s) \in Seq(Calls) /\ Len(Tail(s)) = Len(s) - 1
        /\ \A k \in DOMAIN Tail(s) : k + 1 \in DOMAIN s /\ Tail(s)[k] = s[k + 1]
    BY <1>2, <1>3
  <1>5. Len(s) > 1 => Tail(s) # <<>>
    <2>1. Len(<<>>) = 0 /\ (Len(s) > 1 => Len(Tail(s)) # 0)
      BY <1>3, <1>4
    <2> QED
      BY <2>1, Zenon
  <1>6. Refers(s[1]) /\ \A k \in DOMAIN Tail(s) : Refers(Tail(s)[k])
    BY <1>2, <1>3, <1>4
  <1> QED
    BY <1>2, <1>3, <1>4, <1>5, <1>6 DEF s

(* A call's columns.                                                       *)
LEMMA CallColumns ==
    ASSUME NEW call \in Calls
    PROVE  /\ call.source \in Messages \cup {NoMessage} /\ call.deps \subseteq RevIds
           /\ call.item \in 0..MaxRevisions /\ call.expected \in 0..MaxRevisions
           /\ call.key \in Keys /\ call.op \in {"create", "revise", "revoke"}
  BY DEF Calls

(* After a call the transaction goes on with the next, or commits.         *)
LEMMA ProceedSound ==
    ASSUME KnowledgeInvariant, NEW w \in Writers, NEW t, AtWork(t),
           tx[w].sources \subseteq t.sources, tx[w].rows \subseteq t.rows,
           NEW events, EventsFit(events, rev), Proceed(w, t, rev, events),
           lapsed' = lapsed, receipts' = receipts
    PROVE  KnowledgeInvariant'
  <1>1. rev \in Seq(RevRows \cup {VoidRow}) /\ Len(rev) <= MaxRevisions /\ lapsed \subseteq DOMAIN rev
    BY DEF KnowledgeInvariant, KnowledgeTypeOK
  <1>2. CASE Len(t.todo) > 1
    <2> DEFINE u == [t EXCEPT !.pc = IF w \in Backfills THEN "scan" ELSE "take", !.todo = Tail(@)]
    <2>1. tx' = [tx EXCEPT ![w] = u] /\ rev' = rev /\ outbox' = events
      BY <1>2 DEF Proceed
    <2>2. t \in Transactions
      BY DEF AtWork
    <2>3. Tail(t.todo) \in Seq(Calls) /\ Tail(t.todo) # <<>> /\ \A k \in DOMAIN Tail(t.todo) : Refers(Tail(t.todo)[k])
      BY <1>2, Calling
    <2>4. u.pc \in {"scan", "take"} /\ u.todo = Tail(t.todo) /\ u.sources = t.sources /\ u.rows = t.rows
      BY <2>2 DEF Transactions
    <2>5. u \in Transactions
      BY <2>2, <2>3 DEF Transactions
    <2>6. InOrder(u)
      BY <2>3, <2>4 DEF InOrder
    <2> HIDE DEF u
    <2>7. /\ tx' \in [Writers -> Transactions] /\ \A v \in Writers : InOrder(tx[v])'
          /\ RowsLocked' /\ ChainsInOrder'
      BY <2>1, <2>4, <2>5, <2>6, GoesOn
    <2>8. /\ outbox' \in Seq(EventRows \cup {VoidRow}) /\ Len(outbox') <= MaxRevisions
          /\ receipts' \subseteq DOMAIN outbox' /\ EventsRefer'
      BY <2>1, EventsKept
    <2> QED
      BY <1>1, <2>1, <2>7, <2>8 DEF KnowledgeInvariant, KnowledgeTypeOK
  <1>3. CASE ~(Len(t.todo) > 1)
    <2>1. /\ tx' = [tx EXCEPT ![w] = IF w \in Turns THEN [Idle EXCEPT !.pc = "done"] ELSE Idle]
          /\ rev' = Committed(rev, w) /\ outbox' = Committed(events, w)
      BY <1>3 DEF Proceed
    <2>2. /\ tx' \in [Writers -> Transactions] /\ \A v \in Writers : InOrder(tx[v])'
          /\ rev' \in Seq(RevRows \cup {VoidRow}) /\ Len(rev') = Len(rev)
          /\ RowsLocked' /\ ChainsInOrder'
      <3>1. CASE w \in Turns
        BY <2>1, <3>1, Ends
      <3>2. CASE w \notin Turns
        BY <2>1, <3>2, Ends
      <3> QED
        BY <3>1, <3>2
    <2>3. DOMAIN rev' = DOMAIN rev
      BY <1>1, <2>2
    <2>4. EventsFit(events, rev')
      BY <2>3 DEF EventsFit
    <2>5. /\ outbox' \in Seq(EventRows \cup {VoidRow}) /\ Len(outbox') <= MaxRevisions
          /\ receipts' \subseteq DOMAIN outbox' /\ EventsRefer'
      BY <2>1, <2>4, EventsKept
    <2> QED
      BY <1>1, <2>2, <2>3, <2>5 DEF KnowledgeInvariant, KnowledgeTypeOK
  <1> QED
    BY <1>2, <1>3

(* A transaction is rolled back.                                           *)
LEMMA RollbackSound ==
    ASSUME KnowledgeInvariant, NEW w \in Writers, Rollback(w), lapsed' = lapsed, receipts' = receipts
    PROVE  KnowledgeInvariant'
  <1>1. rev \in Seq(RevRows \cup {VoidRow}) /\ Len(rev) <= MaxRevisions /\ lapsed \subseteq DOMAIN rev
    BY DEF KnowledgeInvariant, KnowledgeTypeOK
  <1>2. tx' = [tx EXCEPT ![w] = Idle] /\ rev' = Voided(rev, w) /\ outbox' = Voided(outbox, w)
    BY DEF Rollback
  <1>3. /\ tx' \in [Writers -> Transactions] /\ \A v \in Writers : InOrder(tx[v])'
        /\ rev' \in Seq(RevRows \cup {VoidRow}) /\ Len(rev') = Len(rev)
        /\ RowsLocked' /\ ChainsInOrder'
    BY <1>2, Ends
  <1>4. DOMAIN rev' = DOMAIN rev
    BY <1>1, <1>3
  <1>5. EventsFit(outbox, rev')
    BY <1>4, EventsAsTheyAre DEF EventsFit
  <1>6. /\ outbox' \in Seq(EventRows \cup {VoidRow}) /\ Len(outbox') <= MaxRevisions
        /\ receipts' \subseteq DOMAIN outbox' /\ EventsRefer'
    BY <1>2, <1>5, EventsKept
  <1> QED
    BY <1>1, <1>3, <1>4, <1>6 DEF KnowledgeInvariant, KnowledgeTypeOK

(* A call is refused.                                                      *)
LEMMA ConflictSound ==
    ASSUME KnowledgeInvariant, NEW w \in Writers, NEW t, AtWork(t),
           tx[w].sources \subseteq t.sources, tx[w].rows \subseteq t.rows,
           Conflict(w, t), lapsed' = lapsed, receipts' = receipts
    PROVE  KnowledgeInvariant'
  <1>1. CASE w \in Turns
    <2>1. Proceed(w, t, rev, outbox)
      BY <1>1 DEF Conflict
    <2> QED
      BY <2>1, EventsAsTheyAre, ProceedSound
  <1>2. CASE w \notin Turns
    <2>1. Rollback(w)
      BY <1>2 DEF Conflict
    <2> QED
      BY <2>1, RollbackSound
  <1> QED
    BY <1>1, <1>2

(* The reply of a turn is derived from what was written for its question;  *)
(* nothing else of its calls changes.                                      *)
Derived(call, n) == [call EXCEPT !.deps = @ \cup {n}]

LEMMA BoundCalls ==
    ASSUME NEW w \in Writers, NEW t, AtWork(t), NEW n \in RevIds
    PROVE  /\ Bound(w, t, n) \in Transactions /\ Bound(w, t, n).todo # <<>>
           /\ Bound(w, t, n).sources = t.sources /\ Bound(w, t, n).rows = t.rows
           /\ \A k \in DOMAIN Bound(w, t, n).todo : \E call \in Calls :
                 Refers(call) /\ Bound(w, t, n).todo[k] \in {call, Derived(call, n)}
  <1>0. t \in Transactions /\ t.todo \in Seq(Calls) /\ t.todo # <<>>
    BY DEF AtWork, Transactions
  <1>1. CASE w \in Turns /\ Len(t.todo) = 2
    <2> DEFINE d == Derived(t.todo[2], n)
               s == [t.todo EXCEPT ![2] = d]
    <2>1. t.todo[2] \in Calls /\ 2 \in DOMAIN t.todo
      BY <1>0, <1>1
    <2>2. d \in Calls
      BY <2>1 DEF Calls, Derived
    <2>3. Bound(w, t, n) = [t EXCEPT !.todo = s]
      BY <1>0, <1>1 DEF Bound, Derived, Transactions
    <2> HIDE DEF d
    <2>4. /\ s \in Seq(Calls) /\ DOMAIN s = DOMAIN t.todo /\ s # <<>>
          /\ \A k \in DOMAIN s : s[k] = IF k = 2 THEN d ELSE t.todo[k]
      BY <1>0, <1>1, <2>1, <2>2
    <2> HIDE DEF s
    <2>5. /\ [t EXCEPT !.todo = s].todo = s /\ [t EXCEPT !.todo = s] \in Transactions
          /\ [t EXCEPT !.todo = s].sources = t.sources /\ [t EXCEPT !.todo = s].rows = t.rows
      BY <1>0, <2>4 DEF Transactions
    <2>6. \A k \in DOMAIN t.todo : t.todo[k] \in Calls /\ Refers(t.todo[k])
      BY <1>0 DEF AtWork
    <2>7. \A k \in DOMAIN s : \E call \in Calls : Refers(call) /\ s[k] \in {call, Derived(call, n)}
      BY <2>4, <2>6 DEF d
    <2> QED
      BY <2>3, <2>4, <2>5, <2>7
  <1>2. CASE ~(w \in Turns /\ Len(t.todo) = 2)
    <2>1. Bound(w, t, n) = t
      BY <1>2 DEF Bound
    <2>2. \A k \in DOMAIN t.todo : t.todo[k] \in Calls /\ Refers(t.todo[k])
      BY <1>0 DEF AtWork
    <2> QED
      BY <1>0, <2>1, <2>2
  <1> QED
    BY <1>1, <1>2

LEMMA BoundSound ==
    ASSUME KnowledgeInvariant, NEW w \in Writers, NEW t, AtWork(t), NEW n \in DOMAIN rev
    PROVE  /\ AtWork(Bound(w, t, n))
           /\ Bound(w, t, n).sources = t.sources /\ Bound(w, t, n).rows = t.rows
  <1>1. n \in RevIds
    BY RowForms DEF KnowledgeInvariant, RevIds
  <1>2. \A call \in Calls : Refers(call) => Refers(Derived(call, n))
    BY DEF Refers, Derived, Calls
  <1> QED
    BY <1>1, <1>2, BoundCalls DEF AtWork

-----------------------------------------------------------------------------
(* A new revision.                                                         *)

(* What a new row must be for the chains to stay in order, given the locks *)
(* its session has: the first of an item, and if it names a message the    *)
(* only item imported from it, or the last of its item.                    *)
RowFits(t, call, item, ordinal, life) ==
    /\ item = 0 =>
          /\ ordinal = 1 /\ life = "active"
          /\ call.source # NoMessage =>
                /\ call.source \in t.sources
                /\ \A o \in Live : ~(rev[o].source = call.source /\ rev[o].ordinal = 1)
    /\ item # 0 =>
          /\ item \in t.rows /\ item \in DOMAIN rev /\ ordinal > 1 /\ ordinal <= Len(rev) + 1
          /\ \A o \in Live : rev[o].item = item =>
                rev[o].ordinal < ordinal /\ (life = "active" => rev[o].life = "active")

LEMMA InsertSound ==
    ASSUME KnowledgeInvariant, NEW w \in Writers, NEW t, AtWork(t),
           tx[w].sources \subseteq t.sources, tx[w].rows \subseteq t.rows,
           NEW call \in Calls, Refers(call), NEW item \in 0..MaxRevisions, NEW ordinal \in Nat,
           NEW life \in {"active", "revoked"}, RowFits(t, call, item, ordinal, life),
           Insert(w, t, call, item, ordinal, life), lapsed' = lapsed, receipts' = receipts
    PROVE  KnowledgeInvariant'
  <1>0. PICK n : n = Len(rev) + 1
    OBVIOUS
  <1> DEFINE i == IF item = 0 THEN n ELSE item
             row == [item |-> i, ordinal |-> ordinal, source |-> call.source, deps |-> call.deps,
                     life |-> life, held |-> w]
  <1>1. /\ n \in RevIds /\ Len(outbox) < MaxRevisions /\ rev' = Append(rev, row)
        /\ outbox' = Append(outbox, Event(w, call, n))
        /\ tx' = [tx EXCEPT ![w] = [Bound(w, t, n) EXCEPT !.pc = "bump"]]
    BY <1>0 DEF Insert
  <1>2. /\ rev \in Seq(RevRows \cup {VoidRow}) /\ Len(rev) \in Nat /\ DOMAIN rev = 1..Len(rev)
        /\ Len(rev) <= MaxRevisions /\ MaxRevisions \in Nat /\ lapsed \subseteq DOMAIN rev
    BY RowForms DEF KnowledgeInvariant, KnowledgeTypeOK
  <1>3. \A o \in Live : /\ o \in DOMAIN rev /\ rev[o] \in RevRows
                         /\ rev[o].item \in Nat /\ rev[o].ordinal \in Nat
    BY RowForms, RowColumns DEF KnowledgeInvariant
  <1>4. call.deps \subseteq 1..Len(rev) /\ call.source \in Messages \cup {NoMessage}
    BY <1>2, CallColumns DEF Refers
  <1>5. /\ i \in RevIds /\ i <= n /\ ordinal \in RevIds /\ ordinal <= n
    BY <1>0, <1>1, <1>2 DEF RowFits, RevIds
  <1>6. row \in RevRows
    BY <1>0, <1>1, <1>2, <1>4, <1>5 DEF RevRows, RevIds
  <1>7. /\ row.item = i /\ row.ordinal = ordinal /\ row.source = call.source /\ row.deps = call.deps
        /\ row.life = life /\ row.held = w
    OBVIOUS
  <1> HIDE DEF row
  <1>8. /\ rev' \in Seq(RevRows \cup {VoidRow}) /\ Len(rev') = n /\ DOMAIN rev' = 1..n
        /\ rev'[n] = row /\ \A o \in DOMAIN rev : rev'[o] = rev[o]
    BY <1>0, <1>1, <1>2, <1>6
  <1>9. n \notin DOMAIN rev /\ DOMAIN rev \subseteq DOMAIN rev' /\ n \in DOMAIN rev'
        /\ \A o \in DOMAIN rev' : o \in DOMAIN rev \/ o = n
    BY <1>0, <1>2, <1>8
  <1>10. \A o \in Live' : (o \in Live /\ rev'[o] = rev[o]) \/ (o = n /\ rev'[o] = row)
    BY <1>8, <1>9 DEF Live
  <1>11. \A o \in Kept : o \in Kept' /\ rev'[o].item = rev[o].item
    BY <1>8, <1>9 DEF Kept
  <1>u. PICK u : u = [Bound(w, t, n) EXCEPT !.pc = "bump"]
    OBVIOUS
  <1>12. /\ u \in Transactions /\ InOrder(u)' /\ u.sources = t.sources /\ u.rows = t.rows
    <2>0. PICK c : c = Bound(w, t, n)
      OBVIOUS
    <2>1. /\ c \in Transactions /\ c.todo # <<>> /\ c.sources = t.sources /\ c.rows = t.rows
          /\ \A k \in DOMAIN c.todo : \E a \in Calls : Refers(a) /\ c.todo[k] \in {a, Derived(a, n)}
      BY <1>1, <2>0, BoundCalls
    <2>2. \A a \in Calls : Refers(a) => Refers(a)' /\ Refers(Derived(a, n))'
      BY <1>9, <1>11 DEF Refers, Derived, Calls
    <2>3. \A k \in DOMAIN c.todo : Refers(c.todo[k])'
      BY <2>1, <2>2
    <2>4. /\ u.pc = "bump" /\ u.todo = c.todo /\ u.sources = c.sources /\ u.rows = c.rows
          /\ u \in Transactions
      BY <1>u, <2>0, <2>1 DEF Transactions
    <2>5. InOrder(u)'
      BY <2>1, <2>3, <2>4 DEF InOrder
    <2> QED
      BY <2>1, <2>4, <2>5
  <1>13. /\ tx' \in [Writers -> Transactions] /\ \A v \in Writers : InOrder(tx[v])'
         /\ tx'[w] = u /\ \A v \in Writers : v # w => tx'[v] = tx[v]
    BY <1>1, <1>9, <1>11, <1>12, <1>u, SessionsKept
  <1>14. RowsLocked'
    <2> SUFFICES ASSUME NEW o \in Live', rev'[o].held \in Writers
                 PROVE  /\ rev'[o].source # NoMessage /\ rev'[o].ordinal = 1
                               => rev'[o].source \in tx'[rev'[o].held].sources
                        /\ rev'[o].ordinal > 1 => rev'[o].item \in tx'[rev'[o].held].rows
      BY DEF RowsLocked
    <2>1. CASE o \in Live /\ rev'[o] = rev[o]
      <3>1. /\ rev[o].source # NoMessage /\ rev[o].ordinal = 1
                  => rev[o].source \in tx[rev[o].held].sources
            /\ rev[o].ordinal > 1 => rev[o].item \in tx[rev[o].held].rows
        BY <2>1 DEF KnowledgeInvariant, RowsLocked
      <3>2. CASE rev[o].held = w
        BY <1>12, <1>13, <2>1, <3>1, <3>2
      <3>3. CASE rev[o].held # w
        BY <1>13, <2>1, <3>1, <3>3
      <3> QED
        BY <3>2, <3>3
    <2>2. CASE o = n /\ rev'[o] = row
      <3>1. item # 0 => ordinal # 1
        BY DEF RowFits
      <3> QED
        BY <1>7, <1>12, <1>13, <2>2, <3>1 DEF RowFits
    <2> QED
      BY <1>10, <2>1, <2>2
  <1>15. ChainsInOrder'
    <2>1. ASSUME NEW o \in Live'
          PROVE  /\ rev'[o].item <= o /\ rev'[o].ordinal <= o /\ rev'[o].deps \subseteq 1..(o - 1)
                 /\ rev'[o].ordinal = 1 => rev'[o].item = o /\ rev'[o].life = "active"
      <3>1. CASE o \in Live /\ rev'[o] = rev[o]
        BY <3>1 DEF KnowledgeInvariant, ChainsInOrder
      <3>2. CASE o = n /\ rev'[o] = row
        <4>1. item # 0 => ordinal # 1
          BY DEF RowFits
        <4>2. item = 0 => i = n
          OBVIOUS
        <4>3. 1..(n - 1) = 1..Len(rev)
          BY <1>0, <1>2
        <4> QED
          BY <1>4, <1>5, <1>7, <3>2, <4>1, <4>2, <4>3 DEF RowFits
      <3> QED
        BY <1>10, <3>1, <3>2
    <2>2. ASSUME NEW o \in Live
          PROVE  /\ ~(row.source = rev[o].source /\ row.source # NoMessage
                      /\ row.ordinal = 1 /\ rev[o].ordinal = 1)
                 /\ row.item = rev[o].item => rev[o].ordinal < row.ordinal
                 /\ (row.item = rev[o].item /\ rev[o].life = "revoked") => row.life = "revoked"
      <3>1. ~(row.source = rev[o].source /\ row.source # NoMessage
               /\ row.ordinal = 1 /\ rev[o].ordinal = 1)
        <4>1. item # 0 => ordinal # 1
          BY DEF RowFits
        <4>2. item = 0 /\ call.source # NoMessage =>
                 ~(rev[o].source = call.source /\ rev[o].ordinal = 1)
          BY DEF RowFits
        <4> QED
          BY <1>7, <4>1, <4>2
      <3>2. CASE item = 0
        <4>1. rev[o].item <= o /\ o \in 1..Len(rev)
          BY <1>2, <1>3 DEF KnowledgeInvariant, ChainsInOrder
        <4>2. rev[o].item # i
          BY <1>0, <1>2, <1>3, <3>2, <4>1
        <4> QED
          BY <1>7, <3>1, <4>2
      <3>3. CASE item # 0
        BY <1>7, <3>1, <3>3 DEF RowFits
      <3> QED
        BY <3>2, <3>3
    <2>3. ASSUME NEW o \in Live', NEW p \in Live'
          PROVE  /\ (rev'[o].source = rev'[p].source /\ rev'[o].source # NoMessage
                     /\ rev'[o].ordinal = 1 /\ rev'[p].ordinal = 1) => o = p
                 /\ rev'[o].item = rev'[p].item /\ rev'[o].ordinal = rev'[p].ordinal => o = p
                 /\ (rev'[o].item = rev'[p].item /\ rev'[o].life = "revoked"
                     /\ rev'[p].ordinal > rev'[o].ordinal) => rev'[p].life = "revoked"
      <3>0. \A a, b \in Nat : a < b => a # b /\ ~(a > b)
        OBVIOUS
      <3>5. ASSUME NEW q \in Live
            PROVE  /\ row.ordinal \in Nat /\ rev[q].ordinal \in Nat
                   /\ row.item = rev[q].item => row.ordinal # rev[q].ordinal /\ ~(rev[q].ordinal > row.ordinal)
                   /\ ~(row.source = rev[q].source /\ row.source # NoMessage
                        /\ row.ordinal = 1 /\ rev[q].ordinal = 1)
                   /\ (row.item = rev[q].item /\ rev[q].life = "revoked") => row.life = "revoked"
        <4>1. row.ordinal \in Nat /\ rev[q].ordinal \in Nat
          BY <1>3, <1>7
        <4>2. row.item = rev[q].item => rev[q].ordinal < row.ordinal
          BY <2>2
        <4> QED
          BY <2>2, <3>0, <4>1, <4>2
      <3>1. CASE o \in Live /\ rev'[o] = rev[o] /\ p \in Live /\ rev'[p] = rev[p]
        BY <3>1 DEF KnowledgeInvariant, ChainsInOrder
      <3>2. CASE o \in Live /\ rev'[o] = rev[o] /\ p = n /\ rev'[p] = row
        BY <3>2, <3>5
      <3>3. CASE o = n /\ rev'[o] = row /\ p \in Live /\ rev'[p] = rev[p]
        BY <3>3, <3>5
      <3>4. CASE o = n /\ rev'[o] = row /\ p = n /\ rev'[p] = row
        BY <3>4, <3>5
      <3> QED
        BY <1>10, <3>1, <3>2, <3>3, <3>4
    <2> QED
      BY <2>1, <2>3 DEF ChainsInOrder
  <1>16. /\ outbox' \in Seq(EventRows \cup {VoidRow}) /\ Len(outbox') <= MaxRevisions
         /\ receipts' \subseteq DOMAIN outbox' /\ EventsRefer'
    <2>1. EventsFit(Append(outbox, Event(w, call, n)), rev')
      BY <1>1, <1>9, EventAdded
    <2> QED
      BY <1>1, <2>1, EventsKept
  <1>17. Len(rev') <= MaxRevisions /\ lapsed' \subseteq DOMAIN rev'
    BY <1>1, <1>2, <1>8, <1>9 DEF RevIds
  <1>18. KnowledgeTypeOK'
    BY <1>8, <1>13, <1>16, <1>17 DEF KnowledgeTypeOK
  <1> QED
    BY <1>13, <1>14, <1>15, <1>16, <1>18 DEF KnowledgeInvariant

-----------------------------------------------------------------------------
(* The steps of a session.                                                 *)

(* A session goes on and writes nothing.                                   *)
LEMMA MovesOn ==
    ASSUME KnowledgeInvariant, NEW w \in Writers, NEW t \in Transactions,
           tx' = [tx EXCEPT ![w] = t], rev' = rev, outbox' = outbox, lapsed' = lapsed,
           receipts' = receipts, InOrder(t),
           tx[w].sources \subseteq t.sources, tx[w].rows \subseteq t.rows
    PROVE  KnowledgeInvariant'
  <1>1. /\ tx' \in [Writers -> Transactions] /\ \A v \in Writers : InOrder(tx[v])'
        /\ RowsLocked' /\ ChainsInOrder'
    BY GoesOn
  <1>2. EventsFit(outbox, rev')
    BY EventsAsTheyAre
  <1>3. /\ outbox' \in Seq(EventRows \cup {VoidRow}) /\ Len(outbox') <= MaxRevisions
        /\ receipts' \subseteq DOMAIN outbox' /\ EventsRefer'
    BY <1>2, EventsKept
  <1> QED
    BY <1>1, <1>3 DEF KnowledgeInvariant, KnowledgeTypeOK

(* A session that takes the lock of its message sees every item imported   *)
(* from it that may be kept.                                               *)
LEMMA NoneUnseen ==
    ASSUME KnowledgeInvariant, NEW w \in Writers, NeedsSource(Head1(w)), SourceHolders(w) = {},
           Imported(Seen(w), Head1(w).source) = {}
    PROVE  \A o \in Live : ~(rev[o].source = Head1(w).source /\ rev[o].ordinal = 1)
  <1> SUFFICES ASSUME NEW o \in Live, rev[o].source = Head1(w).source, rev[o].ordinal = 1 PROVE FALSE
    OBVIOUS
  <1>1. rev[o].source # NoMessage
    BY DEF NeedsSource
  <1>2. o \in DOMAIN rev /\ rev[o].held \in Writers \cup {"kept"}
    BY RowForms, RowColumns DEF KnowledgeInvariant
  <1>3. rev[o].held \notin {"kept", w}
    BY <1>2 DEF Imported, Seen
  <1>4. rev[o].source \in tx[rev[o].held].sources
    BY <1>1, <1>2, <1>3 DEF KnowledgeInvariant, RowsLocked
  <1>5. rev[o].held \in SourceHolders(w)
    BY <1>2, <1>3, <1>4 DEF SourceHolders
  <1> QED
    BY <1>5

LEMMA TakeSound ==
    ASSUME KnowledgeInvariant, NEW w \in Writers, Take(w)
    PROVE  KnowledgeInvariant'
  <1>0. PICK call : call = Head1(w)
    OBVIOUS
  <1>1. PICK t : t = Locked(w)
    OBVIOUS
  <1>2. tx[w].pc = "take" /\ AtWork(tx[w]) /\ tx[w] \in Transactions
    BY SessionForms DEF Take
  <1>3. call \in Calls /\ Refers(call) /\ call = tx[w].todo[1]
    BY <1>0, <1>2, Calling DEF Head1
  <1>4. /\ t \in Transactions /\ t.todo = tx[w].todo /\ t.rows = tx[w].rows /\ t.pc = "take"
        /\ tx[w].sources \subseteq t.sources /\ (NeedsSource(call) => call.source \in t.sources)
    <2>1. call.key \in Keys /\ (NeedsSource(call) => call.source \in Messages)
      BY <1>3, CallColumns DEF NeedsSource
    <2> QED
      BY <1>0, <1>1, <1>2, <2>1 DEF Locked, Transactions
  <1>5. AtWork(t)
    BY <1>2, <1>4 DEF AtWork
  <1>6. lapsed' = lapsed /\ receipts' = receipts
    BY DEF Take
  <1>7. \A n \in DOMAIN rev : /\ AtWork(Bound(w, t, n)) /\ Bound(w, t, n).sources = t.sources
                              /\ Bound(w, t, n).rows = t.rows
    BY <1>5, BoundSound
  <1>8. Conflict(w, t) => KnowledgeInvariant'
    BY <1>4, <1>5, <1>6, ConflictSound
  <1>9. ASSUME NEW e \in Answered(w, call.key),
               IF outbox[e].call = call THEN Proceed(w, Bound(w, t, outbox[e].rev), rev, outbox)
                                        ELSE Conflict(w, t)
        PROVE  KnowledgeInvariant'
    <2>1. outbox[e].rev \in DOMAIN rev
      BY KnowledgeAssumption DEF Answered, KnowledgeInvariant, EventsRefer
    <2>2. CASE outbox[e].call = call
      <3>1. PICK b : b = Bound(w, t, outbox[e].rev)
        OBVIOUS
      <3>2. AtWork(b) /\ b.sources = t.sources /\ b.rows = t.rows /\ Proceed(w, b, rev, outbox)
        BY <1>7, <1>9, <2>1, <2>2, <3>1
      <3> QED
        BY <1>4, <1>6, <3>2, ProceedSound, EventsAsTheyAre
    <2>3. CASE outbox[e].call # call
      BY <1>8, <1>9, <2>3
    <2> QED
      BY <2>2, <2>3
  <1>10. ASSUME Len(outbox) < MaxRevisions, NEW n \in Priors(Seen(w), call.source),
                Proceed(w, Bound(w, t, n), rev, Append(outbox, Event(w, call, n)))
         PROVE  KnowledgeInvariant'
    <2>3. n \in Live
      BY RowForms DEF KnowledgeInvariant, Priors, Imported
    <2>4. n \in DOMAIN rev /\ n \in RevIds
      BY <2>3, RowForms DEF KnowledgeInvariant
    <2>5. EventsFit(Append(outbox, Event(w, call, n)), rev)
      BY <1>3, <1>10, <2>4, EventAdded
    <2>6. PICK b : b = Bound(w, t, n)
      OBVIOUS
    <2>7. AtWork(b) /\ b.sources = t.sources /\ b.rows = t.rows
          /\ Proceed(w, b, rev, Append(outbox, Event(w, call, n)))
      BY <1>7, <1>10, <2>4, <2>6
    <2> QED
      BY <1>4, <1>6, <2>5, <2>7, ProceedSound
  <1>11. ASSUME NeedsSource(call) => Imported(Seen(w), call.source) = {},
                call.op = "create", Insert(w, t, call, 0, 1, "active")
         PROVE  KnowledgeInvariant'
    <2>1. SourceHolders(w) = {}
      BY <1>2 DEF Take, Blockers
    <2>2. call.source # NoMessage => NeedsSource(call)
      BY <1>11 DEF NeedsSource
    <2>3. NeedsSource(call) => \A o \in Live : ~(rev[o].source = call.source /\ rev[o].ordinal = 1)
      BY <1>0, <1>11, <2>1, NoneUnseen
    <2>4. RowFits(t, call, 0, 1, "active")
      BY <1>4, <2>2, <2>3 DEF RowFits
    <2>5. 0 \in 0..MaxRevisions
      BY KnowledgeAssumption
    <2> QED
      BY <1>3, <1>4, <1>5, <1>6, <1>11, <2>4, <2>5, InsertSound
  <1>12. ASSUME call.op # "create", tx' = [tx EXCEPT ![w] = [t EXCEPT !.pc = "row"]],
                rev' = rev, outbox' = outbox
         PROVE  KnowledgeInvariant'
    <2>1. PICK u : u = [t EXCEPT !.pc = "row"]
      OBVIOUS
    <2>2. /\ u \in Transactions /\ u.pc = "row" /\ u.todo = t.todo /\ u.sources = t.sources
          /\ u.rows = t.rows
      BY <1>4, <2>1 DEF Transactions
    <2>3. InOrder(u)
      BY <1>3, <1>4, <1>5, <1>12, <2>2 DEF InOrder, AtWork
    <2> QED
      BY <1>4, <1>6, <1>12, <2>1, <2>2, <2>3, MovesOn
  <1> QED
    BY <1>0, <1>1, <1>8, <1>9, <1>10, <1>11, <1>12 DEF Take

LEMMA ScanSound ==
    ASSUME KnowledgeInvariant, NEW w \in Writers, Scan(w)
    PROVE  KnowledgeInvariant'
  <1>1. tx[w].pc = "scan" /\ AtWork(tx[w]) /\ tx[w] \in Transactions
    BY SessionForms DEF Scan
  <1>2. lapsed' = lapsed /\ receipts' = receipts
    BY DEF Scan
  <1>3. CASE Proceed(w, tx[w], rev, outbox)
    BY <1>1, <1>2, <1>3, EventsAsTheyAre, ProceedSound
  <1>4. CASE tx' = [tx EXCEPT ![w].pc = "take"] /\ rev' = rev /\ outbox' = outbox
    <2>1. PICK u : u = [tx[w] EXCEPT !.pc = "take"]
      OBVIOUS
    <2>2. tx' = [tx EXCEPT ![w] = u]
      BY <1>4, <2>1 DEF KnowledgeInvariant, KnowledgeTypeOK
    <2>3. /\ u \in Transactions /\ u.pc = "take" /\ u.todo = tx[w].todo /\ u.sources = tx[w].sources
          /\ u.rows = tx[w].rows
      BY <1>1, <2>1 DEF Transactions
    <2>4. InOrder(u)
      BY <1>1, <2>3 DEF InOrder, AtWork
    <2> QED
      BY <1>2, <1>4, <2>2, <2>3, <2>4, MovesOn
  <1> QED
    BY <1>3, <1>4 DEF Scan

(* A session that has an item's row sees every revision of the item that   *)
(* may be kept, but for one that began the item.                           *)
LEMMA LastOfItem ==
    ASSUME KnowledgeInvariant, NEW w \in Writers, tx[w].pc = "row", Blockers(w) = {}
    PROVE  LET i == Head1(w).item
               c == Current(Seen(w), i)
           IN  /\ i \in DOMAIN rev /\ c \in Live /\ rev[c].item = i
               /\ rev[c].ordinal >= 1 /\ rev[c].ordinal <= Len(rev)
               /\ \A o \in Live : rev[o].item = i =>
                     /\ rev[o].ordinal <= rev[c].ordinal
                     /\ rev[c].life = "active" => rev[o].life = "active"
  <1> DEFINE i == Head1(w).item
             c == Current(Seen(w), i)
  <1>1. AtWork(tx[w]) /\ Head1(w).op # "create"
    BY SessionForms DEF InOrder, Head1
  <1>2. Refers(Head1(w))
    BY <1>1, Calling DEF Head1
  <1>3. KnowledgeTypeOK /\ ChainsInOrder /\ RowsLocked
    BY DEF KnowledgeInvariant
  <1>4. Seen(w) \subseteq Live /\ Kept \subseteq Seen(w)
    BY <1>3, RowForms
  <1>5. Head1(w).expected \in Chain(Seen(w), i)
    BY <1>1, <1>2, <1>4 DEF Refers, Chain
  <1>6. /\ c \in Chain(Seen(w), i)
        /\ \A o \in Chain(Seen(w), i) : rev[o].ordinal <= rev[c].ordinal
    BY <1>3, <1>4, <1>5, CurrentExists
  <1> HIDE DEF c, i
  <1>7. c \in Live /\ rev[c].item = i
    BY <1>4, <1>6 DEF Chain
  <1>8. \A o \in Live : /\ o \in 1..Len(rev) /\ rev[o].item \in RevIds /\ rev[o].ordinal \in RevIds
                         /\ rev[o].item <= o /\ rev[o].ordinal <= o
                         /\ rev[o].life \in {"active", "revoked"}
                         /\ rev[o].held \in Writers \cup {"kept"}
    BY <1>3, RowForms, RowColumns DEF ChainsInOrder
  <1>9. Len(rev) \in Nat /\ DOMAIN rev = 1..Len(rev) /\ RevIds = 1..MaxRevisions /\ MaxRevisions \in Nat
    BY <1>3, RowForms
  <1>10. /\ i \in DOMAIN rev /\ rev[c].ordinal >= 1 /\ rev[c].ordinal <= Len(rev)
         /\ rev[c].ordinal \in Nat
    BY <1>7, <1>8, <1>9
  <1>11. ASSUME NEW o \in Live, rev[o].item = i
         PROVE  rev[o].ordinal <= rev[c].ordinal /\ (rev[c].life = "active" => rev[o].life = "active")
    <2>1. CASE rev[o].held \in {"kept", w}
      <3>1. o \in Chain(Seen(w), i)
        BY <1>8, <1>9, <1>11, <2>1 DEF Chain, Seen
      <3>2. rev[o].ordinal <= rev[c].ordinal
        BY <1>6, <3>1
      <3>3. CASE rev[o].ordinal = rev[c].ordinal
        BY <1>3, <1>7, <1>11, <3>2, <3>3 DEF ChainsInOrder
      <3>4. CASE rev[o].ordinal # rev[c].ordinal
        <4>1. rev[c].ordinal > rev[o].ordinal
          BY <1>8, <1>9, <1>10, <3>2, <3>4
        <4>2. rev[o].life = "revoked" => rev[c].life = "revoked"
          BY <1>3, <1>7, <1>11, <4>1 DEF ChainsInOrder
        <4> QED
          BY <1>8, <3>2, <4>2
      <3> QED
        BY <3>3, <3>4
    <2>2. CASE rev[o].held \notin {"kept", w}
      <3>1. rev[o].held \in Writers \ {w}
        BY <1>8, <2>2
      <3>2. rev[o].item \notin tx[rev[o].held].rows
        BY <1>11, <3>1 DEF Blockers, i
      <3>3. ~(rev[o].ordinal > 1)
        BY <1>3, <3>1, <3>2 DEF RowsLocked
      <3>4. rev[o].ordinal = 1
        BY <1>8, <1>9, <3>3
      <3>5. rev[o].life = "active"
        BY <1>3, <3>4 DEF ChainsInOrder
      <3> QED
        BY <1>10, <3>4, <3>5
    <2> QED
      BY <2>1, <2>2
  <1> QED
    BY <1>7, <1>10, <1>11 DEF c, i

LEMMA LockRowSound ==
    ASSUME KnowledgeInvariant, NEW w \in Writers, LockRow(w)
    PROVE  KnowledgeInvariant'
  <1>0. PICK call : call = Head1(w)
    OBVIOUS
  <1>1. PICK t : t = [tx[w] EXCEPT !.rows = @ \cup {call.item}]
    OBVIOUS
  <1>2. PICK c : c = Current(Seen(w), call.item)
    OBVIOUS
  <1>3. tx[w].pc = "row" /\ Blockers(w) = {} /\ lapsed' = lapsed /\ receipts' = receipts
    BY DEF LockRow
  <1>4. AtWork(tx[w]) /\ tx[w] \in Transactions /\ call.op # "create"
    BY <1>0, <1>3, SessionForms DEF InOrder, Head1
  <1>5. call \in Calls /\ Refers(call)
    BY <1>0, <1>4, Calling DEF Head1
  <1>6. /\ t \in Transactions /\ t.todo = tx[w].todo /\ t.rows = tx[w].rows \cup {call.item}
        /\ t.sources = tx[w].sources
    BY <1>1, <1>4, <1>5, CallColumns DEF Transactions
  <1>7. AtWork(t)
    BY <1>4, <1>6 DEF AtWork
  <1>8. /\ call.item \in DOMAIN rev /\ c \in Live /\ rev[c].ordinal >= 1 /\ rev[c].ordinal <= Len(rev)
        /\ \A o \in Live : rev[o].item = call.item =>
              rev[o].ordinal <= rev[c].ordinal /\ (rev[c].life = "active" => rev[o].life = "active")
    BY <1>0, <1>2, <1>3, LastOfItem
  <1>9. \A o \in Live : rev[o].ordinal \in Nat
    BY RowForms, RowColumns DEF KnowledgeInvariant
  <1>10. Len(rev) \in Nat /\ DOMAIN rev = 1..Len(rev)
    BY RowForms DEF KnowledgeInvariant
  <1>11. PICK next : next = rev[c].ordinal + 1
    OBVIOUS
  <1>12. /\ next \in Nat /\ next > 1 /\ next <= Len(rev) + 1 /\ call.item # 0
         /\ \A o \in Live : rev[o].item = call.item => rev[o].ordinal < next
    BY <1>8, <1>9, <1>10, <1>11
  <1>13. ASSUME NEW life \in {"active", "revoked"}, life = "active" => rev[c].life = "active",
                Insert(w, t, call, call.item, next, life)
         PROVE  KnowledgeInvariant'
    <2>1. RowFits(t, call, call.item, next, life)
      BY <1>5, <1>6, <1>8, <1>12, <1>13 DEF RowFits
    <2>2. call.item \in 0..MaxRevisions
      BY <1>5, CallColumns
    <2> QED
      BY <1>3, <1>5, <1>6, <1>7, <1>12, <1>13, <2>1, <2>2, InsertSound
  <1>14. Conflict(w, t) => KnowledgeInvariant'
    BY <1>3, <1>6, <1>7, ConflictSound
  <1>15. MayRevise(w, call) => rev[c].life = "active"
    BY <1>2 DEF MayRevise, Active
  <1>16. \/ MayRevise(w, call) /\ Insert(w, t, call, call.item, next, "active")
         \/ Insert(w, t, call, call.item, next, "revoked")
         \/ Conflict(w, t)
    BY <1>0, <1>1, <1>2, <1>11 DEF LockRow
  <1> QED
    BY <1>13, <1>14, <1>15, <1>16

LEMMA BumpSound ==
    ASSUME KnowledgeInvariant, NEW w \in Writers, Bump(w)
    PROVE  KnowledgeInvariant'
  <1>1. PICK t : t = [tx[w] EXCEPT !.epoch = TRUE]
    OBVIOUS
  <1>2. AtWork(tx[w]) /\ tx[w] \in Transactions
    BY SessionForms DEF Bump
  <1>3. AtWork(t) /\ t.sources = tx[w].sources /\ t.rows = tx[w].rows
    BY <1>1, <1>2 DEF AtWork, Transactions
  <1>4. Proceed(w, t, rev, outbox) /\ lapsed' = lapsed /\ receipts' = receipts
    BY <1>1 DEF Bump
  <1> QED
    BY <1>3, <1>4, EventsAsTheyAre, ProceedSound

-----------------------------------------------------------------------------
(* A transaction begins.                                                   *)

LEMMA BeginSound ==
    ASSUME KnowledgeInvariant, NEW w \in Writers, NEW todo \in Seq(Calls), todo # <<>>,
           \A k \in DOMAIN todo : Refers(todo[k]),
           NEW pc \in {"scan", "take", "row"}, pc = "row" => todo[1].op # "create",
           Begin(w, todo, pc)
    PROVE  KnowledgeInvariant'
  <1>1. PICK u : u = [Idle EXCEPT !.pc = pc, !.todo = todo]
    OBVIOUS
  <1>2. /\ tx[w].pc = "idle" /\ tx' = [tx EXCEPT ![w] = u] /\ rev' = rev /\ outbox' = outbox
        /\ lapsed' = lapsed /\ receipts' = receipts
    BY <1>1 DEF Begin, store
  <1>3. tx[w] = Idle
    BY <1>2, SessionForms DEF InOrder
  <1>4. /\ u \in Transactions /\ u.pc = pc /\ u.todo = todo
        /\ tx[w].sources \subseteq u.sources /\ tx[w].rows \subseteq u.rows
    BY <1>1, <1>3 DEF Idle, Transactions
  <1>5. InOrder(u)
    BY <1>4 DEF InOrder
  <1> QED
    BY <1>2, <1>4, <1>5, MovesOn

(* What is eligible is seen, and what a search finds is committed.         *)
LEMMA FoundKept ==
    ASSUME NEW D \in Found
    PROVE  D \subseteq Kept
  BY DEF Found, Eligible

LEMMA ImportFits ==
    ASSUME KnowledgeInvariant, NEW m \in Messages, NEW form \in {"text", "focused", "reply"},
           NEW D, D \subseteq Kept
    PROVE  Import(m, form, D) \in Calls /\ Refers(Import(m, form, D))
  <1>1. D \subseteq RevIds /\ D \subseteq DOMAIN rev
    BY RowForms DEF KnowledgeInvariant, Kept
  <1>2. 0 \in 0..MaxRevisions
    BY KnowledgeAssumption
  <1> QED
    BY <1>1, <1>2 DEF Import, Call, Calls, Keys, Refers

LEMMA AskDeusSound ==
    ASSUME KnowledgeInvariant, NEW t \in Turns, AskDeus(t)
    PROVE  KnowledgeInvariant'
  <1>1. PICK D \in Found, form \in {"text", "focused"} :
          Begin(t, <<Import(Question[t], form, {}), Import(Reply[t], "reply", D)>>, "take")
    BY DEF AskDeus
  <1>2. PICK a : a = Import(Question[t], form, {})
    OBVIOUS
  <1>3. PICK b : b = Import(Reply[t], "reply", D)
    OBVIOUS
  <1>4. Question[t] \in Messages /\ Reply[t] \in Messages
    BY DEF Messages, Questions
  <1>5. a \in Calls /\ Refers(a) /\ b \in Calls /\ Refers(b)
    BY <1>1, <1>2, <1>3, <1>4, FoundKept, ImportFits
  <1>6. <<a, b>> \in Seq(Calls) /\ <<a, b>> # <<>> /\ \A k \in DOMAIN <<a, b>> : Refers(<<a, b>>[k])
    BY <1>5
  <1> QED
    BY <1>1, <1>2, <1>3, <1>6, BeginSound DEF Writers

LEMMA OneCallSound ==
    ASSUME KnowledgeInvariant, NEW c \in Clients, NEW a \in Calls, Refers(a),
           NEW pc \in {"take", "row"}, pc = "row" => a.op # "create", Begin(c, <<a>>, pc)
    PROVE  KnowledgeInvariant'
  <1>1. <<a>> \in Seq(Calls) /\ <<a>> # <<>> /\ <<a>>[1] = a /\ \A k \in DOMAIN <<a>> : Refers(<<a>>[k])
    OBVIOUS
  <1> QED
    BY <1>1, BeginSound DEF Writers

LEMMA ClientSound ==
    ASSUME KnowledgeInvariant, NEW c \in Clients, Create(c) \/ Revise(c) \/ Revoke(c)
    PROVE  KnowledgeInvariant'
  <1>0. /\ Kept \subseteq DOMAIN rev /\ Kept \subseteq 1..MaxRevisions /\ 0 \in 0..MaxRevisions
        /\ 1..MaxRevisions \subseteq 0..MaxRevisions
        /\ \A n \in Kept : rev[n].item \in 1..MaxRevisions
    BY RowForms, RowColumns, KnowledgeAssumption DEF KnowledgeInvariant, Kept, RevIds
  <1>1. CASE Create(c)
    <2>1. PICK r \in MaySend, m \in Stored \cup {NoMessage}, D \in Found :
            Begin(c, <<Call("create", RequestKey(r), m, "api", D, 0, 0)>>, "take")
      BY <1>1 DEF Create
    <2>2. PICK a : a = Call("create", RequestKey(r), m, "api", D, 0, 0)
      OBVIOUS
    <2>3. r \in Nat /\ m \in Messages \cup {NoMessage} /\ D \subseteq Kept
      BY FoundKept, KnowledgeAssumption DEF MaySend, RequestIds, Messages, Stored
    <2>4. a \in Calls /\ Refers(a)
      BY <1>0, <2>2, <2>3 DEF Call, Calls, RequestKey, Keys, Refers, RevIds
    <2> QED
      BY <2>1, <2>2, <2>4, OneCallSound
  <1>2. CASE Revise(c)
    <2>1. PICK r \in MaySend, m \in Stored \cup {NoMessage}, n \in Kept, D \in Found :
            Begin(c, <<Call("revise", RequestKey(r), m, "api", D, rev[n].item, n)>>, "take")
      BY <1>2 DEF Revise
    <2>2. PICK a : a = Call("revise", RequestKey(r), m, "api", D, rev[n].item, n)
      OBVIOUS
    <2>3. r \in Nat /\ m \in Messages \cup {NoMessage} /\ D \subseteq Kept
      BY FoundKept, KnowledgeAssumption DEF MaySend, RequestIds, Messages, Stored
    <2>4. a \in Calls /\ Refers(a)
      BY <1>0, <2>2, <2>3 DEF Call, Calls, RequestKey, Keys, Refers, RevIds
    <2> QED
      BY <2>1, <2>2, <2>4, OneCallSound
  <1>3. CASE Revoke(c)
    <2>1. PICK n \in Kept : Begin(c, <<Call("revoke", NoKey, NoMessage, "api", {}, rev[n].item, n)>>, "row")
      BY <1>3 DEF Revoke
    <2>2. PICK a : a = Call("revoke", NoKey, NoMessage, "api", {}, rev[n].item, n)
      OBVIOUS
    <2>3. a \in Calls /\ Refers(a) /\ a.op # "create"
      BY <1>0, <2>2 DEF Call, Calls, NoKey, Keys, Refers, RevIds
    <2> QED
      BY <2>1, <2>2, <2>3, OneCallSound
  <1> QED
    BY <1>1, <1>2, <1>3

LEMMA StartBackfillSound ==
    ASSUME KnowledgeInvariant, NEW b \in Backfills, StartBackfill(b)
    PROVE  KnowledgeInvariant'
  <1> DEFINE size == Cardinality(Questions)
  <1>1. size \in Nat /\ \E f \in [1..size -> Questions] : IsInjective(f)
    BY KnowledgeAssumption, FS_CardinalityType DEF ExistsBijection, Bijection, Injection
  <1>2. SetToSeq(Questions) \in [1..size -> Questions]
    BY <1>1 DEF SetToSeq
  <1>3. size # 0
    BY KnowledgeAssumption, FS_EmptySet DEF StartBackfill
  <1> HIDE DEF size
  <1>4. PICK todo : todo = [k \in 1..size |-> Import(SetToSeq(Questions)[k], "text", {})]
    OBVIOUS
  <1>5. \A k \in 1..size : /\ todo[k] = Import(SetToSeq(Questions)[k], "text", {})
                           /\ SetToSeq(Questions)[k] \in Messages
    BY <1>2, <1>4 DEF Messages
  <1>6. \A k \in 1..size : todo[k] \in Calls /\ Refers(todo[k])
    BY <1>5, ImportFits
  <1>7. todo \in [1..size -> Calls] /\ DOMAIN todo = 1..size
    BY <1>4, <1>6
  <1>8. todo \in Seq(Calls) /\ Len(todo) = size
    BY <1>1, <1>7
  <1>9. todo # <<>>
    <2>1. Len(<<>>) = 0
      OBVIOUS
    <2> QED
      BY <1>3, <1>8, <2>1, Zenon
  <1>10. Begin(b, todo, "scan")
    BY <1>4 DEF StartBackfill, size
  <1> QED
    BY <1>6, <1>7, <1>8, <1>9, <1>10, BeginSound DEF Writers

-----------------------------------------------------------------------------
(* The store's invariant.                                                  *)

LEMMA KnowledgeInitiallySound == KInit => KnowledgeInvariant
  <1> SUFFICES ASSUME KInit PROVE KnowledgeInvariant
    OBVIOUS
  <1>1. /\ rev = <<>> /\ outbox = <<>> /\ lapsed = {} /\ receipts = {} /\ tx = [w \in Writers |-> Idle]
    BY DEF KInit
  <1>2. <<>> \in Seq(RevRows \cup {VoidRow}) /\ <<>> \in Seq(EventRows \cup {VoidRow})
        /\ <<>> \in Seq(Calls) /\ DOMAIN <<>> = {} /\ Len(<<>>) = 0
    OBVIOUS
  <1>3. Idle \in Transactions
    BY <1>2 DEF Idle, Transactions
  <1>4. KnowledgeTypeOK
    BY <1>1, <1>2, <1>3, KnowledgeAssumption DEF KnowledgeTypeOK
  <1>5. Idle.todo = <<>> /\ Idle.pc = "idle"
    BY DEF Idle
  <1>6. \A w \in Writers : InOrder(tx[w])
    BY <1>1, <1>2, <1>5 DEF InOrder
  <1>7. Live = {}
    BY <1>1, <1>2 DEF Live
  <1>8. EventsRefer /\ RowsLocked /\ ChainsInOrder
    BY <1>1, <1>2, <1>7 DEF EventsRefer, RowsLocked, ChainsInOrder
  <1> QED
    BY <1>4, <1>6, <1>8 DEF KnowledgeInvariant

LEMMA KnowledgeUnchanged ==
    KnowledgeInvariant /\ UNCHANGED <<rev, outbox, lapsed, tx, receipts>> => KnowledgeInvariant'
  BY DEF KnowledgeInvariant, KnowledgeTypeOK, InOrder, Refers, Kept, EventsRefer, RowsLocked,
         ChainsInOrder, Live

LEMMA LapseSound ==
    ASSUME KnowledgeInvariant, NEW n \in RevIds, Lapse(n)
    PROVE  KnowledgeInvariant'
  <1>1. n \in DOMAIN rev /\ lapsed' = lapsed \cup {n} /\ UNCHANGED <<rev, outbox, tx, receipts>>
    BY DEF Lapse, Kept
  <1>2. KnowledgeTypeOK'
    BY <1>1 DEF KnowledgeInvariant, KnowledgeTypeOK
  <1> QED
    BY <1>1, <1>2 DEF KnowledgeInvariant, InOrder, Refers, Kept, EventsRefer, RowsLocked, ChainsInOrder, Live

LEMMA IndexRunSound ==
    ASSUME KnowledgeInvariant, IndexRun
    PROVE  KnowledgeInvariant'
  <1>1. UNCHANGED <<rev, outbox, lapsed, tx>> /\ receipts' \subseteq DOMAIN outbox
    BY DEF IndexRun, Unreceipted, Landed, KnowledgeInvariant, KnowledgeTypeOK
  <1>2. KnowledgeTypeOK'
    BY <1>1 DEF KnowledgeInvariant, KnowledgeTypeOK
  <1> QED
    BY <1>1, <1>2 DEF KnowledgeInvariant, InOrder, Refers, Kept, EventsRefer, RowsLocked, ChainsInOrder, Live

(* Every step of the store preserves its invariant.                        *)
LEMMA KnowledgeStepSound ==
    ASSUME KnowledgeInvariant, KNext
    PROVE  KnowledgeInvariant'
  <1>1. CASE \E t \in Turns : AskDeus(t)
    BY <1>1, AskDeusSound
  <1>2. CASE \E b \in Backfills : StartBackfill(b)
    BY <1>2, StartBackfillSound
  <1>3. CASE \E c \in Clients : Create(c) \/ Revise(c) \/ Revoke(c)
    BY <1>3, ClientSound
  <1>4. ASSUME NEW w \in Writers, Work(w) \/ Break(w) PROVE KnowledgeInvariant'
    <2>1. CASE Take(w)
      BY <2>1, TakeSound
    <2>2. CASE Scan(w)
      BY <2>2, ScanSound
    <2>3. CASE LockRow(w)
      BY <2>3, LockRowSound
    <2>4. CASE Bump(w)
      BY <2>4, BumpSound
    <2>5. CASE DeadlockBroken(w) \/ Break(w)
      <3>1. Rollback(w) /\ lapsed' = lapsed /\ receipts' = receipts
        BY <2>5 DEF DeadlockBroken, Break
      <3> QED
        BY <3>1, RollbackSound
    <2> QED
      BY <1>4, <2>1, <2>2, <2>3, <2>4, <2>5 DEF Work
  <1>5. CASE \E n \in RevIds : Lapse(n)
    BY <1>5, LapseSound
  <1>6. CASE IndexRun
    BY <1>6, IndexRunSound
  <1> QED
    BY <1>1, <1>2, <1>3, <1>4, <1>5, <1>6 DEF KNext

(* What the invariant means: a message is imported once.                   *)
LEMMA ImportedOnce == KnowledgeInvariant => MessageImportedOnce
  <1> SUFFICES ASSUME KnowledgeInvariant, NEW m \in Messages
               PROVE  Cardinality({n \in Imported(Kept, m) : rev[n].ordinal = 1}) <= 1
    BY DEF MessageImportedOnce
  <1> DEFINE S == {n \in Imported(Kept, m) : rev[n].ordinal = 1}
  <1>1. m # NoMessage /\ Kept \subseteq Live
    BY KnowledgeAssumption, RowForms DEF KnowledgeInvariant
  <1>2. \A n, o \in S : n = o
    BY <1>1 DEF Imported, KnowledgeInvariant, ChainsInOrder
  <1> HIDE DEF S
  <1>3. CASE S = {}
    BY <1>3, FS_EmptySet DEF S
  <1>4. CASE S # {}
    <2>1. PICK n : S = {n}
      BY <1>2, <1>4
    <2>2. Cardinality(S) = 1
      BY <2>1, FS_Singleton
    <2> QED
      BY <2>2 DEF S
  <1> QED
    BY <1>3, <1>4

(* Nothing follows a tombstone but tombstones.                             *)
LEMMA TombstonesLast == KnowledgeInvariant => TombstoneIsLast
  <1> SUFFICES ASSUME KnowledgeInvariant PROVE TombstoneIsLast
    OBVIOUS
  <1>1. Kept \subseteq Live
    BY RowForms DEF KnowledgeInvariant
  <1> QED
    BY <1>1 DEF TombstoneIsLast, KnowledgeInvariant, ChainsInOrder

-----------------------------------------------------------------------------
(* What is committed stays.                                                *)

KeptStays == \A n \in Kept : n \in Kept' /\ rev'[n] = rev[n]

LEMMA EndsKeep ==
    ASSUME KnowledgeTypeOK, NEW w \in Writers, rev' \in {rev, Committed(rev, w), Voided(rev, w)}
    PROVE  KeptStays
  <1> DEFINE F == RevRows \cup {VoidRow}
  <1>1. rev \in Seq(F) /\ VoidRow \in F /\ MayCommit(F, w)
    BY RowsStayTyped DEF KnowledgeTypeOK
  <1> HIDE DEF F
  <1>2. /\ Committed(rev, w) \in Seq(F) /\ Len(Committed(rev, w)) = Len(rev)
        /\ \A n \in DOMAIN rev : Committed(rev, w)[n] =
              IF rev[n].held = w THEN [rev[n] EXCEPT !.held = "kept"] ELSE rev[n]
    BY <1>1, CommittedRows
  <1>3. /\ Voided(rev, w) \in Seq(F) /\ Len(Voided(rev, w)) = Len(rev)
        /\ \A n \in DOMAIN rev : Voided(rev, w)[n] = IF rev[n].held = w THEN VoidRow ELSE rev[n]
    BY <1>1, VoidedRows
  <1>4. DOMAIN rev' = DOMAIN rev
    BY <1>1, <1>2, <1>3
  <1>5. ASSUME NEW n \in Kept PROVE n \in Kept' /\ rev'[n] = rev[n]
    <2>1. n \in DOMAIN rev /\ rev[n].held = "kept" /\ rev[n].held # w
      BY KnowledgeAssumption DEF Kept
    <2>2. rev'[n] = rev[n]
      BY <1>2, <1>3, <2>1
    <2> QED
      BY <1>4, <2>1, <2>2 DEF Kept
  <1> QED
    BY <1>5 DEF KeptStays

LEMMA InsertKeeps ==
    ASSUME KnowledgeTypeOK, NEW row, rev' = Append(rev, row)
    PROVE  KeptStays
  <1>1. \A n \in DOMAIN rev : n \in DOMAIN rev' /\ rev'[n] = rev[n]
    BY DEF KnowledgeTypeOK
  <1> QED
    BY <1>1 DEF KeptStays, Kept

(* No step of the store changes a committed revision.                      *)
LEMMA StepKeeps ==
    ASSUME KnowledgeTypeOK, KNext
    PROVE  KeptStays
  <1>1. ASSUME NEW w \in Writers, NEW t, NEW events, Proceed(w, t, rev, events) PROVE KeptStays
    <2>1. rev' \in {rev, Committed(rev, w), Voided(rev, w)}
      BY <1>1 DEF Proceed
    <2> QED
      BY <2>1, EndsKeep
  <1>2. ASSUME NEW w \in Writers, Rollback(w) PROVE KeptStays
    <2>1. rev' \in {rev, Committed(rev, w), Voided(rev, w)}
      BY <1>2 DEF Rollback
    <2> QED
      BY <2>1, EndsKeep
  <1>3. ASSUME NEW w \in Writers, NEW t, Conflict(w, t) PROVE KeptStays
    BY <1>1, <1>2, <1>3 DEF Conflict
  <1>4. ASSUME NEW w, NEW t, NEW call, NEW item, NEW ordinal, NEW life, Insert(w, t, call, item, ordinal, life)
        PROVE  KeptStays
    BY <1>4, InsertKeeps DEF Insert
  <1>5. ASSUME rev' = rev PROVE KeptStays
    BY <1>5 DEF KeptStays, Kept
  <1>6. ASSUME NEW w \in Writers, Work(w) \/ Break(w) PROVE KeptStays
    <2>1. CASE Take(w)
      BY <1>1, <1>3, <1>4, <1>5, <2>1 DEF Take
    <2>2. CASE Scan(w)
      BY <1>1, <1>5, <2>2 DEF Scan
    <2>3. CASE LockRow(w)
      BY <1>3, <1>4, <2>3 DEF LockRow
    <2>4. CASE Bump(w)
      BY <1>1, <2>4 DEF Bump
    <2>5. CASE DeadlockBroken(w) \/ Break(w)
      BY <1>2, <2>5 DEF DeadlockBroken, Break
    <2> QED
      BY <1>6, <2>1, <2>2, <2>3, <2>4, <2>5 DEF Work
  <1>7. CASE ~ \E w \in Writers : Work(w) \/ Break(w)
    <2>1. rev' = rev
      BY <1>7 DEF KNext, AskDeus, StartBackfill, Create, Revise, Revoke, Begin, store, Lapse, IndexRun
    <2> QED
      BY <1>5, <2>1
  <1> QED
    BY <1>6, <1>7

-----------------------------------------------------------------------------
(* The folder.                                                             *)

(* The invariant of the folder alone.                                      *)
FolderInvariant == VaultTypeOK /\ ExporterInStep /\ OwnFilesManaged

LEMMA Bounds ==
    /\ MaxRevisions \in Nat /\ NoFile = 0 /\ Human = MaxRevisions + 1 /\ Human \notin 0..MaxRevisions
    /\ RevIds \subseteq 0..MaxRevisions /\ NoFile \notin RevIds /\ Human \notin RevIds
    /\ 0..MaxRevisions \subseteq 0..Human /\ Human \in 0..Human /\ NoFile \in 0..MaxRevisions
    /\ \A f \in 0..Human : f = NoFile \/ f = Human \/ f \in RevIds
  BY KnowledgeAssumption DEF NoFile, Human, RevIds

LEMMA FolderInitiallySound ==
    ASSUME VInit
    PROVE  FolderInvariant
  <1>1. disk = [i \in RevIds |-> NoFile] /\ manifest = [i \in RevIds |-> NoRow]
        /\ quarantine = [i \in RevIds |-> 0] /\ ex = Resting
    BY DEF VInit
  <1>2. NoRow \in [on : BOOLEAN, old : 0..MaxRevisions, new : 0..MaxRevisions]
    BY Bounds DEF NoRow
  <1>3. Resting \in Exporters /\ Resting.pc = "rest" /\ Resting.rows = {} /\ Resting.notes = {}
    BY Bounds DEF Resting, Exporters
  <1>4. VaultTypeOK
    BY <1>1, <1>2, <1>3, Bounds DEF VaultTypeOK
  <1>5. ExporterInStep
    BY <1>1, <1>3 DEF ExporterInStep
  <1>6. OwnFilesManaged
    BY <1>1, Bounds DEF OwnFilesManaged
  <1> QED
    BY <1>4, <1>5, <1>6 DEF FolderInvariant

(* The note of an item that has one.                                       *)
LEMMA NoteFound ==
    ASSUME FolderInvariant, NEW i, HasNote(i)
    PROVE  NoteOf(i) \in ex.notes /\ rev[NoteOf(i)].item = i
  BY DEF HasNote, NoteOf

(* The store goes on; the folder's notes stay what they were.              *)
LEMMA FolderUnmoved ==
    ASSUME KnowledgeInvariant, FolderInvariant, KeptStays, UNCHANGED <<disk, manifest, quarantine, ex>>
    PROVE  FolderInvariant'
  <1>1. VaultTypeOK' /\ OwnFilesManaged'
    BY DEF FolderInvariant, VaultTypeOK, OwnFilesManaged, Managed
  <1>2. ex.rows \subseteq Kept /\ ex.notes \subseteq Kept
    BY DEF FolderInvariant, ExporterInStep
  <1>3. /\ ex'.rows \cup ex'.notes \subseteq Kept'
        /\ \A n \in ex.rows \cup ex.notes : rev'[n].item = rev[n].item
    BY <1>2 DEF KeptStays
  <1>4. \A i : HasNote(i)' = HasNote(i)
    BY <1>3 DEF HasNote
  <1>5. ASSUME NEW i, HasNote(i) PROVE NoteOf(i)' = NoteOf(i)
    <2>1. /\ \E n \in ex.notes : rev[n].item = i
          /\ \A n, o \in ex.notes : rev[n].item = rev[o].item => n = o
      BY <1>5 DEF HasNote, FolderInvariant, ExporterInStep
    <2>2. PICK n \in ex.notes : rev[n].item = i
      BY <2>1
    <2>3. NoteOf(i) = n
      BY <2>1, <2>2 DEF NoteOf
    <2>4. NoteOf(i)' = n
      BY <1>3, <2>1, <2>2 DEF NoteOf
    <2> QED
      BY <2>3, <2>4
  <1>6. ExporterInStep'
    BY <1>3, <1>4, <1>5 DEF FolderInvariant, ExporterInStep
  <1> QED
    BY <1>1, <1>6 DEF FolderInvariant

(* The exporter's record after one of its steps.                           *)
LEMMA ExporterForms ==
    ASSUME FolderInvariant
    PROVE  /\ ex \in Exporters /\ ex.rows \subseteq RevIds /\ ex.notes \subseteq RevIds /\ ex.left \subseteq RevIds
           /\ disk \in [RevIds -> 0..Human] /\ quarantine \in [RevIds -> Nat]
           /\ manifest \in [RevIds -> [on : BOOLEAN, old : 0..MaxRevisions, new : 0..MaxRevisions]]
  BY DEF FolderInvariant, VaultTypeOK, Exporters

(* The Creator edits or deletes a file.                                    *)
LEMMA EditsSound ==
    ASSUME FolderInvariant, NEW i \in RevIds, NEW content \in {NoFile, Human}, Edits(i, content)
    PROVE  FolderInvariant'
  <1>1. /\ disk' = [disk EXCEPT ![i] = content] /\ UNCHANGED <<kvars, manifest, quarantine, ex>>
    BY DEF Edits
  <1>2. /\ disk' \in [RevIds -> 0..Human] /\ disk'[i] = content
        /\ \A k \in RevIds : k # i => disk'[k] = disk[k]
    BY <1>1, ExporterForms, Bounds
  <1>3. VaultTypeOK'
    BY <1>1, <1>2 DEF FolderInvariant, VaultTypeOK
  <1>4. content \notin RevIds
    BY Bounds
  <1>5. OwnFilesManaged'
    BY <1>1, <1>2, <1>4 DEF FolderInvariant, OwnFilesManaged, Managed
  <1>6. ex.pc = "forget" => ex.at \in RevIds /\ disk'[ex.at] \notin RevIds
    BY <1>2, <1>4 DEF FolderInvariant, ExporterInStep
  <1>7. ExporterInStep'
    BY <1>1, <1>6 DEF FolderInvariant, ExporterInStep, HasNote, NoteOf, Kept, kvars
  <1> QED
    BY <1>3, <1>5, <1>7 DEF FolderInvariant

(* The exporter selects and judges the current revisions.                  *)
LEMMA SelectSound ==
    ASSUME KnowledgeInvariant, FolderInvariant, SelectRows
    PROVE  FolderInvariant'
  <1> DEFINE R == {Current(Kept, i) : i \in Items(Kept)}
  <1>1. /\ ex' = [ex EXCEPT !.pc = "judge", !.rows = R]
        /\ UNCHANGED <<kvars, disk, manifest, quarantine>>
    BY DEF SelectRows
  <1>2. \A i \in Items(Kept) : Current(Kept, i) \in Kept /\ rev[Current(Kept, i)].item = i
    <2> SUFFICES ASSUME NEW i \in Items(Kept)
                 PROVE  Current(Kept, i) \in Kept /\ rev[Current(Kept, i)].item = i
      OBVIOUS
    <2>1. KnowledgeTypeOK /\ Kept \subseteq Live /\ Chain(Kept, i) # {}
      BY RowForms DEF KnowledgeInvariant, Items, Chain
    <2>2. Current(Kept, i) \in Chain(Kept, i)
      BY <2>1, CurrentExists
    <2> QED
      BY <2>2 DEF Chain
  <1>3. R \subseteq Kept /\ R \subseteq RevIds /\ \A n, o \in R : rev[n].item = rev[o].item => n = o
    BY <1>2, RowForms DEF KnowledgeInvariant
  <1> HIDE DEF R
  <1>4. /\ ex' \in Exporters /\ ex'.pc = "judge" /\ ex'.rows = R /\ ex'.notes = ex.notes
    BY <1>1, <1>3, ExporterForms DEF Exporters
  <1>5. VaultTypeOK' /\ OwnFilesManaged'
    BY <1>1, <1>4 DEF FolderInvariant, VaultTypeOK, OwnFilesManaged, Managed
  <1>6. Kept' = Kept /\ rev' = rev
    BY <1>1 DEF kvars, Kept
  <1>7. ExporterInStep'
    BY <1>3, <1>4, <1>6 DEF FolderInvariant, ExporterInStep
  <1> QED
    BY <1>5, <1>7 DEF FolderInvariant

LEMMA JudgeSound ==
    ASSUME KnowledgeInvariant, FolderInvariant, JudgeRows
    PROVE  FolderInvariant'
  <1> DEFINE N == ex.rows \cap Eligible(Kept)
  <1>1. /\ ex' = [ex EXCEPT !.pc = "next", !.rows = {}, !.notes = N, !.left = ToDo(N)]
        /\ UNCHANGED <<kvars, disk, manifest, quarantine>>
    BY DEF JudgeRows
  <1>2. N \subseteq ex.rows /\ N \subseteq Kept
    BY DEF FolderInvariant, ExporterInStep
  <1>3. /\ N \subseteq RevIds /\ ToDo(N) \subseteq RevIds
        /\ \A n, o \in N : rev[n].item = rev[o].item => n = o
    <2>1. \A n \in Kept : n \in RevIds /\ rev[n].item \in RevIds
      BY RowForms, RowColumns DEF KnowledgeInvariant
    <2>2. \A n, o \in N : rev[n].item = rev[o].item => n = o
      BY <1>2 DEF FolderInvariant, ExporterInStep
    <2> HIDE DEF N
    <2>3. ToDo(N) \subseteq RevIds
      BY <1>2, <2>1 DEF ToDo, Listed
    <2> QED
      BY <1>2, <2>1, <2>2, <2>3
  <1> HIDE DEF N
  <1>4. /\ ex' \in Exporters /\ ex'.pc = "next" /\ ex'.rows = {} /\ ex'.notes = N
    BY <1>1, <1>3, ExporterForms DEF Exporters
  <1>5. VaultTypeOK' /\ OwnFilesManaged'
    BY <1>1, <1>4 DEF FolderInvariant, VaultTypeOK, OwnFilesManaged, Managed
  <1>6. Kept' = Kept /\ rev' = rev
    BY <1>1 DEF kvars, Kept
  <1>7. ExporterInStep'
    BY <1>2, <1>3, <1>4, <1>6 DEF ExporterInStep
  <1> QED
    BY <1>5, <1>7 DEF FolderInvariant

(* The exporter hashes a file and decides what to do with it.              *)
LEMMA LookSound ==
    ASSUME KnowledgeInvariant, FolderInvariant, NEW i \in RevIds, Look(i)
    PROVE  FolderInvariant'
  <1>0. /\ disk[i] \in 0..Human /\ ex \in Exporters /\ ex.pc = "next"
        /\ manifest[i].old \in 0..MaxRevisions /\ manifest[i].new \in 0..MaxRevisions
    BY ExporterForms DEF Look
  <1>1. UNCHANGED <<kvars, disk, quarantine>> /\ Kept' = Kept /\ rev' = rev
    BY DEF Look, kvars, Kept
  <1>2. Skip(i) \in Exporters /\ Skip(i).pc = "next" /\ Skip(i).rows = ex.rows /\ Skip(i).notes = ex.notes
    BY <1>0 DEF Skip, Exporters
  <1>3. \A pc \in {"replace", "quarantine", "unlink", "forget"} :
           /\ Turn(pc, i) \in Exporters /\ Turn(pc, i).pc = pc /\ Turn(pc, i).at = i
           /\ Turn(pc, i).saw = disk[i] /\ Turn(pc, i).rows = ex.rows /\ Turn(pc, i).notes = ex.notes
    BY <1>0, Bounds DEF Turn, Exporters
  <1>4. Managed(i) => disk[i] \in 0..MaxRevisions /\ disk[i] # Human
    BY <1>0, Bounds DEF Managed
  <1>5. \A n, o \in ex.notes : rev[n].item = rev[o].item => n = o
    BY DEF FolderInvariant, ExporterInStep
  <1>6. ex.rows \cup ex.notes \subseteq Kept /\ \A n, o \in ex.rows : rev[n].item = rev[o].item => n = o
    BY DEF FolderInvariant, ExporterInStep
  <1>7. ASSUME ex'.notes = ex.notes PROVE \A k : HasNote(k)' = HasNote(k) /\ NoteOf(k)' = NoteOf(k)
    BY <1>1, <1>7 DEF HasNote, NoteOf
  <1>8. CASE manifest' = manifest /\ ex' = Skip(i)
    <2>1. VaultTypeOK' /\ OwnFilesManaged'
      BY <1>1, <1>2, <1>8 DEF FolderInvariant, VaultTypeOK, OwnFilesManaged, Managed
    <2>2. ExporterInStep'
      BY <1>1, <1>2, <1>5, <1>6, <1>8 DEF ExporterInStep
    <2> QED
      BY <2>1, <2>2 DEF FolderInvariant
  <1>9. CASE /\ HasNote(i) /\ Managed(i) /\ manifest' = [manifest EXCEPT ![i] = Row(disk[i], NoteOf(i))]
             /\ ex' = IF disk[i] = NoteOf(i) THEN Skip(i) ELSE Turn("replace", i)
    <2>1. PICK m : m = Row(disk[i], NoteOf(i))
      OBVIOUS
    <2>2. NoteOf(i) \in 0..MaxRevisions
      BY <1>9, NoteFound, ExporterForms, Bounds
    <2>3. /\ m \in [on : BOOLEAN, old : 0..MaxRevisions, new : 0..MaxRevisions]
          /\ m.on /\ m.old = disk[i] /\ m.new = NoteOf(i)
      BY <1>4, <1>9, <2>1, <2>2 DEF Row
    <2>4. /\ manifest' \in [RevIds -> [on : BOOLEAN, old : 0..MaxRevisions, new : 0..MaxRevisions]]
          /\ manifest'[i] = m /\ \A k \in RevIds : k # i => manifest'[k] = manifest[k]
      BY <1>9, <2>1, <2>3, ExporterForms
    <2>5. ex' \in Exporters /\ ex'.rows = ex.rows /\ ex'.notes = ex.notes
      BY <1>2, <1>3, <1>9
    <2>6. VaultTypeOK'
      BY <1>1, <2>4, <2>5 DEF FolderInvariant, VaultTypeOK
    <2>7. OwnFilesManaged'
      BY <1>1, <2>3, <2>4 DEF FolderInvariant, OwnFilesManaged, Managed
    <2>8. CASE ex' = Skip(i)
      <3>1. ExporterInStep'
        BY <1>1, <1>2, <1>5, <1>6, <2>8 DEF ExporterInStep
      <3> QED
        BY <2>6, <2>7, <3>1 DEF FolderInvariant
    <2>9. CASE ex' = Turn("replace", i)
      <3>1. ex'.pc = "replace" /\ ex'.at = i /\ ex'.saw # Human
        BY <1>3, <1>4, <1>9, <2>9
      <3>2. HasNote(i)' /\ NoteOf(i)' = NoteOf(i)
        BY <1>7, <1>9, <2>5
      <3>3. HasNote(ex.at)' /\ manifest'[i].on /\ manifest'[ex'.at].new = NoteOf(ex.at)'
        <4>1. HasNote(ex.at)' /\ NoteOf(ex.at)' = NoteOf(i)'
          BY <3>1, <3>2 DEF HasNote, NoteOf
        <4> QED
          BY <2>3, <2>4, <3>1, <3>2, <4>1
      <3>4. ExporterInStep'
        BY <1>1, <1>5, <1>6, <2>5, <3>1, <3>3 DEF ExporterInStep
      <3> QED
        BY <2>6, <2>7, <3>4 DEF FolderInvariant
    <2> QED
      BY <1>9, <2>8, <2>9
  <1>10. CASE /\ manifest' = manifest
              /\ ex' = Turn(IF ~Managed(i) THEN "quarantine"
                            ELSE IF disk[i] # NoFile THEN "unlink" ELSE "forget", i)
    <2>1. PICK pc \in {"quarantine", "unlink", "forget"} :
             /\ ex' = Turn(pc, i) /\ (pc = "unlink" => Managed(i)) /\ (pc = "forget" => disk[i] = NoFile)
      BY <1>10
    <2>2. /\ ex' \in Exporters /\ ex'.pc = pc /\ ex'.at = i /\ ex'.saw = disk[i]
          /\ ex'.rows = ex.rows /\ ex'.notes = ex.notes
      BY <1>3, <2>1
    <2>3. VaultTypeOK' /\ OwnFilesManaged'
      BY <1>1, <1>10, <2>2 DEF FolderInvariant, VaultTypeOK, OwnFilesManaged, Managed
    <2>4. (pc = "unlink" => ex'.saw # Human) /\ (pc = "forget" => disk'[i] \notin RevIds)
      BY <1>1, <1>4, <2>1, <2>2, Bounds
    <2>5. ExporterInStep'
      BY <1>1, <1>5, <1>6, <2>1, <2>2, <2>4 DEF ExporterInStep
    <2> QED
      BY <2>3, <2>5 DEF FolderInvariant
  <1> QED
    BY <1>8, <1>9, <1>10 DEF Look

(* A file is replaced, moved or deleted, and its row forgotten.            *)
LEMMA ReplaceSound ==
    ASSUME FolderInvariant, Replace
    PROVE  FolderInvariant'
  <1> DEFINE i == ex.at
  <1>1. /\ i \in RevIds /\ HasNote(i) /\ manifest[i].on /\ manifest[i].new = NoteOf(i)
    BY DEF Replace, FolderInvariant, ExporterInStep
  <1>2. /\ disk' = [disk EXCEPT ![i] = NoteOf(i)] /\ ex' = Done /\ UNCHANGED <<kvars, manifest, quarantine>>
    BY DEF Replace
  <1>3. NoteOf(i) \in RevIds
    BY <1>1, NoteFound, ExporterForms
  <1>4. /\ disk' \in [RevIds -> 0..Human] /\ disk'[i] = NoteOf(i)
        /\ \A k \in RevIds : k # i => disk'[k] = disk[k]
    BY <1>1, <1>2, <1>3, ExporterForms, Bounds
  <1>5. ex' \in Exporters /\ ex'.pc = "next" /\ ex'.rows = ex.rows /\ ex'.notes = ex.notes
    BY <1>2, ExporterForms, Bounds DEF Done, Exporters
  <1>6. VaultTypeOK'
    BY <1>2, <1>4, <1>5 DEF FolderInvariant, VaultTypeOK
  <1> HIDE DEF i
  <1>7. OwnFilesManaged'
    BY <1>1, <1>2, <1>4 DEF FolderInvariant, OwnFilesManaged, Managed
  <1>8. ExporterInStep'
    BY <1>2, <1>5 DEF FolderInvariant, ExporterInStep, kvars, Kept
  <1> QED
    BY <1>6, <1>7, <1>8 DEF FolderInvariant

(* A file that goes is nobody's, and the exporter goes on to forget it, or *)
(* begins again.                                                           *)
LEMMA GoneSound ==
    ASSUME FolderInvariant, ex.at \in RevIds, disk' = [disk EXCEPT ![ex.at] = NoFile],
           ex' \in {Resting, [ex EXCEPT !.pc = "forget"]}, quarantine' \in [RevIds -> Nat],
           UNCHANGED <<kvars, manifest>>
    PROVE  FolderInvariant'
  <1>1. /\ disk' \in [RevIds -> 0..Human] /\ disk'[ex.at] = NoFile
        /\ \A k \in RevIds : disk'[k] \in RevIds => disk'[k] = disk[k]
    BY ExporterForms, Bounds
  <1>2. CASE ex' = Resting
    <2>1. ex' \in Exporters /\ ex'.pc = "rest" /\ ex'.rows = {} /\ ex'.notes = {}
      BY <1>2, Bounds DEF Resting, Exporters
    <2>2. VaultTypeOK' /\ ExporterInStep'
      BY <1>1, <2>1 DEF FolderInvariant, VaultTypeOK, ExporterInStep
    <2>3. OwnFilesManaged'
      BY <1>1 DEF FolderInvariant, OwnFilesManaged, Managed
    <2> QED
      BY <2>2, <2>3 DEF FolderInvariant
  <1>3. CASE ex' = [ex EXCEPT !.pc = "forget"]
    <2>1. /\ ex' \in Exporters /\ ex'.pc = "forget" /\ ex'.rows = ex.rows /\ ex'.notes = ex.notes
          /\ ex'.at = ex.at
      BY <1>3, ExporterForms DEF Exporters
    <2>2. VaultTypeOK'
      BY <1>1, <2>1 DEF FolderInvariant, VaultTypeOK
    <2>3. disk'[ex'.at] \notin RevIds
      BY <1>1, <2>1, Bounds
    <2>4. ExporterInStep'
      BY <2>1, <2>3 DEF FolderInvariant, ExporterInStep, kvars, Kept
    <2>5. OwnFilesManaged'
      BY <1>1 DEF FolderInvariant, OwnFilesManaged, Managed
    <2> QED
      BY <2>2, <2>4, <2>5 DEF FolderInvariant
  <1> QED
    BY <1>2, <1>3

LEMMA QuarantineSound ==
    ASSUME FolderInvariant, Quarantine \/ Unlink
    PROVE  FolderInvariant'
  <1>1. ex.at \in RevIds /\ disk \in [RevIds -> 0..Human] /\ quarantine \in [RevIds -> Nat]
    BY ExporterForms DEF FolderInvariant, ExporterInStep, Quarantine, Unlink
  <1>2. disk' = [disk EXCEPT ![ex.at] = NoFile]
    BY <1>1 DEF Quarantine, Unlink
  <1>3. quarantine' \in [RevIds -> Nat] /\ UNCHANGED <<kvars, manifest>>
    BY <1>1 DEF Quarantine, Unlink
  <1>4. ex' \in {Resting, [ex EXCEPT !.pc = "forget"]}
    BY DEF Quarantine, Unlink, Vanished
  <1> QED
    BY <1>1, <1>2, <1>3, <1>4, GoneSound

LEMMA ForgetSound ==
    ASSUME FolderInvariant, Forget
    PROVE  FolderInvariant'
  <1> DEFINE i == ex.at
  <1>1. i \in RevIds /\ disk[i] \notin RevIds
    BY DEF Forget, FolderInvariant, ExporterInStep
  <1>2. manifest' = [manifest EXCEPT ![i] = NoRow] /\ ex' = Done /\ UNCHANGED <<kvars, disk, quarantine>>
    BY DEF Forget
  <1>3. NoRow \in [on : BOOLEAN, old : 0..MaxRevisions, new : 0..MaxRevisions]
    BY Bounds DEF NoRow
  <1>4. /\ manifest' \in [RevIds -> [on : BOOLEAN, old : 0..MaxRevisions, new : 0..MaxRevisions]]
        /\ \A k \in RevIds : k # i => manifest'[k] = manifest[k]
    BY <1>1, <1>2, <1>3, ExporterForms
  <1>5. ex' \in Exporters /\ ex'.pc = "next" /\ ex'.rows = ex.rows /\ ex'.notes = ex.notes
    BY <1>2, ExporterForms, Bounds DEF Done, Exporters
  <1>6. VaultTypeOK'
    BY <1>2, <1>4, <1>5 DEF FolderInvariant, VaultTypeOK
  <1> HIDE DEF i
  <1>7. OwnFilesManaged'
    BY <1>1, <1>2, <1>4 DEF FolderInvariant, OwnFilesManaged, Managed
  <1>8. ExporterInStep'
    BY <1>2, <1>5 DEF FolderInvariant, ExporterInStep, kvars, Kept
  <1> QED
    BY <1>6, <1>7, <1>8 DEF FolderInvariant

LEMMA RestSound ==
    ASSUME FolderInvariant, EndExport \/ ExporterDies
    PROVE  FolderInvariant'
  <1>1. ex' = Resting /\ UNCHANGED <<rev, disk, manifest, quarantine>>
    BY DEF EndExport, ExporterDies, kvars
  <1>2. ex' \in Exporters /\ ex'.pc = "rest" /\ ex'.rows = {} /\ ex'.notes = {}
    BY <1>1, Bounds DEF Resting, Exporters
  <1>3. VaultTypeOK' /\ ExporterInStep' /\ OwnFilesManaged'
    BY <1>1, <1>2 DEF FolderInvariant, VaultTypeOK, ExporterInStep, OwnFilesManaged, Managed
  <1> QED
    BY <1>3 DEF FolderInvariant

LEMMA ExporterSound ==
    ASSUME KnowledgeInvariant, FolderInvariant, Export \/ ExporterDies
    PROVE  FolderInvariant' /\ UNCHANGED <<rev, outbox, lapsed, tx, receipts>>
  <1>1. FolderInvariant'
    BY SelectSound, JudgeSound, LookSound, ReplaceSound, QuarantineSound, ForgetSound, RestSound DEF Export
  <1>2. UNCHANGED <<rev, outbox, lapsed, tx, receipts>>
    BY DEF Export, ExporterDies, SelectRows, JudgeRows, Look, Replace, Quarantine, Unlink, Forget,
           EndExport, kvars
  <1> QED
    BY <1>1, <1>2

-----------------------------------------------------------------------------
(* Store and folder together.                                              *)

LEMMA VaultStepSound ==
    ASSUME VaultInvariant, [VNext]_vvars
    PROVE  VaultInvariant'
  <1>1. KnowledgeInvariant /\ FolderInvariant
    BY DEF VaultInvariant, FolderInvariant
  <1>2. CASE KNext /\ UNCHANGED vault
    <2>1. KnowledgeInvariant' /\ KeptStays
      BY <1>1, <1>2, KnowledgeStepSound, StepKeeps DEF KnowledgeInvariant
    <2>2. FolderInvariant'
      BY <1>1, <1>2, <2>1, FolderUnmoved DEF vault
    <2> QED
      BY <2>1, <2>2 DEF VaultInvariant, FolderInvariant
  <1>3. CASE \E i \in RevIds, content \in {NoFile, Human} : Edits(i, content)
    <2>1. FolderInvariant'
      BY <1>1, <1>3, EditsSound
    <2>2. KnowledgeInvariant'
      BY <1>1, <1>3, KnowledgeUnchanged DEF Edits, kvars
    <2> QED
      BY <2>1, <2>2 DEF VaultInvariant, FolderInvariant
  <1>4. CASE Export \/ ExporterDies
    <2>1. FolderInvariant' /\ KnowledgeInvariant'
      BY <1>1, <1>4, ExporterSound, KnowledgeUnchanged
    <2> QED
      BY <2>1 DEF VaultInvariant, FolderInvariant
  <1>5. CASE UNCHANGED vvars
    <2>1. UNCHANGED <<rev, outbox, lapsed, tx, receipts>> /\ UNCHANGED <<disk, manifest, quarantine, ex>>
      BY <1>5 DEF vvars, kvars, vault
    <2>2. KnowledgeInvariant' /\ KeptStays
      BY <1>1, <2>1, KnowledgeUnchanged DEF KeptStays, Kept
    <2>3. FolderInvariant'
      BY <1>1, <2>1, <2>2, FolderUnmoved
    <2> QED
      BY <2>2, <2>3 DEF VaultInvariant, FolderInvariant
  <1> QED
    BY <1>2, <1>3, <1>4, <1>5 DEF VNext

(* Rows, sessions and files keep their types; calls and events refer to    *)
(* what is there; what is not committed is under its session's locks; the  *)
(* chains of the items are in order; and the exporter's manifest names     *)
(* every note on the disk, at each of its steps and wherever it died.      *)
THEOREM VaultInvariantHolds == VSpec => []VaultInvariant
  <1>1. VInit => VaultInvariant
    BY KnowledgeInitiallySound, FolderInitiallySound DEF VInit, VaultInvariant, FolderInvariant
  <1>2. VaultInvariant /\ [VNext]_vvars => VaultInvariant'
    BY VaultStepSound
  <1> QED
    BY <1>1, <1>2, PTL DEF VSpec

(* However its imports overlap, a message gives birth to one item at most. *)
THEOREM ImportedOnceOnly == VSpec => []MessageImportedOnce
  <1>1. VaultInvariant => MessageImportedOnce
    BY ImportedOnce DEF VaultInvariant
  <1> QED
    BY <1>1, VaultInvariantHolds, PTL

(* No revision that waited for a revoked item's row, and no later import,  *)
(* brings the item back.                                                   *)
THEOREM RevocationIsFinal == VSpec => []TombstoneIsLast
  <1>1. VaultInvariant => TombstoneIsLast
    BY TombstonesLast DEF VaultInvariant
  <1> QED
    BY <1>1, VaultInvariantHolds, PTL

(* What is committed is never changed or taken back: revisions are only    *)
(* ever added.                                                             *)
THEOREM CommittedStays == VSpec => [][KeptStays]_vvars
  <1>1. VaultInvariant /\ [VNext]_vvars => KeptStays
    <2> SUFFICES ASSUME VaultInvariant, [VNext]_vvars PROVE KeptStays
      OBVIOUS
    <2>1. CASE KNext
      BY <2>1, StepKeeps DEF VaultInvariant, KnowledgeInvariant
    <2>2. CASE ~KNext
      <3>1. rev' = rev
        <4>1. KnowledgeInvariant /\ FolderInvariant
          BY DEF VaultInvariant, FolderInvariant
        <4> QED
          BY <2>2, <4>1, ExporterSound DEF VNext, Edits, vvars, kvars
      <3> QED
        BY <3>1 DEF KeptStays, Kept
    <2> QED
      BY <2>1, <2>2
  <1> QED
    BY <1>1, VaultInvariantHolds, PTL DEF VSpec

(* What the Creator wrote in a note is never overwritten or deleted by the *)
(* exporter but in the moment between its hashing the file and touching it.*)
THEOREM EditsAreKept == VSpec => EditsSurvive
  <1> DEFINE Kind(i) == (disk[i] = Human /\ disk'[i] # Human /\ ex' # ex)
                           => quarantine'[i] = quarantine[i] + 1 \/ (ex.at = i /\ ex.saw # Human)
  <1>1. VaultInvariant /\ [VNext]_vvars => \A i \in RevIds : Kind(i)
    <2> SUFFICES ASSUME VaultInvariant, [VNext]_vvars, NEW i \in RevIds,
                        disk[i] = Human, disk'[i] # Human, ex' # ex
                 PROVE  quarantine'[i] = quarantine[i] + 1 \/ (ex.at = i /\ ex.saw # Human)
      OBVIOUS
    <2>1. Export \/ ExporterDies
      BY DEF VNext, vault, vvars, Edits
    <2>2. /\ disk \in [RevIds -> 0..Human] /\ quarantine \in [RevIds -> Nat] /\ Human # NoFile
          /\ ExporterInStep
      BY Bounds DEF VaultInvariant, VaultTypeOK
    <2>3. disk' # disk
      OBVIOUS
    <2>4. Replace \/ Quarantine \/ Unlink
      BY <2>1, <2>3 DEF Export, ExporterDies, SelectRows, JudgeRows, Look, Forget, EndExport
    <2>5. ex.at = i
      BY <2>2, <2>4 DEF Replace, Quarantine, Unlink
    <2>6. CASE Replace \/ Unlink
      BY <2>2, <2>5, <2>6 DEF Replace, Unlink, ExporterInStep
    <2>7. CASE Quarantine
      BY <2>2, <2>5, <2>7 DEF Quarantine
    <2> QED
      BY <2>4, <2>6, <2>7
  <1> QED
    BY <1>1, VaultInvariantHolds, PTL DEF VSpec, EditsSurvive

-----------------------------------------------------------------------------
(* The worker's rules: an episode is never the absence of one.             *)
LEMMA NoneIsNoEpisode == None \notin Episodes
  <1> SUFFICES ASSUME NEW e \in Episodes PROVE e # None
    OBVIOUS
  <1>1. PICK r \in Resources, n \in 1 .. Horizon : e = <<r, n>>
    BY DEF Episodes
  <1>2. Len(e) = 2
    BY <1>1
  <1>3. Len(None) # 2
    BY DEF None
  <1> QED
    BY <1>2, <1>3, Zenon

(* What an answer makes of a resource's row. *)
LEMMA ObservedRow ==
    ASSUME NEW row \in RuleRows, row.open => row.episode \in Episodes,
           NEW status \in Statuses, NEW e \in Episodes, NEW seen, seen = Observed(row, status, e)
    PROVE  /\ seen.row \in RuleRows
           /\ seen.row.open => seen.row.episode \in Episodes
           /\ seen.row.episode \in {row.episode, e, None}
           /\ \/ seen.event = NoEvent
              \/ seen.event = [state |-> "open", episode |-> e]
              \/ row.open /\ seen.event = [state |-> "recovered", episode |-> row.episode]
  <1> DEFINE now == IF status = "unknown" THEN row ELSE Counted(row, status)
  <1>1. now \in RuleRows /\ now.open = row.open /\ now.episode = row.episode
    <2>1. \A n \in 0 .. OpenAfter : Capped(n + 1, OpenAfter) \in 0 .. OpenAfter
      BY DEF Capped, OpenAfter
    <2>2. \A n \in 0 .. RecoverAfter : Capped(n + 1, RecoverAfter) \in 0 .. RecoverAfter
      BY DEF Capped, RecoverAfter
    <2>3. 0 \in 0 .. OpenAfter /\ 0 \in 0 .. RecoverAfter
      BY DEF OpenAfter, RecoverAfter
    <2> QED
      BY <2>1, <2>2, <2>3 DEF Counted, RuleRows
  <1> HIDE DEF now
  <1>2. CASE status # "unknown" /\ Opens(now)
    <2>1. ~Recovers(now)
      BY <1>2 DEF Opens, Recovers
    <2>2. seen = [row |-> [now EXCEPT !.open = TRUE, !.episode = e],
                  event |-> [state |-> "open", episode |-> e]]
      BY <1>2, <2>1 DEF Observed, now
    <2> DEFINE half == [now EXCEPT !.open = TRUE]
    <2>3. half \in RuleRows
      BY <1>1 DEF RuleRows
    <2> HIDE DEF half
    <2>4. [half EXCEPT !.episode = e] \in RuleRows /\ [half EXCEPT !.episode = e].episode = e
      BY <2>3 DEF RuleRows
    <2>5. /\ seen.row = [half EXCEPT !.episode = e]
          /\ seen.event = [state |-> "open", episode |-> e]
      BY <2>2 DEF half
    <2> QED
      BY <2>4, <2>5
  <1>3. CASE status # "unknown" /\ Recovers(now)
    <2>1. ~Opens(now)
      BY <1>3 DEF Opens, Recovers
    <2>2. seen = [row |-> [now EXCEPT !.open = FALSE, !.episode = None],
                  event |-> [state |-> "recovered", episode |-> now.episode]]
      BY <1>3, <2>1 DEF Observed, now
    <2> DEFINE half == [now EXCEPT !.open = FALSE]
    <2>3. half \in RuleRows /\ half.open = FALSE
      BY <1>1 DEF RuleRows
    <2> HIDE DEF half
    <2>4. /\ [half EXCEPT !.episode = None] \in RuleRows
          /\ [half EXCEPT !.episode = None].episode = None
          /\ [half EXCEPT !.episode = None].open = FALSE
      BY <2>3 DEF RuleRows
    <2>5. /\ seen.row = [half EXCEPT !.episode = None]
          /\ seen.event = [state |-> "recovered", episode |-> now.episode]
      BY <2>2 DEF half
    <2> QED
      BY <1>1, <1>3, <2>4, <2>5 DEF Recovers
  <1>4. CASE status = "unknown" \/ ~(Opens(now) \/ Recovers(now))
    <2>1. seen = [row |-> now, event |-> NoEvent]
      BY <1>4 DEF Observed, now
    <2> QED
      BY <1>1, <2>1
  <1> QED
    BY <1>2, <1>3, <1>4

(* Trimming keeps the last ids, and the newest of them.                    *)
LEMMA TrimmedIds ==
    ASSUME NEW ids \in Seq(Nat), NEW id \in Nat
    PROVE  LET kept == Trimmed(Append(ids, id)) IN
           /\ kept \in Seq(Nat) /\ Len(kept) <= EvidenceWindow
           /\ ToSet(kept) \subseteq ToSet(ids) \cup {id} /\ id \in ToSet(kept)
  <1> DEFINE all == Append(ids, id)
  <1> DEFINE w == EvidenceWindow
  <1>1. /\ all \in Seq(Nat) /\ Len(all) = Len(ids) + 1 /\ Len(ids) \in Nat
        /\ \A k \in 1 .. Len(ids) : all[k] = ids[k]
        /\ all[Len(all)] = id
    OBVIOUS
  <1>2. w \in Nat \ {0}
    BY ObserverAssumption DEF ObserverAssumption
  <1> HIDE DEF all, w
  <1>3. ToSet(all) \subseteq ToSet(ids) \cup {id} /\ id \in ToSet(all)
    <2>1. ASSUME NEW k \in 1 .. Len(all) PROVE all[k] \in ToSet(ids) \cup {id}
      <3>1. CASE k = Len(all)
        BY <1>1, <3>1
      <3>2. CASE k # Len(all)
        <4>1. k \in 1 .. Len(ids)
          BY <1>1, <3>2
        <4>2. DOMAIN ids = 1 .. Len(ids)
          OBVIOUS
        <4> QED
          BY <1>1, <4>1, <4>2 DEF ToSet
      <3> QED
        BY <3>1, <3>2
    <2>2. DOMAIN all = 1 .. Len(all) /\ Len(all) \in 1 .. Len(all)
      BY <1>1
    <2> QED
      BY <1>1, <2>1, <2>2 DEF ToSet
  <1>4. CASE Len(all) > w
    <2> DEFINE kept == SubSeq(all, Len(all) - w + 1, Len(all))
    <2>1. /\ kept \in Seq(Nat) /\ Len(kept) = w
          /\ \A k \in 1 .. w : kept[k] = all[Len(all) - w + k]
      <3> DEFINE m == Len(all) - w + 1
      <3> DEFINE l == Len(all)
      <3>1. m \in 1 .. l + 1 /\ l \in m - 1 .. l /\ l - m + 1 = w /\ l \in Nat
        BY <1>1, <1>2, <1>4
      <3>2. \A k \in 1 .. w : m + k - 1 = Len(all) - w + k
        BY <1>1, <1>2, <1>4
      <3> HIDE DEF m
      <3>3. /\ SubSeq(all, m, l) \in Seq(Nat) /\ Len(SubSeq(all, m, l)) = l - m + 1
            /\ \A k \in 1 .. l - m + 1 : SubSeq(all, m, l)[k] = all[m + k - 1]
        <4>1. m \in Int /\ l \in Int /\ m <= l /\ \A i \in m .. l : i \in 1 .. Len(all)
          BY <1>2, <3>1
        <4>2. \A i \in m .. l : all[i] \in Nat
          BY <1>1, <4>1
        <4> HIDE DEF l
        <4> QED
          BY <4>1, <4>2, SubSeqProperties
      <3> QED
        BY <3>1, <3>2, <3>3 DEF m
    <2> HIDE DEF kept
    <2>2. ToSet(kept) \subseteq ToSet(all)
      <3>1. \A k \in 1 .. w : Len(all) - w + k \in 1 .. Len(all)
        BY <1>1, <1>2, <1>4
      <3>2. DOMAIN kept = 1 .. w /\ DOMAIN all = 1 .. Len(all)
        BY <1>1, <2>1
      <3> QED
        BY <2>1, <3>1, <3>2 DEF ToSet
    <2>3. id \in ToSet(kept)
      <3>1. w \in 1 .. w /\ kept[w] = all[Len(all)]
        BY <1>1, <1>2, <1>4, <2>1
      <3>2. DOMAIN kept = 1 .. w
        BY <2>1
      <3> QED
        BY <1>1, <3>1, <3>2 DEF ToSet
    <2>4. Trimmed(all) = kept
      BY <1>4 DEF Trimmed, kept, w
    <2> QED
      BY <1>2, <1>3, <2>1, <2>2, <2>3, <2>4 DEF all, w
  <1>5. CASE ~(Len(all) > w)
    <2>1. Trimmed(all) = all
      BY <1>5 DEF Trimmed, w
    <2> QED
      BY <1>1, <1>2, <1>3, <1>5, <2>1 DEF all, w
  <1> QED
    BY <1>4, <1>5

-----------------------------------------------------------------------------
(* The journal.                                                            *)

(* Entries that are not acknowledged are themselves what is known of them. *)
LEMMA KnownRows ==
    ASSUME ObserverTypeOK
    PROVE  /\ Known \subseteq EntryRows /\ committed \subseteq Known /\ Pending \subseteq Known
           /\ \A x \in EntryRows : ~x.acked => [x EXCEPT !.acked = FALSE] = x
           /\ \A x \in EntryRows : /\ [x EXCEPT !.acked = FALSE] \in EntryRows
                                   /\ [x EXCEPT !.acked = FALSE].id = x.id
  <1>1. \A x \in EntryRows : ~x.acked => [x EXCEPT !.acked = FALSE] = x
    BY DEF EntryRows
  <1>2. \A x \in EntryRows : /\ [x EXCEPT !.acked = FALSE] \in EntryRows
                             /\ [x EXCEPT !.acked = FALSE].id = x.id
    BY DEF EntryRows
  <1>3. journal \subseteq EntryRows /\ committed \subseteq EntryRows
    BY DEF ObserverTypeOK
  <1> QED
    BY <1>1, <1>2, <1>3 DEF Known, Pending

(* The batch starts from the oldest entry, the only one that can be        *)
(* committed and pending.                                                  *)
LEMMA FirstPending ==
    ASSUME ObserverTypeOK, JournalInOrder, Pending # {}
    PROVE  /\ First \in Pending /\ First \in EntryRows /\ First \in Known
           /\ \A y \in Pending : First.id <= y.id
           /\ \A y \in Pending \cap committed : y = First
  <1>1. Pending \subseteq EntryRows /\ Pending \subseteq Known /\ committed \subseteq Known
    BY KnownRows DEF Pending, ObserverTypeOK
  <1>2. \A x \in EntryRows : x.id \in Nat
    BY DEF EntryRows
  <1>3. \E x \in Pending : \A y \in Pending : x.id <= y.id
    <2> DEFINE T == {x.id : x \in Pending}
    <2>1. T \in SUBSET Nat /\ T # {}
      BY <1>1, <1>2
    <2>2. PICK t \in T : \A u \in T : t <= u
      BY <2>1, LeastNumber
    <2> QED
      BY <2>2
  <1>4. First \in Pending /\ \A y \in Pending : First.id <= y.id
    BY <1>3 DEF First
  <1>5. ASSUME NEW y \in Pending \cap committed PROVE y = First
    <2>1. y.id <= First.id /\ First.id <= y.id
      BY <1>4, <1>5 DEF JournalInOrder
    <2>2. y.id \in Nat /\ First.id \in Nat
      BY <1>1, <1>2, <1>4
    <2>3. y.id = First.id
      BY <2>1, <2>2
    <2> QED
      BY <1>1, <1>4, <1>5, <2>3 DEF JournalInOrder
  <1> QED
    BY <1>1, <1>4, <1>5

(* What an entry must be to be admitted.                                   *)
Admissible(x) ==
    /\ x \in EntryRows /\ x.id = issued + 1 /\ x.cycle = clock /\ ~x.acked
    /\ x.type = "incident" => InTime(x.state, x.episode, x.cycle)

(* An append keeps the journal within its capacity and in order, and every *)
(* pending entry in it.                                                    *)
LEMMA AdmitKeepsJournal ==
    ASSUME ObserverTypeOK, NEW x, Admissible(x), Admit(x)
    PROVE  /\ journal' \subseteq EntryRows /\ IsFiniteSet(journal') /\ Cardinality(journal') <= Capacity
           /\ issued' \in Nat /\ full' \in BOOLEAN
           /\ journal' \subseteq journal \cup {x}
           /\ Pending \subseteq Pending' /\ Pending' \subseteq Pending \cup {x}
           /\ \/ issued' = issued /\ x \notin journal' \ journal
              \/ issued' = issued + 1
  <1>1. PICK week \in {0, clock} :
          IF Cardinality(Unpruned(week)) >= Capacity
          THEN journal' = Unpruned(week) /\ full' = TRUE /\ UNCHANGED issued
          ELSE journal' = Unpruned(week) \cup {x} /\ full' = FALSE /\ issued' = x.id
    BY DEF Admit
  <1> DEFINE left == Unpruned(week)
  <1>2. /\ left \subseteq journal /\ IsFiniteSet(left) /\ Cardinality(left) \in Nat
        /\ Cardinality(left) <= Cardinality(journal) /\ Cardinality(journal) \in Nat
    <2>1. left \subseteq journal
      BY DEF Unpruned
    <2> QED
      BY <2>1, FS_Subset, FS_CardinalityType DEF ObserverTypeOK
  <1>3. Capacity \in Nat /\ Cardinality(journal) <= Capacity /\ issued \in Nat
    BY ObserverAssumption DEF ObserverAssumption, ObserverTypeOK
  <1>4. Pending \subseteq left
    BY DEF Unpruned, Pending
  <1>5. journal \subseteq EntryRows /\ x \in EntryRows /\ x.id = issued + 1
    BY DEF ObserverTypeOK, Admissible
  <1>6. CASE Cardinality(left) >= Capacity
    <2>1. journal' = left /\ full' = TRUE /\ issued' = issued
      BY <1>1, <1>6
    <2>2. Pending' = {y \in left : ~y.acked}
      BY <2>1 DEF Pending
    <2>3. Cardinality(left) <= Capacity
      BY <1>2, <1>3
    <2> HIDE DEF left
    <2>4. Pending \subseteq Pending' /\ Pending' \subseteq Pending \cup {x}
      BY <1>2, <1>4, <2>2 DEF Pending
    <2> QED
      BY <1>2, <1>3, <1>5, <2>1, <2>3, <2>4
  <1>7. CASE ~(Cardinality(left) >= Capacity)
    <2>1. journal' = left \cup {x} /\ full' = FALSE /\ issued' = issued + 1
      BY <1>1, <1>5, <1>7
    <2>2. Pending' = {y \in left \cup {x} : ~y.acked}
      BY <2>1 DEF Pending
    <2> HIDE DEF left
    <2>3. Pending \subseteq Pending' /\ Pending' \subseteq Pending \cup {x}
      BY <1>2, <1>4, <2>2 DEF Pending
    <2>4. IsFiniteSet(left \cup {x}) /\ Cardinality(left \cup {x}) <= Cardinality(left) + 1
      BY <1>2, FS_AddElement
    <2>5. Cardinality(left \cup {x}) \in Nat
      BY <2>4, FS_CardinalityType
    <2>6. Cardinality(left \cup {x}) <= Capacity
      BY <1>2, <1>3, <1>7, <2>4, <2>5
    <2>7. journal' \subseteq EntryRows /\ journal' \subseteq journal \cup {x}
      <3>1. \A y \in journal' : y \in journal \/ y = x
        BY <1>2, <2>1
      <3> QED
        BY <1>5, <3>1
    <2>8. issued' \in Nat /\ full' \in BOOLEAN /\ issued' = issued + 1
      <3>1. issued' = issued + 1 /\ full' = FALSE
        BY <2>1, Zenon
      <3>2. issued' \in Nat
        BY <1>3, <3>1
      <3>3. full' \in BOOLEAN
        BY <3>1, Zenon
      <3> QED
        BY <3>1, <3>2, <3>3, Zenon
    <2> QED
      BY <2>1, <2>3, <2>4, <2>6, <2>7, <2>8
  <1> QED
    BY <1>6, <1>7

(* An append keeps what the journal and the database say of each other.    *)
LEMMA AdmitKeeps ==
    ASSUME ObserverInvariant, NEW x, Admissible(x), Admit(x),
           at' # "ack", clock' = clock, committed' = committed, incidents' = incidents
    PROVE  /\ EvidenceCountedOnce' /\ JournalInOrder' /\ EvidenceRemembered'
           /\ EntriesInTime' /\ RecoveryRecorded'
  <1>1. /\ ObserverTypeOK /\ EvidenceCountedOnce /\ JournalInOrder /\ EvidenceRemembered
        /\ EntriesInTime /\ RecoveryRecorded
    BY DEF ObserverInvariant
  <1>2. /\ journal' \subseteq EntryRows /\ journal' \subseteq journal \cup {x}
        /\ Pending' \subseteq Pending \cup {x} /\ issued' \in Nat
        /\ \/ issued' = issued /\ x \notin journal' \ journal
           \/ issued' = issued + 1
    BY <1>1, AdmitKeepsJournal
  <1>3. /\ x \in EntryRows /\ x.id = issued + 1 /\ x.cycle = clock /\ ~x.acked
        /\ x.type = "incident" => InTime(x.state, x.episode, x.cycle)
    BY DEF Admissible
  <1>4. issued \in Nat /\ clock \in Nat
    BY <1>1, ObserverAssumption DEF ObserverTypeOK, ObserverAssumption
  <1>5. /\ Known \subseteq EntryRows /\ committed \subseteq Known /\ Pending \subseteq Known
        /\ [x EXCEPT !.acked = FALSE] = x
    BY <1>1, <1>3, KnownRows
  <1>6. \A y \in EntryRows : y.id \in Nat /\ y.cycle \in Nat
    BY DEF EntryRows
  <1>7. /\ \A y \in Known : ~y.acked /\ y.id <= issued /\ y.cycle <= clock
        /\ \A y, z \in Known : (y.id = z.id => y = z) /\ (y.id < z.id => y.cycle <= z.cycle)
        /\ \A y, z \in journal : y.id = z.id => y = z
        /\ \A y \in committed, z \in Pending : y.id <= z.id
    BY <1>1 DEF JournalInOrder
  <1>8. \A a, b, c \in Nat : a <= b => a < b + 1 /\ a <= b + 1 /\ a # b + 1
    OBVIOUS
  <1>9. Known' \subseteq Known \cup {x}
    <2>1. Known' = committed \cup {[y EXCEPT !.acked = FALSE] : y \in journal'}
      BY DEF Known
    <2> QED
      BY <1>2, <1>5, <2>1 DEF Known
  <1>10. issued' = issued => journal' \subseteq journal /\ Known' \subseteq Known
    <2> SUFFICES ASSUME issued' = issued PROVE journal' \subseteq journal /\ Known' \subseteq Known
      OBVIOUS
    <2>1. journal' \subseteq journal
      BY <1>2, <1>4
    <2>2. Known' = committed \cup {[y EXCEPT !.acked = FALSE] : y \in journal'}
      BY DEF Known
    <2> QED
      BY <2>1, <2>2 DEF Known
  <1>11. \A y \in journal : y.id \in Nat /\ y.id <= issued
    <2> SUFFICES ASSUME NEW y \in journal PROVE y.id \in Nat /\ y.id <= issued
      OBVIOUS
    <2>1. [y EXCEPT !.acked = FALSE] \in Known /\ [y EXCEPT !.acked = FALSE].id = y.id
      BY <1>1, KnownRows DEF Known, ObserverTypeOK
    <2> QED
      BY <1>5, <1>6, <1>7, <2>1
  <1>12. JournalInOrder'
    <2>1. \A y \in Known' : ~y.acked /\ y.id <= issued' /\ y.cycle <= clock'
      <3> SUFFICES ASSUME NEW y \in Known' PROVE ~y.acked /\ y.id <= issued' /\ y.cycle <= clock
        OBVIOUS
      <3>1. CASE y \in Known
        BY <1>2, <1>4, <1>5, <1>6, <1>7, <1>8, <3>1
      <3>2. CASE y \notin Known
        <4>1. y = x /\ issued' = issued + 1
          BY <1>2, <1>9, <1>10, <3>2
        <4> QED
          BY <1>3, <1>4, <4>1
      <3> QED
        BY <3>1, <3>2
    <2>2. ASSUME NEW y \in Known', NEW z \in Known'
          PROVE (y.id = z.id => y = z) /\ (y.id < z.id => y.cycle <= z.cycle)
      <3>1. CASE y \in Known /\ z \in Known
        BY <1>7, <3>1
      <3>2. CASE y \in Known /\ z = x
        BY <1>3, <1>4, <1>5, <1>6, <1>7, <1>8, <3>2
      <3>3. CASE y = x /\ z \in Known
        <4>1. z.id \in Nat /\ z.id <= issued
          BY <1>5, <1>6, <1>7, <3>3
        <4> QED
          BY <1>3, <1>4, <3>3, <4>1
      <3>4. CASE y = x /\ z = x
        BY <1>3, <1>4, <3>4
      <3> QED
        BY <1>9, <3>1, <3>2, <3>3, <3>4
    <2>3. ASSUME NEW y \in journal', NEW z \in journal', y.id = z.id PROVE y = z
      <3>1. CASE y \in journal /\ z \in journal
        BY <1>7, <2>3, <3>1
      <3>2. CASE ~(y \in journal /\ z \in journal)
        BY <1>2, <1>3, <1>4, <1>8, <1>11, <2>3, <3>2
      <3> QED
        BY <3>1, <3>2
    <2>4. ASSUME NEW y \in committed, NEW z \in Pending' PROVE y.id <= z.id
      <3>1. CASE z \in Pending
        BY <1>7, <3>1
      <3>2. CASE z = x
        BY <1>3, <1>4, <1>5, <1>6, <1>7, <1>8, <3>2
      <3> QED
        BY <1>2, <3>1, <3>2
    <2> QED
      BY <2>1, <2>2, <2>3, <2>4 DEF JournalInOrder
  <1>13. EvidenceRemembered'
    <2>1. x \notin committed
      <3>1. \A y \in committed : y.id # x.id
        BY <1>3, <1>4, <1>5, <1>6, <1>7, <1>8
      <3> QED
        BY <3>1
    <2>2. Pending' \cap committed \subseteq Pending \cap committed
      BY <1>2, <2>1
    <2> QED
      BY <1>1, <2>2 DEF EvidenceRemembered
  <1>14. EntriesInTime'
    <2>1. \A y \in Known' : y.type = "incident" => InTime(y.state, y.episode, y.cycle)
      BY <1>1, <1>3, <1>9 DEF EntriesInTime
    <2> QED
      BY <2>1 DEF EntriesInTime
  <1> QED
    BY <1>1, <1>12, <1>13, <1>14 DEF EvidenceCountedOnce, RecoveryRecorded

-----------------------------------------------------------------------------
(* Publishing.                                                             *)

(* What an entry makes of an incident's row.                               *)
LEMMA EvidencedRow ==
    ASSUME NEW row \in IncidentRows, Len(row.ids) <= EvidenceWindow, NEW x \in EntryRows,
           x.type = "incident" => x.state \in {"open", "recovered"},
           NEW next, next = Evidenced(row, x)
    PROVE  /\ next \in IncidentRows /\ Len(next.ids) <= EvidenceWindow
           /\ next.count = IF x.id \in ToSet(row.ids) THEN row.count ELSE row.count + 1
           /\ x.id \in ToSet(next.ids) /\ ToSet(next.ids) \subseteq ToSet(row.ids) \cup {x.id}
           /\ next.state = IF x.type = "incident" THEN x.state
                           ELSE IF row.state = "absent" THEN "open" ELSE row.state
  <1> DEFINE seen == x.id \in ToSet(row.ids)
  <1> DEFINE I == IF seen THEN row.ids ELSE Trimmed(Append(row.ids, x.id))
  <1> DEFINE C == IF seen THEN row.count ELSE row.count + 1
  <1> DEFINE S == IF x.type = "incident" THEN x.state
                  ELSE IF row.state = "absent" THEN "open" ELSE row.state
  <1>1. /\ row.state \in {"absent", "open", "recovered"} /\ row.count \in Nat
        /\ row.ids \in Seq(Nat) /\ x.id \in Nat
    BY DEF IncidentRows, EntryRows
  <1>2. next = [row EXCEPT !.ids = I, !.count = C, !.state = S]
    BY DEF Evidenced, IncidentRows
  <1>3. /\ I \in Seq(Nat) /\ Len(I) <= EvidenceWindow
        /\ x.id \in ToSet(I) /\ ToSet(I) \subseteq ToSet(row.ids) \cup {x.id}
    <2>1. CASE seen
      BY <1>1, <2>1
    <2>2. CASE ~seen
      <3>1. I = Trimmed(Append(row.ids, x.id))
        BY <2>2
      <3> HIDE DEF I
      <3> QED
        BY <1>1, <3>1, TrimmedIds
    <2> QED
      BY <2>1, <2>2
  <1>4. C \in Nat
    BY <1>1
  <1>5. S \in {"absent", "open", "recovered"}
    BY <1>1
  <1> DEFINE one == [row EXCEPT !.ids = I]
  <1> DEFINE two == [one EXCEPT !.count = C]
  <1> DEFINE three == [two EXCEPT !.state = S]
  <1>6. next = three
    BY <1>2
  <1> HIDE DEF I, C, S
  <1>7. one \in IncidentRows /\ one.ids = I
    BY <1>3 DEF IncidentRows
  <1> HIDE DEF one
  <1>8. two \in IncidentRows /\ two.ids = I /\ two.count = C
    BY <1>4, <1>7 DEF IncidentRows
  <1> HIDE DEF two
  <1>9. three \in IncidentRows /\ three.ids = I /\ three.count = C /\ three.state = S
    BY <1>5, <1>8 DEF IncidentRows
  <1> HIDE DEF three
  <1>10. C = IF seen THEN row.count ELSE row.count + 1
    BY DEF C
  <1>11. S = IF x.type = "incident" THEN x.state
             ELSE IF row.state = "absent" THEN "open" ELSE row.state
    BY DEF S
  <1> QED
    BY <1>3, <1>6, <1>9, <1>10, <1>11

(* A publication keeps the types of the database's tables.                 *)
LEMMA PublishKeepsTypes ==
    ASSUME ObserverInvariant, Publish
    PROVE  ObserverTypeOK'
  <1>1. ObserverTypeOK /\ JournalInOrder /\ EntriesInTime
    BY DEF ObserverInvariant
  <1>2. PICK x : x = First
    OBVIOUS
  <1>3. x \in EntryRows /\ x \in Known /\ Pending # {}
    BY <1>1, <1>2, FirstPending DEF Publish
  <1>4. x.type = "incident" => x.episode \in Episodes /\ x.state \in {"open", "recovered"}
    BY <1>1, <1>3 DEF EntriesInTime, InTime
  <1>5. /\ x.id \in Nat /\ x.cycle \in Nat /\ x.episode \in Episodes \cup {None} /\ x.resource \in Resources
        /\ x.type \in EntryTypes
    BY <1>3 DEF EntryRows
  <1>6. /\ incidents' = IF x.episode = None THEN incidents
                        ELSE [incidents EXCEPT ![x.episode] = Evidenced(@, x)]
        /\ notes' = IF Writes(x) THEN [notes EXCEPT ![NoteKey(x)] = DiagnosticNote(x)] ELSE notes
        /\ requests' = IF Writes(x) THEN [requests EXCEPT ![x.id] = Target(x)] ELSE requests
        /\ committed' = committed \cup {x} /\ at' = "ack"
        /\ UNCHANGED <<clock, sample, probing, rules, event, journalVars, spentVars>>
    BY <1>2 DEF Publish
  <1>7. NoteKey(x) \in NoteKeys
    BY <1>4, <1>5 DEF NoteKey, NoteKeys, EntryTypes
  <1>8. Previous(x) = None \/ Previous(x) \in NoteRows
    BY <1>1, <1>7 DEF Previous, ObserverTypeOK
  <1>9. DiagnosticNote(x) \in NoteRows
    <2>1. CASE Previous(x) = None
      BY <1>5, <2>1 DEF DiagnosticNote, NoteRows
    <2>2. CASE Previous(x) # None
      <3>1. Previous(x).item \in Nat
        BY <1>8, <2>2 DEF NoteRows
      <3> QED
        BY <1>5, <2>2, <3>1 DEF DiagnosticNote, NoteRows
    <2> QED
      BY <2>1, <2>2
  <1>10. Target(x) \in {<<"new">>, None} \cup (Nat \X Nat)
    <2>1. CASE Previous(x) = None
      BY <2>1 DEF Target
    <2>2. CASE Previous(x) # None
      <3>1. Previous(x).item \in Nat /\ Previous(x).revision \in Nat
        BY <1>8, <2>2 DEF NoteRows
      <3>2. Target(x) = <<Previous(x).item, Previous(x).revision>>
        BY <2>2 DEF Target
      <3> QED
        BY <3>1, <3>2
    <2> QED
      BY <2>1, <2>2
  <1>11. notes' \in [NoteKeys -> NoteRows \cup {None}]
    <2>1. notes \in [NoteKeys -> NoteRows \cup {None}]
      BY <1>1 DEF ObserverTypeOK
    <2> QED
      BY <1>6, <1>9, <2>1
  <1>12. requests' \in [Ids -> {<<"new">>, None} \cup (Nat \X Nat)]
    <2> DEFINE V == {<<"new">>, None} \cup (Nat \X Nat)
    <2>1. requests \in [Ids -> V]
      BY <1>1 DEF ObserverTypeOK
    <2>2. Target(x) \in V
      BY <1>10
    <2> HIDE DEF V
    <2>3. requests' \in [Ids -> V]
      BY <1>6, <2>1, <2>2
    <2> QED
      BY <2>3 DEF V
  <1>13. /\ incidents' \in [Episodes -> IncidentRows]
         /\ \A e \in Episodes : Len(incidents'[e].ids) <= EvidenceWindow
    <2>1. /\ incidents \in [Episodes -> IncidentRows]
          /\ \A e \in Episodes : Len(incidents[e].ids) <= EvidenceWindow
      BY <1>1 DEF ObserverTypeOK
    <2>2. CASE x.episode = None
      BY <1>6, <2>1, <2>2
    <2>3. CASE x.episode # None
      <3>1. x.episode \in Episodes
        BY <1>5, <2>3
      <3>2. PICK next : next = Evidenced(incidents[x.episode], x)
        OBVIOUS
      <3>3. next \in IncidentRows /\ Len(next.ids) <= EvidenceWindow
        BY <1>3, <1>4, <2>1, <3>1, <3>2, EvidencedRow
      <3>4. incidents' = [incidents EXCEPT ![x.episode] = next]
        BY <1>6, <2>3, <3>2
      <3>5. \A e \in Episodes : incidents'[e] = IF e = x.episode THEN next ELSE incidents[e]
        BY <2>1, <3>4
      <3>6. incidents' \in [Episodes -> IncidentRows]
        BY <2>1, <3>3, <3>4
      <3>7. ASSUME NEW e \in Episodes PROVE Len(incidents'[e].ids) <= EvidenceWindow
        BY <2>1, <3>3, <3>5
      <3> QED
        BY <3>6, <3>7
    <2> QED
      BY <2>2, <2>3
  <1>14. committed' \subseteq EntryRows /\ IsFiniteSet(committed')
    BY <1>1, <1>3, <1>6, FS_AddElement DEF ObserverTypeOK
  <1> QED
    BY <1>1, <1>6, <1>11, <1>12, <1>13, <1>14 DEF ObserverTypeOK, journalVars, NoteKeys, Ids

(* An entry's own incident, and no other, takes it for evidence.           *)
LEMMA PublishedEvidence ==
    ASSUME ObserverInvariant, Publish
    PROVE  /\ First \in Pending /\ First \in EntryRows /\ First \in Known
           /\ committed' = committed \cup {First}
           /\ \A e \in Episodes :
                 IF e = First.episode
                 THEN incidents'[e] = Evidenced(incidents[e], First)
                 ELSE incidents'[e] = incidents[e]
           /\ First.type = "incident" => InTime(First.state, First.episode, First.cycle)
           /\ UNCHANGED <<clock, sample, probing, rules, event, journalVars, spentVars>> /\ at' = "ack"
  <1>1. ObserverTypeOK /\ JournalInOrder /\ EntriesInTime
    BY DEF ObserverInvariant
  <1>2. PICK x : x = First
    OBVIOUS
  <1>3. x \in Pending /\ x \in EntryRows /\ x \in Known
    BY <1>1, <1>2, FirstPending DEF Publish
  <1>4. /\ incidents' = IF x.episode = None THEN incidents
                        ELSE [incidents EXCEPT ![x.episode] = Evidenced(@, x)]
        /\ committed' = committed \cup {x} /\ at' = "ack"
        /\ UNCHANGED <<clock, sample, probing, rules, event, journalVars, spentVars>>
    BY <1>2 DEF Publish
  <1>5. x.type = "incident" => InTime(x.state, x.episode, x.cycle)
    BY <1>1, <1>3 DEF EntriesInTime
  <1>6. ASSUME NEW e \in Episodes
        PROVE  IF e = x.episode THEN incidents'[e] = Evidenced(incidents[e], x)
               ELSE incidents'[e] = incidents[e]
    <2>1. incidents \in [Episodes -> IncidentRows]
      BY <1>1 DEF ObserverTypeOK
    <2>2. e = x.episode => x.episode # None
      BY NoneIsNoEpisode
    <2>3. x.episode \in Episodes \cup {None}
      BY <1>3 DEF EntryRows
    <2>4. CASE x.episode = None
      BY <1>4, <2>2, <2>4
    <2>5. CASE x.episode # None
      <3>1. incidents' = [incidents EXCEPT ![x.episode] = Evidenced(incidents[x.episode], x)]
        BY <1>4, <2>5
      <3> QED
        BY <2>1, <2>3, <2>5, <3>1
    <2> QED
      BY <2>4, <2>5
  <1> QED
    BY <1>2, <1>3, <1>4, <1>5, <1>6

(* A publication keeps what is counted, remembered and in order.           *)
LEMMA PublishKeeps ==
    ASSUME ObserverInvariant, Publish
    PROVE  ObserverInvariant'
  <1>1. /\ ObserverTypeOK /\ EvidenceCountedOnce /\ JournalInOrder /\ EvidenceRemembered
        /\ EntriesInTime /\ RulesInTime /\ RecoveryRecorded
    BY DEF ObserverInvariant
  <1>2. PICK x : x = First
    OBVIOUS
  <1>3. /\ x \in Pending /\ x \in EntryRows /\ x \in Known /\ committed' = committed \cup {x}
        /\ \A e \in Episodes : IF e = x.episode THEN incidents'[e] = Evidenced(incidents[e], x)
                               ELSE incidents'[e] = incidents[e]
        /\ x.type = "incident" => InTime(x.state, x.episode, x.cycle)
        /\ UNCHANGED <<clock, sample, probing, rules, event, journalVars, spentVars>> /\ at' = "ack"
    BY <1>2, PublishedEvidence
  <1>4. /\ \A y \in Pending : x.id <= y.id
        /\ \A y \in Pending \cap committed : y = x
    BY <1>1, <1>2, <1>3, FirstPending
  <1>5. /\ committed \subseteq Known /\ Known \subseteq EntryRows /\ Pending \subseteq Known
        /\ committed \subseteq EntryRows /\ IsFiniteSet(committed)
    BY <1>1, KnownRows DEF ObserverTypeOK
  <1>6. \A y, z \in Known : y.id = z.id => y = z
    BY <1>1 DEF JournalInOrder
  <1>7. \A e \in Episodes : incidents[e] \in IncidentRows /\ Len(incidents[e].ids) <= EvidenceWindow
    BY <1>1 DEF ObserverTypeOK
  <1>8. x.type = "incident" => x.state \in {"open", "recovered"}
    BY <1>3 DEF InTime
  <1>9. Pending' = Pending
    BY <1>3 DEF Pending, journalVars
  <1>10. Known' = Known
    <2>1. Known' = committed' \cup {[y EXCEPT !.acked = FALSE] : y \in journal'}
      BY DEF Known
    <2>2. journal' = journal
      BY <1>3 DEF journalVars
    <2>3. Known' = Known \cup {x}
      BY <1>3, <2>1, <2>2 DEF Known
    <2> QED
      BY <1>3, <2>3
  <1>11. ASSUME NEW e \in Episodes, e = x.episode
         PROVE  /\ incidents'[e].count = IF x \in committed THEN incidents[e].count
                                         ELSE incidents[e].count + 1
                /\ x.id \in ToSet(incidents'[e].ids)
                /\ ToSet(incidents'[e].ids) \subseteq ToSet(incidents[e].ids) \cup {x.id}
                /\ incidents'[e].state = "recovered" =>
                      \/ x.type = "incident" /\ x.state = "recovered"
                      \/ incidents[e].state = "recovered"
    <2>1. PICK next : next = Evidenced(incidents[e], x)
      OBVIOUS
    <2>2. /\ next.count = IF x.id \in ToSet(incidents[e].ids) THEN incidents[e].count
                          ELSE incidents[e].count + 1
          /\ x.id \in ToSet(next.ids) /\ ToSet(next.ids) \subseteq ToSet(incidents[e].ids) \cup {x.id}
          /\ next.state = IF x.type = "incident" THEN x.state
                          ELSE IF incidents[e].state = "absent" THEN "open" ELSE incidents[e].state
      <3>1. PICK row : row = incidents[e]
        OBVIOUS
      <3>2. row \in IncidentRows /\ Len(row.ids) <= EvidenceWindow /\ next = Evidenced(row, x)
        BY <1>7, <2>1, <3>1
      <3>3. /\ next.count = IF x.id \in ToSet(row.ids) THEN row.count ELSE row.count + 1
            /\ x.id \in ToSet(next.ids) /\ ToSet(next.ids) \subseteq ToSet(row.ids) \cup {x.id}
            /\ next.state = IF x.type = "incident" THEN x.state
                            ELSE IF row.state = "absent" THEN "open" ELSE row.state
        BY <1>3, <1>8, <3>2, EvidencedRow
      <3> QED
        BY <3>1, <3>3
    <2>3. incidents'[e] = next
      BY <1>3, <1>11, <2>1
    <2>4. x.id \in ToSet(incidents[e].ids) => x \in committed
      BY <1>1, <1>3, <1>5, <1>6 DEF EvidenceRemembered
    <2>5. x \in committed => x.id \in ToSet(incidents[e].ids)
      BY <1>1, <1>3, <1>11 DEF EvidenceRemembered
    <2> QED
      BY <2>2, <2>3, <2>4, <2>5
  <1>12. EvidenceCountedOnce'
    <2> SUFFICES ASSUME NEW e \in Episodes
                 PROVE  incidents'[e].count = Cardinality({y \in committed' : y.episode = e})
      BY DEF EvidenceCountedOnce
    <2> DEFINE own == {y \in committed : y.episode = e}
    <2>1. incidents[e].count = Cardinality(own)
      BY <1>1 DEF EvidenceCountedOnce
    <2>2. CASE e = x.episode
      <3>1. {y \in committed' : y.episode = e} = own \cup {x}
        BY <1>3, <2>2
      <3>2. IsFiniteSet(own)
        BY <1>5, FS_Subset
      <3>3. Cardinality(own \cup {x}) = IF x \in own THEN Cardinality(own) ELSE Cardinality(own) + 1
        BY <3>2, FS_AddElement
      <3>4. x \in own <=> x \in committed
        BY <2>2
      <3> HIDE DEF own
      <3> QED
        BY <1>11, <2>1, <2>2, <3>1, <3>3, <3>4
    <2>3. CASE e # x.episode
      <3>1. {y \in committed' : y.episode = e} = own
        BY <1>3, <2>3
      <3>2. incidents'[e] = incidents[e]
        BY <1>3, <2>3
      <3> QED
        BY <2>1, <3>1, <3>2
    <2> QED
      BY <2>2, <2>3
  <1>13. JournalInOrder'
    <2>1. \A y \in committed', z \in Pending' : y.id <= z.id
      BY <1>1, <1>3, <1>4, <1>9 DEF JournalInOrder
    <2>2. Pending' \cap committed' # {}
      BY <1>3, <1>9
    <2> QED
      BY <1>1, <1>3, <1>10, <2>1, <2>2 DEF JournalInOrder, journalVars
  <1>14. EvidenceRemembered'
    <2> SUFFICES ASSUME NEW e \in Episodes
        PROVE /\ \A id \in ToSet(incidents'[e].ids) : \E y \in committed' : y.id = id /\ y.episode = e
              /\ \A y \in Pending' \cap committed' : y.episode = e => y.id \in ToSet(incidents'[e].ids)
      BY DEF EvidenceRemembered
    <2>1. \A id \in ToSet(incidents[e].ids) : \E y \in committed' : y.id = id /\ y.episode = e
      BY <1>1, <1>3 DEF EvidenceRemembered
    <2>2. \A y \in Pending' \cap committed' : y = x
      BY <1>3, <1>4, <1>9
    <2>3. CASE e = x.episode
      BY <1>3, <1>11, <2>1, <2>2, <2>3
    <2>4. CASE e # x.episode
      BY <1>3, <2>1, <2>2, <2>4
    <2> QED
      BY <2>3, <2>4
  <1>15. EntriesInTime'
    BY <1>1, <1>10 DEF EntriesInTime
  <1>16. RulesInTime'
    <2>1. at' \notin {"incident", "observe"} /\ clock' = clock
          /\ UNCHANGED <<probing, rules, event, saved>>
      BY <1>3 DEF journalVars
    <2>2. \A k \in DOMAIN Probes : NotBefore(k)' = clock
      BY <2>1 DEF NotBefore
    <2>3. at = "publish"
      BY DEF Publish
    <2>4. \A k \in DOMAIN Probes : NotBefore(k) = clock
      BY <2>3 DEF NotBefore
    <2> QED
      BY <1>1, <2>1, <2>2, <2>4 DEF RulesInTime
  <1>17. RecoveryRecorded'
    <2> SUFFICES ASSUME NEW e \in Episodes, incidents'[e].state = "recovered"
        PROVE \E y \in committed' : y.type = "incident" /\ y.state = "recovered" /\ y.episode = e
      BY DEF RecoveryRecorded
    <2>1. CASE incidents[e].state = "recovered"
      BY <1>1, <1>3, <2>1 DEF RecoveryRecorded
    <2>2. CASE incidents[e].state # "recovered"
      BY <1>3, <1>11, <2>2
    <2> QED
      BY <2>1, <2>2
  <1> QED
    BY <1>12, <1>13, <1>14, <1>15, <1>16, <1>17, PublishKeepsTypes DEF ObserverInvariant

(* Acknowledging takes the first entry, which is committed, from the       *)
(* pending ones and nothing from what is known.                            *)
LEMMA AcknowledgeKeeps ==
    ASSUME ObserverInvariant, Acknowledge
    PROVE  ObserverInvariant' /\ First \in committed /\ Pending \subseteq Pending' \cup {First}
  <1>1. /\ ObserverTypeOK /\ EvidenceCountedOnce /\ JournalInOrder /\ EvidenceRemembered
        /\ EntriesInTime /\ RulesInTime /\ RecoveryRecorded /\ at = "ack"
    BY DEF ObserverInvariant, Acknowledge
  <1>2. PICK x : x = First
    OBVIOUS
  <1>3. Pending \cap committed # {} /\ Pending # {}
    BY <1>1 DEF JournalInOrder
  <1>4. x \in Pending /\ x \in EntryRows /\ x \in committed
    BY <1>1, <1>2, <1>3, FirstPending
  <1>5. PICK done : done = [x EXCEPT !.acked = TRUE]
    OBVIOUS
  <1>6. /\ done \in EntryRows /\ done.acked /\ done.id = x.id /\ [done EXCEPT !.acked = FALSE] = x
        /\ [x EXCEPT !.acked = FALSE] = x /\ ~x.acked
    BY <1>4, <1>5 DEF EntryRows, Pending
  <1>7. /\ journal' = (journal \ {x}) \cup {done} /\ at' = "publish"
        /\ UNCHANGED <<clock, sample, probing, rules, event, issued, saved, full, databaseVars, spentVars>>
    BY <1>2, <1>5 DEF Acknowledge
  <1>8. Pending' = Pending \ {x}
    BY <1>6, <1>7 DEF Pending
  <1>9. Known' = Known
    <2>1. Known' = committed \cup {[y EXCEPT !.acked = FALSE] : y \in journal'}
      BY <1>7 DEF Known, databaseVars
    <2> QED
      BY <1>4, <1>6, <1>7, <2>1 DEF Known, Pending
  <1>10. /\ journal' \subseteq EntryRows /\ IsFiniteSet(journal') /\ Cardinality(journal') <= Capacity
    <2>1. IsFiniteSet(journal) /\ Cardinality(journal) <= Capacity /\ Capacity \in Nat /\ x \in journal
      BY <1>1, <1>4, ObserverAssumption DEF ObserverTypeOK, ObserverAssumption, Pending
    <2> DEFINE rest == journal \ {x}
    <2>2. IsFiniteSet(rest) /\ Cardinality(rest) = Cardinality(journal) - 1
      BY <2>1, FS_RemoveElement
    <2> HIDE DEF rest
    <2>3. IsFiniteSet(rest \cup {done}) /\ Cardinality(rest \cup {done}) <= Cardinality(rest) + 1
      <3>1. Cardinality(rest) \in Nat
        BY <2>2, FS_CardinalityType
      <3>2. /\ IsFiniteSet(rest \cup {done})
            /\ Cardinality(rest \cup {done}) =
                  IF done \in rest THEN Cardinality(rest) ELSE Cardinality(rest) + 1
        BY <2>2, FS_AddElement
      <3> QED
        BY <3>1, <3>2
    <2>4. Cardinality(rest \cup {done}) \in Nat /\ Cardinality(rest) \in Nat /\ Cardinality(journal) \in Nat
      BY <2>1, <2>2, <2>3, FS_CardinalityType
    <2>5. journal' = rest \cup {done}
      BY <1>7 DEF rest
    <2>6. Cardinality(journal') <= Capacity
      BY <2>1, <2>2, <2>3, <2>4, <2>5
    <2>7. journal' \subseteq EntryRows
      BY <1>1, <1>6, <1>7 DEF ObserverTypeOK
    <2> QED
      BY <2>3, <2>5, <2>6, <2>7
  <1>11. ObserverTypeOK'
    BY <1>1, <1>7, <1>10 DEF ObserverTypeOK, databaseVars, NoteKeys, Ids
  <1>12. JournalInOrder'
    <2>1. \A y, z \in journal' : y.id = z.id => y = z
      <3>1. \A y, z \in journal : y.id = z.id => y = z
        BY <1>1 DEF JournalInOrder
      <3>2. x \in journal
        BY <1>4 DEF Pending
      <3> QED
        BY <1>6, <1>7, <3>1, <3>2
    <2>2. \A y \in committed, z \in Pending' : y.id <= z.id
      BY <1>1, <1>8 DEF JournalInOrder
    <2> QED
      BY <1>1, <1>7, <1>9, <2>1, <2>2 DEF JournalInOrder, databaseVars
  <1>13. EvidenceRemembered'
    BY <1>1, <1>7, <1>8 DEF EvidenceRemembered, databaseVars
  <1>14. RulesInTime'
    <2>1. \A k \in DOMAIN Probes : NotBefore(k)' = clock
      BY <1>7 DEF NotBefore
    <2>2. \A k \in DOMAIN Probes : NotBefore(k) = clock
      BY <1>1 DEF NotBefore
    <2> QED
      BY <1>1, <1>7, <2>1, <2>2 DEF RulesInTime
  <1>15. EvidenceCountedOnce' /\ EntriesInTime' /\ RecoveryRecorded'
    BY <1>1, <1>7, <1>9 DEF EvidenceCountedOnce, EntriesInTime, RecoveryRecorded, databaseVars
  <1> QED
    BY <1>2, <1>4, <1>8, <1>11, <1>12, <1>13, <1>14, <1>15 DEF ObserverInvariant

-----------------------------------------------------------------------------
(* A cycle of the worker.                                                  *)

(* The probes are the resources, each of them once.                        *)
LEMMA ProbeResources ==
    /\ Len(Probes) \in Nat /\ DOMAIN Probes = 1 .. Len(Probes)
    /\ \A k \in DOMAIN Probes : Probes[k] \in Resources
    /\ \A r \in Resources : \E k \in DOMAIN Probes : Probes[k] = r
    /\ \A m, n \in DOMAIN Probes : Probes[m] = Probes[n] => m = n
  <1>1. Probes \in Seq(ToSet(Probes)) /\ \A m, n \in DOMAIN Probes : Probes[m] = Probes[n] => m = n
    BY ObserverAssumption DEF ObserverAssumption
  <1> QED
    BY <1>1 DEF Resources, ToSet

(* The rules see an answer and its observation is admitted.                *)
LEMMA ObserveKeeps ==
    ASSUME ObserverInvariant, Observe
    PROVE  ObserverInvariant' /\ Pending \subseteq Pending'
  <1>1. /\ ObserverTypeOK /\ EvidenceCountedOnce /\ JournalInOrder /\ EvidenceRemembered
        /\ EntriesInTime /\ RulesInTime /\ RecoveryRecorded
        /\ at = "observe" /\ probing <= Len(Probes)
    BY DEF ObserverInvariant, Observe
  <1>2. /\ clock \in 1 .. Horizon /\ clock \in Nat /\ probing \in DOMAIN Probes /\ probing \in Nat
        /\ issued \in Nat
    BY <1>1, ProbeResources, ObserverAssumption DEF ObserverTypeOK, RulesInTime, ObserverAssumption
  <1>3. PICK r : r = Probes[probing]
    OBVIOUS
  <1>4. PICK e : e = <<r, clock>>
    OBVIOUS
  <1>5. PICK seen : seen = Observed(rules[r], sample[r], e)
    OBVIOUS
  <1>6. PICK episode : episode = IF seen.row.episode # None THEN seen.row.episode ELSE seen.event.episode
    OBVIOUS
  <1>7. PICK x : x = Entry(r, "observation", episode, "none")
    OBVIOUS
  <1>8. /\ rules' = [rules EXCEPT ![r] = seen.row]
        /\ Admit(x)
        /\ IF Admitted(x) /\ seen.event # NoEvent
           THEN at' = "incident" /\ event' = seen.event /\ probing' = probing
           ELSE at' = at /\ event' = NoEvent /\ probing' = probing + 1
        /\ UNCHANGED <<clock, sample, saved, databaseVars, spentVars>>
    BY <1>3, <1>4, <1>5, <1>6, <1>7 DEF Observe
  <1>9. /\ r \in Resources /\ rules[r] \in RuleRows /\ sample[r] \in Statuses
        /\ e \in Episodes /\ e[2] = clock /\ None \notin Episodes
    BY <1>1, <1>2, <1>3, <1>4, ProbeResources, NoneIsNoEpisode DEF ObserverTypeOK, Episodes
  <1>10. /\ rules[r].open => rules[r].episode \in Episodes
         /\ rules[r].episode # None => rules[r].episode[2] <= clock - 1
    BY <1>1, <1>2, <1>3 DEF RulesInTime, NotBefore
  <1>11. /\ seen.row \in RuleRows
         /\ seen.row.open => seen.row.episode \in Episodes
         /\ seen.row.episode \in {rules[r].episode, e, None}
         /\ \/ seen.event = NoEvent
            \/ seen.event = [state |-> "open", episode |-> e]
            \/ rules[r].open /\ seen.event = [state |-> "recovered", episode |-> rules[r].episode]
    <2>1. PICK row : row = rules[r]
      OBVIOUS
    <2>2. row \in RuleRows /\ (row.open => row.episode \in Episodes) /\ seen = Observed(row, sample[r], e)
      BY <1>5, <1>9, <1>10, <2>1
    <2>3. /\ seen.row \in RuleRows
          /\ seen.row.open => seen.row.episode \in Episodes
          /\ seen.row.episode \in {row.episode, e, None}
          /\ \/ seen.event = NoEvent
             \/ seen.event = [state |-> "open", episode |-> e]
             \/ row.open /\ seen.event = [state |-> "recovered", episode |-> row.episode]
      BY <1>9, <2>2, ObservedRow
    <2> QED
      BY <2>1, <2>3
  <1>12. /\ seen.event \in [state : {"none", "open", "recovered"}, episode : Episodes \cup {None}]
         /\ seen.event # NoEvent => InTime(seen.event.state, seen.event.episode, clock)
    <2>1. CASE seen.event = NoEvent
      BY <2>1 DEF NoEvent
    <2>2. CASE seen.event = [state |-> "open", episode |-> e]
      BY <1>9, <2>2 DEF InTime
    <2>3. CASE rules[r].open /\ seen.event = [state |-> "recovered", episode |-> rules[r].episode]
      <3>1. PICK f : f = rules[r].episode
        OBVIOUS
      <3>2. f \in Episodes /\ f[2] <= clock - 1
        BY <1>9, <1>10, <2>3, <3>1
      <3>3. f[2] \in Nat
        BY <3>2 DEF Episodes
      <3>4. clock > f[2]
        BY <1>2, <3>2, <3>3
      <3> QED
        BY <2>3, <3>1, <3>2, <3>4 DEF InTime
    <2> QED
      BY <1>11, <2>1, <2>2, <2>3
  <1>13. Admissible(x)
    <2>1. episode \in Episodes \cup {None}
      BY <1>6, <1>11, <1>12 DEF RuleRows
    <2>2. x = [id |-> issued + 1, resource |-> r, cycle |-> clock, type |-> "observation",
               episode |-> episode, state |-> "none", acked |-> FALSE]
      BY <1>7 DEF Entry
    <2>3. x \in EntryRows
      BY <1>2, <1>9, <2>1, <2>2 DEF EntryRows, EntryTypes
    <2> QED
      BY <2>2, <2>3 DEF Admissible
  <1>14. /\ journal' \subseteq EntryRows /\ IsFiniteSet(journal') /\ Cardinality(journal') <= Capacity
         /\ issued' \in Nat /\ full' \in BOOLEAN /\ Pending \subseteq Pending'
    BY <1>1, <1>8, <1>13, AdmitKeepsJournal
  <1>15. /\ EvidenceCountedOnce' /\ JournalInOrder' /\ EvidenceRemembered'
         /\ EntriesInTime' /\ RecoveryRecorded'
    <2>1. at' # "ack" /\ clock' = clock /\ committed' = committed /\ incidents' = incidents
      BY <1>1, <1>8 DEF databaseVars
    <2> QED
      BY <1>8, <1>13, <2>1, AdmitKeeps
  <1>16. rules' \in [Resources -> RuleRows]
    BY <1>1, <1>8, <1>9, <1>11 DEF ObserverTypeOK
  <1>17. /\ at' \in {"observe", "incident"} /\ probing' \in 1 .. Len(Probes) + 1
         /\ event' \in [state : {"none", "open", "recovered"}, episode : Episodes \cup {None}]
         /\ at' = "incident" => probing' <= Len(Probes) /\ InTime(event'.state, event'.episode, clock)
    <2>1. NoEvent \in [state : {"none", "open", "recovered"}, episode : Episodes \cup {None}]
      BY DEF NoEvent
    <2>2. Len(Probes) \in Nat /\ probing \in 1 .. Len(Probes)
      BY <1>2, ProbeResources
    <2>3. CASE Admitted(x) /\ seen.event # NoEvent
      BY <1>1, <1>8, <1>12, <2>2, <2>3
    <2>4. CASE ~(Admitted(x) /\ seen.event # NoEvent)
      BY <1>1, <1>8, <2>1, <2>2, <2>4
    <2> QED
      BY <2>3, <2>4
  <1>18. ObserverTypeOK'
    BY <1>1, <1>8, <1>14, <1>16, <1>17 DEF ObserverTypeOK, databaseVars, NoteKeys, Ids
  <1>19. RulesInTime'
    <2>1. ASSUME NEW k \in DOMAIN Probes
          PROVE  /\ rules'[Probes[k]].open => rules'[Probes[k]].episode \in Episodes
                 /\ rules'[Probes[k]].episode # None => rules'[Probes[k]].episode[2] <= NotBefore(k)'
      <3>1. CASE k = probing
        <4>1. rules'[Probes[k]] = seen.row
          BY <1>1, <1>3, <1>8, <1>9, <3>1 DEF ObserverTypeOK
        <4>2. NotBefore(k)' = clock
          <5>1. CASE at' = "incident"
            BY <1>2, <1>8, <3>1, <5>1, <1>1 DEF NotBefore
          <5>2. CASE at' # "incident"
            BY <1>2, <1>8, <3>1, <5>2, <1>1 DEF NotBefore
          <5> QED
            BY <5>1, <5>2
        <4>3. PICK f : f = seen.row.episode
          OBVIOUS
        <4>4. f # None => f[2] <= clock
          <5>1. CASE f = rules[r].episode /\ f # None
            <6>1. f \in Episodes
              BY <1>9, <5>1 DEF RuleRows
            <6>2. f[2] \in Nat /\ f[2] <= clock - 1
              BY <1>10, <5>1, <6>1 DEF Episodes
            <6> QED
              BY <1>2, <6>2
          <5>2. CASE f = e
            BY <1>2, <1>9, <5>2
          <5> QED
            BY <1>11, <4>3, <5>1, <5>2
        <4> QED
          BY <1>11, <4>1, <4>2, <4>3, <4>4
      <3>2. CASE k # probing
        <4>1. Probes[k] # r /\ Probes[k] \in Resources
          BY <1>2, <1>3, <3>2, ProbeResources
        <4>2. rules'[Probes[k]] = rules[Probes[k]]
          BY <1>1, <1>8, <4>1 DEF ObserverTypeOK
        <4>3. k \in Nat
          BY ProbeResources
        <4>4. NotBefore(k)' = NotBefore(k)
          <5>1. CASE k > probing
            <6>1. NotBefore(k) = clock - 1
              BY <1>1, <1>2, <4>3, <5>1 DEF NotBefore
            <6>2. NotBefore(k)' = clock - 1
              BY <1>1, <1>2, <1>8, <4>3, <5>1 DEF NotBefore
            <6> QED
              BY <6>1, <6>2
          <5>2. CASE k < probing
            <6>1. NotBefore(k) = clock
              BY <1>1, <1>2, <4>3, <5>2 DEF NotBefore
            <6>2. NotBefore(k)' = clock
              BY <1>1, <1>2, <1>8, <4>3, <5>2 DEF NotBefore
            <6> QED
              BY <6>1, <6>2
          <5> QED
            BY <1>2, <3>2, <4>3, <5>1, <5>2
        <4> QED
          BY <1>1, <4>2, <4>4 DEF RulesInTime
      <3> QED
        BY <3>1, <3>2
    <2>2. /\ clock' = clock /\ clock' > 0 /\ saved' = saved
      BY <1>2, <1>8
    <2> QED
      BY <1>1, <1>17, <2>1, <2>2 DEF RulesInTime
  <1> QED
    BY <1>14, <1>15, <1>18, <1>19 DEF ObserverInvariant

(* The transition of the same answer is admitted.                          *)
LEMMA ReportKeeps ==
    ASSUME ObserverInvariant, Report
    PROVE  ObserverInvariant' /\ Pending \subseteq Pending'
  <1>1. /\ ObserverTypeOK /\ RulesInTime /\ at = "incident"
        /\ probing <= Len(Probes) /\ InTime(event.state, event.episode, clock)
    BY DEF ObserverInvariant, Report, RulesInTime
  <1>2. /\ clock \in 1 .. Horizon /\ probing \in DOMAIN Probes /\ probing \in Nat
        /\ Len(Probes) \in Nat /\ issued \in Nat
    BY <1>1, ProbeResources, ObserverAssumption DEF ObserverTypeOK, RulesInTime, ObserverAssumption
  <1>3. PICK x : x = Entry(Probes[probing], "incident", event.episode, event.state)
    OBVIOUS
  <1>4. /\ Admit(x) /\ at' = "observe" /\ event' = NoEvent /\ probing' = probing + 1
        /\ UNCHANGED <<clock, sample, rules, saved, databaseVars, spentVars>>
    BY <1>3 DEF Report
  <1>5. Admissible(x)
    <2>1. x = [id |-> issued + 1, resource |-> Probes[probing], cycle |-> clock, type |-> "incident",
               episode |-> event.episode, state |-> event.state, acked |-> FALSE]
      BY <1>3 DEF Entry
    <2>2. Probes[probing] \in Resources
      BY <1>2, ProbeResources
    <2>3. event.episode \in Episodes /\ event.state \in {"none", "open", "recovered"}
      BY <1>1 DEF InTime
    <2>4. x \in EntryRows
      BY <1>2, <2>1, <2>2, <2>3 DEF EntryRows, EntryTypes
    <2> QED
      BY <1>1, <2>1, <2>4 DEF Admissible
  <1>6. /\ journal' \subseteq EntryRows /\ IsFiniteSet(journal') /\ Cardinality(journal') <= Capacity
        /\ issued' \in Nat /\ full' \in BOOLEAN /\ Pending \subseteq Pending'
    BY <1>1, <1>4, <1>5, AdmitKeepsJournal
  <1>7. /\ EvidenceCountedOnce' /\ JournalInOrder' /\ EvidenceRemembered'
        /\ EntriesInTime' /\ RecoveryRecorded'
    <2>1. at' # "ack" /\ clock' = clock /\ committed' = committed /\ incidents' = incidents
      BY <1>4 DEF databaseVars
    <2> QED
      BY <1>4, <1>5, <2>1, AdmitKeeps
  <1>8. ObserverTypeOK'
    <2>1. event' \in [state : {"none", "open", "recovered"}, episode : Episodes \cup {None}]
      BY <1>4 DEF NoEvent
    <2>2. probing' \in 1 .. Len(Probes) + 1
      BY <1>1, <1>2, <1>4
    <2> QED
      BY <1>1, <1>4, <1>6, <2>1, <2>2 DEF ObserverTypeOK, databaseVars, NoteKeys, Ids
  <1>9. RulesInTime'
    <2>1. ASSUME NEW k \in DOMAIN Probes PROVE NotBefore(k)' = NotBefore(k)
      <3>1. k \in Nat
        BY ProbeResources
      <3>2. k > probing <=> k >= probing + 1
        BY <1>2, <3>1
      <3>3. NotBefore(k) = IF k > probing THEN clock - 1 ELSE clock
        BY <1>1 DEF NotBefore
      <3>4. NotBefore(k)' = IF k >= probing + 1 THEN clock - 1 ELSE clock
        BY <1>4 DEF NotBefore
      <3> QED
        BY <3>2, <3>3, <3>4
    <2>2. at' # "incident" /\ clock' > 0 /\ UNCHANGED <<clock, rules, saved>>
      BY <1>2, <1>4
    <2> QED
      BY <1>1, <2>1, <2>2 DEF RulesInTime
  <1> QED
    BY <1>6, <1>7, <1>8, <1>9 DEF ObserverInvariant

(* A new cycle: no rule's episode is of it yet.                            *)
LEMMA CollectKeeps ==
    ASSUME ObserverInvariant, Collect
    PROVE  ObserverInvariant'
  <1>1. /\ ObserverTypeOK /\ EvidenceCountedOnce /\ JournalInOrder /\ EvidenceRemembered
        /\ EntriesInTime /\ RulesInTime /\ RecoveryRecorded
    BY DEF ObserverInvariant
  <1>2. /\ at = "idle" /\ clock < Horizon
        /\ clock' = clock + 1 /\ at' = "observe" /\ probing' = 1 /\ sample' \in Answers
        /\ UNCHANGED <<rules, event, journalVars, databaseVars, spentVars>>
    BY DEF Collect
  <1>3. clock \in Nat /\ Horizon \in Nat /\ clock' \in 1 .. Horizon
    BY <1>1, <1>2, ObserverAssumption DEF ObserverTypeOK, ObserverAssumption
  <1>4. Pending' = Pending /\ Known' = Known
    BY <1>2 DEF Pending, Known, journalVars, databaseVars
  <1>5. ObserverTypeOK'
    <2>1. probing' \in 1 .. Len(Probes) + 1 /\ clock' \in 0 .. Horizon
      BY <1>2, <1>3, ProbeResources
    <2>2. sample' \in [Resources -> Statuses]
      BY <1>2 DEF Answers
    <2> QED
      BY <1>1, <1>2, <2>1, <2>2 DEF ObserverTypeOK, journalVars, databaseVars, NoteKeys, Ids
  <1>6. JournalInOrder'
    <2>1. \A x \in Known : x.cycle <= clock'
      <3>1. \A x \in Known : x.cycle \in Nat /\ x.cycle <= clock
        BY <1>1, KnownRows DEF JournalInOrder, EntryRows
      <3> QED
        BY <1>2, <1>3, <3>1
    <2> QED
      BY <1>1, <1>2, <1>4, <2>1 DEF JournalInOrder, journalVars, databaseVars
  <1>7. RulesInTime'
    <2>1. ASSUME NEW k \in DOMAIN Probes PROVE NotBefore(k)' = clock /\ NotBefore(k) = clock
      <3>1. k >= 1
        BY ProbeResources
      <3>2. NotBefore(k)' = clock' - 1
        BY <1>2, <3>1 DEF NotBefore
      <3> QED
        BY <1>2, <1>3, <3>2 DEF NotBefore
    <2>2. ASSUME NEW r \in Resources, saved[r].episode # None PROVE saved[r].episode[2] <= clock'
      <3>1. PICK f : f = saved[r].episode
        OBVIOUS
      <3>2. f \in Episodes /\ f[2] <= clock
        BY <1>1, <2>2, <3>1 DEF RulesInTime, ObserverTypeOK, RuleRows
      <3>3. f[2] \in Nat
        BY <3>2 DEF Episodes
      <3> QED
        BY <1>2, <1>3, <3>1, <3>2, <3>3
    <2>3. at' # "incident" /\ clock' > 0 /\ UNCHANGED <<rules, saved>>
      BY <1>2, <1>3 DEF journalVars
    <2> QED
      BY <1>1, <2>1, <2>2, <2>3 DEF RulesInTime
  <1>8. EvidenceCountedOnce' /\ EvidenceRemembered' /\ EntriesInTime' /\ RecoveryRecorded'
    BY <1>1, <1>2, <1>4
       DEF EvidenceCountedOnce, EvidenceRemembered, EntriesInTime, RecoveryRecorded, databaseVars
  <1> QED
    BY <1>5, <1>6, <1>7, <1>8 DEF ObserverInvariant

(* A step that leaves journal and database alone keeps their invariants.   *)
LEMMA SameTablesKeep ==
    ASSUME ObserverInvariant, at' # "ack", UNCHANGED <<clock, journal, issued, full, databaseVars>>
    PROVE  /\ EvidenceCountedOnce' /\ JournalInOrder' /\ EvidenceRemembered'
           /\ EntriesInTime' /\ RecoveryRecorded' /\ Pending' = Pending
  <1>1. Pending' = Pending /\ Known' = Known
    BY DEF Pending, Known, databaseVars
  <1> QED
    BY <1>1 DEF ObserverInvariant, EvidenceCountedOnce, JournalInOrder, EvidenceRemembered,
                EntriesInTime, RecoveryRecorded, databaseVars

(* How recent an episode may be, at most this cycle.                       *)
LEMMA RuleEpisodes ==
    ASSUME ObserverInvariant, NEW r \in Resources
    PROVE  /\ rules[r].open => rules[r].episode \in Episodes
           /\ rules[r].episode # None => rules[r].episode[2] <= clock
  <1>1. ObserverTypeOK /\ RulesInTime
    BY DEF ObserverInvariant
  <1>2. PICK k \in DOMAIN Probes : Probes[k] = r
    BY ProbeResources
  <1>3. PICK f : f = rules[r].episode
    OBVIOUS
  <1>4. rules[r].open => f \in Episodes
    BY <1>1, <1>2, <1>3 DEF RulesInTime
  <1>5. f # None => f[2] <= clock
    <2> SUFFICES ASSUME f # None PROVE f[2] <= clock
      OBVIOUS
    <2>1. f \in Episodes /\ f[2] <= NotBefore(k)
      BY <1>1, <1>2, <1>3 DEF RulesInTime, ObserverTypeOK, RuleRows
    <2>2. f[2] \in Nat /\ clock \in Nat
      BY <1>1, <2>1, ObserverAssumption DEF Episodes, ObserverTypeOK, ObserverAssumption
    <2>3. NotBefore(k) = clock \/ NotBefore(k) = clock - 1
      BY DEF NotBefore
    <2> QED
      BY <2>1, <2>2, <2>3
  <1> QED
    BY <1>3, <1>4, <1>5

(* The worker's remaining steps, and what the Creator does, leave the      *)
(* journal and the evidence as they are.                                   *)
LEMMA QuietStepsKeep ==
    ASSUME ObserverInvariant,
           SaveRules \/ Retry \/ PublishStops \/ PublishRefused \/ Sleep \/ Restart
    PROVE  ObserverInvariant' /\ Pending' = Pending
  <1>1. ObserverTypeOK /\ RulesInTime
    BY DEF ObserverInvariant
  <1>2. /\ at' \in {"idle", "publish"}
        /\ UNCHANGED <<clock, journal, issued, full, databaseVars>>
        /\ sample' \in [Resources -> Statuses] /\ (probing' = probing \/ probing' = 1)
        /\ event' = event \/ event' = NoEvent
        /\ \/ UNCHANGED <<rules, saved>>
           \/ saved' = rules /\ rules' = rules
           \/ rules' = saved /\ saved' = saved
    BY <1>1 DEF SaveRules, Retry, PublishStops, PublishRefused, Sleep, Restart, journalVars,
                ObserverTypeOK, Statuses
  <1>3. /\ EvidenceCountedOnce' /\ JournalInOrder' /\ EvidenceRemembered'
        /\ EntriesInTime' /\ RecoveryRecorded' /\ Pending' = Pending
    BY <1>2, SameTablesKeep
  <1>4. ObserverTypeOK'
    <2>1. NoEvent \in [state : {"none", "open", "recovered"}, episode : Episodes \cup {None}]
      BY DEF NoEvent
    <2>2. probing' \in 1 .. Len(Probes) + 1
      BY <1>1, <1>2, ProbeResources DEF ObserverTypeOK
    <2>3. rules' \in [Resources -> RuleRows] /\ saved' \in [Resources -> RuleRows]
      BY <1>1, <1>2 DEF ObserverTypeOK
    <2>4. event' \in [state : {"none", "open", "recovered"}, episode : Episodes \cup {None}]
      BY <1>1, <1>2, <2>1 DEF ObserverTypeOK
    <2> QED
      BY <1>1, <1>2, <2>2, <2>3, <2>4 DEF ObserverTypeOK, databaseVars, NoteKeys, Ids
  <1>5. RulesInTime'
    <2>1. \A k \in DOMAIN Probes : NotBefore(k)' = clock
      BY <1>2 DEF NotBefore
    <2>2. \A r \in Resources : /\ rules[r].open => rules[r].episode \in Episodes
                               /\ rules[r].episode # None => rules[r].episode[2] <= clock
      BY RuleEpisodes
    <2>3. \A r \in Resources : /\ saved[r].open => saved[r].episode \in Episodes
                               /\ saved[r].episode # None => saved[r].episode[2] <= clock
      BY <1>1 DEF RulesInTime
    <2>4. \A r \in Resources : /\ rules'[r].open => rules'[r].episode \in Episodes
                               /\ rules'[r].episode # None => rules'[r].episode[2] <= clock
                               /\ saved'[r].open => saved'[r].episode \in Episodes
                               /\ saved'[r].episode # None => saved'[r].episode[2] <= clock
      BY <1>2, <2>2, <2>3
    <2>5. clock' = clock /\ at' \notin {"observe", "incident"}
      BY <1>2
    <2>6. \A k \in DOMAIN Probes : Probes[k] \in Resources
      BY ProbeResources
    <2> QED
      BY <2>1, <2>4, <2>5, <2>6 DEF RulesInTime
  <1> QED
    BY <1>3, <1>4, <1>5 DEF ObserverInvariant

LEMMA RevokeNoteKeeps ==
    ASSUME ObserverInvariant, NEW n \in NoteKeys, RevokeNote(n)
    PROVE  ObserverInvariant' /\ Pending' = Pending
  <1>1. /\ UNCHANGED <<workerVars, journalVars, incidents, requests, committed>>
        /\ notes' = [notes EXCEPT ![n] = None]
    BY DEF RevokeNote
  <1>2. Pending' = Pending /\ Known' = Known
    BY <1>1 DEF Pending, Known, journalVars
  <1>3. ObserverTypeOK'
    BY <1>1 DEF ObserverInvariant, ObserverTypeOK, workerVars, journalVars, NoteKeys, Ids
  <1>4. /\ EvidenceCountedOnce' /\ JournalInOrder' /\ EvidenceRemembered'
        /\ EntriesInTime' /\ RecoveryRecorded'
    BY <1>1, <1>2 DEF ObserverInvariant, EvidenceCountedOnce, JournalInOrder, EvidenceRemembered,
                      EntriesInTime, RecoveryRecorded, workerVars, journalVars
  <1>5. RulesInTime'
    <2>1. \A k \in DOMAIN Probes : NotBefore(k)' = NotBefore(k)
      BY <1>1 DEF NotBefore, workerVars
    <2> QED
      BY <1>1, <2>1 DEF ObserverInvariant, RulesInTime, workerVars, journalVars
  <1> QED
    BY <1>2, <1>3, <1>4, <1>5 DEF ObserverInvariant

-----------------------------------------------------------------------------
(* The diagnostics' theorems.                                              *)

LEMMA ObserverStarts == ObserverInit => ObserverInvariant
  <1> SUFFICES ASSUME ObserverInit PROVE ObserverInvariant
    OBVIOUS
  <1>1. /\ at = "idle" /\ clock = 0 /\ probing = 1 /\ event = NoEvent
        /\ sample = [r \in Resources |-> "unknown"]
        /\ rules = [r \in Resources |-> CleanRow] /\ saved = [r \in Resources |-> CleanRow]
        /\ journal = {} /\ issued = 0 /\ full = FALSE
        /\ incidents = [e \in Episodes |-> NoIncident]
        /\ notes = [k \in NoteKeys |-> None]
        /\ requests = [d \in Ids |-> <<"new">>]
        /\ committed = {}
    BY DEF ObserverInit
  <1>2. Known = {} /\ Pending = {}
    BY <1>1 DEF Known, Pending
  <1>3. Cardinality({}) = 0 /\ IsFiniteSet({})
    BY FS_EmptySet
  <1>4. CleanRow \in RuleRows
    BY DEF CleanRow, RuleRows, OpenAfter, RecoverAfter
  <1>5. NoIncident \in IncidentRows /\ NoIncident.ids = <<>> /\ NoIncident.count = 0
        /\ NoIncident.state = "absent"
    BY DEF NoIncident, IncidentRows
  <1>6. ObserverTypeOK
    <2>1. Capacity \in Nat \ {0} /\ EvidenceWindow \in Nat \ {0} /\ Horizon \in Nat
      BY ObserverAssumption DEF ObserverAssumption
    <2>2. clock \in 0 .. Horizon /\ probing \in 1 .. Len(Probes) + 1
      BY <1>1, <2>1, ProbeResources
    <2>3. event \in [state : {"none", "open", "recovered"}, episode : Episodes \cup {None}]
      BY <1>1 DEF NoEvent
    <2>4. Cardinality(journal) <= Capacity /\ IsFiniteSet(journal) /\ IsFiniteSet(committed)
      BY <1>1, <1>3, <2>1
    <2>5. \A e \in Episodes : Len(incidents[e].ids) <= EvidenceWindow
      BY <1>1, <1>5, <2>1
    <2>6. sample \in [Resources -> Statuses] /\ rules \in [Resources -> RuleRows]
          /\ saved \in [Resources -> RuleRows] /\ incidents \in [Episodes -> IncidentRows]
      BY <1>1, <1>4, <1>5 DEF Statuses
    <2>7. notes \in [NoteKeys -> NoteRows \cup {None}]
          /\ requests \in [Ids -> {<<"new">>, None} \cup (Nat \X Nat)]
      BY <1>1
    <2>8. at \in {"idle", "observe", "incident", "publish", "ack"} /\ full \in BOOLEAN
          /\ journal \subseteq EntryRows /\ committed \subseteq EntryRows /\ issued \in Nat
      BY <1>1
    <2> QED
      BY <2>2, <2>3, <2>4, <2>5, <2>6, <2>7, <2>8 DEF ObserverTypeOK
  <1>7. EvidenceCountedOnce
    <2>1. \A e \in Episodes : {x \in committed : x.episode = e} = {}
      BY <1>1
    <2> QED
      BY <1>1, <1>3, <1>5, <2>1 DEF EvidenceCountedOnce
  <1>8. EvidenceRemembered
    <2>1. ToSet(<<>>) = {}
      BY DEF ToSet
    <2> QED
      BY <1>1, <1>2, <1>5, <2>1 DEF EvidenceRemembered
  <1>9. RulesInTime
    <2>1. ~CleanRow.open /\ CleanRow.episode = None
      BY DEF CleanRow
    <2> QED
      BY <1>1, <2>1, ProbeResources DEF RulesInTime
  <1>10. JournalInOrder /\ EntriesInTime /\ RecoveryRecorded
    BY <1>1, <1>2, <1>5 DEF JournalInOrder, EntriesInTime, RecoveryRecorded
  <1> QED
    BY <1>6, <1>7, <1>8, <1>9, <1>10 DEF ObserverInvariant

LEMMA ObserverSteps ==
    ASSUME ObserverInvariant, [ObserverNext]_observerVars
    PROVE  ObserverInvariant'
  <1>1. CASE Collect
    BY <1>1, CollectKeeps
  <1>2. CASE Observe
    BY <1>2, ObserveKeeps
  <1>3. CASE Report
    BY <1>3, ReportKeeps
  <1>4. CASE Publish
    BY <1>4, PublishKeeps
  <1>5. CASE Acknowledge
    BY <1>5, AcknowledgeKeeps
  <1>6. CASE SaveRules \/ Retry \/ PublishStops \/ PublishRefused \/ Sleep \/ Restart
    BY <1>6, QuietStepsKeep
  <1>7. ASSUME NEW n \in NoteKeys, RevokeNote(n) PROVE ObserverInvariant'
    BY <1>7, RevokeNoteKeeps
  <1>8. CASE UNCHANGED observerVars
    <2>1. UNCHANGED <<workerVars, journalVars, databaseVars, spentVars>>
      BY <1>8 DEF observerVars
    <2>2. Pending' = Pending /\ Known' = Known /\ \A k \in DOMAIN Probes : NotBefore(k)' = NotBefore(k)
      BY <2>1 DEF Pending, Known, NotBefore, workerVars, journalVars, databaseVars
    <2>3. ObserverTypeOK'
      BY <2>1 DEF ObserverInvariant, ObserverTypeOK, workerVars, journalVars, databaseVars, NoteKeys, Ids
    <2>4. RulesInTime'
      BY <2>1, <2>2 DEF ObserverInvariant, RulesInTime, workerVars, journalVars
    <2> QED
      BY <2>1, <2>2, <2>3, <2>4
         DEF ObserverInvariant, EvidenceCountedOnce, JournalInOrder, EvidenceRemembered,
             EntriesInTime, RecoveryRecorded, workerVars, journalVars, databaseVars
  <1> QED
    BY <1>1, <1>2, <1>3, <1>4, <1>5, <1>6, <1>7, <1>8 DEF ObserverNext, WorkerStep

(* The diagnostics' invariant holds: an incident counts each committed     *)
(* entry of its episode once, entries are published in the order of their  *)
(* cycles, and an episode recovers later than it opened.                   *)
THEOREM ObserverInvariantHolds == ObserverSpec => []ObserverInvariant
  <1>1. ObserverInit => ObserverInvariant
    BY ObserverStarts
  <1>2. ObserverInvariant /\ [ObserverNext]_observerVars => ObserverInvariant'
    BY ObserverSteps
  <1> QED
    BY <1>1, <1>2, PTL DEF ObserverSpec

(* No clean-up, crash or outage takes a pending entry away: it stays until *)
(* its transaction has committed.                                          *)
THEOREM PendingIsKept == ObserverSpec => NothingPendingLost
  <1>1. ASSUME ObserverInvariant, [ObserverNext]_observerVars
        PROVE  [\A x \in Pending : x \in Pending' \/ x \in committed]_observerVars
    <2>1. CASE Collect
      BY <2>1 DEF Collect, Pending, journalVars
    <2>2. CASE Observe
      BY <1>1, <2>2, ObserveKeeps
    <2>3. CASE Report
      BY <1>1, <2>3, ReportKeeps
    <2>4. CASE Publish
      BY <2>4 DEF Publish, Pending, journalVars
    <2>5. CASE Acknowledge
      BY <1>1, <2>5, AcknowledgeKeeps
    <2>6. CASE SaveRules \/ Retry \/ PublishStops \/ PublishRefused \/ Sleep \/ Restart
      BY <1>1, <2>6, QuietStepsKeep
    <2>7. ASSUME NEW n \in NoteKeys, RevokeNote(n)
          PROVE  \A x \in Pending : x \in Pending' \/ x \in committed
      BY <1>1, <2>7, RevokeNoteKeeps
    <2>8. CASE UNCHANGED observerVars
      BY <2>8
    <2> QED
      BY <1>1, <2>1, <2>2, <2>3, <2>4, <2>5, <2>6, <2>7, <2>8 DEF ObserverNext, WorkerStep
  <1> QED
    BY <1>1, ObserverInvariantHolds, PTL DEF ObserverSpec, NothingPendingLost

(* An "open" entry is of the cycle that names its episode, a recovery of a *)
(* later one: what is published after the recovery cannot open it again.   *)
THEOREM RecoveryIsFinal == ObserverSpec => RecoveredStaysRecovered
  <1>1. ASSUME ObserverInvariant, [ObserverNext]_observerVars
        PROVE  [\A e \in Episodes :
                  incidents[e].state = "recovered" => incidents'[e].state = "recovered"]_observerVars
    <2>1. ASSUME Publish, NEW e \in Episodes, incidents[e].state = "recovered"
          PROVE  incidents'[e].state = "recovered"
      <3>1. PICK x : x = First
        OBVIOUS
      <3>2. /\ x \in Pending /\ x \in EntryRows /\ x \in Known
            /\ IF e = x.episode THEN incidents'[e] = Evidenced(incidents[e], x)
               ELSE incidents'[e] = incidents[e]
            /\ x.type = "incident" => InTime(x.state, x.episode, x.cycle)
        BY <1>1, <2>1, <3>1, PublishedEvidence
      <3>3. /\ ObserverTypeOK /\ JournalInOrder /\ EntriesInTime /\ RecoveryRecorded
        BY <1>1 DEF ObserverInvariant
      <3>4. CASE e # x.episode
        BY <2>1, <3>2, <3>4
      <3>5. CASE e = x.episode /\ ~(x.type = "incident" /\ x.state = "open")
        <4>1. PICK row : row = incidents[e]
          OBVIOUS
        <4>2. row \in IncidentRows /\ Len(row.ids) <= EvidenceWindow /\ row.state = "recovered"
          BY <2>1, <3>3, <4>1 DEF ObserverTypeOK
        <4>3. x.type = "incident" => x.state \in {"open", "recovered"}
          BY <3>2 DEF InTime
        <4>4. PICK next : next = Evidenced(row, x)
          OBVIOUS
        <4>5. next.state = IF x.type = "incident" THEN x.state
                           ELSE IF row.state = "absent" THEN "open" ELSE row.state
          BY <3>2, <4>2, <4>3, <4>4, EvidencedRow
        <4>6. next.state = "recovered"
          BY <3>5, <4>2, <4>3, <4>5
        <4> QED
          BY <3>2, <3>5, <4>1, <4>4, <4>6
      <3>6. CASE e = x.episode /\ x.type = "incident" /\ x.state = "open"
        <4>1. PICK y \in committed : y.type = "incident" /\ y.state = "recovered" /\ y.episode = e
          BY <2>1, <3>3 DEF RecoveryRecorded
        <4>2. y \in Known /\ y \in EntryRows
          BY <3>3, KnownRows
        <4>3. x.cycle = e[2]
          BY <3>2, <3>6 DEF InTime
        <4>4. y.cycle > e[2]
          BY <3>3, <4>1, <4>2 DEF EntriesInTime, InTime
        <4>5. y.id <= x.id
          BY <3>2, <3>3 DEF JournalInOrder
        <4>6. /\ x.id \in Nat /\ y.id \in Nat /\ x.cycle \in Nat /\ y.cycle \in Nat
          BY <3>2, <4>2 DEF EntryRows
        <4>7. y.id # x.id
          BY <3>2, <3>3, <3>6, <4>1, <4>2 DEF JournalInOrder
        <4>8. y.id < x.id
          BY <4>5, <4>6, <4>7
        <4>9. y.cycle <= x.cycle
          BY <3>2, <3>3, <4>2, <4>8 DEF JournalInOrder
        <4> QED
          BY <4>3, <4>4, <4>6, <4>9
      <3> QED
        BY <3>4, <3>5, <3>6
    <2>2. CASE Collect \/ Observe \/ Report \/ SaveRules \/ Retry \/ Acknowledge \/ PublishRefused
               \/ Sleep \/ PublishStops \/ Restart
      BY <2>2 DEF Collect, Observe, Report, SaveRules, Retry, Acknowledge, PublishRefused,
                  Sleep, PublishStops, Restart, databaseVars
    <2>3. ASSUME NEW n \in NoteKeys, RevokeNote(n) PROVE incidents' = incidents
      BY <2>3 DEF RevokeNote
    <2>4. CASE UNCHANGED observerVars
      BY <2>4
    <2> QED
      BY <1>1, <2>1, <2>2, <2>3, <2>4 DEF ObserverNext, WorkerStep
  <1> QED
    BY <1>1, ObserverInvariantHolds, PTL DEF ObserverSpec, RecoveredStaysRecovered
=============================================================================
