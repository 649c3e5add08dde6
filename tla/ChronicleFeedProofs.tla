------------------------ MODULE ChronicleFeedProofs -------------------------
(***************************************************************************)
(* Proofs about the Chronicle and its projections, for any number of       *)
(* transactions, refreshers and events.  The chain verifies because events *)
(* are appended under one lock that is held until they are committed: only *)
(* its holder has events of its own, and they go on from the Chronicle as  *)
(* it is (OneAppends).  A projection is never ahead of the Chronicle       *)
(* (NothingAhead) because its position was read from it and the Chronicle  *)
(* only grows.                                                             *)
(***************************************************************************)
EXTENDS ChronicleFeed, FiniteSetTheorems, SequenceTheorems, TLAPS

-----------------------------------------------------------------------------
(* Verified sequences.                                                     *)

(* An event that follows the last one and links to it keeps a sequence     *)
(* verified.                                                               *)
LEMMA AppendVerifies ==
    ASSUME NEW s \in Seq(Events), Verified(s), NEW e \in Events,
           e.position = IF s = <<>> THEN 1 ELSE Last(s).position + 1,
           e.previous = IF s = <<>> THEN NoHash ELSE Last(s).id
    PROVE  Verified(Append(s, e))
  <1> DEFINE t == Append(s, e)
  <1>1. Len(s) \in Nat /\ t \in Seq(Events) /\ Len(t) = Len(s) + 1 /\ t[Len(s) + 1] = e
    OBVIOUS
  <1>2. \A k \in 1 .. Len(s) : t[k] = s[k]
    OBVIOUS
  <1>3. ASSUME NEW k \in 1 .. Len(s)
        PROVE  t[k].position = k /\ t[k].previous = IF k = 1 THEN NoHash ELSE t[k - 1].id
    <2>1. s[k].position = k /\ s[k].previous = IF k = 1 THEN NoHash ELSE s[k - 1].id
      BY DEF Verified
    <2>2. k # 1 => t[k - 1] = s[k - 1]
      BY <1>2
    <2> QED
      BY <1>2, <2>1, <2>2
  <1>4. CASE s = <<>>
    BY <1>1, <1>4 DEF Verified
  <1>5. CASE s # <<>>
    <2>1. Len(s) # 0 /\ Last(s) = s[Len(s)] /\ Last(s).position = Len(s)
      BY <1>5 DEF Last, Verified
    <2>2. t[Len(s) + 1].position = Len(s) + 1
      BY <1>1, <1>5, <2>1
    <2>3. t[Len(s) + 1].previous = t[Len(s)].id
      BY <1>1, <1>2, <1>5, <2>1
    <2>4. \A k \in 1 .. Len(t) :
            t[k].position = k /\ t[k].previous = IF k = 1 THEN NoHash ELSE t[k - 1].id
      BY <1>1, <1>3, <2>1, <2>2, <2>3
    <2> QED
      BY <1>1, <2>4 DEF Verified
  <1> QED
    BY <1>4, <1>5

LEMMA AppendConcat ==
    ASSUME NEW s \in Seq(Events), NEW t \in Seq(Events), NEW e \in Events
    PROVE  s \o Append(t, e) = Append(s \o t, e)
  <1>1. <<e>> \in Seq(Events) /\ s \o t \in Seq(Events)
    BY ConcatProperties
  <1>2. Append(t, e) = t \o <<e>> /\ Append(s \o t, e) = (s \o t) \o <<e>>
    BY <1>1
  <1>3. (s \o t) \o <<e>> = s \o (t \o <<e>>)
    BY <1>1, ConcatAssociative
  <1> QED
    BY <1>2, <1>3

(* The head of a verified Chronicle is at the position of its length.      *)
LEMMA HeadIsLength ==
    ASSUME FeedTypeOK, ChainUnbroken
    PROVE  HeadPosition = Len(chain) /\ Len(chain) \in Nat
  <1>1. chain \in Seq(Events) /\ Len(chain) \in Nat
    BY DEF FeedTypeOK
  <1>2. CASE chain = <<>>
    BY <1>1, <1>2 DEF HeadPosition
  <1>3. CASE chain # <<>>
    BY <1>1, <1>3 DEF HeadPosition, Last, ChainUnbroken, Verified
  <1> QED
    BY <1>1, <1>2, <1>3

(* What a transaction sees is a sequence of events, the Chronicle first.   *)
LEMMA VisibleRows ==
    ASSUME FeedTypeOK, NEW w \in Writers
    PROVE  /\ chain \in Seq(Events) /\ draft[w].events \in Seq(Events)
           /\ Visible(w) \in Seq(Events)
           /\ draft[w].events = <<>> => Visible(w) = chain
  <1>1. chain \in Seq(Events) /\ draft[w].events \in Seq(Events)
    BY DEF FeedTypeOK
  <1> QED
    BY <1>1, ConcatProperties, ConcatEmptySeq DEF Visible

-----------------------------------------------------------------------------
LEMMA InitiallySound == FeedInit => ChronicleInvariant
  <1> SUFFICES ASSUME FeedInit PROVE ChronicleInvariant
    OBVIOUS
  <1>1. <<>> \in Seq(Events) /\ Len(<<>>) = 0 /\ <<>> \o <<>> = <<>> /\ DOMAIN <<>> = {}
    OBVIOUS
  <1>2. FeedTypeOK
    BY <1>1, FeedAssumption DEF FeedInit, FeedTypeOK, Closed, NoCheckpoint, Resting, NoRequest
  <1>3. OneAppends
    BY <1>1, FeedAssumption DEF FeedInit, OneAppends, Closed, Visible, Verified
  <1>4. ChainUnbroken
    BY <1>1 DEF FeedInit, ChainUnbroken, Verified
  <1>5. NothingAhead
    BY <1>1 DEF FeedInit, NothingAhead, NoCheckpoint, NoRequest, Resting
  <1> QED
    BY <1>2, <1>3, <1>4, <1>5 DEF ChronicleInvariant

-----------------------------------------------------------------------------
(* Transactions.                                                           *)

(* What is not touched by a step that leaves the projections and the       *)
(* report alone, while the Chronicle does not shrink.                      *)
LEMMA StillBehind ==
    ASSUME ChronicleInvariant, UNCHANGED <<projections, report>>,
           Len(chain') \in Nat, Len(chain) <= Len(chain')
    PROVE  NothingAhead'
  <1>1. chain \in Seq(Events) /\ Len(chain) \in Nat
    BY DEF ChronicleInvariant, FeedTypeOK
  <1>2. /\ checkpoint.position \in Nat /\ report.head \in Nat
        /\ \A r \in Refreshers : refresher[r].position \in Nat
    BY DEF ChronicleInvariant, FeedTypeOK
  <1> QED
    BY <1>1, <1>2 DEF ChronicleInvariant, NothingAhead, projections

LEMMA BeginSound ==
    ASSUME ChronicleInvariant, NEW w \in Writers, Begin(w)
    PROVE  ChronicleInvariant'
  <1>1. UNCHANGED <<chain, lock, projections, report, faults>>
    BY DEF Begin
  <1>2. /\ draft' \in [Writers -> [open : BOOLEAN, events : Seq(Events)]]
        /\ \A v \in Writers : /\ draft'[v].events = draft[v].events
                              /\ draft[v].open => draft'[v].open
    BY DEF Begin, ChronicleInvariant, FeedTypeOK
  <1>3. FeedTypeOK'
    BY <1>1, <1>2 DEF ChronicleInvariant, FeedTypeOK, projections
  <1>4. OneAppends'
    BY <1>1, <1>2 DEF ChronicleInvariant, OneAppends, Visible
  <1>5. ChainUnbroken' /\ NothingAhead'
    BY <1>1 DEF ChronicleInvariant, ChainUnbroken, NothingAhead, projections
  <1> QED
    BY <1>3, <1>4, <1>5 DEF ChronicleInvariant

LEMMA AddEventSound ==
    ASSUME ChronicleInvariant, NEW w \in Writers, AddEvent(w)
    PROVE  ChronicleInvariant'
  <1> DEFINE id == CHOOSE n \in Fresh : TRUE
             e == Event(NextPosition(w), PreviousHash(w), id)
  <1>1. /\ UNCHANGED <<chain, projections, report, faults>>
        /\ lock' = w /\ lock \in {Nobody, w} /\ draft[w].open
        /\ draft' = [draft EXCEPT ![w].events = Append(@, e)]
    BY DEF AddEvent, MayAppend
  <1>2. /\ draft \in [Writers -> [open : BOOLEAN, events : Seq(Events)]]
        /\ chain \in Seq(Events) /\ draft[w].events \in Seq(Events) /\ Visible(w) \in Seq(Events)
        /\ FeedTypeOK /\ Verified(Visible(w))
    BY VisibleRows DEF ChronicleInvariant, FeedTypeOK, OneAppends
  <1>3. id \in Ids
    BY DEF AddEvent, Fresh
  <1>4. /\ e \in Events
        /\ e.position = IF Visible(w) = <<>> THEN 1 ELSE Last(Visible(w)).position + 1
        /\ e.previous = IF Visible(w) = <<>> THEN NoHash ELSE Last(Visible(w)).id
    <2>1. CASE Visible(w) = <<>>
      BY <1>3, <2>1 DEF Event, NextPosition, PreviousHash, Events
    <2>2. CASE Visible(w) # <<>>
      <3>1. Last(Visible(w)) \in Events
        BY <1>2, <2>2 DEF Last
      <3> QED
        BY <1>3, <2>2, <3>1 DEF Event, NextPosition, PreviousHash, Events
    <2> QED
      BY <2>1, <2>2
  <1>5. Verified(Append(Visible(w), e))
    BY <1>2, <1>4, AppendVerifies
  <1>6. /\ draft' \in [Writers -> [open : BOOLEAN, events : Seq(Events)]]
        /\ draft'[w].events = Append(draft[w].events, e) /\ draft'[w].open
        /\ \A v \in Writers : v # w => draft'[v] = draft[v]
    <2>1. Append(draft[w].events, e) \in Seq(Events)
      BY <1>2, <1>4
    <2> QED
      BY <1>1, <1>2, <2>1
  <1>7. Visible(w)' = Append(Visible(w), e)
    <2>1. chain \o Append(draft[w].events, e) = Append(chain \o draft[w].events, e)
      BY <1>2, <1>4, AppendConcat
    <2> QED
      BY <1>1, <1>6, <2>1 DEF Visible
  <1>8. FeedTypeOK'
    BY <1>1, <1>6 DEF ChronicleInvariant, FeedTypeOK, projections
  <1>9. OneAppends'
    <2>1. ASSUME NEW v \in Writers, v # w
          PROVE  draft[v].events = <<>> /\ lock # v
      BY <1>1, <2>1, FeedAssumption DEF ChronicleInvariant, OneAppends
    <2>2. ASSUME NEW v \in Writers, v # w PROVE Verified(Visible(v)')
      BY <1>1, <1>6, <2>2 DEF ChronicleInvariant, OneAppends, Visible
    <2> QED
      BY <1>1, <1>5, <1>6, <1>7, <2>1, <2>2 DEF OneAppends
  <1>10. ChainUnbroken' /\ NothingAhead'
    BY <1>1 DEF ChronicleInvariant, ChainUnbroken, NothingAhead, projections
  <1> QED
    BY <1>8, <1>9, <1>10 DEF ChronicleInvariant

(* A transaction ends: its draft is closed, its lock is free.              *)
LEMMA EndedDrafts ==
    ASSUME ChronicleInvariant, NEW w \in Writers,
           draft' = [draft EXCEPT ![w] = Closed],
           lock' = IF lock = w THEN Nobody ELSE lock
    PROVE  /\ draft' \in [Writers -> [open : BOOLEAN, events : Seq(Events)]]
           /\ lock' \in Writers \cup {Nobody}
           /\ draft'[w].events = <<>>
           /\ \A v \in Writers : /\ v # w => draft'[v] = draft[v]
                                 /\ draft'[v].events # <<>> => lock' = v
                                 /\ lock' = v => draft'[v].open
  <1>1. draft \in [Writers -> [open : BOOLEAN, events : Seq(Events)]] /\ lock \in Writers \cup {Nobody}
    BY DEF ChronicleInvariant, FeedTypeOK
  <1>2. Closed \in [open : BOOLEAN, events : Seq(Events)] /\ Closed.events = <<>>
    BY DEF Closed
  <1>3. /\ draft' \in [Writers -> [open : BOOLEAN, events : Seq(Events)]]
        /\ draft'[w] = Closed /\ \A v \in Writers : v # w => draft'[v] = draft[v]
    BY <1>1, <1>2
  <1> QED
    BY <1>1, <1>2, <1>3, FeedAssumption DEF ChronicleInvariant, OneAppends

LEMMA CommitSound ==
    ASSUME ChronicleInvariant, NEW w \in Writers, Commit(w)
    PROVE  ChronicleInvariant'
  <1>1. /\ UNCHANGED <<projections, report, faults>>
        /\ chain' = Visible(w) /\ draft' = [draft EXCEPT ![w] = Closed]
        /\ lock' = IF lock = w THEN Nobody ELSE lock
    BY DEF Commit, Visible
  <1>2. /\ chain \in Seq(Events) /\ draft[w].events \in Seq(Events) /\ chain' \in Seq(Events)
        /\ draft[w].events = <<>> => chain' = chain
    BY <1>1, VisibleRows DEF ChronicleInvariant
  <1>3. Len(chain') \in Nat /\ Len(chain) <= Len(chain')
    BY <1>1, <1>2, ConcatProperties DEF Visible
  <1>4. FeedTypeOK'
    BY <1>1, <1>2, EndedDrafts DEF ChronicleInvariant, FeedTypeOK, projections
  <1>5. ChainUnbroken'
    BY <1>1 DEF ChronicleInvariant, OneAppends, ChainUnbroken
  <1>6. \A v \in Writers : Verified(Visible(v)')
    <2> SUFFICES ASSUME NEW v \in Writers PROVE Verified(Visible(v)')
      OBVIOUS
    <2>1. CASE draft'[v].events = <<>>
      BY <2>1, <1>2, <1>5, ConcatEmptySeq DEF Visible, ChainUnbroken
    <2>2. CASE draft'[v].events # <<>>
      <3>1. v # w /\ draft'[v] = draft[v]
        BY <1>1, <2>2, EndedDrafts
      <3>2. lock = v /\ draft[w].events = <<>>
        BY <2>2, <3>1 DEF ChronicleInvariant, OneAppends
      <3>3. chain' = chain
        BY <1>2, <3>2
      <3> QED
        BY <3>1, <3>3 DEF ChronicleInvariant, OneAppends, Visible
    <2> QED
      BY <2>1, <2>2
  <1>7. OneAppends'
    BY <1>1, <1>6, EndedDrafts DEF OneAppends
  <1>8. NothingAhead'
    BY <1>1, <1>3, StillBehind
  <1> QED
    BY <1>4, <1>5, <1>7, <1>8 DEF ChronicleInvariant

LEMMA RollbackSound ==
    ASSUME ChronicleInvariant, NEW w \in Writers, Rollback(w)
    PROVE  ChronicleInvariant'
  <1>1. /\ UNCHANGED <<chain, projections, report, faults>>
        /\ draft' = [draft EXCEPT ![w] = Closed]
        /\ lock' = IF lock = w THEN Nobody ELSE lock
    BY DEF Rollback
  <1>2. FeedTypeOK'
    BY <1>1, EndedDrafts DEF ChronicleInvariant, FeedTypeOK, projections
  <1>3. ChainUnbroken' /\ NothingAhead'
    BY <1>1 DEF ChronicleInvariant, ChainUnbroken, NothingAhead, projections
  <1>4. chain \in Seq(Events)
    BY DEF ChronicleInvariant, FeedTypeOK
  <1>5. \A v \in Writers : Verified(Visible(v)')
    <2>1. Visible(w)' = chain
      BY <1>1, <1>4, EndedDrafts, ConcatEmptySeq DEF Visible
    <2>2. \A v \in Writers : v # w => Visible(v)' = Visible(v)
      BY <1>1, EndedDrafts DEF Visible
    <2> QED
      BY <2>1, <2>2 DEF ChronicleInvariant, OneAppends, ChainUnbroken
  <1>6. OneAppends'
    BY <1>1, <1>5, EndedDrafts DEF OneAppends
  <1> QED
    BY <1>2, <1>3, <1>6 DEF ChronicleInvariant

-----------------------------------------------------------------------------
(* Projections, reports and the stream: none of them touches the store.    *)

LEMMA StoreKept ==
    ASSUME ChronicleInvariant, UNCHANGED store
    PROVE  OneAppends' /\ ChainUnbroken' /\ HeadPosition = Len(chain) /\ Len(chain) \in Nat
  <1>1. OneAppends' /\ ChainUnbroken'
    BY DEF ChronicleInvariant, OneAppends, ChainUnbroken, Visible, store
  <1> QED
    BY <1>1, HeadIsLength DEF ChronicleInvariant

LEMMA RefresherSound ==
    ASSUME ChronicleInvariant, NEW r \in Refreshers, Refresh(r) \/ RefresherDies(r)
    PROVE  ChronicleInvariant'
  <1> DEFINE Row == [at : {"idle", "state", "position", "save"}, state : Nat, position : Nat]
  <1>1. UNCHANGED <<store, report>> /\ faults' \in 0 .. MaxFaults
    BY FeedAssumption DEF Refresh, CheckHead, ReadState, ReadPosition, SaveCheckpoint, RefresherDies,
                          ChronicleInvariant, FeedTypeOK
  <1>2. OneAppends' /\ ChainUnbroken' /\ HeadPosition = Len(chain) /\ Len(chain) \in Nat
    BY <1>1, StoreKept
  <1>3. /\ refresher \in [Refreshers -> Row]
        /\ checkpoint \in [saved : BOOLEAN, position : Nat, state : Nat]
        /\ checkpoint.position <= Len(chain)
        /\ \A q \in Refreshers : refresher[q].position <= Len(chain)
    BY DEF ChronicleInvariant, FeedTypeOK, NothingAhead
  <1>4. Resting \in Row /\ Resting.position <= Len(chain)
    BY <1>2 DEF Resting
  <1>5. \E row \in Row : row.position <= Len(chain) /\ refresher' = [refresher EXCEPT ![r] = row]
    <2>1. CASE CheckHead(r)
      <3>1. refresher' = [refresher EXCEPT ![r] = [refresher[r] EXCEPT !.at = "state"]]
        BY <2>1 DEF CheckHead
      <3>2. /\ [refresher[r] EXCEPT !.at = "state"] \in Row
            /\ [refresher[r] EXCEPT !.at = "state"].position <= Len(chain)
        BY <1>3
      <3> QED
        BY <3>1, <3>2
    <2>2. CASE ReadState(r)
      <3>1. refresher' = [refresher EXCEPT ![r] =
                            [refresher[r] EXCEPT !.at = "position", !.state = Len(chain)]]
        BY <2>2, <1>3 DEF ReadState
      <3>2. [refresher[r] EXCEPT !.at = "position", !.state = Len(chain)] \in Row
        BY <1>2, <1>3
      <3>3. [refresher[r] EXCEPT !.at = "position", !.state = Len(chain)].position <= Len(chain)
        BY <1>2, <1>3
      <3> QED
        BY <3>1, <3>2, <3>3
    <2>3. CASE ReadPosition(r)
      <3>1. refresher' = [refresher EXCEPT ![r] =
                            [refresher[r] EXCEPT !.at = "save", !.position = HeadPosition]]
        BY <2>3, <1>3 DEF ReadPosition
      <3>2. /\ [refresher[r] EXCEPT !.at = "save", !.position = HeadPosition] \in Row
            /\ [refresher[r] EXCEPT !.at = "save", !.position = HeadPosition].position <= Len(chain)
        <4>1. HeadPosition \in Nat /\ HeadPosition <= Len(chain)
          BY <1>2
        <4>2. [refresher[r] EXCEPT !.at = "save", !.position = HeadPosition] \in Row
          BY <1>3, <4>1
        <4>3. [refresher[r] EXCEPT !.at = "save", !.position = HeadPosition].position = HeadPosition
          BY <1>3
        <4> QED
          BY <4>1, <4>2, <4>3
      <3> QED
        BY <3>1, <3>2
    <2>4. CASE SaveCheckpoint(r) \/ RefresherDies(r)
      <3>1. refresher' = [refresher EXCEPT ![r] = Resting]
        BY <2>4 DEF SaveCheckpoint, RefresherDies
      <3> QED
        BY <1>2, <1>4, <3>1
    <2> QED
      BY <2>1, <2>2, <2>3, <2>4 DEF Refresh
  <1>6. /\ refresher' \in [Refreshers -> Row]
        /\ \A q \in Refreshers : refresher'[q].position <= Len(chain)
    BY <1>3, <1>5
  <1>7. /\ checkpoint' \in [saved : BOOLEAN, position : Nat, state : Nat]
        /\ checkpoint'.position <= Len(chain)
    <2>1. CASE SaveCheckpoint(r)
      <3>1. \/ checkpoint' = checkpoint
            \/ checkpoint' = [saved |-> TRUE, position |-> refresher[r].position,
                              state |-> refresher[r].state]
        BY <2>1 DEF SaveCheckpoint
      <3>2. CASE checkpoint' = checkpoint
        BY <1>3, <3>2
      <3>3. CASE checkpoint' = [saved |-> TRUE, position |-> refresher[r].position,
                                state |-> refresher[r].state]
        <4>1. /\ refresher[r].position \in Nat /\ refresher[r].state \in Nat
              /\ refresher[r].position <= Len(chain)
          BY <1>3
        <4>2. checkpoint'.position = refresher[r].position
          BY <3>3
        <4> QED
          BY <3>3, <4>1, <4>2
      <3> QED
        BY <3>1, <3>2, <3>3
    <2>2. CASE ~SaveCheckpoint(r)
      <3>1. checkpoint' = checkpoint
        BY <2>2 DEF Refresh, CheckHead, ReadState, ReadPosition, RefresherDies
      <3> QED
        BY <1>3, <3>1
    <2> QED
      BY <2>1, <2>2
  <1>8. FeedTypeOK'
    BY <1>1, <1>6, <1>7 DEF ChronicleInvariant, FeedTypeOK, store
  <1>9. NothingAhead'
    BY <1>1, <1>6, <1>7 DEF ChronicleInvariant, NothingAhead, store
  <1> QED
    BY <1>2, <1>8, <1>9 DEF ChronicleInvariant

LEMMA ReaderSound ==
    ASSUME ChronicleInvariant,
           AskStatus \/ AnswerStatus \/ FollowStream \/ Drop \/ Halt \/ Reopen
    PROVE  ChronicleInvariant'
  <1>1. UNCHANGED <<store, projections>> /\ faults' \in 0 .. MaxFaults
    BY FeedAssumption DEF AskStatus, AnswerStatus, FollowStream, Hydrate, Connect, Poll, Receive, Drop,
                          Halt, Reopen, ChronicleInvariant, FeedTypeOK
  <1>2. OneAppends' /\ ChainUnbroken' /\ HeadPosition = Len(chain) /\ Len(chain) \in Nat
    BY <1>1, StoreKept
  <1>3. report' \in [asked : BOOLEAN, head : Nat] /\ report'.head <= Len(chain)
    <2>1. CASE AskStatus
      BY <2>1, <1>2 DEF AskStatus
    <2>2. CASE AnswerStatus
      BY <2>2, <1>2 DEF AnswerStatus, NoRequest
    <2>3. CASE FollowStream \/ Drop \/ Halt \/ Reopen
      BY <2>3 DEF FollowStream, Hydrate, Connect, Poll, Receive, Drop, Halt, Reopen,
                  ChronicleInvariant, FeedTypeOK, NothingAhead
    <2> QED
      BY <2>1, <2>2, <2>3
  <1>4. FeedTypeOK'
    BY <1>1, <1>3 DEF ChronicleInvariant, FeedTypeOK, store, projections
  <1>5. NothingAhead'
    BY <1>1, <1>3 DEF ChronicleInvariant, NothingAhead, store, projections
  <1> QED
    BY <1>2, <1>4, <1>5 DEF ChronicleInvariant

LEMMA ChronicleStep == ChronicleInvariant /\ [FeedNext]_vars => ChronicleInvariant'
  <1> SUFFICES ASSUME ChronicleInvariant, [FeedNext]_vars PROVE ChronicleInvariant'
    OBVIOUS
  <1>1. ASSUME NEW w \in Writers, Begin(w) \/ AddEvent(w) \/ Commit(w) \/ Rollback(w)
        PROVE  ChronicleInvariant'
    BY <1>1, BeginSound, AddEventSound, CommitSound, RollbackSound
  <1>2. ASSUME NEW r \in Refreshers, Refresh(r) \/ RefresherDies(r) PROVE ChronicleInvariant'
    BY <1>2, RefresherSound
  <1>3. CASE AskStatus \/ AnswerStatus \/ FollowStream \/ Drop \/ Halt \/ Reopen
    BY <1>3, ReaderSound
  <1>4. CASE UNCHANGED vars
    BY <1>4 DEF ChronicleInvariant, FeedTypeOK, OneAppends, ChainUnbroken, NothingAhead, Visible,
                vars, store, projections
  <1> QED
    BY <1>1, <1>2, <1>3, <1>4 DEF FeedNext

-----------------------------------------------------------------------------
(* The stream.                                                             *)

(* In a verified Chronicle the event after the cursor in the k-th place is *)
(* the one k positions on, so that a poll finds the events that follow.    *)
LEMMA AfterFollows ==
    ASSUME ChronicleInvariant, NEW c \in Nat, c <= Len(chain)
    PROVE  /\ After(c) \in Seq(Events) /\ c + Len(After(c)) <= Len(chain)
           /\ \A n \in 1 .. Len(After(c)) : After(c)[n] = chain[c + n]
  <1>1. chain \in Seq(Events) /\ Len(chain) \in Nat /\ DOMAIN chain = 1 .. Len(chain)
    BY DEF ChronicleInvariant, FeedTypeOK
  <1>2. \A k \in 1 .. Len(chain) : chain[k].position = k
    BY <1>1 DEF ChronicleInvariant, ChainUnbroken, Verified
  <1>3. Later(c) = (c + 1) .. Len(chain)
    BY <1>1, <1>2 DEF Later
  <1>4. Cardinality(Later(c)) = Len(chain) - c
    <2>1. \A a, b \in Int : Cardinality(a .. b) = IF a > b THEN 0 ELSE b - a + 1
      BY FS_Interval
    <2>2. c + 1 \in Int /\ Len(chain) \in Int
      BY <1>1
    <2>3. Cardinality((c + 1) .. Len(chain)) =
            IF c + 1 > Len(chain) THEN 0 ELSE Len(chain) - (c + 1) + 1
      BY <2>1, <2>2
    <2> QED
      BY <1>1, <1>3, <2>3
  <1>5. ASSUME NEW k \in Later(c) PROVE Place(k, c) = k - c
    <2>1. {j \in Later(c) : chain[j].position <= chain[k].position} = (c + 1) .. k
      BY <1>1, <1>2, <1>3
    <2>2. Cardinality((c + 1) .. k) = k - c
      BY <1>1, <1>3, FS_Interval
    <2> QED
      BY <2>1, <2>2 DEF Place
  <1> DEFINE found == Cardinality(Later(c))
             size == IF found > StreamBatch THEN StreamBatch ELSE found
  <1>6. size \in Nat /\ size <= Len(chain) - c
    BY <1>1, <1>4, FeedAssumption
  <1>7. After(c) = [n \in 1 .. size |-> chain[CHOOSE k \in Later(c) : Place(k, c) = n]]
    BY DEF After
  <1>8. ASSUME NEW n \in 1 .. size
        PROVE  After(c)[n] = chain[c + n] /\ chain[c + n] \in Events
    <2>1. c + n \in Later(c) /\ Place(c + n, c) = n
      BY <1>1, <1>3, <1>5, <1>6
    <2>2. \A k \in Later(c) : Place(k, c) = n => k = c + n
      BY <1>1, <1>3, <1>5, <1>6
    <2>3. (CHOOSE k \in Later(c) : Place(k, c) = n) = c + n
      BY <2>1, <2>2
    <2>4. chain[c + n] \in Events
      BY <1>1, <1>3, <2>1
    <2> QED
      BY <1>7, <2>3, <2>4
  <1>9. After(c) \in [1 .. size -> Events]
    BY <1>7, <1>8
  <1>10. After(c) \in Seq(Events) /\ Len(After(c)) = size
    BY <1>6, <1>9
  <1> QED
    BY <1>1, <1>6, <1>8, <1>10

(* Places within a length that is the sum of two.                          *)
LEMMA Within ==
    ASSUME NEW a \in Nat, NEW b \in Nat, NEW d \in Nat, a + b <= d, NEW k \in 1 .. b
    PROVE  a + k \in 1 .. d
  OBVIOUS

(* What the frontend holds is still what the Chronicle says when events    *)
(* are added to it, or nothing is.                                         *)
LEMMA FollowsLonger ==
    ASSUME ChronicleInvariant, StreamFollows, UNCHANGED feed,
           Len(chain') \in Nat, Len(chain) <= Len(chain'),
           \A k \in 1 .. Len(chain) : chain'[k] = chain[k]
    PROVE  StreamFollows'
  <1>1. chain \in Seq(Events) /\ Len(chain) \in Nat
    BY DEF ChronicleInvariant, FeedTypeOK
  <1>2. /\ wire \in Seq(Events) /\ Len(wire) \in Nat /\ DOMAIN wire = 1 .. Len(wire)
        /\ client.got \in Seq(Events) /\ Len(client.got) \in Nat
        /\ DOMAIN client.got = 1 .. Len(client.got)
        /\ client.position \in Nat /\ client.from \in Nat
        /\ client.position + Len(wire) <= Len(chain)
        /\ client.from + Len(client.got) = client.position
    BY DEF StreamFollows
  <1>3. \A k \in DOMAIN wire : chain'[client.position + k] = chain[client.position + k]
    <2>1. /\ client.position \in Nat /\ Len(wire) \in Nat /\ Len(chain) \in Nat
          /\ client.position + Len(wire) <= Len(chain)
      BY <1>1, <1>2
    <2>2. \A k \in 1 .. Len(wire) : client.position + k \in 1 .. Len(chain)
      BY <2>1, Within
    <2> QED
      BY <1>2, <2>2
  <1>4. \A k \in DOMAIN client.got : chain'[client.from + k] = chain[client.from + k]
    <2>1. /\ client.from \in Nat /\ Len(client.got) \in Nat /\ Len(chain) \in Nat
          /\ client.position \in Nat /\ Len(wire) \in Nat
          /\ client.position + Len(wire) <= Len(chain)
          /\ client.from + Len(client.got) = client.position
      BY <1>1, <1>2
    <2>2. client.from + Len(client.got) <= Len(chain)
      BY <2>1
    <2>3. \A k \in 1 .. Len(client.got) : client.from + k \in 1 .. Len(chain)
      BY <2>1, <2>2, Within
    <2> QED
      BY <1>2, <2>3
  <1>5. UNCHANGED <<server, wire, client>>
    BY DEF feed
  <1>6. client.position + Len(wire) <= Len(chain')
    BY <1>1, <1>2 DEF StreamFollows
  <1> QED
    BY <1>3, <1>4, <1>5, <1>6 DEF StreamFollows

LEMMA HydrateFollows ==
    ASSUME ChronicleInvariant, StreamFollows, Hydrate
    PROVE  StreamFollows'
  <1>1. UNCHANGED <<chain, server, wire>>
    BY DEF Hydrate, store
  <1>2. HeadPosition = Len(chain) /\ Len(chain) \in Nat
    BY HeadIsLength DEF ChronicleInvariant
  <1>3. wire = <<>> /\ Len(wire) = 0 /\ DOMAIN wire = {}
    BY DEF StreamFollows, Hydrate
  <1>4. client' = [at |-> "broken", position |-> HeadPosition, from |-> HeadPosition,
                   got |-> <<>>, resyncs |-> 0]
    BY DEF Hydrate, StreamFollows
  <1>5. <<>> \in Seq(Events) /\ Len(<<>>) = 0 /\ DOMAIN <<>> = {}
    OBVIOUS
  <1> QED
    BY <1>1, <1>2, <1>3, <1>4, <1>5 DEF StreamFollows

LEMMA ConnectFollows ==
    ASSUME ChronicleInvariant, StreamFollows, Connect \/ Drop
    PROVE  StreamFollows'
  <1>1. /\ UNCHANGED chain /\ wire' = <<>>
        /\ client' = [client EXCEPT !.at = IF Connect THEN "live" ELSE "broken"]
        /\ Connect => server' = client.position
        /\ ~Connect => server' = server
    BY DEF Connect, Drop, Resume, store
  <1>2. <<>> \in Seq(Events) /\ Len(<<>>) = 0 /\ DOMAIN <<>> = {}
    OBVIOUS
  <1>3. client.position \in Nat /\ server \in Nat /\ Len(wire) \in Nat
    BY DEF StreamFollows
  <1>4. /\ client'.at = (IF Connect THEN "live" ELSE "broken")
        /\ client'.position = client.position /\ client'.from = client.from
        /\ client'.got = client.got
        /\ client' \in [at : {"hydrate", "broken", "live", "halted"}, position : Nat, from : Nat,
                        got : Seq(Events), resyncs : {0}]
    BY <1>1 DEF StreamFollows
  <1>5. client.position <= Len(chain) /\ Len(chain) \in Nat
    BY <1>3 DEF StreamFollows, ChronicleInvariant, FeedTypeOK
  <1> QED
    BY <1>1, <1>2, <1>3, <1>4, <1>5 DEF StreamFollows

(* A page that halts or is opened again keeps what it has, and loses the   *)
(* connection.                                                             *)
LEMMA HaltFollows ==
    ASSUME ChronicleInvariant, StreamFollows, Halt \/ Reopen
    PROVE  StreamFollows'
  <1>1. UNCHANGED <<chain, server>> /\ wire' = <<>>
    BY DEF Halt, Reopen, store
  <1>2. <<>> \in Seq(Events) /\ Len(<<>>) = 0 /\ DOMAIN <<>> = {}
    OBVIOUS
  <1>3. /\ client' \in [at : {"hydrate", "halted"}, position : Nat, from : Nat,
                        got : Seq(Events), resyncs : {0}]
        /\ client'.position = client.position /\ client'.from = client.from
        /\ client'.got = client.got
    BY DEF Halt, Reopen, StreamFollows
  <1>4. client.position \in Nat /\ Len(wire) \in Nat /\ Len(chain) \in Nat
    BY DEF StreamFollows, ChronicleInvariant, FeedTypeOK
  <1>5. client.position <= Len(chain)
    BY <1>4 DEF StreamFollows
  <1>6. client'.at # "live" /\ client'.position + 0 <= Len(chain)
    BY <1>3, <1>4, <1>5
  <1> QED
    BY <1>1, <1>2, <1>3, <1>6 DEF StreamFollows

LEMMA PollFollows ==
    ASSUME ChronicleInvariant, StreamFollows, Poll
    PROVE  StreamFollows'
  <1> DEFINE sent == After(server)
  <1>1. HeadPosition = Len(chain) /\ Len(chain) \in Nat /\ chain \in Seq(Events)
    BY HeadIsLength DEF ChronicleInvariant, FeedTypeOK
  <1>2. /\ client.at = "live" /\ wire = <<>> /\ UNCHANGED chain
        /\ client.position \in Nat /\ server = client.position /\ server <= Len(chain)
    BY <1>1 DEF Poll, StreamFollows, store
  <1>3. /\ sent \in Seq(Events) /\ Len(sent) \in Nat /\ DOMAIN sent = 1 .. Len(sent)
        /\ server + Len(sent) <= Len(chain)
        /\ \A n \in 1 .. Len(sent) : sent[n] = chain[server + n]
    <2>1. server \in Nat
      BY <1>2
    <2>2. /\ sent \in Seq(Events) /\ server + Len(sent) <= Len(chain)
          /\ \A n \in 1 .. Len(sent) : sent[n] = chain[server + n]
      BY <1>2, <2>1, AfterFollows
    <2> HIDE DEF sent
    <2> QED
      BY <2>2
  <1>4. \A n \in 1 .. Len(sent) : sent[n].position = server + n
    <2>1. \A k \in 1 .. Len(chain) : chain[k].position = k
      BY <1>1 DEF ChronicleInvariant, ChainUnbroken, Verified
    <2>2. \A n \in 1 .. Len(sent) : server + n \in 1 .. Len(chain)
      BY <1>1, <1>2, <1>3
    <2> QED
      BY <1>3, <2>1, <2>2
  <1>5. ~MustResync(server, sent)
    <2>1. sent # <<>> => 1 \in 1 .. Len(sent)
      BY <1>3
    <2> QED
      BY <1>1, <1>2, <1>4, <2>1 DEF MustResync
  <1>6. sent # <<>> /\ wire' = sent /\ server' = Last(sent).position /\ client' = client
    BY <1>5 DEF Poll
  <1>7. Last(sent) = sent[Len(sent)] /\ Len(sent) \in 1 .. Len(sent)
    BY <1>3, <1>6 DEF Last
  <1>8. server' = client.position + Len(sent) /\ server' \in Nat
    BY <1>2, <1>3, <1>4, <1>6, <1>7
  <1> QED
    BY <1>1, <1>2, <1>3, <1>6, <1>8 DEF StreamFollows

LEMMA ReceiveFollows ==
    ASSUME ChronicleInvariant, StreamFollows, Receive
    PROVE  StreamFollows'
  <1> DEFINE e == wire[1]
  <1>1. /\ client.at = "live" /\ wire # <<>> /\ UNCHANGED <<chain, server>>
        /\ wire' = Tail(wire)
        /\ client' = [client EXCEPT !.position = e.position, !.got = Append(@, e)]
    BY DEF Receive, store
  <1>2. /\ wire \in Seq(Events) /\ Len(wire) \in Nat /\ Len(wire) >= 1
        /\ client.position \in Nat /\ client.from \in Nat
        /\ client.got \in Seq(Events) /\ Len(client.got) \in Nat
        /\ DOMAIN client.got = 1 .. Len(client.got)
        /\ server = client.position + Len(wire)
        /\ client.position + Len(wire) <= Len(chain)
        /\ client.from + Len(client.got) = client.position
    BY <1>1 DEF StreamFollows
  <1>len. /\ Len(wire) \in Nat /\ Len(wire) >= 1 /\ Len(client.got) \in Nat
          /\ client.position \in Nat /\ client.from \in Nat
          /\ client.from + Len(client.got) = client.position
    BY <1>2
  <1>sum. client.from + (Len(client.got) + 1) = client.position + 1
    BY <1>len
  <1>3. chain \in Seq(Events) /\ Len(chain) \in Nat
    BY DEF ChronicleInvariant, FeedTypeOK
  <1>4. e = chain[client.position + 1] /\ e.position = client.position + 1 /\ e \in Events
    <2>1. client.position + 1 \in 1 .. Len(chain)
      BY <1>2, <1>3
    <2>2. 1 \in DOMAIN wire
      BY <1>2
    <2>3. e = chain[client.position + 1]
      BY <2>2 DEF StreamFollows
    <2>4. \A k \in 1 .. Len(chain) : chain[k].position = k /\ chain[k] \in Events
      BY <1>3 DEF ChronicleInvariant, ChainUnbroken, Verified
    <2> QED
      BY <2>1, <2>3, <2>4
  <1>5. /\ wire' \in Seq(Events) /\ Len(wire') = Len(wire) - 1
        /\ DOMAIN wire' = 1 .. Len(wire')
        /\ \A k \in 1 .. Len(wire') : wire'[k] = wire[k + 1]
    BY <1>1, <1>2, HeadTailProperties
  <1>6. /\ client'.at = "live" /\ client'.position = client.position + 1
        /\ client'.from = client.from /\ client'.got = Append(client.got, e)
        /\ client' \in [at : {"hydrate", "broken", "live", "halted"}, position : Nat, from : Nat,
                        got : Seq(Events), resyncs : {0}]
    <2>1. Append(client.got, e) \in Seq(Events) /\ e.position \in Nat
      BY <1>2, <1>4
    <2>2. client \in [at : {"hydrate", "broken", "live", "halted"}, position : Nat, from : Nat,
                     got : Seq(Events), resyncs : {0}]
      BY DEF StreamFollows
    <2>3. client' = [client EXCEPT !.position = e.position, !.got = Append(client.got, e)]
      BY <1>1
    <2> HIDE DEF e
    <2>4. client' \in [at : {"hydrate", "broken", "live", "halted"}, position : Nat, from : Nat,
                      got : Seq(Events), resyncs : {0}]
      BY <2>1, <2>2, <2>3
    <2>5. /\ client'.at = client.at /\ client'.position = e.position
          /\ client'.from = client.from /\ client'.got = Append(client.got, e)
      BY <2>2, <2>3
    <2> QED
      BY <1>1, <1>4, <2>4, <2>5
  <1>7. /\ Len(client'.got) = Len(client.got) + 1
        /\ DOMAIN client'.got = 1 .. Len(client.got) + 1
        /\ \A k \in 1 .. Len(client.got) : client'.got[k] = client.got[k]
        /\ client'.got[Len(client.got) + 1] = e
    BY <1>2, <1>4, <1>6, AppendProperties
  <1>8. \A k \in DOMAIN client'.got : client'.got[k] = chain'[client'.from + k]
    <2>1. \A k \in 1 .. Len(client.got) : client.got[k] = chain[client.from + k]
      BY <1>2 DEF StreamFollows
    <2> HIDE DEF e
    <2>3. ASSUME NEW k \in 1 .. Len(client.got) + 1 PROVE client'.got[k] = chain[client.from + k]
      <3>1. CASE k = Len(client.got) + 1
        BY <1>4, <1>7, <1>sum, <3>1
      <3>2. CASE k # Len(client.got) + 1
        <4>1. k \in 1 .. Len(client.got)
          BY <1>2, <3>2
        <4> QED
          BY <1>7, <2>1, <4>1
      <3> QED
        BY <3>1, <3>2
    <2> QED
      BY <1>1, <1>6, <1>7, <2>3
  <1>9. \A k \in DOMAIN wire' : wire'[k] = chain'[client'.position + k]
    <2>1. ASSUME NEW k \in 1 .. Len(wire') PROVE wire'[k] = chain[client.position + 1 + k]
      <3>1. k + 1 \in DOMAIN wire /\ k \in Nat
        BY <1>2, <1>5
      <3>2. wire[k + 1] = chain[client.position + (k + 1)]
        BY <3>1 DEF StreamFollows
      <3>3. client.position + (k + 1) = client.position + 1 + k
        <4>1. client.position \in Nat /\ k \in Nat
          BY <1>len, <3>1
        <4> QED
          BY <4>1
      <3> QED
        BY <1>5, <3>2, <3>3
    <2> QED
      BY <1>1, <1>5, <1>6, <2>1
  <1>10. /\ server' = client'.position + Len(wire')
         /\ client'.position + Len(wire') <= Len(chain')
         /\ client'.from + Len(client'.got) = client'.position /\ server' \in Nat
    <2>1. client'.position + Len(wire') = client.position + Len(wire)
      <3>1. (client.position + 1) + (Len(wire) - 1) = client.position + Len(wire)
        BY <1>len
      <3> QED
        BY <1>5, <1>6, <3>1
    <2>2. client'.from + Len(client'.got) = client'.position
      BY <1>6, <1>7, <1>sum
    <2>3. server' = server /\ chain' = chain
      BY <1>1
    <2>4. server \in Nat
      BY <1>2
    <2> QED
      BY <1>2, <2>1, <2>2, <2>3, <2>4
  <1> QED
    BY <1>5, <1>6, <1>8, <1>9, <1>10 DEF StreamFollows

LEMMA StreamStep ==
    ASSUME ChronicleInvariant, StreamFollows, [FeedNext]_vars
    PROVE  StreamFollows'
  <1>1. chain \in Seq(Events) /\ Len(chain) \in Nat
    BY DEF ChronicleInvariant, FeedTypeOK
  <1>2. ASSUME NEW w \in Writers, Commit(w) PROVE StreamFollows'
    <2>1. chain' = chain \o draft[w].events /\ draft[w].events \in Seq(Events) /\ UNCHANGED feed
      BY <1>2, VisibleRows DEF Commit, ChronicleInvariant
    <2>2. /\ Len(chain') = Len(chain) + Len(draft[w].events) /\ Len(draft[w].events) \in Nat
          /\ \A k \in 1 .. Len(chain) : chain'[k] = chain[k]
      BY <1>1, <2>1, ConcatProperties
    <2>3. Len(chain') \in Nat /\ Len(chain) <= Len(chain')
      BY <1>1, <2>2
    <2> QED
      BY <2>1, <2>2, <2>3, FollowsLonger
  <1>3. CASE UNCHANGED <<chain, feed>>
    BY <1>1, <1>3, FollowsLonger
  <1>4. CASE FollowStream \/ Drop \/ Halt \/ Reopen
    BY <1>4, HydrateFollows, ConnectFollows, HaltFollows, PollFollows, ReceiveFollows DEF FollowStream
  <1>5. \/ \E w \in Writers : Commit(w)
        \/ UNCHANGED <<chain, feed>>
        \/ FollowStream \/ Drop \/ Halt \/ Reopen
    BY DEF FeedNext, Begin, AddEvent, Rollback, Refresh, CheckHead, ReadState, ReadPosition,
           SaveCheckpoint, RefresherDies, AskStatus, AnswerStatus, vars, store
  <1> QED
    BY <1>2, <1>3, <1>4, <1>5

-----------------------------------------------------------------------------
(* The committed Chronicle verifies, its drafts go on from it, no          *)
(* projection is ahead of it, and the stream follows it: add_event,        *)
(* system_snapshot, save_checkpoint and the event stream under any         *)
(* interleaving.                                                           *)
THEOREM FeedInvariantHolds == FeedSpec => []FeedInvariant
  <1>1. FeedInit => FeedInvariant
    <2>1. FeedInit => StreamFollows
      <3>1. <<>> \in Seq(Events) /\ Len(<<>>) = 0 /\ DOMAIN <<>> = {}
        OBVIOUS
      <3> QED
        BY <3>1 DEF FeedInit, StreamFollows
    <2> QED
      BY <2>1, InitiallySound DEF FeedInvariant
  <1>2. FeedInvariant /\ [FeedNext]_vars => FeedInvariant'
    BY ChronicleStep, StreamStep DEF FeedInvariant
  <1> QED
    BY <1>1, <1>2, PTL DEF FeedSpec

(* The frontend is handed every event after its snapshot once, in order,   *)
(* over any number of broken connections, and the server never tells it to *)
(* hydrate again: event_stream, cursor_resync_reason and streamChronicle.  *)
THEOREM StreamIsComplete == FeedSpec => []StreamMissesNothing
  <1>1. FeedInvariant => StreamMissesNothing
    <2> SUFFICES ASSUME FeedInvariant PROVE StreamMissesNothing
      OBVIOUS
    <2> DEFINE s == SubSeq(chain, client.from + 1, client.position)
    <2>1. /\ chain \in Seq(Events) /\ Len(chain) \in Nat /\ DOMAIN chain = 1 .. Len(chain)
          /\ client.from \in Nat /\ client.position \in Nat /\ client.resyncs = 0
          /\ client.got \in Seq(Events) /\ Len(client.got) \in Nat /\ Len(wire) \in Nat
          /\ DOMAIN client.got = 1 .. Len(client.got)
          /\ client.from + Len(client.got) = client.position
          /\ client.position + Len(wire) <= Len(chain)
      BY DEF FeedInvariant, ChronicleInvariant, FeedTypeOK, StreamFollows
    <2>2. \A k \in (client.from + 1) .. client.position : chain[k] \in Events
      BY <2>1
    <2>3. /\ s \in Seq(Events) /\ Len(s) = client.position - client.from
          /\ \A k \in 1 .. client.position - client.from : s[k] = chain[client.from + 1 + k - 1]
      <3>1. client.from + 1 \in Int /\ client.position \in Int
        BY <2>1
      <3>2. /\ s \in Seq(Events)
            /\ Len(s) = IF client.from + 1 <= client.position
                          THEN client.position - (client.from + 1) + 1 ELSE 0
            /\ \A k \in 1 .. client.position - (client.from + 1) + 1 :
                    s[k] = chain[client.from + 1 + k - 1]
        BY <2>2, <3>1, SubSeqProperties
      <3> HIDE DEF s
      <3>3. \A a, b, d \in Nat : a + b = d =>
                /\ (IF a + 1 <= d THEN d - (a + 1) + 1 ELSE 0) = d - a
                /\ d - (a + 1) + 1 = d - a
        OBVIOUS
      <3>4. client.position - (client.from + 1) + 1 = client.position - client.from
        BY <2>1, <3>3
      <3> QED
        BY <2>1, <3>2, <3>3, <3>4
    <2>4. Len(client.got) = Len(s) /\ \A k \in 1 .. Len(s) : client.got[k] = s[k]
      <3>1. \A k \in 1 .. Len(client.got) : client.got[k] = chain[client.from + k]
        BY <2>1 DEF FeedInvariant, StreamFollows
      <3>2. \A k \in 1 .. Len(client.got) : client.from + 1 + k - 1 = client.from + k
        <4>1. \A a \in Nat, k \in Int : a + 1 + k - 1 = a + k
          OBVIOUS
        <4> QED
          BY <2>1, <4>1
      <3>3. client.position - client.from = Len(client.got)
        <4>1. \A a, b, d \in Nat : a + b = d => d - a = b
          OBVIOUS
        <4> QED
          BY <2>1, <4>1
      <3> HIDE DEF s
      <3> QED
        BY <2>3, <3>1, <3>2, <3>3
    <2>5. client.got = s
      BY <2>1, <2>3, <2>4, SeqEqual
    <2> QED
      BY <2>1, <2>5 DEF StreamMissesNothing
  <1> QED
    BY <1>1, FeedInvariantHolds, PTL

(* verify_chronicle succeeds at any moment.                                *)
THEOREM ChronicleVerifies == FeedSpec => []ChainUnbroken
  <1>1. FeedInvariant => ChainUnbroken
    BY DEF FeedInvariant, ChronicleInvariant
  <1> QED
    BY <1>1, FeedInvariantHolds, PTL

(* The status endpoint reports INVALID only when events were committed     *)
(* between its two reads.                                                  *)
THEOREM InvalidMeansOvertaken == FeedSpec => []InvalidOnlyWhenOvertaken
  <1>1. FeedInvariant => InvalidOnlyWhenOvertaken
    <2> SUFFICES ASSUME FeedInvariant, report.asked, StatusOf(report.head) = "INVALID"
                 PROVE  report.head < HeadPosition
      BY DEF InvalidOnlyWhenOvertaken
    <2>1. report.head \in Nat /\ checkpoint.position \in Nat /\ checkpoint.position <= Len(chain)
      BY DEF FeedInvariant, ChronicleInvariant, FeedTypeOK, NothingAhead
    <2>2. HeadPosition = Len(chain) /\ Len(chain) \in Nat
      BY HeadIsLength DEF FeedInvariant, ChronicleInvariant
    <2>3. checkpoint.position > report.head
      BY <2>1 DEF StatusOf
    <2> QED
      BY <2>1, <2>2, <2>3
  <1> QED
    BY <1>1, FeedInvariantHolds, PTL

(* A saved projection is never saved again behind where it was, however    *)
(* many workers refresh it.                                                *)
THEOREM CheckpointAdvances == FeedSpec => CheckpointNeverRegresses
  <1> DEFINE A == checkpoint.saved => checkpoint'.saved /\ checkpoint'.position >= checkpoint.position
  <1>1. FeedInvariant /\ [FeedNext]_vars => A \/ UNCHANGED vars
    <2> SUFFICES ASSUME FeedInvariant, FeedNext PROVE A
      OBVIOUS
    <2>1. checkpoint.position \in Nat
      BY DEF FeedInvariant, ChronicleInvariant, FeedTypeOK
    <2>2. ASSUME NEW r \in Refreshers, SaveCheckpoint(r) PROVE A
      <3>1. refresher[r].position \in Nat
        BY DEF FeedInvariant, ChronicleInvariant, FeedTypeOK
      <3> QED
        BY <2>1, <2>2, <3>1 DEF SaveCheckpoint, Regresses
    <2>3. CASE checkpoint' = checkpoint
      BY <2>1, <2>3
    <2>4. checkpoint' = checkpoint \/ \E r \in Refreshers : SaveCheckpoint(r)
      BY DEF FeedNext, Begin, AddEvent, Commit, Rollback, Refresh, CheckHead, ReadState, ReadPosition,
             RefresherDies, AskStatus, AnswerStatus, FollowStream, Hydrate, Connect, Poll, Receive, Drop,
             Halt, Reopen, projections
    <2> QED
      BY <2>2, <2>3, <2>4
  <1>2. FeedInvariant /\ [FeedNext]_vars => [A]_vars
    BY <1>1
  <1> QED
    BY <1>2, FeedInvariantHolds, PTL DEF FeedSpec, CheckpointNeverRegresses

-----------------------------------------------------------------------------
(* The refinement of EventLog.                                             *)

(* A projection that was not saved yet stands for no event.                *)
UnsavedAtZero == ~ checkpoint.saved => checkpoint.position = 0

LEMMA UnsavedHolds == FeedSpec => []UnsavedAtZero
  <1>1. FeedInit => UnsavedAtZero
    BY DEF FeedInit, NoCheckpoint, UnsavedAtZero
  <1>2. UnsavedAtZero /\ [FeedNext]_vars => UnsavedAtZero'
    <2> SUFFICES ASSUME UnsavedAtZero, [FeedNext]_vars PROVE UnsavedAtZero'
      OBVIOUS
    <2>1. checkpoint' = checkpoint \/ \E r \in Refreshers : SaveCheckpoint(r)
      BY DEF FeedNext, Begin, AddEvent, Commit, Rollback, Refresh, CheckHead, ReadState, ReadPosition,
             RefresherDies, AskStatus, AnswerStatus, FollowStream, Hydrate, Connect, Poll, Receive, Drop,
             Halt, Reopen, projections, vars
    <2>2. ASSUME NEW r \in Refreshers, SaveCheckpoint(r) PROVE checkpoint' = checkpoint \/ checkpoint'.saved
      BY <2>2 DEF SaveCheckpoint
    <2> QED
      BY <2>1, <2>2 DEF UnsavedAtZero
  <1> QED
    BY <1>1, <1>2, PTL DEF FeedSpec

(* A commit adds numbered entries at the end and changes none.             *)
LEMMA CommitExtends ==
    ASSUME ChronicleInvariant, ChronicleInvariant', NEW w \in Writers, Commit(w)
    PROVE  Log!Extend
  <1>1. /\ chain' = chain \o draft[w].events /\ draft[w].events \in Seq(Events)
        /\ chain \in Seq(Events) /\ UNCHANGED <<checkpoint, client>>
    BY VisibleRows DEF Commit, ChronicleInvariant, projections, feed
  <1>2. /\ Len(chain') = Len(chain) + Len(draft[w].events)
        /\ Len(draft[w].events) \in Nat /\ Len(chain) \in Nat
        /\ \A k \in 1 .. Len(chain) : chain'[k] = chain[k]
    BY <1>1, ConcatProperties
  <1>3. Len(chain') >= Len(chain)
    BY <1>2
  <1>4. \A k \in DOMAIN chain : chain'[k] = chain[k]
    BY <1>1, <1>2
  <1>5. Log!Numbered(chain')
    BY DEF ChronicleInvariant, ChainUnbroken, Verified, Log!Numbered
  <1> QED
    BY <1>1, <1>3, <1>4, <1>5 DEF Log!Extend

(* What is saved lies between what was saved and the head, or is refused.  *)
LEMMA SaveProjects ==
    ASSUME ChronicleInvariant, UnsavedAtZero, NEW r \in Refreshers, SaveCheckpoint(r)
    PROVE  Log!Project \/ UNCHANGED Log!logVars
  <1>1. UNCHANGED <<chain, client>>
    BY DEF SaveCheckpoint, store, feed
  <1>2. CASE Regresses(refresher[r].position)
    BY <1>1, <1>2 DEF SaveCheckpoint, Log!logVars
  <1>3. CASE ~ Regresses(refresher[r].position)
    <2>1. checkpoint'.position = refresher[r].position
      BY <1>3 DEF SaveCheckpoint
    <2>2. /\ refresher[r].position \in Nat /\ checkpoint.position \in Nat /\ Len(chain) \in Nat
          /\ refresher[r].position <= Len(chain)
      BY DEF ChronicleInvariant, FeedTypeOK, NothingAhead
    <2>3. checkpoint.position <= refresher[r].position
      BY <1>3, <2>2 DEF Regresses, UnsavedAtZero
    <2>4. refresher[r].position \in checkpoint.position .. Len(chain)
      BY <2>2, <2>3
    <2> QED
      BY <1>1, <2>1, <2>4 DEF Log!Project
  <1> QED
    BY <1>2, <1>3

(* The page opens the log at its head.                                     *)
LEMMA HydrateOpens ==
    ASSUME ChronicleInvariant, StreamFollows, Hydrate
    PROVE  Log!Follow
  <1>1. /\ UNCHANGED <<chain, checkpoint>> /\ client.at = "hydrate"
        /\ client' = [client EXCEPT !.at = "broken", !.position = HeadPosition,
                                    !.from = HeadPosition, !.got = <<>>]
    BY DEF Hydrate, store, projections
  <1>2. client'.at = "broken" /\ client'.from = HeadPosition /\ client'.got = <<>>
    BY <1>1 DEF StreamFollows
  <1>3. HeadPosition = Len(chain)
    BY HeadIsLength DEF ChronicleInvariant
  <1> QED
    BY <1>1, <1>2, <1>3 DEF Log!Follow

(* What the page receives is the entry after the last it was shown.        *)
LEMMA ReceiveShows ==
    ASSUME ChronicleInvariant, StreamFollows, Receive
    PROVE  Log!Show
  <1>1. /\ UNCHANGED <<chain, checkpoint>> /\ client.at = "live" /\ wire # <<>>
        /\ client' = [client EXCEPT !.position = wire[1].position, !.got = Append(client.got, wire[1])]
    BY DEF Receive, store, projections
  <1>2. /\ client'.at = client.at /\ client'.from = client.from
        /\ client'.got = Append(client.got, wire[1])
    BY <1>1 DEF StreamFollows
  <1>3. /\ Len(wire) \in Nat /\ Len(wire) >= 1 /\ 1 \in DOMAIN wire
        /\ client.position \in Nat /\ Len(chain) \in Nat
        /\ client.position + Len(wire) <= Len(chain)
        /\ client.from + Len(client.got) = client.position
    <2>1. wire \in Seq(Events) /\ chain \in Seq(Events)
      BY DEF StreamFollows, ChronicleInvariant, FeedTypeOK
    <2>2. /\ Len(wire) \in Nat /\ Len(wire) >= 1 /\ 1 \in DOMAIN wire
          /\ Len(chain) \in Nat
      BY <1>1, <2>1
    <2>3. client.position \in Nat
      BY DEF StreamFollows
    <2> QED
      BY <2>2, <2>3 DEF StreamFollows
  <1>4. client.position < Len(chain)
    BY <1>3
  <1>5. wire[1] = chain[client.position + 1]
    BY <1>3 DEF StreamFollows
  <1>6. /\ client.from + Len(client.got) < Len(chain)
        /\ wire[1] = chain[client.from + Len(client.got) + 1]
    BY <1>3, <1>4, <1>5
  <1>7. client'.got = Append(client.got, chain[client.from + Len(client.got) + 1])
    BY <1>2, <1>6
  <1>8. /\ client.at \notin {"hydrate", "halted"}
        /\ (client'.at \notin {"hydrate", "halted"}) = (client.at \notin {"hydrate", "halted"})
    BY <1>1, <1>2
  <1> QED
    BY <1>1, <1>2, <1>6, <1>7, <1>8 DEF Log!Show

(* The page stops following when it halts or is opened again.              *)
LEMMA HaltStops ==
    ASSUME StreamFollows, Halt \/ Reopen
    PROVE  Log!Stop \/ UNCHANGED Log!logVars
  <1>1. UNCHANGED <<chain, checkpoint>>
    BY DEF Halt, Reopen, store, projections
  <1>2. /\ client'.at \in {"hydrate", "halted"}
        /\ client'.from = client.from /\ client'.got = client.got
    BY DEF Halt, Reopen, StreamFollows
  <1> QED
    BY <1>1, <1>2 DEF Log!Stop, Log!logVars

(* The Chronicle is one log to all who read it: add_event's commits extend *)
(* it, save_checkpoint's projection only advances along it, and the page   *)
(* is shown each entry after its snapshot until it halts or is opened      *)
(* again, over any number of connections.                                  *)
THEOREM FeedKeepsLog == FeedSpec => KeepsLog
  <1>1. FeedInit => Log!Init
    BY DEF FeedInit, NoCheckpoint, Log!Init
  <1>2. ASSUME FeedInvariant, FeedInvariant', UnsavedAtZero, [FeedNext]_vars
        PROVE  Log!Next \/ UNCHANGED Log!logVars
    <2>1. ASSUME NEW w \in Writers, Commit(w) PROVE Log!Next
      BY <1>2, <2>1, CommitExtends DEF FeedInvariant, Log!Next
    <2>2. ASSUME NEW r \in Refreshers, SaveCheckpoint(r) PROVE Log!Next \/ UNCHANGED Log!logVars
      BY <1>2, <2>2, SaveProjects DEF FeedInvariant, Log!Next
    <2>3. CASE Hydrate
      BY <1>2, <2>3, HydrateOpens DEF FeedInvariant, Log!Next
    <2>4. CASE Receive
      BY <1>2, <2>4, ReceiveShows DEF FeedInvariant, Log!Next
    <2>5. CASE Connect \/ Poll \/ Drop
      <3>1. UNCHANGED <<chain, checkpoint>> /\ client.at \notin {"hydrate", "halted"}
        BY <2>5 DEF Connect, Poll, Drop, store, projections
      <3>2. client'.at \in {"live", "broken"} /\ client'.from = client.from /\ client'.got = client.got
        <4>1. /\ client \in [at : {"hydrate", "broken", "live", "halted"}, position : Nat, from : Nat,
                            got : Seq(Events), resyncs : {0}]
              /\ client'.resyncs = 0
          <5>1. StreamFollows /\ StreamFollows'
            BY <1>2 DEF FeedInvariant
          <5>2. client' \in [at : {"hydrate", "broken", "live", "halted"}, position : Nat, from : Nat,
                             got : Seq(Events), resyncs : {0}]
            BY <5>1 DEF StreamFollows
          <5> QED
            BY <5>1, <5>2 DEF StreamFollows
        <4>2. CASE Poll
          <5>1. \/ client' = [client EXCEPT !.at = "hydrate", !.resyncs = 1]
                \/ client' = client /\ client.at = "live"
            BY <4>2 DEF Poll
          <5>2. ASSUME client' = [client EXCEPT !.at = "hydrate", !.resyncs = 1]
                PROVE  FALSE
            <6>1. client'.resyncs = 1
              BY <4>1, <5>2
            <6> QED
              BY <4>1, <6>1
          <5>3. client' = client /\ client.at = "live"
            BY <5>1, <5>2
          <5> QED
            BY <5>3
        <4>3. CASE Connect \/ Drop
          BY <4>1, <4>3 DEF Connect, Drop
        <4> QED
          BY <2>5, <4>2, <4>3
      <3> QED
        BY <3>1, <3>2 DEF Log!logVars
    <2>6. CASE Halt \/ Reopen
      BY <1>2, <2>6, HaltStops DEF FeedInvariant, Log!Next
    <2>7. CASE UNCHANGED <<chain, checkpoint, client>>
      BY <2>7 DEF Log!logVars
    <2>8. \/ \E w \in Writers : Commit(w)
          \/ \E r \in Refreshers : SaveCheckpoint(r)
          \/ Hydrate \/ Receive \/ Connect \/ Poll \/ Drop \/ Halt \/ Reopen
          \/ UNCHANGED <<chain, checkpoint, client>>
      BY <1>2 DEF FeedNext, Begin, AddEvent, Rollback, Refresh, CheckHead, ReadState, ReadPosition,
             RefresherDies, AskStatus, AnswerStatus, FollowStream, vars, store, projections, feed
    <2> QED
      BY <2>1, <2>2, <2>3, <2>4, <2>5, <2>6, <2>7, <2>8
  <1> QED
    BY <1>1, <1>2, FeedInvariantHolds, UnsavedHolds, PTL DEF FeedSpec, KeepsLog, Log!Spec
=============================================================================
