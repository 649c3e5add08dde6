----------------------- MODULE CapabilityEconomyProofs -----------------------
(***************************************************************************)
(* Proofs about capability calls and their money.                          *)
(*                                                                         *)
(* Calls: CallInvariant is inductive, so a key buys one effect, a refused  *)
(* call never acts, and an answer never overtakes the money.  The argument *)
(* rests on one observation, OnlyItself: once a call has its row, every    *)
(* step of it changes nothing of another call, and the ledger entries it   *)
(* adds carry its own reference, which is nobody else's.  So each step     *)
(* only has to be checked for the call that takes it.  Claiming a key and  *)
(* being denied are the two steps that create a row; they are where        *)
(* uniqueness comes from.                                                  *)
(*                                                                         *)
(* Capital: a sum of stakes is the number of their units (SumOf), so a     *)
(* step that moves one call's stake moves the sums by it (StakesMove), as  *)
(* the projection moves the accumulators (AccountsKept); this goes by the  *)
(* order a call's entries come in (OrderlyKeeps).                          *)
(*                                                                         *)
(* Solvency: only passing the gates puts a stake at risk without taking it *)
(* from what is available (Covered).  A gate reads a NAV from which losses *)
(* just settled are missing; these are at most one stake of each other     *)
(* call in progress, and the structural reserve covers them (GateCovers).  *)
(***************************************************************************)
EXTENDS CapabilityEconomy, FiniteSetTheorems, TLAPS

(* A step of call c, seen from outside. *)
StepOf(c) ==
  /\ intent' = intent
  /\ row[c] # "NONE"
  /\ row'[c] # "NONE"
  /\ \A d \in Calls \ {c} :
       /\ pc'[d] = pc[d]
       /\ row'[d] = row[d]
       /\ acted'[d] = acted[d]
       /\ outcome'[d] = outcome[d]
       /\ answer'[d] = answer[d]
  /\ entries \subseteq entries'
  /\ \A e \in entries' : e \in entries \/ e.ref \in {Ref(c), SuspensionRef}

(* What c itself still owes its caller. *)
KeepsAnswer(c) ==
  /\ answer'[c] = "ok" => answer[c] = "ok" \/ Performed(c)'
  /\ row[c] = "SUCCEEDED" => Performed(c)'

-----------------------------------------------------------------------------
(* References. *)

(* Two calls that both have a row have different references: unequal keys, *)
(* or a key and an id, or two ids.                                         *)
LEMMA RefsDiffer ==
  ASSUME NameAssumption, EconomyTypeOK, KeysUnique,
         NEW c \in Calls, NEW d \in Calls, c # d, row[c] # "NONE", row[d] # "NONE"
  PROVE  Ref(c) # Ref(d) /\ Ref(c) # SuspensionRef /\ Ref(d) # SuspensionRef
BY DEF NameAssumption, EconomyTypeOK, KeysUnique, IntentType, Ref, SuspensionRef

(* A call's reference is one. *)
LEMMA RefType ==
  ASSUME EconomyTypeOK, NEW c \in Calls
  PROVE  Ref(c) \in Refs /\ SuspensionRef \in Refs
BY DEF EconomyTypeOK, IntentType, Ref, Refs

-----------------------------------------------------------------------------
(* The ledger. *)

(* One more entry leaves the accumulators well typed. *)
LEMMA MovedType ==
  ASSUME books \in BooksType, NEW type \in EntryTypes, NEW amount \in Nat, NEW ref \in Refs
  PROVE  Moved(books, type, amount, ref) \in BooksType
<1>1. \A a, b \in Nat : Less(a, b) \in Nat
  BY DEF Less
<1>a. /\ Less(books.reserved, amount) \in Nat
      /\ Less(books.committed, amount) \in Nat
      /\ Less(books.settling, amount) \in Nat
      /\ books.unresolved \cup {ref} \in SUBSET Refs
  BY <1>1 DEF BooksType
<1>2. CASE type = "RESERVE"
  <2>1. Moved(books, type, amount, ref) = [books EXCEPT !.reserved = @ + amount]
    BY <1>2 DEF Moved
  <2> QED
    BY <2>1 DEF BooksType
<1>3. CASE type = "COMMIT"
  <2> DEFINE half == [books EXCEPT !.reserved = Less(@, amount)]
  <2>1. half \in BooksType
    BY <1>a DEF BooksType
  <2>2. Moved(books, type, amount, ref) = [half EXCEPT !.committed = @ + amount]
    BY <1>3 DEF Moved, BooksType
  <2> HIDE DEF half
  <2> QED
    BY <2>1, <2>2 DEF BooksType
<1>4. CASE type = "SETTLING"
  <2> DEFINE half == [books EXCEPT !.committed = Less(@, amount)]
  <2>1. half \in BooksType
    BY <1>a DEF BooksType
  <2>2. Moved(books, type, amount, ref) = [half EXCEPT !.settling = @ + amount]
    BY <1>4 DEF Moved, BooksType
  <2> HIDE DEF half
  <2> QED
    BY <2>1, <2>2 DEF BooksType
<1>5. CASE type = "SETTLE"
  <2>1. Moved(books, type, amount, ref) = [books EXCEPT !.settling = Less(@, amount)]
    BY <1>5 DEF Moved
  <2> QED
    BY <2>1, <1>a DEF BooksType
<1>6. CASE type = "PROFIT"
  <2>1. Moved(books, type, amount, ref) = [books EXCEPT !.nav = @ + amount]
    BY <1>6 DEF Moved
  <2> QED
    BY <2>1 DEF BooksType
<1>7. CASE type = "LOSS"
  <2> DEFINE half == [books EXCEPT !.nav = @ - amount]
  <2>1. half \in BooksType
    BY <1>a DEF BooksType
  <2>2. Moved(books, type, amount, ref) = [half EXCEPT !.todayLoss = @ + amount]
    BY <1>7 DEF Moved, BooksType
  <2> HIDE DEF half
  <2> QED
    BY <2>1, <2>2 DEF BooksType
<1>8. CASE type = "UNKNOWN"
  <2>1. Moved(books, type, amount, ref) = [books EXCEPT !.unresolved = @ \cup {ref}]
    BY <1>8 DEF Moved
  <2> QED
    BY <2>1, <1>a DEF BooksType
<1>9. CASE type = "RECONCILED"
  <2> DEFINE half == [books EXCEPT !.settling = Less(@, amount)]
  <2>1. half \in BooksType
    BY <1>a DEF BooksType
  <2>2. Moved(books, type, amount, ref) = [half EXCEPT !.unresolved = @ \ {ref}]
    BY <1>9 DEF Moved, BooksType
  <2> HIDE DEF half
  <2> QED
    BY <2>1, <2>2 DEF BooksType
<1>10. CASE type = "SUSPENSION"
  <2>1. Moved(books, type, amount, ref) = [books EXCEPT !.suspended = TRUE]
    BY <1>10 DEF Moved
  <2> QED
    BY <2>1 DEF BooksType
<1> QED
  BY <1>2, <1>3, <1>4, <1>5, <1>6, <1>7, <1>8, <1>9, <1>10 DEF EntryTypes

(* append_ledger_entry: the entry is there afterwards, and only that one is *)
(* new.                                                                     *)
LEMMA AppendPosts ==
  ASSUME EconomyTypeOK, NEW type \in EntryTypes, NEW amount \in Nat, NEW ref \in Refs,
         Append(type, amount, ref)
  PROVE  /\ entries' = entries \cup {Entry(type, ref)}
         /\ entries' \subseteq [type : EntryTypes, ref : Refs]
         /\ books' \in BooksType
<1>0. entries \subseteq [type : EntryTypes, ref : Refs] /\ books \in BooksType
  BY DEF EconomyTypeOK
<1>1. CASE Entry(type, ref) \in entries
  BY <1>0, <1>1 DEF Append, ledgerVars
<1>2. CASE Entry(type, ref) \notin entries
  <2>1. Moved(books, type, amount, ref) \in BooksType
    BY <1>0, MovedType
  <2>2. Posted(books, type, amount, ref) \in BooksType
    BY <2>1 DEF Posted, BooksType
  <2>3. Entry(type, ref) \in [type : EntryTypes, ref : Refs]
    BY DEF Entry
  <2> QED
    BY <1>0, <1>2, <2>2, <2>3 DEF Append
<1> QED
  BY <1>1, <1>2

(* The same for an entry of the call's own stake. *)
LEMMA OwnAppendPosts ==
  ASSUME EconomyTypeOK, NEW c \in Calls, NEW type \in EntryTypes, AppendOwn(type, c)
  PROVE  /\ entries' = entries \cup {Entry(type, Ref(c))}
         /\ entries' \subseteq [type : EntryTypes, ref : Refs]
         /\ books' \in BooksType
<1>1. intent[c].amount \in Nat
  BY DEF EconomyTypeOK, IntentType
<1>2. Ref(c) \in Refs
  BY RefType
<1> QED
  BY <1>1, <1>2, AppendPosts DEF AppendOwn

-----------------------------------------------------------------------------
(* What one call does leaves every other call where it was. *)

(* Settled and Performed are kept by anything that only adds entries. *)
LEMMA SettledLasts ==
  ASSUME NEW d \in Calls, intent' = intent, outcome'[d] = outcome[d],
         entries \subseteq entries', Settled(d)
  PROVE  Settled(d)'
BY DEF Settled, Recorded, Ref, Entry

(* A step of c can only break what is said of c. *)
LEMMA OnlyItself ==
  ASSUME NameAssumption, CallInvariant, NEW c \in Calls, StepOf(c),
         EconomyTypeOK', OnTrack(c)', Placed(c)', Followed(c)', KeepsAnswer(c)
  PROVE  CallInvariant'
<1>0. /\ EconomyTypeOK /\ KeysUnique /\ CallsOnTrack /\ EntriesOwned
      /\ StakePlaced /\ MoneyFollows /\ AnsweredMeansSettled
  BY DEF CallInvariant
<1>1. \A d \in Calls : row'[d] # "NONE" <=> row[d] # "NONE"
  BY DEF StepOf
<1>2. KeysUnique'
  BY <1>0, <1>1 DEF KeysUnique, StepOf
<1>3. CallsOnTrack'
  <2> SUFFICES ASSUME NEW d \in Calls \ {c} PROVE OnTrack(d)'
    BY DEF CallsOnTrack
  <2>1. OnTrack(d)
    BY <1>0 DEF CallsOnTrack
  <2> QED
    BY <2>1 DEF OnTrack, StepOf
<1>4. EntriesOwned'
  <2> SUFFICES ASSUME NEW e \in entries', e.ref # SuspensionRef
               PROVE  \E d \in Calls : row'[d] # "NONE" /\ Ref(d)' = e.ref
    BY DEF EntriesOwned, SuspensionRef
  <2>1. \A d \in Calls : Ref(d)' = Ref(d)
    BY DEF Ref, StepOf
  <2>2. CASE e \in entries
    BY <1>0, <1>1, <2>1, <2>2 DEF EntriesOwned
  <2>3. CASE e.ref = Ref(c)
    BY <2>1, <2>3 DEF StepOf
  <2> QED
    BY <2>2, <2>3 DEF StepOf
<1>5. StakePlaced'
  <2> SUFFICES ASSUME NEW d \in Calls \ {c}, row[d] # "NONE" PROVE Placed(d)'
    BY <1>1 DEF StakePlaced, Placed
  <2>1. Ref(c) # Ref(d) /\ Ref(d) # SuspensionRef
    BY <1>0, RefsDiffer DEF StepOf
  <2>2. Placed(d)
    BY <1>0 DEF StakePlaced
  <2>3. Ref(d)' = Ref(d)
    BY DEF Ref, StepOf
  <2>4. ASSUME NEW type PROVE Entry(type, Ref(d)) \in entries' => Entry(type, Ref(d)) \in entries
    BY <2>1 DEF StepOf, Entry
  <2>5. Recorded("SETTLING", d)' => Recorded("SETTLING", d)
    BY <2>3, <2>4 DEF Recorded, Entry
  <2>6. Recorded("SETTLE", d)' => Recorded("SETTLE", d)
    BY <2>3, <2>4 DEF Recorded, Entry
  <2> QED
    BY <2>2, <2>5, <2>6 DEF Placed, StepOf
<1>6. MoneyFollows'
  <2> SUFFICES ASSUME NEW d \in Calls \ {c} PROVE Followed(d)'
    BY DEF MoneyFollows
  <2>1. Followed(d)
    BY <1>0 DEF MoneyFollows
  <2>2. Settled(d) => Settled(d)'
    BY SettledLasts DEF StepOf
  <2>3. Recorded("SETTLE", d) => Recorded("SETTLE", d)'
    BY DEF Recorded, Ref, Entry, StepOf
  <2>4. Recorded("LOSS", d) => Recorded("LOSS", d)'
    BY DEF Recorded, Ref, Entry, StepOf
  <2> QED
    BY <2>1, <2>2, <2>3, <2>4 DEF Followed, StepOf
<1>7. AnsweredMeansSettled'
  <2>1. ASSUME NEW d \in Calls, Performed(d) PROVE Performed(d)'
    <3>1. CASE d = c
      BY <2>1, <3>1 DEF KeepsAnswer, Performed
    <3>2. CASE d # c
      <4>1. Settled(d)'
        BY <2>1, <3>2, SettledLasts DEF StepOf, Performed
      <4> QED
        BY <2>1, <3>2, <4>1 DEF StepOf, Performed
    <3> QED
      BY <3>1, <3>2
  <2> SUFFICES ASSUME NEW a \in Calls, answer'[a] = "ok"
               PROVE  \E d \in Calls : SameEffect(a, d)' /\ Performed(d)'
    BY DEF AnsweredMeansSettled
  <2>2. CASE answer[a] = "ok"
    <3>1. PICK d \in Calls : SameEffect(a, d) /\ Performed(d)
      BY <1>0, <2>2 DEF AnsweredMeansSettled
    <3>2. SameEffect(a, d)'
      BY <3>1 DEF SameEffect, StepOf
    <3> QED
      BY <2>1, <3>1, <3>2
  <2>3. CASE answer[a] # "ok"
    <3>1. a = c /\ Performed(c)'
      BY <2>3 DEF StepOf, KeepsAnswer
    <3> QED
      BY <3>1 DEF SameEffect
  <2> QED
    BY <2>2, <2>3
<1> QED
  BY <1>2, <1>3, <1>4, <1>5, <1>6, <1>7 DEF CallInvariant

-----------------------------------------------------------------------------
(* The steps of a call that has its row. *)

(* The gates admit or refuse; only the lock and the place of c change. *)
LEMMA CheckReserveKeeps ==
  ASSUME NameAssumption, CallInvariant, NEW c \in Calls, CheckReserve(c)
  PROVE  CallInvariant'
<1>0. EconomyTypeOK /\ OnTrack(c) /\ Placed(c) /\ Followed(c)
  BY DEF CallInvariant, CallsOnTrack, StakePlaced, MoneyFollows
<1>1. /\ row[c] = "AUTHORIZED"
      /\ row' \in [Calls -> RowStatus]
      /\ row'[c] # "NONE"
      /\ pc' \in [Calls -> Steps]
  BY <1>0
  DEF CheckReserve, EconomyTypeOK, Steps, Preparing, Settling, Stopped, RowStatus,
      OutcomeType, OnTrack, Goto
<1>2. StepOf(c)
  BY <1>0, <1>1 DEF CheckReserve, StepOf, ledgerVars, callVars, EconomyTypeOK, Goto
<1>3. EconomyTypeOK'
  BY <1>0, <1>1
  DEF CheckReserve, EconomyTypeOK, Steps, Preparing, Settling, Stopped, RowStatus,
      OutcomeType, ledgerVars, Goto
<1>4. OnTrack(c)'
  BY <1>0, <1>1
  DEF CheckReserve, OnTrack, Steps, Preparing, Settling, Stopped, EconomyTypeOK, Goto
<1>5. Placed(c)'
  BY <1>0, <1>1
  DEF CheckReserve, Placed, Recorded, Ref, OnTrack, Steps, Preparing, Settling, Stopped,
      EconomyTypeOK, ledgerVars, Goto
<1>6. Followed(c)'
  BY <1>0, <1>1
  DEF CheckReserve, Followed, Settled, Recorded, Ref, OnTrack, Steps, Preparing, Settling,
      Stopped, EconomyTypeOK, ledgerVars, Goto
<1>7. KeepsAnswer(c)
  BY <1>0, <1>1
  DEF CheckReserve, KeepsAnswer, Performed, Settled, Followed, Recorded, Ref, OnTrack,
      Steps, Preparing, Settling, Stopped, EconomyTypeOK, ledgerVars, Goto
<1> QED
  BY <1>2, <1>3, <1>4, <1>5, <1>6, <1>7, OnlyItself

(* A broken-off preparation goes on to its refusal, before any effect. *)
LEMMA PrepareFailsKeeps ==
  ASSUME NameAssumption, CallInvariant, NEW c \in Calls, PrepareFails(c)
  PROVE  CallInvariant'
<1>0. EconomyTypeOK /\ OnTrack(c) /\ Placed(c) /\ Followed(c)
  BY DEF CallInvariant, CallsOnTrack, StakePlaced, MoneyFollows
<1>1. /\ row[c] = "AUTHORIZED"
      /\ row' \in [Calls -> RowStatus]
      /\ row'[c] # "NONE"
      /\ pc' \in [Calls -> Steps]
  BY <1>0
  DEF PrepareFails, EconomyTypeOK, Steps, Preparing, Settling, Stopped, RowStatus,
      OutcomeType, OnTrack, Goto
<1>2. StepOf(c)
  BY <1>0, <1>1 DEF PrepareFails, StepOf, ledgerVars, callVars, EconomyTypeOK, Goto
<1>3. EconomyTypeOK'
  BY <1>0, <1>1
  DEF PrepareFails, EconomyTypeOK, Steps, Preparing, Settling, Stopped, RowStatus,
      OutcomeType, ledgerVars, Goto
<1>4. OnTrack(c)'
  BY <1>0, <1>1
  DEF PrepareFails, OnTrack, Steps, Preparing, Settling, Stopped, EconomyTypeOK, Goto
<1>5. Placed(c)'
  BY <1>0, <1>1
  DEF PrepareFails, Placed, Recorded, Ref, OnTrack, Steps, Preparing, Settling, Stopped,
      EconomyTypeOK, ledgerVars, Goto
<1>6. Followed(c)'
  BY <1>0, <1>1
  DEF PrepareFails, Followed, Settled, Recorded, Ref, OnTrack, Steps, Preparing, Settling,
      Stopped, EconomyTypeOK, ledgerVars, Goto
<1>7. KeepsAnswer(c)
  BY <1>0, <1>1
  DEF PrepareFails, KeepsAnswer, Performed, Settled, Followed, Recorded, Ref, OnTrack,
      Steps, Preparing, Settling, Stopped, EconomyTypeOK, ledgerVars, Goto
<1> QED
  BY <1>2, <1>3, <1>4, <1>5, <1>6, <1>7, OnlyItself

(* The refusal is recorded while nothing of c is in settling. *)
LEMMA RefuseKeeps ==
  ASSUME NameAssumption, CallInvariant, NEW c \in Calls, Refuse(c)
  PROVE  CallInvariant'
<1>0. EconomyTypeOK /\ OnTrack(c) /\ Placed(c) /\ Followed(c)
  BY DEF CallInvariant, CallsOnTrack, StakePlaced, MoneyFollows
<1>1. /\ row[c] = "AUTHORIZED"
      /\ row' \in [Calls -> RowStatus]
      /\ row'[c] # "NONE"
      /\ pc' \in [Calls -> Steps]
  BY <1>0
  DEF Refuse, EconomyTypeOK, Steps, Preparing, Settling, Stopped, RowStatus, OutcomeType,
      OnTrack, End
<1>2. StepOf(c)
  BY <1>0, <1>1 DEF Refuse, StepOf, ledgerVars, callVars, EconomyTypeOK, End
<1>3. EconomyTypeOK'
  BY <1>0, <1>1
  DEF Refuse, EconomyTypeOK, Steps, Preparing, Settling, Stopped, RowStatus, OutcomeType,
      ledgerVars, End
<1>4. OnTrack(c)'
  BY <1>0, <1>1 DEF Refuse, OnTrack, Steps, Preparing, Settling, Stopped, EconomyTypeOK, End
<1>5. Placed(c)'
  BY <1>0, <1>1
  DEF Refuse, Placed, Recorded, Ref, OnTrack, Steps, Preparing, Settling, Stopped,
      EconomyTypeOK, ledgerVars, End
<1>6. Followed(c)'
  BY <1>0, <1>1
  DEF Refuse, Followed, Settled, Recorded, Ref, OnTrack, Steps, Preparing, Settling,
      Stopped, EconomyTypeOK, ledgerVars, End
<1>7. KeepsAnswer(c)
  BY <1>0, <1>1
  DEF Refuse, KeepsAnswer, Performed, Settled, Followed, Recorded, Ref, OnTrack, Steps,
      Preparing, Settling, Stopped, EconomyTypeOK, ledgerVars, End
<1> QED
  BY <1>2, <1>3, <1>4, <1>5, <1>6, <1>7, OnlyItself

(* A refusal by the gateway counts as an exception: c has not acted. *)
LEMMA GatewayRefusesKeeps ==
  ASSUME NameAssumption, CallInvariant, NEW c \in Calls, GatewayRefuses(c)
  PROVE  CallInvariant'
<1>0. EconomyTypeOK /\ OnTrack(c) /\ Placed(c) /\ Followed(c)
  BY DEF CallInvariant, CallsOnTrack, StakePlaced, MoneyFollows
<1>1. /\ row[c] = "AUTHORIZED"
      /\ row' \in [Calls -> RowStatus]
      /\ row'[c] # "NONE"
      /\ pc' \in [Calls -> Steps]
  BY <1>0
  DEF GatewayRefuses, EconomyTypeOK, Steps, Preparing, Settling, Stopped, RowStatus,
      OutcomeType, OnTrack, Goto, AfterEffect
<1>2. StepOf(c)
  BY <1>0, <1>1
  DEF GatewayRefuses, StepOf, ledgerVars, callVars, EconomyTypeOK, Goto, AfterEffect
<1>3. EconomyTypeOK'
  BY <1>0, <1>1
  DEF GatewayRefuses, EconomyTypeOK, Steps, Preparing, Settling, Stopped, RowStatus,
      OutcomeType, ledgerVars, Goto, AfterEffect
<1>4. OnTrack(c)'
  BY <1>0, <1>1
  DEF GatewayRefuses, OnTrack, Steps, Preparing, Settling, Stopped, EconomyTypeOK, Goto,
      AfterEffect
<1>5. Placed(c)'
  BY <1>0, <1>1
  DEF GatewayRefuses, Placed, Recorded, Ref, OnTrack, Steps, Preparing, Settling, Stopped,
      EconomyTypeOK, ledgerVars, Goto, AfterEffect
<1>6. Followed(c)'
  BY <1>0, <1>1
  DEF GatewayRefuses, Followed, Settled, Recorded, Ref, OnTrack, Steps, Preparing, Settling,
      Stopped, EconomyTypeOK, ledgerVars, Goto, AfterEffect
<1>7. KeepsAnswer(c)
  BY <1>0, <1>1
  DEF GatewayRefuses, KeepsAnswer, Performed, Settled, Followed, Recorded, Ref, OnTrack,
      Steps, Preparing, Settling, Stopped, EconomyTypeOK, ledgerVars, Goto, AfterEffect
<1> QED
  BY <1>2, <1>3, <1>4, <1>5, <1>6, <1>7, OnlyItself

(* From here on c has acted, and its row stays AUTHORIZED meanwhile. *)
LEMMA InvokeKeeps ==
  ASSUME NameAssumption, CallInvariant, NEW c \in Calls, Invoke(c)
  PROVE  CallInvariant'
<1>0. EconomyTypeOK /\ OnTrack(c) /\ Placed(c) /\ Followed(c)
  BY DEF CallInvariant, CallsOnTrack, StakePlaced, MoneyFollows
<1>1. /\ row[c] = "AUTHORIZED"
      /\ row' \in [Calls -> RowStatus]
      /\ row'[c] # "NONE"
      /\ pc' \in [Calls -> Steps]
  BY <1>0
  DEF Invoke, EconomyTypeOK, Steps, Preparing, Settling, Stopped, RowStatus, OutcomeType,
      OnTrack, Goto
<1>2. StepOf(c)
  BY <1>0, <1>1 DEF Invoke, StepOf, ledgerVars, callVars, EconomyTypeOK, Goto
<1>3. EconomyTypeOK'
  BY <1>0, <1>1
  DEF Invoke, EconomyTypeOK, Steps, Preparing, Settling, Stopped, RowStatus, OutcomeType,
      ledgerVars, Goto
<1>4. OnTrack(c)'
  BY <1>0, <1>1 DEF Invoke, OnTrack, Steps, Preparing, Settling, Stopped, EconomyTypeOK, Goto
<1>5. Placed(c)'
  BY <1>0, <1>1
  DEF Invoke, Placed, Recorded, Ref, OnTrack, Steps, Preparing, Settling, Stopped,
      EconomyTypeOK, ledgerVars, Goto
<1>6. Followed(c)'
  BY <1>0, <1>1
  DEF Invoke, Followed, Settled, Recorded, Ref, OnTrack, Steps, Preparing, Settling,
      Stopped, EconomyTypeOK, ledgerVars, Goto
<1>7. KeepsAnswer(c)
  BY <1>0, <1>1
  DEF Invoke, KeepsAnswer, Performed, Settled, Followed, Recorded, Ref, OnTrack, Steps,
      Preparing, Settling, Stopped, EconomyTypeOK, ledgerVars, Goto
<1> QED
  BY <1>2, <1>3, <1>4, <1>5, <1>6, <1>7, OnlyItself

(* An "ok" outcome comes only from an adapter that ran. *)
LEMMA ReturnKeeps ==
  ASSUME NameAssumption, PnlAssumption, CallInvariant, NEW c \in Calls, Return(c)
  PROVE  CallInvariant'
<1>0. EconomyTypeOK /\ OnTrack(c) /\ Placed(c) /\ Followed(c)
  BY DEF CallInvariant, CallsOnTrack, StakePlaced, MoneyFollows
<1>1. /\ row[c] = "AUTHORIZED"
      /\ row' \in [Calls -> RowStatus]
      /\ row'[c] # "NONE"
      /\ pc' \in [Calls -> Steps]
  BY <1>0
  DEF Return, EconomyTypeOK, Steps, Preparing, Settling, Stopped, RowStatus, OutcomeType,
      OnTrack, Goto, AfterEffect
<1>2. StepOf(c)
  BY <1>0, <1>1 DEF Return, StepOf, ledgerVars, callVars, EconomyTypeOK, Goto, AfterEffect
<1>3. EconomyTypeOK'
  BY <1>0, <1>1, PnlAssumption
  DEF Return, EconomyTypeOK, Steps, Preparing, Settling, Stopped, RowStatus, OutcomeType,
      ledgerVars, Goto, AfterEffect, PnlAssumption
<1>4. OnTrack(c)'
  BY <1>0, <1>1
  DEF Return, OnTrack, Steps, Preparing, Settling, Stopped, EconomyTypeOK, Goto, AfterEffect
<1>5. Placed(c)'
  BY <1>0, <1>1
  DEF Return, Placed, Recorded, Ref, OnTrack, Steps, Preparing, Settling, Stopped,
      EconomyTypeOK, ledgerVars, Goto, AfterEffect
<1>6. Followed(c)'
  BY <1>0, <1>1
  DEF Return, Followed, Settled, Recorded, Ref, OnTrack, Steps, Preparing, Settling,
      Stopped, EconomyTypeOK, ledgerVars, Goto, AfterEffect
<1>7. KeepsAnswer(c)
  BY <1>0, <1>1
  DEF Return, KeepsAnswer, Performed, Settled, Followed, Recorded, Ref, OnTrack, Steps,
      Preparing, Settling, Stopped, EconomyTypeOK, ledgerVars, Goto, AfterEffect
<1> QED
  BY <1>2, <1>3, <1>4, <1>5, <1>6, <1>7, OnlyItself

(* A dead call owes nothing more and keeps its row. *)
LEMMA AbandonKeeps ==
  ASSUME NameAssumption, CallInvariant, NEW c \in Calls, Abandon(c)
  PROVE  CallInvariant'
<1>0. EconomyTypeOK /\ OnTrack(c) /\ Placed(c) /\ Followed(c)
  BY DEF CallInvariant, CallsOnTrack, StakePlaced, MoneyFollows
<1>1. /\ row[c] = "AUTHORIZED"
      /\ row' \in [Calls -> RowStatus]
      /\ row'[c] # "NONE"
      /\ pc' \in [Calls -> Steps]
  BY <1>0
  DEF Abandon, EconomyTypeOK, Steps, Preparing, Settling, Stopped, RowStatus, OutcomeType,
      OnTrack, Goto
<1>2. StepOf(c)
  BY <1>0, <1>1 DEF Abandon, StepOf, ledgerVars, callVars, EconomyTypeOK, Goto
<1>3. EconomyTypeOK'
  BY <1>0, <1>1
  DEF Abandon, EconomyTypeOK, Steps, Preparing, Settling, Stopped, RowStatus, OutcomeType,
      ledgerVars, Goto
<1>4. OnTrack(c)'
  BY <1>0, <1>1 DEF Abandon, OnTrack, Steps, Preparing, Settling, Stopped, EconomyTypeOK, Goto
<1>5. Placed(c)'
  BY <1>0, <1>1
  DEF Abandon, Placed, Recorded, Ref, OnTrack, Steps, Preparing, Settling, Stopped,
      EconomyTypeOK, ledgerVars, Goto
<1>6. Followed(c)'
  BY <1>0, <1>1
  DEF Abandon, Followed, Settled, Recorded, Ref, OnTrack, Steps, Preparing, Settling,
      Stopped, EconomyTypeOK, ledgerVars, Goto
<1>7. KeepsAnswer(c)
  BY <1>0, <1>1
  DEF Abandon, KeepsAnswer, Performed, Settled, Followed, Recorded, Ref, OnTrack, Steps,
      Preparing, Settling, Stopped, EconomyTypeOK, ledgerVars, Goto
<1> QED
  BY <1>2, <1>3, <1>4, <1>5, <1>6, <1>7, OnlyItself

(* Recovery rewrites the row of a dead call, never to SUCCEEDED. *)
LEMMA RecoverKeeps ==
  ASSUME NameAssumption, CallInvariant, NEW c \in Calls, Recover(c)
  PROVE  CallInvariant'
<1>0. EconomyTypeOK /\ OnTrack(c) /\ Placed(c) /\ Followed(c)
  BY DEF CallInvariant, CallsOnTrack, StakePlaced, MoneyFollows
<1>1. /\ row[c] = "AUTHORIZED"
      /\ row' \in [Calls -> RowStatus]
      /\ row'[c] # "NONE"
      /\ pc' \in [Calls -> Steps]
  BY <1>0
  DEF Recover, EconomyTypeOK, Steps, Preparing, Settling, Stopped, RowStatus, OutcomeType,
      OnTrack
<1>2. StepOf(c)
  BY <1>0, <1>1 DEF Recover, StepOf, ledgerVars, callVars, EconomyTypeOK
<1>3. EconomyTypeOK'
  BY <1>0, <1>1
  DEF Recover, EconomyTypeOK, Steps, Preparing, Settling, Stopped, RowStatus, OutcomeType,
      ledgerVars
<1>4. OnTrack(c)'
  BY <1>0, <1>1 DEF Recover, OnTrack, Steps, Preparing, Settling, Stopped, EconomyTypeOK
<1>5. Placed(c)'
  BY <1>0, <1>1
  DEF Recover, Placed, Recorded, Ref, OnTrack, Steps, Preparing, Settling, Stopped,
      EconomyTypeOK, ledgerVars
<1>6. Followed(c)'
  BY <1>0, <1>1
  DEF Recover, Followed, Settled, Recorded, Ref, OnTrack, Steps, Preparing, Settling,
      Stopped, EconomyTypeOK, ledgerVars
<1>7. KeepsAnswer(c)
  BY <1>0, <1>1
  DEF Recover, KeepsAnswer, Performed, Settled, Followed, Recorded, Ref, OnTrack, Steps,
      Preparing, Settling, Stopped, EconomyTypeOK, ledgerVars
<1> QED
  BY <1>2, <1>3, <1>4, <1>5, <1>6, <1>7, OnlyItself

-----------------------------------------------------------------------------
(* The steps that write the ledger. *)

(* The first entry of the stake. *)
LEMMA AppendReserveKeeps ==
  ASSUME NameAssumption, CallInvariant, NEW c \in Calls, AppendReserve(c)
  PROVE  CallInvariant'
<1>0. EconomyTypeOK /\ OnTrack(c) /\ Placed(c) /\ Followed(c)
  BY DEF CallInvariant, CallsOnTrack, StakePlaced, MoneyFollows
<1>1. /\ entries' = entries \cup {Entry("RESERVE", Ref(c))}
      /\ entries' \subseteq [type : EntryTypes, ref : Refs]
      /\ books' \in BooksType
  BY <1>0, OwnAppendPosts DEF AppendReserve, EntryTypes
<1>2. StepOf(c)
  BY <1>0, <1>1
  DEF AppendReserve, StepOf, callVars, OnTrack, Steps, Preparing, Settling, Stopped,
      EconomyTypeOK, Entry, Goto
<1>3. EconomyTypeOK'
  BY <1>0, <1>1
  DEF AppendReserve, EconomyTypeOK, Steps, Preparing, Settling, Stopped, RowStatus,
      OutcomeType, callVars, Goto
<1>4. OnTrack(c)'
  BY <1>0
  DEF AppendReserve, callVars, OnTrack, Steps, Preparing, Settling, Stopped, EconomyTypeOK,
      Goto
<1>5. Placed(c)'
  BY <1>0, <1>1
  DEF AppendReserve, callVars, Placed, Recorded, Entry, Ref, OnTrack, Steps, Preparing,
      Settling, Stopped, EconomyTypeOK, Goto
<1>6. Followed(c)'
  BY <1>0, <1>1
  DEF AppendReserve, callVars, Followed, Settled, Recorded, Entry, Ref, OnTrack, Steps,
      Preparing, Settling, Stopped, EconomyTypeOK, Goto
<1>7. KeepsAnswer(c)
  BY <1>0, <1>6
  DEF AppendReserve, callVars, KeepsAnswer, Performed, Followed, OnTrack, Steps, Preparing,
      Settling, Stopped, EconomyTypeOK, Goto
<1> QED
  BY <1>2, <1>3, <1>4, <1>5, <1>6, <1>7, OnlyItself

(* The second one. *)
LEMMA AppendCommitKeeps ==
  ASSUME NameAssumption, CallInvariant, NEW c \in Calls, AppendCommit(c)
  PROVE  CallInvariant'
<1>0. EconomyTypeOK /\ OnTrack(c) /\ Placed(c) /\ Followed(c)
  BY DEF CallInvariant, CallsOnTrack, StakePlaced, MoneyFollows
<1>1. /\ entries' = entries \cup {Entry("COMMIT", Ref(c))}
      /\ entries' \subseteq [type : EntryTypes, ref : Refs]
      /\ books' \in BooksType
  BY <1>0, OwnAppendPosts DEF AppendCommit, EntryTypes
<1>2. StepOf(c)
  BY <1>0, <1>1
  DEF AppendCommit, StepOf, callVars, OnTrack, Steps, Preparing, Settling, Stopped,
      EconomyTypeOK, Entry, Goto
<1>3. EconomyTypeOK'
  BY <1>0, <1>1
  DEF AppendCommit, EconomyTypeOK, Steps, Preparing, Settling, Stopped, RowStatus,
      OutcomeType, callVars, Goto
<1>4. OnTrack(c)'
  BY <1>0
  DEF AppendCommit, callVars, OnTrack, Steps, Preparing, Settling, Stopped, EconomyTypeOK,
      Goto
<1>5. Placed(c)'
  BY <1>0, <1>1
  DEF AppendCommit, callVars, Placed, Recorded, Entry, Ref, OnTrack, Steps, Preparing,
      Settling, Stopped, EconomyTypeOK, Goto
<1>6. Followed(c)'
  BY <1>0, <1>1
  DEF AppendCommit, callVars, Followed, Settled, Recorded, Entry, Ref, OnTrack, Steps,
      Preparing, Settling, Stopped, EconomyTypeOK, Goto
<1>7. KeepsAnswer(c)
  BY <1>0, <1>6
  DEF AppendCommit, callVars, KeepsAnswer, Performed, Followed, OnTrack, Steps, Preparing,
      Settling, Stopped, EconomyTypeOK, Goto
<1> QED
  BY <1>2, <1>3, <1>4, <1>5, <1>6, <1>7, OnlyItself

(* The third one, after which c is past its preparation. *)
LEMMA AppendSettlingKeeps ==
  ASSUME NameAssumption, CallInvariant, NEW c \in Calls, AppendSettling(c)
  PROVE  CallInvariant'
<1>0. EconomyTypeOK /\ OnTrack(c) /\ Placed(c) /\ Followed(c)
  BY DEF CallInvariant, CallsOnTrack, StakePlaced, MoneyFollows
<1>1. /\ entries' = entries \cup {Entry("SETTLING", Ref(c))}
      /\ entries' \subseteq [type : EntryTypes, ref : Refs]
      /\ books' \in BooksType
  BY <1>0, OwnAppendPosts DEF AppendSettling, EntryTypes
<1>2. StepOf(c)
  BY <1>0, <1>1
  DEF AppendSettling, StepOf, callVars, OnTrack, Steps, Preparing, Settling, Stopped,
      EconomyTypeOK, Entry, Goto
<1>3. EconomyTypeOK'
  BY <1>0, <1>1
  DEF AppendSettling, EconomyTypeOK, Steps, Preparing, Settling, Stopped, RowStatus,
      OutcomeType, callVars, Goto
<1>4. OnTrack(c)'
  BY <1>0
  DEF AppendSettling, callVars, OnTrack, Steps, Preparing, Settling, Stopped, EconomyTypeOK,
      Goto
<1>5. Placed(c)'
  BY <1>0, <1>1
  DEF AppendSettling, callVars, Placed, Recorded, Entry, Ref, OnTrack, Steps, Preparing,
      Settling, Stopped, EconomyTypeOK, Goto
<1>6. Followed(c)'
  BY <1>0, <1>1
  DEF AppendSettling, callVars, Followed, Settled, Recorded, Entry, Ref, OnTrack, Steps,
      Preparing, Settling, Stopped, EconomyTypeOK, Goto
<1>7. KeepsAnswer(c)
  BY <1>0, <1>6
  DEF AppendSettling, callVars, KeepsAnswer, Performed, Followed, OnTrack, Steps, Preparing,
      Settling, Stopped, EconomyTypeOK, Goto
<1> QED
  BY <1>2, <1>3, <1>4, <1>5, <1>6, <1>7, OnlyItself

(* A hand-made entry moves no call. *)
LEMMA ReconcileKeeps ==
  ASSUME NameAssumption, CallInvariant, NEW c \in Calls, Reconcile(c)
  PROVE  CallInvariant'
<1>0. EconomyTypeOK /\ OnTrack(c) /\ Placed(c) /\ Followed(c)
  BY DEF CallInvariant, CallsOnTrack, StakePlaced, MoneyFollows
<1>1. /\ entries' = entries \cup {Entry("RECONCILED", Ref(c))}
      /\ entries' \subseteq [type : EntryTypes, ref : Refs]
      /\ books' \in BooksType
  BY <1>0, OwnAppendPosts DEF Reconcile, EntryTypes
<1>2. StepOf(c)
  BY <1>0, <1>1
  DEF Reconcile, StepOf, callVars, OnTrack, Steps, Preparing, Settling, Stopped,
      EconomyTypeOK, Entry
<1>3. EconomyTypeOK'
  BY <1>0, <1>1
  DEF Reconcile, EconomyTypeOK, Steps, Preparing, Settling, Stopped, RowStatus, OutcomeType,
      callVars
<1>4. OnTrack(c)'
  BY <1>0 DEF Reconcile, callVars, OnTrack, Steps, Preparing, Settling, Stopped, EconomyTypeOK
<1>5. Placed(c)'
  BY <1>0, <1>1
  DEF Reconcile, callVars, Placed, Recorded, Entry, Ref, OnTrack, Steps, Preparing,
      Settling, Stopped, EconomyTypeOK
<1>6. Followed(c)'
  BY <1>0, <1>1
  DEF Reconcile, callVars, Followed, Settled, Recorded, Entry, Ref, OnTrack, Steps,
      Preparing, Settling, Stopped, EconomyTypeOK
<1>7. KeepsAnswer(c)
  BY <1>0, <1>6
  DEF Reconcile, callVars, KeepsAnswer, Performed, Followed, OnTrack, Steps, Preparing,
      Settling, Stopped, EconomyTypeOK
<1> QED
  BY <1>2, <1>3, <1>4, <1>5, <1>6, <1>7, OnlyItself

(* The stake is released or flagged; c is settled unless a profit or loss is still to be booked. *)
LEMMA SettleKeeps ==
  ASSUME NameAssumption, CallInvariant, NEW c \in Calls, Settle(c)
  PROVE  CallInvariant'
<1>0. EconomyTypeOK /\ OnTrack(c) /\ Placed(c) /\ Followed(c)
  BY DEF CallInvariant, CallsOnTrack, StakePlaced, MoneyFollows
<1>1. PICK type \in {"UNKNOWN", "SETTLE"} :
        /\ AppendOwn(type, c)
        /\ type = "UNKNOWN" => pc' = [pc EXCEPT ![c] = "finish"]
        /\ type = "SETTLE" =>
             \/ outcome[c].pnl = 0 /\ pc' = [pc EXCEPT ![c] = "finish"]
             \/ pc' = [pc EXCEPT ![c] = "pnl"]
  BY DEF Settle, Goto
<1>2. /\ entries' = entries \cup {Entry(type, Ref(c))}
      /\ entries' \subseteq [type : EntryTypes, ref : Refs]
      /\ books' \in BooksType
  BY <1>0, <1>1, OwnAppendPosts DEF EntryTypes
<1>3. pc[c] = "settle" /\ row[c] = "AUTHORIZED" /\ pc' \in [Calls -> Steps] /\ pc'[c] \in {"finish", "pnl"}
  BY <1>0, <1>1 DEF Settle, EconomyTypeOK, OnTrack, Steps, Settling, Stopped
<1>4. StepOf(c)
  BY <1>0, <1>1, <1>2, <1>3 DEF Settle, StepOf, EconomyTypeOK, Entry
<1>5. EconomyTypeOK'
  BY <1>0, <1>2, <1>3 DEF Settle, EconomyTypeOK
<1>6. OnTrack(c)'
  BY <1>0, <1>3 DEF Settle, OnTrack, Steps, Preparing, Settling, Stopped
<1>7. Placed(c)'
  BY <1>3 DEF Settle, Placed, Preparing
<1>8. Followed(c)'
  <2>1. Recorded(type, c)'
    BY <1>2 DEF Settle, Recorded, Ref
  <2>2. pc'[c] = "finish" => Settled(c)'
    BY <1>0, <1>1, <2>1 DEF Settle, Settled, EconomyTypeOK, OutcomeType
  <2>3. pc'[c] = "pnl" => Recorded("SETTLE", c)'
    BY <1>0, <1>1, <2>1 DEF EconomyTypeOK
  <2> QED
    BY <1>3, <2>2, <2>3 DEF Followed, Settle
<1>9. KeepsAnswer(c)
  BY <1>0, <1>3 DEF Settle, KeepsAnswer, OnTrack
<1> QED
  BY <1>4, <1>5, <1>6, <1>7, <1>8, <1>9, OnlyItself

(* The profit or loss is booked, which settles c. *)
LEMMA BookPnlKeeps ==
  ASSUME NameAssumption, CallInvariant, NEW c \in Calls, BookPnl(c)
  PROVE  CallInvariant'
<1>0. EconomyTypeOK /\ OnTrack(c) /\ Placed(c) /\ Followed(c)
  BY DEF CallInvariant, CallsOnTrack, StakePlaced, MoneyFollows
<1>1. PICK type \in {"PROFIT", "LOSS"}, amount \in Nat :
        /\ Append(type, amount, Ref(c))
        /\ type = "PROFIT" => outcome[c].pnl > 0 /\ pc' = [pc EXCEPT ![c] = "finish"]
        /\ type = "LOSS" => outcome[c].pnl <= 0 /\ pc' = [pc EXCEPT ![c] = "suspend"]
  <2>1. outcome[c].pnl \in Int
    BY <1>0 DEF EconomyTypeOK, OutcomeType
  <2>2. CASE outcome[c].pnl > 0
    BY <2>1, <2>2 DEF BookPnl, Goto
  <2>3. CASE ~(outcome[c].pnl > 0)
    BY <2>1, <2>3 DEF BookPnl, Goto
  <2> QED
    BY <2>2, <2>3
<1>2. /\ entries' = entries \cup {Entry(type, Ref(c))}
      /\ entries' \subseteq [type : EntryTypes, ref : Refs]
      /\ books' \in BooksType
  BY <1>0, <1>1, RefType, AppendPosts DEF EntryTypes
<1>3. pc[c] = "pnl" /\ row[c] = "AUTHORIZED" /\ pc' \in [Calls -> Steps] /\ pc'[c] \in {"finish", "suspend"}
  BY <1>0, <1>1 DEF BookPnl, EconomyTypeOK, OnTrack, Steps, Settling, Stopped
<1>4. StepOf(c)
  BY <1>0, <1>1, <1>2, <1>3 DEF BookPnl, StepOf, EconomyTypeOK, Entry
<1>5. EconomyTypeOK'
  BY <1>0, <1>2, <1>3 DEF BookPnl, EconomyTypeOK
<1>6. OnTrack(c)'
  BY <1>0, <1>3 DEF BookPnl, OnTrack, Steps, Preparing, Settling, Stopped
<1>7. Placed(c)'
  BY <1>3 DEF BookPnl, Placed, Preparing
<1>8. Followed(c)'
  <2>1. Recorded(type, c)' /\ Recorded("SETTLE", c)'
    BY <1>0, <1>2, <1>3 DEF BookPnl, Followed, Recorded, Ref
  <2>2. outcome'[c] = outcome[c] /\ outcome[c].pnl \in Int
    BY <1>0 DEF BookPnl, EconomyTypeOK, OutcomeType
  <2>3. CASE type = "PROFIT"
    <3>1. pc'[c] = "finish" /\ Settled(c)'
      BY <1>0, <1>1, <2>1, <2>2, <2>3 DEF Settled, EconomyTypeOK
    <3> QED
      BY <1>3, <3>1 DEF Followed, BookPnl
  <2>4. CASE type = "LOSS"
    <3>1. pc'[c] = "suspend" /\ Recorded("LOSS", c)' /\ outcome'[c].pnl <= 0
      BY <1>0, <1>1, <2>1, <2>2, <2>4 DEF EconomyTypeOK
    <3> QED
      BY <1>3, <2>1, <3>1 DEF Followed, BookPnl
  <2> QED
    BY <2>3, <2>4
<1>9. KeepsAnswer(c)
  BY <1>0, <1>3 DEF BookPnl, KeepsAnswer, OnTrack
<1> QED
  BY <1>4, <1>5, <1>6, <1>7, <1>8, <1>9, OnlyItself

(* The suspension entry belongs to no call, and c is settled already. *)
LEMMA EnsureSuspensionKeeps ==
  ASSUME NameAssumption, CallInvariant, NEW c \in Calls, EnsureSuspension(c)
  PROVE  CallInvariant'
<1>0. EconomyTypeOK /\ OnTrack(c) /\ Placed(c) /\ Followed(c)
  BY DEF CallInvariant, CallsOnTrack, StakePlaced, MoneyFollows
<1>1. /\ entries' \subseteq entries \cup {Entry("SUSPENSION", SuspensionRef)}
      /\ entries \subseteq entries'
      /\ entries' \subseteq [type : EntryTypes, ref : Refs]
      /\ books' \in BooksType
  <2>1. CASE Append("SUSPENSION", 0, SuspensionRef)
    BY <1>0, <2>1, RefType, AppendPosts DEF EntryTypes
  <2>2. CASE UNCHANGED ledgerVars
    BY <1>0, <2>2 DEF ledgerVars, EconomyTypeOK
  <2> QED
    BY <2>1, <2>2 DEF EnsureSuspension
<1>2. pc[c] = "suspend" /\ row[c] = "AUTHORIZED" /\ pc' = [pc EXCEPT ![c] = "finish"]
  BY <1>0 DEF EnsureSuspension, Goto, OnTrack, Stopped
<1>3. StepOf(c)
  BY <1>0, <1>1, <1>2 DEF EnsureSuspension, StepOf, EconomyTypeOK, Entry
<1>4. EconomyTypeOK'
  BY <1>0, <1>1, <1>2 DEF EnsureSuspension, EconomyTypeOK, Steps
<1>5. pc'[c] = "finish"
  BY <1>0, <1>2 DEF EconomyTypeOK
<1>6. OnTrack(c)'
  BY <1>0, <1>2, <1>5 DEF EnsureSuspension, OnTrack, Preparing, Settling, Stopped
<1>7. Placed(c)'
  BY <1>2, <1>5 DEF EnsureSuspension, Placed, Preparing
<1>8. Followed(c)'
  <2>1. Recorded("SETTLE", c)' /\ Recorded("LOSS", c)'
    BY <1>0, <1>1, <1>2 DEF EnsureSuspension, Followed, Recorded, Ref
  <2>2. outcome'[c].pnl <= 0 /\ outcome'[c].pnl \in Int
    BY <1>0, <1>2 DEF EnsureSuspension, Followed, EconomyTypeOK, OutcomeType
  <2>3. Settled(c)'
    BY <2>1, <2>2 DEF Settled
  <2> QED
    BY <1>2, <1>5, <2>3 DEF Followed, EnsureSuspension
<1>9. KeepsAnswer(c)
  BY <1>0, <1>2 DEF EnsureSuspension, KeepsAnswer, OnTrack
<1> QED
  BY <1>3, <1>4, <1>6, <1>7, <1>8, <1>9, OnlyItself

(* The row gets its final status once c is settled. *)
LEMMA FinishKeeps ==
  ASSUME NameAssumption, CallInvariant, NEW c \in Calls, Finish(c)
  PROVE  CallInvariant'
<1>0. EconomyTypeOK /\ OnTrack(c) /\ Placed(c) /\ Followed(c)
  BY DEF CallInvariant, CallsOnTrack, StakePlaced, MoneyFollows
<1>1. pc[c] = "finish" /\ row[c] = "AUTHORIZED" /\ outcome[c].kind \in {"raised", "notok", "ok"}
  BY <1>0 DEF Finish, OnTrack, EconomyTypeOK, OutcomeType, Settling, Stopped
<1>2. PICK status \in {"SUCCEEDED", "FAILED", "UNCERTAIN", "ABORTED"},
           reply \in {"ok", "notok", "error"} :
        /\ row' = [row EXCEPT ![c] = status]
        /\ pc' = [pc EXCEPT ![c] = "done"]
        /\ answer' = [answer EXCEPT ![c] = reply]
        /\ status = "SUCCEEDED" <=> outcome[c].kind = "ok"
        /\ reply = "ok" <=> outcome[c].kind = "ok"
  <2>1. CASE outcome[c].kind = "ok"
    BY <2>1 DEF Finish, End
  <2>2. CASE outcome[c].kind = "notok"
    BY <2>2 DEF Finish, End
  <2>3. CASE outcome[c].kind = "raised"
    BY <2>3 DEF Finish, End
  <2> QED
    BY <1>1, <2>1, <2>2, <2>3
<1>3. row'[c] = status /\ pc'[c] = "done" /\ answer'[c] = reply
  BY <1>0, <1>2 DEF EconomyTypeOK
<1>4. StepOf(c)
  BY <1>0, <1>1, <1>2, <1>3 DEF Finish, StepOf, EconomyTypeOK, ledgerVars
<1>5. EconomyTypeOK'
  BY <1>0, <1>2 DEF Finish, EconomyTypeOK, ledgerVars, RowStatus, Steps, Stopped
<1>6. OnTrack(c)'
  BY <1>0, <1>3 DEF Finish, OnTrack, Preparing, Settling, Stopped
<1>7. Placed(c)'
  BY <1>3 DEF Placed, Preparing
<1>8. Followed(c)'
  <2>1. Settled(c)'
    BY <1>0, <1>1 DEF Finish, Followed, Settled, Recorded, Ref, ledgerVars
  <2>2. status = "SUCCEEDED" => acted'[c]
    BY <1>0, <1>2 DEF Finish, OnTrack
  <2> QED
    BY <1>3, <2>1, <2>2 DEF Followed
<1>9. KeepsAnswer(c)
  BY <1>0, <1>1, <1>2, <1>3, <1>8 DEF KeepsAnswer, Performed, Followed
<1> QED
  BY <1>4, <1>5, <1>6, <1>7, <1>8, <1>9, OnlyItself

-----------------------------------------------------------------------------
(* The steps that create a row. *)

(* A reference without a row has no entries in the ledger. *)
LEMMA FreshRef ==
  ASSUME NameAssumption, EconomyTypeOK, EntriesOwned,
         NEW c \in Calls, row[c] = "NONE", NEW key \in Keys \cup {NoKey}, Claimants(key) = {},
         NEW type
  PROVE  Entry(type, IF key = NoKey THEN c ELSE key) \notin entries
<1> DEFINE ref == IF key = NoKey THEN c ELSE key
<1> SUFFICES ASSUME Entry(type, ref) \in entries PROVE FALSE
  OBVIOUS
<1>1. ref # SuspensionRef /\ Entry(type, ref).ref = ref
  BY DEF NameAssumption, SuspensionRef, Entry
<1>2. PICK d \in Calls : row[d] # "NONE" /\ Ref(d) = ref
  BY <1>1 DEF EntriesOwned
<1>3. intent[d].key \in Keys \cup {NoKey}
  BY DEF EconomyTypeOK, IntentType
<1>4. CASE key = NoKey
  BY <1>2, <1>3, <1>4 DEF NameAssumption, Ref
<1>5. CASE key # NoKey
  <2>1. key \in Keys /\ Ref(d) = key
    BY <1>2, <1>5
  <2>2. intent[d].key = key
    BY <1>3, <2>1 DEF NameAssumption, Ref
  <2> QED
    BY <1>2, <1>5, <2>2 DEF Claimants
<1> QED
  BY <1>4, <1>5

(* What a step that creates the row of c, or leaves it without one, has to *)
(* establish.                                                              *)
Enters(c, i) ==
  /\ i \in IntentType
  /\ pc[c] = "idle"
  /\ intent' = [intent EXCEPT ![c] = i]
  /\ \A d \in Calls \ {c} : pc'[d] = pc[d] /\ row'[d] = row[d] /\ answer'[d] = answer[d]
  /\ row'[c] \in {"NONE", "AUTHORIZED", "DENIED"}
  /\ row'[c] # "NONE" => Claimants(i.key) = {}
  /\ acted' = acted /\ outcome' = outcome /\ entries' = entries
  /\ pc'[c] \in {"done", "effect", "reserve"}
  /\ pc'[c] # "done" => row'[c] = "AUTHORIZED" /\ answer'[c] = "none"
  /\ pc'[c] = "effect" => i.amount = 0
  /\ answer'[c] = "ok" =>
       \E d \in Calls \ {c} : row[d] = "SUCCEEDED" /\ intent[d].key = i.key /\ i.key # NoKey

(* A new row has a key of its own and a reference without entries. *)
LEMMA EntersKeeps ==
  ASSUME NameAssumption, CallInvariant, EconomyTypeOK', NEW c \in Calls, NEW i, Enters(c, i)
  PROVE  CallInvariant'
<1>0. /\ EconomyTypeOK /\ KeysUnique /\ CallsOnTrack /\ EntriesOwned
      /\ StakePlaced /\ MoneyFollows /\ AnsweredMeansSettled
  BY DEF CallInvariant
<1>1. row[c] = "NONE" /\ ~acted[c] /\ answer[c] = "none"
  BY <1>0 DEF Enters, CallsOnTrack, OnTrack
<1>2. /\ intent'[c] = i
      /\ \A d \in Calls \ {c} : intent'[d] = intent[d]
  BY <1>0 DEF Enters, EconomyTypeOK
<1>3. \A d \in Calls \ {c} : Ref(d)' = Ref(d) /\ (Settled(d)' <=> Settled(d))
  <2> TAKE d \in Calls \ {c}
  <2>1. Ref(d)' = Ref(d)
    BY <1>2 DEF Ref
  <2> QED
    BY <1>2, <2>1 DEF Enters, Settled, Recorded, Entry
<1>4. KeysUnique'
  BY <1>0, <1>2 DEF KeysUnique, Enters, Claimants
<1>5. CallsOnTrack'
  <2> SUFFICES ASSUME NEW d \in Calls PROVE OnTrack(d)'
    BY DEF CallsOnTrack
  <2>1. OnTrack(d)
    BY <1>0 DEF CallsOnTrack
  <2>2. CASE d = c
    <3>1. outcome[c].kind # "ok"
      BY <1>0, <1>1 DEF CallsOnTrack, OnTrack
    <3> QED
      BY <1>1, <2>2, <3>1 DEF Enters, OnTrack, Preparing, Settling, Stopped
  <2>3. CASE d # c
    BY <2>1, <2>3 DEF Enters, OnTrack
  <2> QED
    BY <2>2, <2>3
<1>6. EntriesOwned'
  <2> SUFFICES ASSUME NEW e \in entries, e.ref # SuspensionRef
               PROVE  \E d \in Calls : row'[d] # "NONE" /\ Ref(d)' = e.ref
    BY DEF Enters, EntriesOwned, SuspensionRef
  <2>1. PICK d \in Calls : row[d] # "NONE" /\ Ref(d) = e.ref
    BY <1>0 DEF EntriesOwned
  <2>2. d # c /\ row'[d] # "NONE" /\ Ref(d)' = e.ref
    BY <1>1, <1>3, <2>1 DEF Enters
  <2> QED
    BY <2>2
<1>7. StakePlaced'
  <2> SUFFICES ASSUME NEW d \in Calls, row'[d] # "NONE" PROVE Placed(d)'
    BY DEF StakePlaced, Placed
  <2>1. CASE d = c
    <3>1. Ref(c)' = IF i.key = NoKey THEN c ELSE i.key
      BY <1>2 DEF Ref
    <3>2. i.key \in Keys \cup {NoKey}
      BY DEF Enters, IntentType
    <3>3. \A type : Entry(type, Ref(c)') \notin entries
      BY <1>0, <1>1, <2>1, <3>1, <3>2, FreshRef DEF Enters
    <3>4. ~Recorded("SETTLING", c)' /\ ~Recorded("SETTLE", c)'
      BY <3>3 DEF Enters, Recorded, Entry
    <3> QED
      BY <2>1, <3>4 DEF Placed
  <2>2. CASE d # c
    <3>1. Placed(d)
      BY <1>0 DEF StakePlaced
    <3> QED
      BY <1>3, <2>2, <3>1 DEF Enters, Placed, Recorded, Entry
  <2> QED
    BY <2>1, <2>2
<1>8. MoneyFollows'
  <2> SUFFICES ASSUME NEW d \in Calls PROVE Followed(d)'
    BY DEF MoneyFollows
  <2>1. CASE d = c
    BY <2>1 DEF Enters, Followed
  <2>2. CASE d # c
    <3>1. Followed(d)
      BY <1>0 DEF MoneyFollows
    <3> QED
      BY <1>3, <2>2, <3>1 DEF Enters, Followed, Recorded, Entry
  <2> QED
    BY <2>1, <2>2
<1>9. AnsweredMeansSettled'
  <2>1. ASSUME NEW d \in Calls, row[d] = "SUCCEEDED" PROVE Performed(d)' /\ d # c
    <3>1. d # c /\ acted[d] /\ Settled(d)
      BY <1>0, <1>1, <2>1 DEF MoneyFollows, Followed
    <3> QED
      BY <1>3, <2>1, <3>1 DEF Enters, Performed
  <2> SUFFICES ASSUME NEW a \in Calls, answer'[a] = "ok"
               PROVE  \E d \in Calls : SameEffect(a, d)' /\ Performed(d)'
    BY DEF AnsweredMeansSettled
  <2>2. CASE a = c
    <3>1. PICK d \in Calls \ {c} :
             row[d] = "SUCCEEDED" /\ intent[d].key = i.key /\ i.key # NoKey
      BY <2>2 DEF Enters
    <3>2. SameEffect(a, d)'
      BY <1>2, <2>2, <3>1 DEF SameEffect
    <3> QED
      BY <2>1, <3>1, <3>2
  <2>3. CASE a # c
    <3>1. PICK d \in Calls : SameEffect(a, d) /\ Performed(d)
      BY <1>0, <2>3 DEF AnsweredMeansSettled, Enters
    <3>2. Performed(d)' /\ d # c
      BY <2>1, <3>1 DEF Performed
    <3>3. SameEffect(a, d)'
      BY <1>2, <2>3, <3>1, <3>2 DEF SameEffect
    <3> QED
      BY <3>2, <3>3
  <2> QED
    BY <2>2, <2>3
<1> QED
  BY <1>4, <1>5, <1>6, <1>7, <1>8, <1>9 DEF CallInvariant

(* A denial takes a free key or leaves no row. *)
LEMMA DeniedByPolicyEnters ==
  ASSUME CallInvariant, NEW c \in Calls, DeniedByPolicy(c)
  PROVE  EconomyTypeOK' /\ \E i : Enters(c, i)
<1>0. EconomyTypeOK /\ OnTrack(c)
  BY DEF CallInvariant, CallsOnTrack
<1>1. PICK i \in Intents :
        /\ intent' = [intent EXCEPT ![c] = i]
        /\ row' = IF Claimants(i.key) = {} THEN [row EXCEPT ![c] = "DENIED"] ELSE row
  BY DEF DeniedByPolicy
<1>2. i \in IntentType /\ pc[c] = "idle" /\ row[c] = "NONE"
  BY <1>0, IntentAssumption DEF IntentAssumption, DeniedByPolicy, CanStart, OnTrack
<1>3. EconomyTypeOK'
  BY <1>0, <1>1, <1>2
  DEF DeniedByPolicy, End, EconomyTypeOK, Steps, Stopped, RowStatus, ledgerVars
<1>4. Enters(c, i)
  BY <1>0, <1>1, <1>2 DEF DeniedByPolicy, End, Enters, EconomyTypeOK, ledgerVars
<1> QED
  BY <1>3, <1>4

(* A claim takes a free key, or answers from the row that has it. *)
LEMMA ClaimEnters ==
  ASSUME CallInvariant, NEW c \in Calls, Claim(c)
  PROVE  EconomyTypeOK' /\ \E i : Enters(c, i)
<1>0. EconomyTypeOK /\ OnTrack(c)
  BY DEF CallInvariant, CallsOnTrack
<1>1. PICK i \in Intents :
        /\ intent' = [intent EXCEPT ![c] = i]
        /\ \/ /\ Claimants(i.key) = {}
              /\ row' = [row EXCEPT ![c] = "AUTHORIZED"]
              /\ Goto(c, IF i.amount = 0 THEN "effect" ELSE "reserve")
              /\ UNCHANGED answer
           \/ \E d \in Claimants(i.key) :
                /\ End(c, IF i.atMostOnce THEN Replayed(d) ELSE "error")
                /\ UNCHANGED row
  BY DEF Claim
<1>2. i \in IntentType /\ pc[c] = "idle" /\ row[c] = "NONE" /\ answer[c] = "none"
  BY <1>0, IntentAssumption DEF IntentAssumption, Claim, CanStart, OnTrack
<1>3. CASE /\ Claimants(i.key) = {}
           /\ row' = [row EXCEPT ![c] = "AUTHORIZED"]
           /\ Goto(c, IF i.amount = 0 THEN "effect" ELSE "reserve")
           /\ UNCHANGED answer
  <2>1. EconomyTypeOK'
    BY <1>0, <1>1, <1>2, <1>3
    DEF Claim, Goto, EconomyTypeOK, Steps, Preparing, RowStatus, ledgerVars
  <2>2. Enters(c, i)
    BY <1>0, <1>1, <1>2, <1>3 DEF Claim, Goto, Enters, EconomyTypeOK, ledgerVars
  <2> QED
    BY <2>1, <2>2
<1>4. ASSUME NEW d \in Claimants(i.key),
             End(c, IF i.atMostOnce THEN Replayed(d) ELSE "error"), UNCHANGED row
      PROVE  EconomyTypeOK' /\ Enters(c, i)
  <2> DEFINE reply == IF i.atMostOnce THEN Replayed(d) ELSE "error"
  <2>1. d \in Calls \ {c} /\ intent[d].key = i.key /\ i.key # NoKey
    BY <1>2 DEF Claimants
  <2>2. reply \in {"ok", "notok", "error"} /\ (reply = "ok" => row[d] = "SUCCEEDED")
    BY DEF Replayed
  <2>3. pc' = [pc EXCEPT ![c] = "done"] /\ answer' = [answer EXCEPT ![c] = reply]
    BY <1>4 DEF End
  <2> HIDE DEF reply
  <2>4. EconomyTypeOK'
    BY <1>0, <1>1, <1>2, <1>4, <2>2, <2>3 DEF Claim, EconomyTypeOK, Steps, Stopped, ledgerVars
  <2>5. Enters(c, i)
    BY <1>0, <1>1, <1>2, <1>4, <2>1, <2>2, <2>3 DEF Claim, Enters, EconomyTypeOK, ledgerVars
  <2> QED
    BY <2>4, <2>5
<1> QED
  BY <1>1, <1>3, <1>4

-----------------------------------------------------------------------------
(* The calendar touches nothing but today's loss. *)
LEMMA NextDayKeeps ==
  ASSUME RatioAssumption, CallInvariant, NextDay
  PROVE  CallInvariant'
<1>0. EconomyTypeOK
  BY DEF CallInvariant
<1>1. EconomyTypeOK'
  BY <1>0 DEF RatioAssumption, NextDay, callVars, EconomyTypeOK, BooksType
<1> QED
  BY <1>1
  DEF CallInvariant, NextDay, callVars, KeysUnique, CallsOnTrack, OnTrack, EntriesOwned,
     StakePlaced, Placed, MoneyFollows, Followed, AnsweredMeansSettled, SameEffect, Performed,
     Settled, Recorded, Ref

-----------------------------------------------------------------------------
(* The theorems. *)

(* Initially nothing has been claimed or posted. *)
LEMMA EconomyInit ==
  ASSUME NameAssumption, RatioAssumption, Init
  PROVE  CallInvariant
<1>1. OpenBooks \in BooksType
  BY DEF RatioAssumption, OpenBooks, BooksType
<1>2. NoIntent \in IntentType /\ NoOutcome \in OutcomeType
  BY DEF NoIntent, IntentType, NoOutcome, OutcomeType
<1>3. EconomyTypeOK
  BY <1>1, <1>2 DEF RatioAssumption, Init, EconomyTypeOK, Steps, Stopped, RowStatus
<1>4. KeysUnique /\ EntriesOwned /\ AnsweredMeansSettled
  BY DEF Init, KeysUnique, EntriesOwned, AnsweredMeansSettled
<1>5. CallsOnTrack
  BY DEF Init, CallsOnTrack, OnTrack, Stopped, Preparing, Settling, NoOutcome
<1>6. StakePlaced /\ MoneyFollows
  BY DEF Init, StakePlaced, Placed, MoneyFollows, Followed
<1> QED
  BY <1>3, <1>4, <1>5, <1>6 DEF CallInvariant

(* Every step keeps it. *)
LEMMA EconomyStep ==
  ASSUME NameAssumption, IntentAssumption, PnlAssumption, RatioAssumption,
         CallInvariant, [Next]_vars
  PROVE  CallInvariant'
<1>1. CASE UNCHANGED vars
  BY <1>1
  DEF CallInvariant, vars, callVars, ledgerVars, EconomyTypeOK, KeysUnique, CallsOnTrack,
     OnTrack, EntriesOwned, StakePlaced, Placed, MoneyFollows, Followed, AnsweredMeansSettled,
     SameEffect, Performed, Settled, Recorded, Ref
<1>2. CASE NextDay
  BY <1>2, NextDayKeeps
<1>3. ASSUME NEW c \in Calls,
             \/ DeniedByPolicy(c)
             \/ Claim(c)
             \/ CheckReserve(c)
             \/ AppendReserve(c)
             \/ AppendCommit(c)
             \/ AppendSettling(c)
             \/ PrepareFails(c)
             \/ Refuse(c)
             \/ GatewayRefuses(c)
             \/ Invoke(c)
             \/ Return(c)
             \/ Settle(c)
             \/ BookPnl(c)
             \/ EnsureSuspension(c)
             \/ Finish(c)
             \/ Abandon(c)
             \/ Recover(c)
             \/ Reconcile(c)
      PROVE  CallInvariant'
  <2>1. CASE DeniedByPolicy(c)
    BY <2>1, DeniedByPolicyEnters, EntersKeeps
  <2>2. CASE Claim(c)
    BY <2>2, ClaimEnters, EntersKeeps
  <2>3. CASE CheckReserve(c)
    BY <2>3, CheckReserveKeeps
  <2>4. CASE AppendReserve(c)
    BY <2>4, AppendReserveKeeps
  <2>5. CASE AppendCommit(c)
    BY <2>5, AppendCommitKeeps
  <2>6. CASE AppendSettling(c)
    BY <2>6, AppendSettlingKeeps
  <2>7. CASE PrepareFails(c)
    BY <2>7, PrepareFailsKeeps
  <2>8. CASE Refuse(c)
    BY <2>8, RefuseKeeps
  <2>9. CASE GatewayRefuses(c)
    BY <2>9, GatewayRefusesKeeps
  <2>10. CASE Invoke(c)
    BY <2>10, InvokeKeeps
  <2>11. CASE Return(c)
    BY <2>11, ReturnKeeps
  <2>12. CASE Settle(c)
    BY <2>12, SettleKeeps
  <2>13. CASE BookPnl(c)
    BY <2>13, BookPnlKeeps
  <2>14. CASE EnsureSuspension(c)
    BY <2>14, EnsureSuspensionKeeps
  <2>15. CASE Finish(c)
    BY <2>15, FinishKeeps
  <2>16. CASE Abandon(c)
    BY <2>16, AbandonKeeps
  <2>17. CASE Recover(c)
    BY <2>17, RecoverKeeps
  <2>18. CASE Reconcile(c)
    BY <2>18, ReconcileKeeps
  <2> QED
    BY <1>3, <2>1, <2>2, <2>3, <2>4, <2>5, <2>6, <2>7, <2>8, <2>9,
       <2>10, <2>11, <2>12, <2>13, <2>14, <2>15, <2>16, <2>17, <2>18
<1> QED
  BY <1>1, <1>2, <1>3 DEF Next

(* Keys, rows, entries and answers, in every reachable state. *)
LEMMA CallInvariantHolds == Spec => []CallInvariant
<1>1. Init => CallInvariant
  BY EconomyInit, NameAssumption, RatioAssumption
<1>2. CallInvariant /\ [Next]_vars => CallInvariant'
  BY EconomyStep, NameAssumption, IntentAssumption, PnlAssumption, RatioAssumption
<1> QED
  BY <1>1, <1>2, PTL DEF Spec

(* Rows, entries and accumulators keep their types. *)
THEOREM EconomyTypeCorrect == Spec => []EconomyTypeOK
<1>1. CallInvariant => EconomyTypeOK
  BY DEF CallInvariant
<1> QED
  BY <1>1, CallInvariantHolds, PTL

(* At most one of the calls that carry a key ever reaches an adapter: the  *)
(* calls that reach one have rows, and rows have different keys.           *)
THEOREM OneEffectPerKey == Spec => []EffectOncePerKey
<1>1. CallInvariant => EffectOncePerKey
  <2> SUFFICES ASSUME CallInvariant, NEW c \in Calls, NEW d \in Calls,
                      c # d, acted[c], acted[d]
               PROVE  intent[c].key = NoKey \/ intent[c].key # intent[d].key
    BY DEF EffectOncePerKey
  <2>1. row[c] # "NONE" /\ row[d] # "NONE"
    BY DEF CallInvariant, CallsOnTrack, OnTrack
  <2> QED
    BY <2>1 DEF CallInvariant, KeysUnique
<1> QED
  BY <1>1, CallInvariantHolds, PTL

(* A refused call has not acted and has no capital in settling. *)
THEOREM RefusalIsInert == Spec => []RefusedNeverActs
<1>1. CallInvariant => RefusedNeverActs
  <2> SUFFICES ASSUME CallInvariant, NEW c \in Calls, row[c] = "DENIED"
               PROVE  ~acted[c] /\ ~Recorded("SETTLING", c) /\ ~Recorded("SETTLE", c)
    BY DEF RefusedNeverActs
  <2>1. OnTrack(c) /\ Placed(c)
    BY DEF CallInvariant, CallsOnTrack, StakePlaced
  <2> QED
    BY <2>1 DEF OnTrack, Placed
<1> QED
  BY <1>1, CallInvariantHolds, PTL

(* No answer overtakes the money. *)
THEOREM AnswersAreSettled == Spec => []AnsweredMeansSettled
<1>1. CallInvariant => AnsweredMeansSettled
  BY DEF CallInvariant
<1> QED
  BY <1>1, CallInvariantHolds, PTL

-----------------------------------------------------------------------------
(* Sums of stakes.                                                         *)

(* The units of the stakes of C, as the intents f say.                     *)
UnitsOf(f, C) == UNION {{c} \X (1 .. f[c].amount) : c \in C}
SumOf(f, C) == Cardinality(UnitsOf(f, C))

LEMMA HeldIsSum ==
  ASSUME NEW C
  PROVE  HeldBy(C) = SumOf(intent, C)
BY DEF HeldBy, SumOf, UnitsOf, Stake

(* The units of one stake are as many as its amount.                       *)
LEMMA StakeUnits ==
  ASSUME NEW c, NEW n \in Nat
  PROVE  IsFiniteSet({c} \X (1 .. n)) /\ Cardinality({c} \X (1 .. n)) = n
<1>1. IsFiniteSet(1 .. n) /\ Cardinality(1 .. n) = n
  <2>1. 1 \in Int /\ n \in Int
    OBVIOUS
  <2>2. IsFiniteSet(1 .. n) /\ Cardinality(1 .. n) = IF 1 > n THEN 0 ELSE n - 1 + 1
    BY <2>1, FS_Interval
  <2> QED
    BY <2>2
<1>2. IsFiniteSet({c}) /\ Cardinality({c}) = 1
  BY FS_Singleton
<1>3. IsFiniteSet({c} \X (1 .. n)) /\ Cardinality({c} \X (1 .. n)) = Cardinality({c}) * Cardinality(1 .. n)
  BY <1>1, <1>2, FS_Product
<1> QED
  BY <1>1, <1>2, <1>3

(* A sum of stakes is a number.                                            *)
LEMMA SumType ==
  ASSUME NEW f \in [Calls -> IntentType], NEW C \in SUBSET Calls
  PROVE  IsFiniteSet(UnitsOf(f, C)) /\ SumOf(f, C) \in Nat
<1> DEFINE T == {{c} \X (1 .. f[c].amount) : c \in C}
<1>1. IsFiniteSet(C)
  BY CallAssumption, FS_Subset DEF CallAssumption
<1>2. IsFiniteSet(T)
  <2> DEFINE g == [c \in C |-> {c} \X (1 .. f[c].amount)]
  <2>1. g \in Surjection(C, T)
    BY DEF Surjection
  <2> HIDE DEF g, T
  <2> QED
    BY <1>1, <2>1, FS_Surjection
<1>3. \A U \in T : IsFiniteSet(U)
  <2> SUFFICES ASSUME NEW c \in C PROVE IsFiniteSet({c} \X (1 .. f[c].amount))
    OBVIOUS
  <2>1. f[c].amount \in Nat
    BY DEF IntentType
  <2> QED
    BY <2>1, StakeUnits
<1>4. IsFiniteSet(UNION T)
  BY <1>2, <1>3, FS_UNION
<1> QED
  BY <1>4, FS_CardinalityType DEF SumOf, UnitsOf

(* One more call adds its stake.                                           *)
LEMMA SumAdds ==
  ASSUME NEW f \in [Calls -> IntentType], NEW C \in SUBSET Calls, NEW c \in Calls, c \notin C
  PROVE  SumOf(f, C \cup {c}) = SumOf(f, C) + f[c].amount
<1> DEFINE new == {c} \X (1 .. f[c].amount)
<1>1. f[c].amount \in Nat
  BY DEF IntentType
<1>2. IsFiniteSet(new) /\ Cardinality(new) = f[c].amount
  BY <1>1, StakeUnits
<1>3. UnitsOf(f, C \cup {c}) = UnitsOf(f, C) \cup new
  BY DEF UnitsOf
<1>4. UnitsOf(f, C) \cap new = {}
  <2> SUFFICES ASSUME NEW u \in UnitsOf(f, C), u \in new PROVE FALSE
    OBVIOUS
  <2>1. PICK d \in C : u \in {d} \X (1 .. f[d].amount)
    BY DEF UnitsOf
  <2>2. u[1] = d /\ u[1] = c
    BY <2>1
  <2> QED
    BY <2>2
<1>5. IsFiniteSet(UnitsOf(f, C)) /\ SumOf(f, C) \in Nat
  BY SumType
<1>6. Cardinality({}) = 0
  BY FS_EmptySet
<1>7. Cardinality(UnitsOf(f, C) \cup new)
        = Cardinality(UnitsOf(f, C)) + Cardinality(new) - Cardinality(UnitsOf(f, C) \cap new)
  BY <1>2, <1>5, FS_Union
<1> HIDE DEF new
<1>8. Cardinality(UnitsOf(f, C) \cap new) = 0
  BY <1>4, <1>6
<1>9. SumOf(f, C \cup {c}) = SumOf(f, C) + f[c].amount - 0
  BY <1>2, <1>3, <1>7, <1>8 DEF SumOf
<1> QED
  BY <1>1, <1>5, <1>9

(* One call less takes its stake away.                                     *)
LEMMA SumDrops ==
  ASSUME NEW f \in [Calls -> IntentType], NEW C \in SUBSET Calls, NEW c \in C
  PROVE  SumOf(f, C) = SumOf(f, C \ {c}) + f[c].amount
<1>1. C = (C \ {c}) \cup {c} /\ c \notin C \ {c} /\ C \ {c} \in SUBSET Calls /\ c \in Calls
  OBVIOUS
<1> QED
  BY <1>1, SumAdds

(* Only the stakes of its calls matter to a sum.                           *)
LEMMA SumSame ==
  ASSUME NEW f, NEW g, NEW C, \A c \in C : f[c] = g[c]
  PROVE  SumOf(f, C) = SumOf(g, C)
BY DEF SumOf, UnitsOf

(* Nobody's stakes are nothing.                                            *)
LEMMA SumNone == ASSUME NEW f PROVE SumOf(f, {}) = 0
<1>1. UnitsOf(f, {}) = {}
  BY DEF UnitsOf
<1> QED
  BY <1>1, FS_EmptySet DEF SumOf

(* So many stakes, none above m, are at most as many times m.              *)
LEMMA SumBound ==
  ASSUME NEW f \in [Calls -> IntentType], NEW C \in SUBSET Calls, NEW m \in Nat,
         \A c \in C : f[c].amount <= m
  PROVE  IsFiniteSet(C) /\ Cardinality(C) \in Nat /\ SumOf(f, C) <= Cardinality(C) * m
<1>1. IsFiniteSet(C) /\ Cardinality(C) \in Nat
  BY CallAssumption, FS_Subset, FS_CardinalityType DEF CallAssumption
<1>2. IsFiniteSet(1 .. m) /\ Cardinality(1 .. m) = m
  <2>1. 1 \in Int /\ m \in Int
    OBVIOUS
  <2>2. IsFiniteSet(1 .. m) /\ Cardinality(1 .. m) = IF 1 > m THEN 0 ELSE m - 1 + 1
    BY <2>1, FS_Interval
  <2> QED
    BY <2>2
<1>3. IsFiniteSet(C \X (1 .. m)) /\ Cardinality(C \X (1 .. m)) = Cardinality(C) * Cardinality(1 .. m)
  BY <1>1, <1>2, FS_Product
<1>4. UnitsOf(f, C) \subseteq C \X (1 .. m)
  <2> SUFFICES ASSUME NEW c \in C, NEW k \in 1 .. f[c].amount PROVE k \in 1 .. m
    BY DEF UnitsOf
  <2>1. f[c].amount \in Nat /\ f[c].amount <= m
    BY DEF IntentType
  <2> QED
    BY <2>1
<1>5. Cardinality(UnitsOf(f, C)) <= Cardinality(C \X (1 .. m))
  BY <1>3, <1>4, FS_Subset
<1> QED
  BY <1>1, <1>2, <1>3, <1>5 DEF SumOf

-----------------------------------------------------------------------------
(* What an entry does to the accumulators.                                 *)

LEMMA PostedFields ==
  ASSUME books \in BooksType, books.nav <= books.peak,
         NEW type \in EntryTypes, NEW a \in Nat, NEW ref, NEW b, b = Posted(books, type, a, ref)
  PROVE  /\ b.reserved = IF type = "RESERVE" THEN books.reserved + a
                         ELSE IF type = "COMMIT" THEN Less(books.reserved, a) ELSE books.reserved
         /\ b.committed = IF type = "COMMIT" THEN books.committed + a
                          ELSE IF type = "SETTLING" THEN Less(books.committed, a) ELSE books.committed
         /\ b.settling = IF type = "SETTLING" THEN books.settling + a
                         ELSE IF type \in {"SETTLE", "RECONCILED"} THEN Less(books.settling, a)
                         ELSE books.settling
         /\ b.nav = IF type = "PROFIT" THEN books.nav + a
                    ELSE IF type = "LOSS" THEN books.nav - a ELSE books.nav
         /\ b.unresolved = IF type = "UNKNOWN" THEN books.unresolved \cup {ref}
                           ELSE IF type = "RECONCILED" THEN books.unresolved \ {ref}
                           ELSE books.unresolved
         /\ books.peak <= b.peak /\ b.nav <= b.peak /\ b.peak \in Int
<1> DEFINE m == Moved(books, type, a, ref)
<1>1. /\ m.reserved = IF type = "RESERVE" THEN books.reserved + a
                      ELSE IF type = "COMMIT" THEN Less(books.reserved, a) ELSE books.reserved
      /\ m.committed = IF type = "COMMIT" THEN books.committed + a
                       ELSE IF type = "SETTLING" THEN Less(books.committed, a) ELSE books.committed
      /\ m.settling = IF type = "SETTLING" THEN books.settling + a
                      ELSE IF type \in {"SETTLE", "RECONCILED"} THEN Less(books.settling, a)
                      ELSE books.settling
      /\ m.nav = IF type = "PROFIT" THEN books.nav + a
                 ELSE IF type = "LOSS" THEN books.nav - a ELSE books.nav
      /\ m.unresolved = IF type = "UNKNOWN" THEN books.unresolved \cup {ref}
                        ELSE IF type = "RECONCILED" THEN books.unresolved \ {ref}
                        ELSE books.unresolved
      /\ m.peak = books.peak /\ DOMAIN m = DOMAIN books
  <2>1. CASE type = "RESERVE"
    BY <2>1 DEF Moved, BooksType
  <2>2. CASE type = "COMMIT"
    BY <2>2 DEF Moved, BooksType
  <2>3. CASE type = "SETTLING"
    BY <2>3 DEF Moved, BooksType
  <2>4. CASE type = "SETTLE"
    BY <2>4 DEF Moved, BooksType
  <2>5. CASE type = "PROFIT"
    BY <2>5 DEF Moved, BooksType
  <2>6. CASE type = "LOSS"
    BY <2>6 DEF Moved, BooksType
  <2>7. CASE type = "UNKNOWN"
    BY <2>7 DEF Moved, BooksType
  <2>8. CASE type = "RECONCILED"
    BY <2>8 DEF Moved, BooksType
  <2>9. CASE type = "SUSPENSION"
    BY <2>9 DEF Moved, BooksType
  <2> QED
    BY <2>1, <2>2, <2>3, <2>4, <2>5, <2>6, <2>7, <2>8, <2>9 DEF EntryTypes
<1> HIDE DEF m
<1>2. b = [m EXCEPT !.peak = IF m.nav > m.peak THEN m.nav ELSE m.peak]
  BY DEF Posted, m
<1>3. books.nav \in Int /\ books.peak \in Int /\ m.nav \in Int
  BY <1>1 DEF BooksType
<1>4. /\ b.reserved = m.reserved /\ b.committed = m.committed /\ b.settling = m.settling
      /\ b.nav = m.nav /\ b.unresolved = m.unresolved
      /\ b.peak = IF m.nav > m.peak THEN m.nav ELSE m.peak
  BY <1>1, <1>2 DEF BooksType
<1>5. books.peak <= b.peak /\ b.nav <= b.peak /\ b.peak \in Int
  BY <1>1, <1>3, <1>4
<1> QED
  BY <1>1, <1>4, <1>5

-----------------------------------------------------------------------------
(* Where the stakes are.                                                   *)

CapitalInvariant == EconomyInvariant /\ CapitalAccounted /\ ExposureBounded

(* A step of c as the ledger sees it: nobody who has a row changes his     *)
(* intent, new rows have no entries yet, new entries are c's.              *)
SeenByLedger(c) ==
  /\ \A d \in Owners : row'[d] # "NONE" /\ intent'[d] = intent[d]
  /\ \A d \in Calls \ Owners : row'[d] # "NONE" =>
        d = c /\ \A t \in EntryTypes : Entry(t, Ref(c)') \notin entries'

LEMMA SameEntries ==
  ASSUME CallInvariant, NEW c \in Calls, SeenByLedger(c), NEW t \in EntryTypes,
         entries' = entries \/ (c \in Owners /\ entries' = entries \cup {Entry(t, Ref(c))}),
         NEW d \in Owners
  PROVE  /\ Ref(d)' = Ref(d)
         /\ \A x \in EntryTypes :
               Recorded(x, d)' <=> Recorded(x, d) \/ (d = c /\ x = t /\ entries' # entries)
<1>1. Ref(d)' = Ref(d)
  BY DEF SeenByLedger, Ref
<1>2. \A x \in EntryTypes : Recorded(x, d)' <=> Entry(x, Ref(d)) \in entries'
  BY <1>1 DEF Recorded, Entry
<1>3. CASE entries' = entries
  BY <1>1, <1>2, <1>3 DEF Recorded
<1>4. CASE entries' # entries
  <2>1. c \in Owners /\ entries' = entries \cup {Entry(t, Ref(c))} /\ Entry(t, Ref(c)) \notin entries
    BY <1>4
  <2>2. d # c => Ref(d) # Ref(c)
    BY <2>1, RefsDiffer, NameAssumption DEF CallInvariant, Owners
  <2>3. \A x \in EntryTypes : Entry(x, Ref(d)) = Entry(t, Ref(c)) <=> d = c /\ x = t
    BY <2>2 DEF Entry
  <2> QED
    BY <1>1, <1>2, <1>4, <2>1, <2>3 DEF Recorded
<1> QED
  BY <1>3, <1>4

LEMMA NoOneElses ==
  ASSUME CallInvariant, NEW c \in Calls, SeenByLedger(c)
  PROVE  /\ Owners \subseteq Owners' /\ Owners \subseteq Calls /\ Owners' \subseteq Calls
         /\ \A d \in Owners' \ Owners : d = c /\ \A t \in EntryTypes : ~Recorded(t, d)'
<1>1. Owners \subseteq Owners' /\ Owners \subseteq Calls /\ Owners' \subseteq Calls
  BY DEF SeenByLedger, Owners
<1>2. \A d \in Owners' \ Owners : d = c /\ \A t \in EntryTypes : ~Recorded(t, d)'
  <2> SUFFICES ASSUME NEW d \in Owners', d \notin Owners
               PROVE  d = c /\ \A t \in EntryTypes : ~Recorded(t, d)'
    OBVIOUS
  <2>1. d \in Calls \ Owners /\ row'[d] # "NONE"
    BY DEF Owners
  <2>2. d = c /\ \A t \in EntryTypes : Entry(t, Ref(c)') \notin entries'
    BY <2>1 DEF SeenByLedger
  <2> QED
    BY <2>2 DEF Recorded, Entry
<1> QED
  BY <1>1, <1>2

(* The stakes move as the entry of c says.                                 *)
LEMMA StakesMove ==
  ASSUME CallInvariant, LedgerInOrder, NEW c \in Calls, SeenByLedger(c), NEW t \in EntryTypes,
         entries' = entries \/ (c \in Owners /\ entries' = entries \cup {Entry(t, Ref(c))})
  PROVE  /\ entries' = entries =>
               Reserving' = Reserving /\ Committing' = Committing /\ InSettling' = InSettling
         /\ entries' # entries =>
              /\ t = "RESERVE" => ~Recorded("COMMIT", c)
                    /\ Reserving' = Reserving \cup {c} /\ c \notin Reserving
              /\ t = "COMMIT" /\ Recorded("RESERVE", c) =>
                    Reserving' = Reserving \ {c} /\ c \in Reserving
              /\ t \notin {"RESERVE", "COMMIT"} => Reserving' = Reserving
              /\ t = "COMMIT" => Committing' = Committing \cup {c} /\ c \notin Committing
              /\ t = "SETTLING" /\ Recorded("COMMIT", c) =>
                    Committing' = Committing \ {c} /\ c \in Committing
              /\ t \notin {"COMMIT", "SETTLING"} => Committing' = Committing
              /\ t = "SETTLING" => InSettling' = InSettling \cup {c} /\ c \notin InSettling
              /\ t \in {"SETTLE", "RECONCILED"} /\ Recorded("SETTLING", c) /\ ~Released(c) =>
                    InSettling' = InSettling \ {c} /\ c \in InSettling
              /\ t \notin {"SETTLING", "SETTLE", "RECONCILED"} => InSettling' = InSettling
<1> DEFINE five == {"RESERVE", "COMMIT", "SETTLING", "SETTLE", "RECONCILED"}
<1>1. five \subseteq EntryTypes
  BY DEF EntryTypes
<1>2. /\ Owners \subseteq Owners' /\ Owners' \subseteq Calls
      /\ \A d \in Owners' \ Owners : \A x \in five : ~Recorded(x, d)'
  BY <1>1, NoOneElses
<1>3. \A d \in Owners, x \in five :
         Recorded(x, d)' <=> Recorded(x, d) \/ (d = c /\ x = t /\ entries' # entries)
  BY <1>1, SameEntries
<1>4. entries' # entries => c \in Owners /\ ~Recorded(t, c)
  BY DEF Recorded
<1>5. c \in Owners => /\ Recorded("COMMIT", c) => Recorded("RESERVE", c)
                      /\ Recorded("SETTLING", c) => Recorded("COMMIT", c)
                      /\ Released(c) => Recorded("SETTLING", c)
  BY DEF LedgerInOrder, InOrder, Released
<1>6. Reserving' = {d \in Owners' : Recorded("RESERVE", d)' /\ ~Recorded("COMMIT", d)'}
  BY DEF Reserving
<1>7. Committing' = {d \in Owners' : Recorded("COMMIT", d)' /\ ~Recorded("SETTLING", d)'}
  BY DEF Committing
<1>8. InSettling' = {d \in Owners' : Recorded("SETTLING", d)' /\ ~(Recorded("SETTLE", d)' \/ Recorded("RECONCILED", d)')}
  BY DEF InSettling, Released
<1>9. Reserving' = {d \in Owners : Recorded("RESERVE", d)' /\ ~Recorded("COMMIT", d)'}
  BY <1>2, <1>6
<1>10. Committing' = {d \in Owners : Recorded("COMMIT", d)' /\ ~Recorded("SETTLING", d)'}
  BY <1>2, <1>7
<1>11. InSettling' = {d \in Owners : Recorded("SETTLING", d)' /\ ~(Recorded("SETTLE", d)' \/ Recorded("RECONCILED", d)')}
  BY <1>2, <1>8
<1> QED
  <2>1. /\ entries' = entries => Reserving' = Reserving
        /\ entries' # entries =>
              /\ t = "RESERVE" => ~Recorded("COMMIT", c)
                    /\ Reserving' = Reserving \cup {c} /\ c \notin Reserving
              /\ t = "COMMIT" /\ Recorded("RESERVE", c) =>
                    Reserving' = Reserving \ {c} /\ c \in Reserving
              /\ t \notin {"RESERVE", "COMMIT"} => Reserving' = Reserving
    BY <1>3, <1>4, <1>5, <1>9 DEF Reserving
  <2>2. /\ entries' = entries => Committing' = Committing
        /\ entries' # entries =>
              /\ t = "COMMIT" => Committing' = Committing \cup {c} /\ c \notin Committing
              /\ t = "SETTLING" /\ Recorded("COMMIT", c) =>
                    Committing' = Committing \ {c} /\ c \in Committing
              /\ t \notin {"COMMIT", "SETTLING"} => Committing' = Committing
    BY <1>3, <1>4, <1>5, <1>10 DEF Committing
  <2>3. /\ entries' = entries => InSettling' = InSettling
        /\ entries' # entries =>
              /\ t = "SETTLING" => InSettling' = InSettling \cup {c} /\ c \notin InSettling
              /\ t \in {"SETTLE", "RECONCILED"} /\ Recorded("SETTLING", c) /\ ~Released(c) =>
                    InSettling' = InSettling \ {c} /\ c \in InSettling
              /\ t \notin {"SETTLING", "SETTLE", "RECONCILED"} => InSettling' = InSettling
    BY <1>3, <1>4, <1>5, <1>11 DEF InSettling, Released
  <2> QED
    BY <2>1, <2>2, <2>3

(* A step with its entry in the right place: what it changes of the sums.  *)
(* Nothing, when the entry was there already.                              *)
Fits(c, t) ==
  /\ t = "COMMIT" => Recorded("RESERVE", c)
  /\ t = "SETTLING" => Recorded("COMMIT", c)
  /\ t \in {"SETTLE", "RECONCILED"} => Recorded("SETTLING", c) /\ ~Released(c)

Posts(c, t, a) ==
  \/ /\ entries' = entries
     /\ books'.reserved = books.reserved /\ books'.committed = books.committed
     /\ books'.settling = books.settling /\ books'.nav = books.nav
     /\ books'.peak = books.peak /\ books'.unresolved = books.unresolved
  \/ /\ c \in Owners /\ Entry(t, Ref(c)) \notin entries
     /\ entries' = entries \cup {Entry(t, Ref(c))}
     /\ books' = Posted(books, t, a, Ref(c))
     /\ t \notin {"PROFIT", "LOSS"} => a = intent[c].amount
     /\ Fits(c, t)

LEMMA AccountsKept ==
  ASSUME CapitalInvariant, NEW c \in Calls, SeenByLedger(c), NEW t \in EntryTypes,
         NEW a \in Nat, Posts(c, t, a), intent' \in [Calls -> IntentType]
  PROVE  /\ CapitalAccounted'
         /\ books'.nav <= books'.peak /\ books.peak <= books'.peak /\ books'.peak \in Int
         /\ Exposure(books') = Exposure(books)
              + (IF entries' = entries THEN 0 ELSE IF t = "RESERVE" THEN intent[c].amount
                 ELSE IF t \in {"SETTLE", "RECONCILED"} THEN -intent[c].amount ELSE 0)
         /\ books'.nav = books.nav
              + (IF entries' = entries THEN 0 ELSE IF t = "PROFIT" THEN a
                 ELSE IF t = "LOSS" THEN -a ELSE 0)
         /\ books'.unresolved \subseteq books.unresolved \cup
              (IF entries' # entries /\ t = "UNKNOWN" THEN {Ref(c)} ELSE {})
<1>1. /\ CallInvariant /\ LedgerInOrder /\ EconomyTypeOK /\ books \in BooksType
      /\ books.nav <= books.peak /\ CapitalAccounted /\ intent \in [Calls -> IntentType]
      /\ books.nav \in Int /\ books.peak \in Int /\ books.reserved \in Nat
      /\ books.committed \in Nat /\ books.settling \in Nat /\ intent[c].amount \in Nat
  <2>1. books \in BooksType /\ intent \in [Calls -> IntentType]
    BY DEF CapitalInvariant, EconomyInvariant, CallInvariant, EconomyTypeOK
  <2> QED
    BY <2>1 DEF CapitalInvariant, EconomyInvariant, CallInvariant, StakesAdmitted, BooksType, IntentType
<1> DEFINE R == SumOf(intent, Reserving)
           K == SumOf(intent, Committing)
           S == SumOf(intent, InSettling)
<1>2. /\ Reserving \in SUBSET Calls /\ Committing \in SUBSET Calls /\ InSettling \in SUBSET Calls
      /\ Reserving \subseteq Owners /\ Committing \subseteq Owners /\ InSettling \subseteq Owners
  BY DEF Reserving, Committing, InSettling, Owners
<1>3. /\ R \in Nat /\ K \in Nat /\ S \in Nat
      /\ books.reserved = R /\ books.committed = K /\ books.settling = S
  BY <1>1, <1>2, SumType, HeldIsSum DEF CapitalAccounted
<1>4. ASSUME NEW D \in SUBSET Owners PROVE SumOf(intent', D) = SumOf(intent, D)
  BY SumSame DEF SeenByLedger
<1>5. /\ HeldBy(Reserving)' = SumOf(intent', Reserving')
      /\ HeldBy(Committing)' = SumOf(intent', Committing')
      /\ HeldBy(InSettling)' = SumOf(intent', InSettling')
  BY DEF HeldBy, SumOf, UnitsOf, Stake
<1>6. entries' = entries \/ (c \in Owners /\ entries' = entries \cup {Entry(t, Ref(c))})
  BY DEF Posts
<1>7. CASE entries' = entries
  <2>1. /\ books'.reserved = books.reserved /\ books'.committed = books.committed
        /\ books'.settling = books.settling /\ books'.nav = books.nav
        /\ books'.peak = books.peak /\ books'.unresolved = books.unresolved
    BY <1>7 DEF Posts
  <2>2. Reserving' = Reserving /\ Committing' = Committing /\ InSettling' = InSettling
    BY <1>1, <1>6, <1>7, StakesMove
  <2>3. CapitalAccounted'
    BY <1>2, <1>3, <1>4, <1>5, <2>1, <2>2 DEF CapitalAccounted
  <2>4. Exposure(books') = Exposure(books)
    BY <2>1 DEF Exposure
  <2>5. Exposure(books) \in Nat
    BY <1>1 DEF Exposure
  <2> QED
    BY <1>1, <1>7, <2>1, <2>3, <2>4, <2>5
<1>8. CASE entries' # entries
  <2> DEFINE x == intent[c].amount
  <2>1. /\ c \in Owners /\ books' = Posted(books, t, a, Ref(c)) /\ Fits(c, t)
        /\ (t \notin {"PROFIT", "LOSS"} => a = x)
    BY <1>8 DEF Posts
  <2>2. /\ books'.reserved = IF t = "RESERVE" THEN R + a
                             ELSE IF t = "COMMIT" THEN Less(R, a) ELSE R
        /\ books'.committed = IF t = "COMMIT" THEN K + a
                              ELSE IF t = "SETTLING" THEN Less(K, a) ELSE K
        /\ books'.settling = IF t = "SETTLING" THEN S + a
                             ELSE IF t \in {"SETTLE", "RECONCILED"} THEN Less(S, a) ELSE S
        /\ books'.nav = IF t = "PROFIT" THEN books.nav + a
                        ELSE IF t = "LOSS" THEN books.nav - a ELSE books.nav
        /\ books'.unresolved = IF t = "UNKNOWN" THEN books.unresolved \cup {Ref(c)}
                               ELSE IF t = "RECONCILED" THEN books.unresolved \ {Ref(c)}
                               ELSE books.unresolved
        /\ books.peak <= books'.peak /\ books'.nav <= books'.peak /\ books'.peak \in Int
    <3> HIDE DEF R, K, S
    <3>1. books.reserved = R /\ books.committed = K /\ books.settling = S
      BY <1>3
    <3> QED
      BY <1>1, <2>1, <3>1, PostedFields
  <2>3. ASSUME NEW D \in SUBSET Owners, c \notin D
        PROVE  SumOf(intent', D \cup {c}) = SumOf(intent, D) + x
    BY <1>1, <1>4, <2>1, <2>3, SumAdds DEF Owners
  <2>4. ASSUME NEW D \in SUBSET Owners, c \in D
        PROVE  /\ SumOf(intent, D) = SumOf(intent', D \ {c}) + x
               /\ SumOf(intent', D \ {c}) \in Nat
    <3>1. SumOf(intent, D) = SumOf(intent, D \ {c}) + x /\ SumOf(intent, D \ {c}) \in Nat
      BY <1>1, <2>4, SumDrops, SumType DEF Owners
    <3>2. SumOf(intent', D \ {c}) = SumOf(intent, D \ {c})
      BY <1>4
    <3> QED
      BY <3>1, <3>2
  <2>5. \A m, n, k \in Nat : m = n + k => Less(m, k) = n
    BY DEF Less
  <2>6. /\ t = "RESERVE" => Reserving' = Reserving \cup {c} /\ c \notin Reserving
        /\ t = "COMMIT" => Reserving' = Reserving \ {c} /\ c \in Reserving
        /\ t \notin {"RESERVE", "COMMIT"} => Reserving' = Reserving
        /\ t = "COMMIT" => Committing' = Committing \cup {c} /\ c \notin Committing
        /\ t = "SETTLING" => Committing' = Committing \ {c} /\ c \in Committing
        /\ t \notin {"COMMIT", "SETTLING"} => Committing' = Committing
        /\ t = "SETTLING" => InSettling' = InSettling \cup {c} /\ c \notin InSettling
        /\ t \in {"SETTLE", "RECONCILED"} => InSettling' = InSettling \ {c} /\ c \in InSettling
        /\ t \notin {"SETTLING", "SETTLE", "RECONCILED"} => InSettling' = InSettling
    BY <1>1, <1>6, <1>8, <2>1, StakesMove DEF Fits
  <2> HIDE DEF x, R, K, S
  <2>7. x \in Nat /\ R \in Nat /\ K \in Nat /\ S \in Nat /\ books.nav \in Int
    BY <1>1, <1>3 DEF x
  <2>8. /\ SumOf(intent', Reserving') = IF t = "RESERVE" THEN R + x
                                        ELSE IF t = "COMMIT" THEN Less(R, x) ELSE R
        /\ t = "COMMIT" => Less(R, x) + x = R
    <3>1. CASE t = "RESERVE"
      BY <1>2, <2>3, <2>6, <3>1 DEF R
    <3>2. CASE t = "COMMIT"
      <4>1. SumOf(intent', Reserving') \in Nat /\ R = SumOf(intent', Reserving') + x
        BY <1>2, <2>4, <2>6, <3>2 DEF R
      <4>2. Less(R, x) = SumOf(intent', Reserving')
        BY <2>5, <2>7, <4>1
      <4> QED
        BY <3>2, <4>1, <4>2
    <3>3. CASE t \notin {"RESERVE", "COMMIT"}
      BY <1>2, <1>4, <2>6, <3>3 DEF R
    <3> QED
      BY <3>1, <3>2, <3>3
  <2>9. /\ SumOf(intent', Committing') = IF t = "COMMIT" THEN K + x
                                         ELSE IF t = "SETTLING" THEN Less(K, x) ELSE K
        /\ t = "SETTLING" => Less(K, x) + x = K
    <3>1. CASE t = "COMMIT"
      BY <1>2, <2>3, <2>6, <3>1 DEF K
    <3>2. CASE t = "SETTLING"
      <4>1. SumOf(intent', Committing') \in Nat /\ K = SumOf(intent', Committing') + x
        BY <1>2, <2>4, <2>6, <3>2 DEF K
      <4>2. Less(K, x) = SumOf(intent', Committing')
        BY <2>5, <2>7, <4>1
      <4> QED
        BY <3>2, <4>1, <4>2
    <3>3. CASE t \notin {"COMMIT", "SETTLING"}
      BY <1>2, <1>4, <2>6, <3>3 DEF K
    <3> QED
      BY <3>1, <3>2, <3>3
  <2>10. /\ SumOf(intent', InSettling') = IF t = "SETTLING" THEN S + x
                                          ELSE IF t \in {"SETTLE", "RECONCILED"} THEN Less(S, x) ELSE S
         /\ t \in {"SETTLE", "RECONCILED"} => Less(S, x) + x = S
    <3>1. CASE t = "SETTLING"
      BY <1>2, <2>3, <2>6, <3>1 DEF S
    <3>2. CASE t \in {"SETTLE", "RECONCILED"}
      <4>1. SumOf(intent', InSettling') \in Nat /\ S = SumOf(intent', InSettling') + x
        BY <1>2, <2>4, <2>6, <3>2 DEF S
      <4>2. Less(S, x) = SumOf(intent', InSettling')
        BY <2>5, <2>7, <4>1
      <4> QED
        BY <3>2, <4>1, <4>2
    <3>3. CASE t \notin {"SETTLING", "SETTLE", "RECONCILED"}
      BY <1>2, <1>4, <2>6, <3>3 DEF S
    <3> QED
      BY <3>1, <3>2, <3>3
  <2>11. CapitalAccounted'
    BY <1>5, <2>1, <2>2, <2>8, <2>9, <2>10 DEF CapitalAccounted
  <2>12. Less(R, x) \in Nat /\ Less(K, x) \in Nat /\ Less(S, x) \in Nat
    BY <2>7 DEF Less
  <2>13. Exposure(books) = R + K + S
    BY <1>3 DEF Exposure
  <2>14. Exposure(books') = Exposure(books)
           + (IF t = "RESERVE" THEN x ELSE IF t \in {"SETTLE", "RECONCILED"} THEN -x ELSE 0)
    <3>1. Exposure(books') = books'.reserved + books'.committed + books'.settling
      BY DEF Exposure
    <3> QED
      BY <2>1, <2>2, <2>7, <2>8, <2>9, <2>10, <2>12, <2>13, <3>1
  <2>15. books'.nav = books.nav + (IF t = "PROFIT" THEN a ELSE IF t = "LOSS" THEN -a ELSE 0)
    BY <2>2, <2>7
  <2> QED
    BY <1>8, <2>2, <2>11, <2>14, <2>15 DEF x
<1> QED
  BY <1>7, <1>8

-----------------------------------------------------------------------------
(* Steps as the ledger sees them.                                          *)

(* What a step of c with an entry of type t has to be like.                *)
Moves(c, t, a) ==
  /\ SeenByLedger(c) /\ Posts(c, t, a)
  /\ \A d \in Calls \ {c} :
       pc'[d] = pc[d] /\ outcome'[d] = outcome[d] /\ (lock = d => lock' = d)
  /\ t = "RESERVE" => pc[c] = "append" \/ entries' = entries

(* And what it has to establish for c.                                     *)
Orderly(c) ==
  /\ \E t \in EntryTypes, a \in Nat : Moves(c, t, a)
  /\ row'[c] # "NONE" => InOrder(c)'
  /\ pc'[c] = "append" =>
       \/ pc[c] = "append" /\ lock' = lock /\ entries' = entries /\ intent' = intent
       \/ /\ lock' = c /\ row'[c] # "NONE"
          /\ 100 * (Exposure(books') + intent'[c].amount) <= MaxExposure * books'.peak
          /\ 100 * intent'[c].amount <= MaxRisk * books'.peak

(* The other calls stay in order: their entries and flags are their own.   *)
LEMMA OthersInOrder ==
  ASSUME CapitalInvariant, intent' \in [Calls -> IntentType], NEW c \in Calls,
         NEW t \in EntryTypes, NEW a \in Nat, Moves(c, t, a), NEW d \in Owners, d # c
  PROVE  InOrder(d)'
<1>1. /\ CallInvariant /\ InOrder(d) /\ d \in Calls
      /\ SeenByLedger(c) /\ Posts(c, t, a) /\ pc'[d] = pc[d] /\ outcome'[d] = outcome[d]
  BY DEF CapitalInvariant, EconomyInvariant, LedgerInOrder, Owners, Moves
<1>2. intent'[d] = intent[d]
  BY <1>1 DEF SeenByLedger
<1>3. entries' = entries \/ (c \in Owners /\ entries' = entries \cup {Entry(t, Ref(c))})
  BY <1>1 DEF Posts
<1>4. Ref(d)' = Ref(d) /\ \A x \in EntryTypes : Recorded(x, d)' <=> Recorded(x, d)
  BY <1>1, <1>3, SameEntries
<1>5. /\ Recorded("RESERVE", d)' <=> Recorded("RESERVE", d)
      /\ Recorded("COMMIT", d)' <=> Recorded("COMMIT", d)
      /\ Recorded("SETTLING", d)' <=> Recorded("SETTLING", d)
      /\ Recorded("SETTLE", d)' <=> Recorded("SETTLE", d)
      /\ Recorded("UNKNOWN", d)' <=> Recorded("UNKNOWN", d)
      /\ Recorded("RECONCILED", d)' <=> Recorded("RECONCILED", d)
  BY <1>4 DEF EntryTypes
<1> QED
  BY <1>1, <1>2, <1>5 DEF InOrder

(* A limit met below a peak is met below a higher one.                     *)
LEMMA PeakRaises == \A k \in Nat, p, q \in Int : p <= q => k * p <= k * q
<1> SUFFICES ASSUME NEW k \in Nat, NEW p \in Int, NEW q \in Int, p <= q
             PROVE  k * p <= k * q
  OBVIOUS
<1>1. q - p \in Nat
  OBVIOUS
<1>2. PICK r \in Nat : q = p + r
  BY <1>1
<1>3. k * r \in Nat
  OBVIOUS
<1>4. k * q = k * p + k * r
  BY <1>2
<1> QED
  BY <1>3, <1>4

(* What is known of the numbers, in one place.                             *)
LEMMA Numbers ==
  ASSUME CapitalInvariant
  PROVE  /\ books.nav \in Int /\ books.peak \in Int /\ Exposure(books) \in Nat
         /\ Available(books) = books.nav - Exposure(books) /\ books.nav <= books.peak
         /\ \A c \in Calls : intent[c].amount \in Nat /\ outcome[c].pnl \in Int
         /\ MaxExposure \in Nat /\ MaxRisk \in Nat /\ MaxOperational \in Nat
         /\ Structural \in Nat /\ DrawdownStop \in 0 .. 100 /\ DailyStop \in Nat
<1>1. books \in BooksType /\ intent \in [Calls -> IntentType] /\ outcome \in [Calls -> OutcomeType]
  BY DEF CapitalInvariant, EconomyInvariant, CallInvariant, EconomyTypeOK
<1>2. /\ books.nav \in Int /\ books.peak \in Int
      /\ books.reserved \in Nat /\ books.committed \in Nat /\ books.settling \in Nat
  BY <1>1 DEF BooksType
<1>3. \A c \in Calls : intent[c].amount \in Nat /\ outcome[c].pnl \in Int
  BY <1>1 DEF IntentType, OutcomeType
<1>4. Exposure(books) \in Nat
  BY <1>2 DEF Exposure
<1>5. books.nav <= books.peak
  BY DEF CapitalInvariant, EconomyInvariant, StakesAdmitted
<1> QED
  BY <1>2, <1>3, <1>4, <1>5, RatioAssumption DEF RatioAssumption, Available

(* An orderly step of c keeps all that is said of capital: exposure grows  *)
(* only by a stake that was admitted, and no other call waits to append.   *)
LEMMA OrderlyKeeps ==
  ASSUME CapitalInvariant, CallInvariant', NEW c \in Calls, Orderly(c)
  PROVE  CapitalInvariant'
<1>1. PICK t \in EntryTypes, a \in Nat : Moves(c, t, a)
  BY DEF Orderly
<1>2. /\ intent' \in [Calls -> IntentType] /\ CallInvariant /\ SeenByLedger(c) /\ Posts(c, t, a)
      /\ intent \in [Calls -> IntentType]
  BY <1>1 DEF Moves, CallInvariant, EconomyTypeOK, CapitalInvariant, EconomyInvariant
<1> DEFINE E == Exposure(books)
           x == intent[c].amount
<1>3. PICK e \in Int, p \in Int : e = Exposure(books') /\ p = books'.peak
  <2>1. books' \in BooksType
    BY DEF CallInvariant, EconomyTypeOK
  <2>2. Exposure(books') \in Int /\ books'.peak \in Int
    BY <2>1 DEF Exposure, BooksType
  <2> QED
    BY <2>2
<1>4. /\ CapitalAccounted' /\ books'.nav <= books'.peak /\ books.peak <= p
      /\ e = E + (IF entries' = entries THEN 0 ELSE IF t = "RESERVE" THEN x
                  ELSE IF t \in {"SETTLE", "RECONCILED"} THEN -x ELSE 0)
  BY <1>2, <1>3, AccountsKept
<1>5. /\ E \in Nat /\ x \in Nat /\ books.peak \in Int /\ MaxExposure \in Nat /\ MaxRisk \in Nat
      /\ \A d \in Calls : intent[d].amount \in Nat
  BY Numbers
<1>6. /\ MaxExposure * books.peak <= MaxExposure * p
      /\ MaxRisk * books.peak <= MaxRisk * p
      /\ MaxExposure * books.peak \in Int /\ MaxRisk * books.peak \in Int
      /\ MaxExposure * p \in Int /\ MaxRisk * p \in Int
  BY <1>3, <1>4, <1>5, PeakRaises
<1>7. entries' # entries /\ t = "RESERVE" => pc[c] = "append" /\ c \in Owners
  BY <1>1 DEF Moves, Posts
<1>8. \A d \in Owners : Admitted(d) /\ d \in Calls
  BY DEF CapitalInvariant, EconomyInvariant, StakesAdmitted, Owners
<1>9. ExposureBounded'
  <2>1. 100 * E <= MaxExposure * books.peak
    BY DEF CapitalInvariant, ExposureBounded
  <2>2. entries' # entries /\ t = "RESERVE" => 100 * (E + x) <= MaxExposure * books.peak
    BY <1>7, <1>8 DEF Admitted
  <2> HIDE DEF E, x
  <2>3. 100 * e <= MaxExposure * books.peak
    BY <1>3, <1>4, <1>5, <2>1, <2>2, <1>6
  <2>4. 100 * e <= MaxExposure * p
    BY <1>3, <1>6, <2>3
  <2> QED
    BY <1>3, <2>4 DEF ExposureBounded
<1>10. LedgerInOrder'
  <2>0. ASSUME NEW ref \in books'.unresolved PROVE Entry("UNKNOWN", ref) \in entries'
    <3>1. books'.unresolved \subseteq books.unresolved \cup
            (IF entries' # entries /\ t = "UNKNOWN" THEN {Ref(c)} ELSE {})
      BY <1>2, AccountsKept
    <3>2. CASE ref \in books.unresolved
      BY <1>2, <3>2 DEF Posts, CapitalInvariant, EconomyInvariant, LedgerInOrder
    <3> QED
      BY <1>2, <3>1, <3>2 DEF Posts
  <2> SUFFICES ASSUME NEW d \in Calls, row'[d] # "NONE" PROVE InOrder(d)'
    BY <2>0 DEF LedgerInOrder, Owners, Entry
  <2>1. CASE d = c
    BY <2>1 DEF Orderly
  <2>2. CASE d # c
    <3>1. d \in Owners
      BY <1>2, <2>2 DEF SeenByLedger
    <3> QED
      BY <1>1, <1>2, <2>2, <3>1, OthersInOrder
  <2> QED
    BY <2>1, <2>2
<1>11. ASSUME NEW d \in Calls, row'[d] # "NONE" PROVE Admitted(d)'
  <2>1. entries' = entries \/ (c \in Owners /\ entries' = entries \cup {Entry(t, Ref(c))})
    BY <1>2 DEF Posts
  <2>2. d \in Owners => /\ intent'[d] = intent[d]
                        /\ Recorded("RESERVE", d)' =>
                             Recorded("RESERVE", d) \/ (d = c /\ t = "RESERVE" /\ entries' # entries)
    BY <1>2, <2>1, SameEntries DEF SeenByLedger, EntryTypes
  <2>3. d \notin Owners => d = c /\ ~Recorded("RESERVE", d)'
    <3>1. d \notin Owners => d \in Owners' \ Owners
      BY <1>11 DEF Owners
    <3> QED
      BY <1>2, <3>1, NoOneElses DEF EntryTypes
  <2>4. d \in Owners => Admitted(d)
    BY <1>8
  <2>5. PICK y \in Nat : y = intent'[d].amount
    BY <1>2 DEF IntentType
  <2>6. ASSUME d \in Owners, Recorded("RESERVE", d) \/ pc[d] = "append"
        PROVE  100 * y <= MaxRisk * p
    <3>1. 100 * intent[d].amount <= MaxRisk * books.peak
      BY <2>4, <2>6 DEF Admitted
    <3>2. 100 * y <= MaxRisk * books.peak
      BY <2>2, <2>5, <2>6, <3>1
    <3> QED
      BY <1>6, <3>2
  <2>7. ASSUME d \in Owners, pc[d] = "append", ~(t = "RESERVE" /\ entries' # entries)
        PROVE  lock = d /\ 100 * (e + y) <= MaxExposure * p
    <3>1. lock = d /\ 100 * (E + intent[d].amount) <= MaxExposure * books.peak
      BY <2>4, <2>7 DEF Admitted
    <3>2. 100 * (E + y) <= MaxExposure * books.peak
      BY <2>2, <2>5, <2>7, <3>1
    <3> HIDE DEF E, x
    <3>3. e <= E
      BY <1>3, <1>4, <1>5, <2>7
    <3> QED
      BY <1>3, <1>5, <1>6, <3>1, <3>2, <3>3
  <2>8. CASE d # c
    <3>1. d \in Owners /\ pc'[d] = pc[d] /\ (lock = d => lock' = d)
      BY <1>1, <2>3, <2>8 DEF Moves
    <3>2. pc[d] = "append" => ~(t = "RESERVE" /\ entries' # entries)
      BY <1>7, <1>8, <2>8, <3>1 DEF Admitted
    <3>3. Recorded("RESERVE", d)' => Recorded("RESERVE", d)
      BY <2>2, <2>8, <3>1
    <3> QED
      BY <1>3, <2>5, <2>6, <2>7, <3>1, <3>2, <3>3 DEF Admitted
  <2>9. CASE d = c
    <3>1. pc'[c] = "append" =>
             /\ lock' = c /\ 100 * (e + y) <= MaxExposure * p
             /\ 100 * y <= MaxRisk * p
      <4> SUFFICES ASSUME pc'[c] = "append",
                          pc[c] = "append", lock' = lock, entries' = entries, intent' = intent
                   PROVE  lock' = c /\ 100 * (e + y) <= MaxExposure * p /\ 100 * y <= MaxRisk * p
        BY <1>3, <2>5, <2>9 DEF Orderly
      <4>1. c \in Owners
        BY <1>2 DEF CallInvariant, CallsOnTrack, OnTrack, Stopped, Owners
      <4> QED
        BY <2>6, <2>7, <2>9, <4>1
    <3>2. Recorded("RESERVE", c)' => 100 * y <= MaxRisk * p
      BY <1>7, <2>2, <2>3, <2>6, <2>9
    <3> QED
      BY <1>3, <2>5, <2>9, <3>1, <3>2 DEF Admitted
  <2> QED
    BY <2>8, <2>9
<1>12. StakesAdmitted'
  BY <1>4, <1>11 DEF StakesAdmitted, Owners
<1> QED
  BY <1>4, <1>9, <1>10, <1>12 DEF CapitalInvariant, EconomyInvariant

-----------------------------------------------------------------------------
(* The steps of a call that has its row, once more: their order.           *)

LocalStep(c) ==
  /\ row[c] # "NONE" /\ row'[c] # "NONE" /\ intent' = intent
  /\ \A d \in Calls \ {c} :
       /\ row'[d] = row[d] /\ pc'[d] = pc[d] /\ outcome'[d] = outcome[d]
       /\ lock = d => lock' = d

(* What c has at risk, and a step of c that does not spend what covers the *)
(* others.                                                                 *)
OwnRisk(c) == IF c \in AtRisk THEN intent[c].amount ELSE 0
Covered(c) == Available(books') - OwnRisk(c)' >= Available(books) - OwnRisk(c)

(* A step that posts nothing.                                              *)
LEMMA QuietMoves ==
  ASSUME NEW c \in Calls, LocalStep(c), entries' = entries, books' = books
  PROVE  \E t \in EntryTypes, a \in Nat : Moves(c, t, a)
<1>1. SeenByLedger(c)
  BY DEF LocalStep, SeenByLedger, Owners
<1>2. Moves(c, "COMMIT", 0)
  BY <1>1 DEF Moves, Posts, LocalStep
<1> QED
  BY <1>2 DEF EntryTypes

LEMMA QuietOrderly ==
  ASSUME CapitalInvariant, NEW c \in Calls, LocalStep(c), entries' = entries, books' = books,
         outcome'[c] = outcome[c] \/ pc[c] \in {"effect", "running"},
         \/ pc'[c] \in Stopped \cup {"refuse", "finish"} \/ pc'[c] = pc[c]
         \/ pc[c] = "effect" /\ pc'[c] \in {"running", AfterEffect(c)}
         \/ pc[c] = "running" /\ pc'[c] = AfterEffect(c),
         pc'[c] = "append" => lock' = lock
  PROVE  Orderly(c) /\ Covered(c)
<1>1. InOrder(c)
  BY DEF CapitalInvariant, EconomyInvariant, LedgerInOrder, LocalStep, Owners
<1>2. \A t : Recorded(t, c)' <=> Recorded(t, c)
  BY DEF LocalStep, Recorded, Ref, Entry
<1>3. InOrder(c)'
  <2>1. pc'[c] = "pnl" => pc[c] = "pnl" /\ outcome'[c] = outcome[c]
    BY DEF Stopped, AfterEffect
  <2>2. pc'[c] = "settle" => intent[c].amount # 0
    BY <1>1 DEF Stopped, AfterEffect, InOrder
  <2>3. pc'[c] \in {"effect", "running", "settle"} => pc[c] \in {"effect", "running", "settle"}
    BY DEF Stopped, AfterEffect
  <2>4. pc'[c] \in {"reserve", "append", "commit", "settling"} => pc'[c] = pc[c]
    BY DEF Stopped, AfterEffect
  <2> QED
    BY <1>1, <1>2, <2>1, <2>2, <2>3, <2>4 DEF InOrder, LocalStep
<1>4. pc'[c] = "append" => pc[c] = "append"
  BY DEF Stopped, AfterEffect
<1>5. Covered(c)
  <2>1. /\ c \in AtRisk' => c \in AtRisk
        /\ OwnRisk(c)' = IF c \in AtRisk' THEN intent[c].amount ELSE 0
        /\ OwnRisk(c) = IF c \in AtRisk THEN intent[c].amount ELSE 0
    BY <1>4 DEF AtRisk, OwnRisk, LocalStep, Stopped, AfterEffect
  <2>2. intent[c].amount \in Nat /\ Available(books) \in Int
    BY Numbers
  <2>3. OwnRisk(c)' <= OwnRisk(c) /\ OwnRisk(c)' \in Int /\ OwnRisk(c) \in Int
    BY <2>1, <2>2
  <2> QED
    BY <2>2, <2>3 DEF Covered
<1> QED
  BY <1>3, <1>4, <1>5, QuietMoves DEF Orderly, LocalStep

(* A step that posts an entry of c.                                        *)
LEMMA PostingMoves ==
  ASSUME CapitalInvariant, NEW c \in Calls, LocalStep(c), NEW t \in EntryTypes, NEW a \in Nat,
         Append(t, a, Ref(c)), t \notin {"PROFIT", "LOSS"} => a = intent[c].amount,
         ~Recorded(t, c) => Fits(c, t), t = "RESERVE" => pc[c] = "append"
  PROVE  /\ Moves(c, t, a)
         /\ Available(books') = Available(books)
              + (IF Recorded(t, c) THEN 0 ELSE IF t = "RESERVE" THEN -intent[c].amount
                 ELSE IF t \in {"SETTLE", "RECONCILED"} THEN intent[c].amount
                 ELSE IF t = "PROFIT" THEN a ELSE IF t = "LOSS" THEN -a ELSE 0)
         /\ \A x \in EntryTypes : Recorded(x, c)' <=> Recorded(x, c) \/ x = t
<1>1. SeenByLedger(c) /\ c \in Owners
  BY DEF LocalStep, SeenByLedger, Owners
<1>2. Posts(c, t, a)
  BY <1>1 DEF Append, Posts, ledgerVars, Recorded
<1>3. Moves(c, t, a)
  BY <1>1, <1>2 DEF Moves, LocalStep
<1>4. CallInvariant
  BY DEF CapitalInvariant, EconomyInvariant
<1>5. entries' = entries \cup {Entry(t, Ref(c))}
  BY DEF Append, ledgerVars
<1>6. Ref(c)' = Ref(c)
  BY DEF LocalStep, Ref
<1>7. \A x \in EntryTypes : Recorded(x, c)' <=> Recorded(x, c) \/ x = t
  BY <1>5, <1>6 DEF Recorded, Entry
<1>8. intent' \in [Calls -> IntentType]
  BY <1>4 DEF LocalStep, CallInvariant, EconomyTypeOK
<1>9. entries' = entries <=> Recorded(t, c)
  BY <1>5 DEF Recorded
<1>10. /\ Exposure(books') = Exposure(books)
            + (IF entries' = entries THEN 0 ELSE IF t = "RESERVE" THEN intent[c].amount
               ELSE IF t \in {"SETTLE", "RECONCILED"} THEN -intent[c].amount ELSE 0)
       /\ books'.nav = books.nav
            + (IF entries' = entries THEN 0 ELSE IF t = "PROFIT" THEN a
               ELSE IF t = "LOSS" THEN -a ELSE 0)
  BY <1>1, <1>2, <1>8, AccountsKept
<1>11. /\ intent[c].amount \in Nat /\ Exposure(books) \in Nat /\ books.nav \in Int
       /\ Available(books) = books.nav - Exposure(books)
       /\ Available(books') = books'.nav - Exposure(books')
  BY Numbers DEF Available
<1>12. Available(books') = Available(books)
         + (IF Recorded(t, c) THEN 0 ELSE IF t = "RESERVE" THEN -intent[c].amount
            ELSE IF t \in {"SETTLE", "RECONCILED"} THEN intent[c].amount
            ELSE IF t = "PROFIT" THEN a ELSE IF t = "LOSS" THEN -a ELSE 0)
  BY <1>9, <1>10, <1>11
<1> QED
  BY <1>3, <1>7, <1>12

(* Where c stands before such a step.                                      *)
LEMMA Standing ==
  ASSUME CapitalInvariant, NEW c \in Calls
  PROVE  /\ EconomyTypeOK /\ OnTrack(c) /\ pc[c] \in Steps
         /\ pc[c] \notin Stopped => row[c] = "AUTHORIZED"
         /\ row[c] # "NONE" => InOrder(c) /\ Admitted(c)
BY DEF CapitalInvariant, EconomyInvariant, CallInvariant, CallsOnTrack, OnTrack, EconomyTypeOK,
       LedgerInOrder, StakesAdmitted, Owners

LEMMA PrepareFailsOrderly ==
  ASSUME CapitalInvariant, NEW c \in Calls, PrepareFails(c)
  PROVE  Orderly(c) /\ Covered(c)
<1>1. EconomyTypeOK /\ row[c] = "AUTHORIZED"
  BY Standing DEF PrepareFails, Preparing, Stopped
<1>2. LocalStep(c)
  BY <1>1 DEF PrepareFails, Goto, LocalStep, EconomyTypeOK
<1> QED
  BY <1>1, <1>2, QuietOrderly DEF PrepareFails, Goto, ledgerVars, EconomyTypeOK

LEMMA RefuseOrderly ==
  ASSUME CapitalInvariant, NEW c \in Calls, Refuse(c)
  PROVE  Orderly(c) /\ Covered(c)
<1>1. EconomyTypeOK /\ row[c] = "AUTHORIZED"
  BY Standing DEF Refuse, Stopped
<1>2. LocalStep(c)
  BY <1>1 DEF Refuse, End, LocalStep, EconomyTypeOK
<1> QED
  BY <1>1, <1>2, QuietOrderly DEF Refuse, End, ledgerVars, EconomyTypeOK, Stopped

LEMMA GatewayRefusesOrderly ==
  ASSUME CapitalInvariant, NEW c \in Calls, GatewayRefuses(c)
  PROVE  Orderly(c) /\ Covered(c)
<1>1. EconomyTypeOK /\ row[c] = "AUTHORIZED"
  BY Standing DEF GatewayRefuses, Stopped
<1>2. LocalStep(c)
  BY <1>1 DEF GatewayRefuses, Goto, LocalStep, EconomyTypeOK
<1>3. pc'[c] = AfterEffect(c) /\ lock' = lock
  BY <1>1 DEF GatewayRefuses, Goto, EconomyTypeOK
<1> QED
  BY <1>1, <1>2, <1>3, QuietOrderly DEF GatewayRefuses, ledgerVars

LEMMA InvokeOrderly ==
  ASSUME CapitalInvariant, NEW c \in Calls, Invoke(c)
  PROVE  Orderly(c) /\ Covered(c)
<1>1. EconomyTypeOK /\ row[c] = "AUTHORIZED"
  BY Standing DEF Invoke, Stopped
<1>2. LocalStep(c)
  BY <1>1 DEF Invoke, Goto, LocalStep, EconomyTypeOK
<1> QED
  BY <1>1, <1>2, QuietOrderly DEF Invoke, Goto, ledgerVars, EconomyTypeOK

LEMMA ReturnOrderly ==
  ASSUME CapitalInvariant, NEW c \in Calls, Return(c)
  PROVE  Orderly(c) /\ Covered(c)
<1>1. EconomyTypeOK /\ row[c] = "AUTHORIZED"
  BY Standing DEF Return, Stopped
<1>2. LocalStep(c)
  BY <1>1 DEF Return, Goto, LocalStep, EconomyTypeOK
<1>3. pc'[c] = AfterEffect(c) /\ lock' = lock
  BY <1>1 DEF Return, Goto, EconomyTypeOK
<1> QED
  BY <1>1, <1>2, <1>3, QuietOrderly DEF Return, ledgerVars

LEMMA FinishOrderly ==
  ASSUME CapitalInvariant, NEW c \in Calls, Finish(c)
  PROVE  Orderly(c) /\ Covered(c)
<1>1. EconomyTypeOK /\ row[c] = "AUTHORIZED"
  BY Standing DEF Finish, Stopped
<1>2. outcome[c].kind \in {"ok", "notok", "raised"}
  BY <1>1, Standing DEF Finish, OnTrack, EconomyTypeOK, OutcomeType
<1>3. /\ pc' = [pc EXCEPT ![c] = "done"]
      /\ \E status \in {"SUCCEEDED", "FAILED", "UNCERTAIN", "ABORTED"} : row' = [row EXCEPT ![c] = status]
  BY <1>2 DEF Finish, End
<1>4. LocalStep(c)
  BY <1>1, <1>3 DEF Finish, LocalStep, EconomyTypeOK
<1> QED
  BY <1>1, <1>3, <1>4, QuietOrderly DEF Finish, ledgerVars, EconomyTypeOK, Stopped

LEMMA AbandonOrderly ==
  ASSUME CapitalInvariant, NEW c \in Calls, Abandon(c)
  PROVE  Orderly(c) /\ Covered(c)
<1>1. EconomyTypeOK /\ row[c] = "AUTHORIZED"
  BY Standing DEF Abandon
<1>2. LocalStep(c)
  BY <1>1 DEF Abandon, Goto, LocalStep, EconomyTypeOK
<1> QED
  BY <1>1, <1>2, QuietOrderly DEF Abandon, Goto, ledgerVars, EconomyTypeOK, Stopped

LEMMA RecoverOrderly ==
  ASSUME CapitalInvariant, NEW c \in Calls, Recover(c)
  PROVE  Orderly(c) /\ Covered(c)
<1>1. EconomyTypeOK /\ row[c] = "AUTHORIZED"
  BY Standing DEF Recover
<1>2. LocalStep(c)
  BY <1>1 DEF Recover, LocalStep, EconomyTypeOK
<1> QED
  BY <1>1, <1>2, QuietOrderly DEF Recover, ledgerVars, EconomyTypeOK

(* The row of c is new, so nothing is recorded of it yet.                  *)
LEMMA EntersOrderly ==
  ASSUME CapitalInvariant, NEW c \in Calls, NEW i, Enters(c, i), UNCHANGED <<ledgerVars, lock>>
  PROVE  Orderly(c) /\ Covered(c)
<1>1. /\ EconomyTypeOK /\ row[c] = "NONE" /\ EntriesOwned /\ CallInvariant
      /\ entries' = entries /\ books' = books /\ lock' = lock
  BY Standing DEF Enters, OnTrack, CapitalInvariant, EconomyInvariant, CallInvariant, ledgerVars
<1>2. Ref(c)' = IF i.key = NoKey THEN c ELSE i.key
  BY <1>1 DEF Enters, Ref, EconomyTypeOK
<1>3. i.key \in Keys \cup {NoKey} /\ i.amount \in Nat /\ intent'[c] = i
  BY <1>1 DEF Enters, IntentType, EconomyTypeOK
<1>4. row'[c] # "NONE" => \A t : Entry(t, Ref(c)') \notin entries
  BY <1>1, <1>2, <1>3, FreshRef, NameAssumption DEF Enters
<1>5. \A d \in Calls \ {c} : intent'[d] = intent[d]
  BY <1>1 DEF Enters, EconomyTypeOK
<1>6. SeenByLedger(c)
  BY <1>1, <1>4, <1>5 DEF Enters, SeenByLedger, Owners
<1>7. Moves(c, "COMMIT", 0)
  BY <1>1, <1>6 DEF Moves, Posts, Enters
<1>8. ASSUME row'[c] # "NONE" PROVE InOrder(c)'
  <2>1. \A t : ~Recorded(t, c)'
    BY <1>1, <1>4, <1>8 DEF Recorded, Entry
  <2> QED
    BY <1>1, <1>3, <2>1 DEF InOrder, Enters
<1>9. pc'[c] # "append"
  BY DEF Enters
<1>10. Covered(c)
  <2>1. c \notin AtRisk /\ c \notin AtRisk'
    BY DEF Enters, AtRisk
  <2>2. Available(books) \in Int
    BY Numbers
  <2> QED
    BY <1>1, <2>1, <2>2 DEF Covered, OwnRisk
<1> QED
  BY <1>7, <1>8, <1>9, <1>10 DEF Orderly, EntryTypes

LEMMA AppendReserveOrderly ==
  ASSUME CapitalInvariant, NEW c \in Calls, AppendReserve(c)
  PROVE  Orderly(c) /\ Covered(c)
<1>1. EconomyTypeOK /\ row[c] = "AUTHORIZED" /\ InOrder(c) /\ Admitted(c)
  BY Standing DEF AppendReserve, Stopped
<1>2. lock = c /\ ~Recorded("RESERVE", c) /\ ~Recorded("COMMIT", c)
  BY <1>1 DEF AppendReserve, Admitted, InOrder
<1>3. LocalStep(c)
  BY <1>1, <1>2 DEF AppendReserve, Goto, LocalStep, EconomyTypeOK
<1>4. intent[c].amount \in Nat /\ Available(books) \in Int
  BY Numbers
<1>5. /\ Moves(c, "RESERVE", intent[c].amount)
      /\ Available(books') = Available(books) - intent[c].amount
      /\ \A x \in EntryTypes : Recorded(x, c)' <=> Recorded(x, c) \/ x = "RESERVE"
  BY <1>1, <1>2, <1>3, <1>4, PostingMoves DEF AppendReserve, AppendOwn, Fits, EntryTypes
<1>6. pc'[c] = "commit"
  BY <1>1 DEF AppendReserve, Goto, EconomyTypeOK
<1>7. InOrder(c)'
  BY <1>1, <1>2, <1>5, <1>6 DEF InOrder, EntryTypes
<1>8. OwnRisk(c) = intent[c].amount /\ OwnRisk(c)' = 0
  BY <1>6 DEF AppendReserve, OwnRisk, AtRisk
<1>9. Covered(c)
  BY <1>4, <1>5, <1>8 DEF Covered
<1> QED
  BY <1>4, <1>5, <1>6, <1>7, <1>9 DEF Orderly, EntryTypes

LEMMA AppendCommitOrderly ==
  ASSUME CapitalInvariant, NEW c \in Calls, AppendCommit(c)
  PROVE  Orderly(c) /\ Covered(c)
<1>1. EconomyTypeOK /\ row[c] = "AUTHORIZED" /\ InOrder(c)
  BY Standing DEF AppendCommit, Stopped
<1>2. Recorded("RESERVE", c) /\ ~Recorded("COMMIT", c)
  BY <1>1 DEF AppendCommit, InOrder
<1>3. LocalStep(c)
  BY <1>1 DEF AppendCommit, Goto, LocalStep, EconomyTypeOK
<1>4. intent[c].amount \in Nat /\ Available(books) \in Int
  BY Numbers
<1>5. /\ Moves(c, "COMMIT", intent[c].amount)
      /\ Available(books') = Available(books) + 0
      /\ \A x \in EntryTypes : Recorded(x, c)' <=> Recorded(x, c) \/ x = "COMMIT"
  BY <1>1, <1>2, <1>3, <1>4, PostingMoves DEF AppendCommit, AppendOwn, Fits, EntryTypes
<1>6. pc'[c] = "settling"
  BY <1>1 DEF AppendCommit, Goto, EconomyTypeOK
<1>7. InOrder(c)'
  BY <1>1, <1>2, <1>5, <1>6 DEF InOrder, EntryTypes
<1>8. OwnRisk(c) = 0 /\ OwnRisk(c)' = 0
  BY <1>6 DEF AppendCommit, OwnRisk, AtRisk
<1>9. Covered(c)
  BY <1>4, <1>5, <1>8 DEF Covered
<1> QED
  BY <1>4, <1>5, <1>6, <1>7, <1>9 DEF Orderly, EntryTypes

LEMMA AppendSettlingOrderly ==
  ASSUME CapitalInvariant, NEW c \in Calls, AppendSettling(c)
  PROVE  Orderly(c) /\ Covered(c)
<1>1. EconomyTypeOK /\ row[c] = "AUTHORIZED" /\ InOrder(c)
  BY Standing DEF AppendSettling, Stopped
<1>2. Recorded("COMMIT", c) /\ ~Recorded("SETTLING", c)
  BY <1>1 DEF AppendSettling, InOrder
<1>3. LocalStep(c)
  BY <1>1 DEF AppendSettling, Goto, LocalStep, EconomyTypeOK
<1>4. intent[c].amount \in Nat /\ Available(books) \in Int
  BY Numbers
<1>5. /\ Moves(c, "SETTLING", intent[c].amount)
      /\ Available(books') = Available(books) + 0
      /\ \A x \in EntryTypes : Recorded(x, c)' <=> Recorded(x, c) \/ x = "SETTLING"
  BY <1>1, <1>2, <1>3, <1>4, PostingMoves DEF AppendSettling, AppendOwn, Fits, EntryTypes
<1>6. pc'[c] = "effect"
  BY <1>1 DEF AppendSettling, Goto, EconomyTypeOK
<1>7. InOrder(c)'
  BY <1>1, <1>2, <1>5, <1>6 DEF InOrder, EntryTypes
<1>8. OwnRisk(c) = 0 /\ OwnRisk(c)' = 0
  BY <1>6 DEF AppendSettling, OwnRisk, AtRisk
<1>9. Covered(c)
  BY <1>4, <1>5, <1>8 DEF Covered
<1> QED
  BY <1>4, <1>5, <1>6, <1>7, <1>9 DEF Orderly, EntryTypes

LEMMA SettleOrderly ==
  ASSUME CapitalInvariant, NEW c \in Calls, Settle(c)
  PROVE  Orderly(c) /\ Covered(c)
<1>1. EconomyTypeOK /\ row[c] = "AUTHORIZED" /\ InOrder(c) /\ pc[c] = "settle"
  BY Standing DEF Settle, Stopped
<1>2. /\ Recorded("SETTLING", c) /\ ~Recorded("SETTLE", c) /\ ~Recorded("UNKNOWN", c)
      /\ ~Recorded("RECONCILED", c) /\ Recorded("COMMIT", c) /\ Recorded("RESERVE", c)
  BY <1>1 DEF InOrder
<1>3. LocalStep(c)
  BY <1>1 DEF Settle, Goto, LocalStep, EconomyTypeOK
<1>4. intent[c].amount \in Nat /\ Available(books) \in Int /\ outcome[c].pnl \in Int
  BY Numbers
<1>5. OwnRisk(c) = 0
  BY <1>1 DEF OwnRisk, AtRisk
<1>6. intent'[c] = intent[c] /\ outcome'[c] = outcome[c]
  BY DEF Settle
<1>7. CASE AppendOwn("UNKNOWN", c) /\ Goto(c, "finish")
  <2>1. /\ Moves(c, "UNKNOWN", intent[c].amount)
        /\ Available(books') = Available(books) + 0
        /\ \A x \in EntryTypes : Recorded(x, c)' <=> Recorded(x, c) \/ x = "UNKNOWN"
    BY <1>3, <1>4, <1>7, PostingMoves DEF AppendOwn, Fits, EntryTypes
  <2>2. pc'[c] = "finish"
    BY <1>1, <1>7 DEF Goto, EconomyTypeOK
  <2>3. InOrder(c)'
    BY <1>2, <2>1, <2>2 DEF InOrder, EntryTypes
  <2>4. OwnRisk(c)' = 0
    BY <2>2 DEF OwnRisk, AtRisk
  <2>5. Covered(c)
    BY <1>4, <1>5, <2>1, <2>4 DEF Covered
  <2> QED
    BY <1>4, <2>1, <2>2, <2>3, <2>5 DEF Orderly, EntryTypes
<1>8. CASE /\ ~LosesMoreThanHeld(c)
           /\ AppendOwn("SETTLE", c) /\ Goto(c, IF outcome[c].pnl = 0 THEN "finish" ELSE "pnl")
  <2>1. /\ Moves(c, "SETTLE", intent[c].amount)
        /\ Available(books') = Available(books) + intent[c].amount
        /\ \A x \in EntryTypes : Recorded(x, c)' <=> Recorded(x, c) \/ x = "SETTLE"
    BY <1>2, <1>3, <1>4, <1>8, PostingMoves DEF AppendOwn, Fits, Released, EntryTypes
  <2>2. pc'[c] = IF outcome[c].pnl = 0 THEN "finish" ELSE "pnl"
    BY <1>1, <1>8 DEF Goto, EconomyTypeOK
  <2>3. -intent[c].amount <= outcome[c].pnl
    BY <1>4, <1>8 DEF LosesMoreThanHeld
  <2>4. InOrder(c)'
    BY <1>2, <1>6, <2>1, <2>2, <2>3 DEF InOrder, EntryTypes
  <2>5. OwnRisk(c)' \in {0, intent[c].amount}
    BY <1>6 DEF OwnRisk
  <2>6. Covered(c)
    BY <1>4, <1>5, <2>1, <2>5 DEF Covered
  <2> QED
    BY <1>4, <2>1, <2>2, <2>4, <2>6 DEF Orderly, EntryTypes
<1> QED
  BY <1>7, <1>8 DEF Settle

LEMMA BookPnlOrderly ==
  ASSUME CapitalInvariant, NEW c \in Calls, BookPnl(c)
  PROVE  Orderly(c) /\ Covered(c)
<1>1. EconomyTypeOK /\ row[c] = "AUTHORIZED" /\ InOrder(c) /\ pc[c] = "pnl"
  BY Standing DEF BookPnl, Stopped
<1>2. -intent[c].amount <= outcome[c].pnl
  BY <1>1 DEF InOrder
<1>3. LocalStep(c)
  BY <1>1 DEF BookPnl, Goto, LocalStep, EconomyTypeOK
<1>4. intent[c].amount \in Nat /\ Available(books) \in Int /\ outcome[c].pnl \in Int
  BY Numbers
<1>5. OwnRisk(c) = IF outcome[c].pnl < 0 THEN intent[c].amount ELSE 0
  BY <1>1 DEF OwnRisk, AtRisk
<1>6. CASE outcome[c].pnl > 0
  <2>1. outcome[c].pnl \in Nat
    BY <1>4, <1>6
  <2>2. /\ Moves(c, "PROFIT", outcome[c].pnl)
        /\ Available(books') = Available(books) + (IF Recorded("PROFIT", c) THEN 0 ELSE outcome[c].pnl)
        /\ \A x \in EntryTypes : Recorded(x, c)' <=> Recorded(x, c) \/ x = "PROFIT"
    BY <1>3, <1>6, <2>1, PostingMoves DEF BookPnl, Fits, EntryTypes
  <2>3. pc'[c] = "finish"
    BY <1>1, <1>6 DEF BookPnl, Goto, EconomyTypeOK
  <2>4. InOrder(c)'
    BY <1>1, <2>2, <2>3 DEF InOrder, EntryTypes
  <2>5. OwnRisk(c)' = 0
    BY <2>3 DEF OwnRisk, AtRisk
  <2>6. Covered(c)
    BY <1>4, <1>5, <1>6, <2>1, <2>2, <2>5 DEF Covered
  <2> QED
    BY <2>1, <2>2, <2>3, <2>4, <2>6 DEF Orderly, EntryTypes
<1>7. CASE ~(outcome[c].pnl > 0)
  <2>1. -outcome[c].pnl \in Nat /\ -outcome[c].pnl <= intent[c].amount
    BY <1>2, <1>4, <1>7
  <2>2. /\ Moves(c, "LOSS", -outcome[c].pnl)
        /\ Available(books') = Available(books) + (IF Recorded("LOSS", c) THEN 0 ELSE -(-outcome[c].pnl))
        /\ \A x \in EntryTypes : Recorded(x, c)' <=> Recorded(x, c) \/ x = "LOSS"
    BY <1>3, <1>7, <2>1, PostingMoves DEF BookPnl, Fits, EntryTypes
  <2>3. pc'[c] = "suspend"
    BY <1>1, <1>7 DEF BookPnl, Goto, EconomyTypeOK
  <2>4. InOrder(c)'
    BY <1>1, <2>2, <2>3 DEF InOrder, EntryTypes
  <2>5. OwnRisk(c)' = 0
    BY <2>3 DEF OwnRisk, AtRisk
  <2>6. Covered(c)
    BY <1>4, <1>5, <1>7, <2>1, <2>2, <2>5 DEF Covered
  <2> QED
    BY <2>1, <2>2, <2>3, <2>4, <2>6 DEF Orderly, EntryTypes
<1> QED
  BY <1>6, <1>7

LEMMA ReconcileOrderly ==
  ASSUME CapitalInvariant, NEW c \in Calls, Reconcile(c)
  PROVE  Orderly(c) /\ Covered(c)
<1>1. EconomyTypeOK /\ row[c] # "NONE" /\ InOrder(c)
  BY Standing DEF Reconcile
<1>2. /\ Recorded("UNKNOWN", c) /\ Recorded("SETTLING", c) /\ ~Recorded("SETTLE", c)
      /\ Recorded("RESERVE", c)
  <2>1. Recorded("UNKNOWN", c)
    BY DEF Reconcile, CapitalInvariant, EconomyInvariant, LedgerInOrder, Recorded
  <2> QED
    BY <1>1, <2>1 DEF InOrder
<1>3. LocalStep(c)
  BY <1>1 DEF Reconcile, callVars, LocalStep
<1>4. intent[c].amount \in Nat /\ Available(books) \in Int
  BY Numbers
<1>5. /\ Moves(c, "RECONCILED", intent[c].amount)
      /\ Available(books') = Available(books)
           + (IF Recorded("RECONCILED", c) THEN 0 ELSE intent[c].amount)
      /\ \A x \in EntryTypes : Recorded(x, c)' <=> Recorded(x, c) \/ x = "RECONCILED"
  BY <1>2, <1>3, <1>4, PostingMoves DEF Reconcile, AppendOwn, Fits, Released, EntryTypes
<1>6. pc'[c] = pc[c] /\ pc[c] # "append" /\ outcome'[c] = outcome[c] /\ intent'[c] = intent[c]
  BY <1>1, <1>2 DEF Reconcile, callVars, InOrder
<1>7. InOrder(c)'
  BY <1>1, <1>2, <1>5, <1>6 DEF InOrder, EntryTypes
<1>8. OwnRisk(c)' = OwnRisk(c) /\ OwnRisk(c) \in {0, intent[c].amount}
  BY <1>6 DEF OwnRisk, AtRisk
<1>9. Covered(c)
  BY <1>4, <1>5, <1>8 DEF Covered
<1> QED
  BY <1>4, <1>5, <1>6, <1>7, <1>9 DEF Orderly, EntryTypes

(* The gates, on a NAV that is no higher than the peak.                    *)
LEMMA CheckReserveOrderly ==
  ASSUME CapitalInvariant, NEW c \in Calls, CheckReserve(c)
  PROVE  Orderly(c)
<1>1. EconomyTypeOK /\ row[c] = "AUTHORIZED" /\ InOrder(c) /\ pc[c] = "reserve"
  BY Standing DEF CheckReserve, Stopped
<1>2. LocalStep(c) /\ entries' = entries /\ books' = books
  BY <1>1, NameAssumption DEF CheckReserve, Goto, LocalStep, EconomyTypeOK, ledgerVars, NameAssumption
<1>3. \A t : Recorded(t, c)' <=> Recorded(t, c)
  BY <1>2 DEF LocalStep, Recorded, Ref, Entry
<1>4. pc'[c] = IF Admissible(books, intent[c].amount) THEN "append" ELSE "refuse"
  BY <1>1 DEF CheckReserve, Goto, EconomyTypeOK
<1>5. InOrder(c)'
  BY <1>1, <1>3, <1>4 DEF InOrder
<1>6. ASSUME Admissible(books, intent[c].amount)
      PROVE  /\ lock' = c
             /\ 100 * (Exposure(books') + intent'[c].amount) <= MaxExposure * books'.peak
             /\ 100 * intent'[c].amount <= MaxRisk * books'.peak
  <2>1. /\ 100 * (Exposure(books) + intent[c].amount) <= MaxExposure * books.nav
        /\ 100 * intent[c].amount <= MaxRisk * books.nav
    BY <1>6 DEF Admissible
  <2>2. /\ MaxExposure * books.nav <= MaxExposure * books.peak
        /\ MaxRisk * books.nav <= MaxRisk * books.peak
    BY Numbers, PeakRaises
  <2>3. /\ Exposure(books) \in Nat /\ intent[c].amount \in Nat
        /\ MaxExposure \in Nat /\ MaxRisk \in Nat /\ books.nav \in Int /\ books.peak \in Int
    BY Numbers
  <2>4. /\ MaxExposure * books.nav \in Int /\ MaxExposure * books.peak \in Int
        /\ MaxRisk * books.nav \in Int /\ MaxRisk * books.peak \in Int
    BY <2>3
  <2>5. \A u, v, w \in Int : u <= v /\ v <= w => u <= w
    OBVIOUS
  <2>6. /\ 100 * (Exposure(books) + intent[c].amount) <= MaxExposure * books.peak
        /\ 100 * intent[c].amount <= MaxRisk * books.peak
    BY <2>1, <2>2, <2>3, <2>4, <2>5
  <2> QED
    BY <1>2, <1>6, <2>6 DEF CheckReserve
<1> QED
  BY <1>2, <1>4, <1>5, <1>6, QuietMoves DEF Orderly, LocalStep

-----------------------------------------------------------------------------
(* Steps that leave capital alone: an automatic suspension, a new day.     *)

LeavesCapital ==
  /\ intent' = intent /\ row' = row /\ outcome' = outcome /\ lock' = lock
  /\ books'.reserved = books.reserved /\ books'.committed = books.committed
  /\ books'.settling = books.settling /\ books'.nav = books.nav
  /\ books'.peak = books.peak /\ books'.unresolved = books.unresolved
  /\ \A x \in EntryTypes \ {"SUSPENSION"} :
       \A ref : Entry(x, ref) \in entries' <=> Entry(x, ref) \in entries
  /\ \A d \in Calls : pc'[d] = pc[d] \/ (pc[d] = "suspend" /\ pc'[d] = "finish")

LEMMA CapitalLeft ==
  ASSUME CapitalInvariant, CallInvariant', LeavesCapital
  PROVE  CapitalInvariant' /\ AtRisk' = AtRisk /\ Available(books') = Available(books)
<1>1. \A x \in EntryTypes \ {"SUSPENSION"} : \A d : Recorded(x, d)' <=> Recorded(x, d)
  BY DEF LeavesCapital, Recorded, Ref, Entry
<1>2. \A d : /\ Recorded("RESERVE", d)' <=> Recorded("RESERVE", d)
             /\ Recorded("COMMIT", d)' <=> Recorded("COMMIT", d)
             /\ Recorded("SETTLING", d)' <=> Recorded("SETTLING", d)
             /\ Recorded("SETTLE", d)' <=> Recorded("SETTLE", d)
             /\ Recorded("UNKNOWN", d)' <=> Recorded("UNKNOWN", d)
             /\ Recorded("RECONCILED", d)' <=> Recorded("RECONCILED", d)
  BY <1>1 DEF EntryTypes
<1>3. Owners' = Owners /\ Owners \subseteq Calls
  BY DEF LeavesCapital, Owners
<1>4. LedgerInOrder'
  <2>1. \A ref \in books'.unresolved : Entry("UNKNOWN", ref) \in entries'
    BY DEF LeavesCapital, CapitalInvariant, EconomyInvariant, LedgerInOrder, EntryTypes
  <2>2. ASSUME NEW d \in Owners PROVE InOrder(d)'
    <3>1. InOrder(d) /\ d \in Calls
      BY <1>3 DEF CapitalInvariant, EconomyInvariant, LedgerInOrder
    <3> QED
      BY <1>2, <3>1 DEF InOrder, LeavesCapital
  <2> QED
    BY <1>3, <2>1, <2>2 DEF LedgerInOrder, Entry
<1>5. Exposure(books') = Exposure(books) /\ Available(books') = Available(books)
  BY DEF LeavesCapital, Exposure, Available
<1>6. StakesAdmitted'
  <2>1. ASSUME NEW d \in Owners PROVE Admitted(d)'
    <3>1. Admitted(d) /\ d \in Calls
      BY <1>3 DEF CapitalInvariant, EconomyInvariant, StakesAdmitted
    <3> QED
      BY <1>2, <1>5, <3>1 DEF Admitted, LeavesCapital
  <2> QED
    BY <1>3, <2>1 DEF StakesAdmitted, LeavesCapital, CapitalInvariant, EconomyInvariant
<1>7. ExposureBounded'
  BY <1>5 DEF ExposureBounded, LeavesCapital, CapitalInvariant
<1>8. CapitalAccounted'
  <2>1. Reserving' = Reserving /\ Committing' = Committing /\ InSettling' = InSettling
    BY <1>2, <1>3 DEF Reserving, Committing, InSettling, Released
  <2>2. /\ HeldBy(Reserving)' = HeldBy(Reserving)
        /\ HeldBy(Committing)' = HeldBy(Committing)
        /\ HeldBy(InSettling)' = HeldBy(InSettling)
    BY <2>1 DEF HeldBy, Stake, LeavesCapital
  <2> QED
    BY <2>2 DEF CapitalAccounted, LeavesCapital, CapitalInvariant
<1>9. AtRisk' = AtRisk
  BY DEF AtRisk, LeavesCapital
<1> QED
  BY <1>4, <1>5, <1>6, <1>7, <1>8, <1>9 DEF CapitalInvariant, EconomyInvariant

LEMMA EnsureSuspensionLeaves ==
  ASSUME CapitalInvariant, NEW c \in Calls, EnsureSuspension(c)
  PROVE  LeavesCapital
<1>1. EconomyTypeOK /\ books \in BooksType /\ books.nav <= books.peak
  BY Standing, Numbers DEF EconomyTypeOK
<1>2. \A d \in Calls : pc'[d] = pc[d] \/ (pc[d] = "suspend" /\ pc'[d] = "finish")
  BY <1>1 DEF EnsureSuspension, Goto, EconomyTypeOK
<1>3. CASE UNCHANGED ledgerVars
  BY <1>2, <1>3 DEF EnsureSuspension, LeavesCapital, ledgerVars
<1>4. CASE ~UNCHANGED ledgerVars
  <2>1. /\ entries' = entries \cup {Entry("SUSPENSION", SuspensionRef)}
        /\ books' = Posted(books, "SUSPENSION", 0, SuspensionRef)
    BY <1>4 DEF EnsureSuspension, Append
  <2>2. Moved(books, "SUSPENSION", 0, SuspensionRef) = [books EXCEPT !.suspended = TRUE]
    BY DEF Moved
  <2>3. ~(books.nav > books.peak)
    BY Numbers
  <2>4. books' = [books EXCEPT !.suspended = TRUE]
    BY <1>1, <2>1, <2>2, <2>3 DEF Posted, BooksType
  <2>5. \A x \in EntryTypes \ {"SUSPENSION"} :
          \A ref : Entry(x, ref) \in entries' <=> Entry(x, ref) \in entries
    BY <2>1 DEF Entry
  <2> QED
    BY <1>1, <1>2, <2>4, <2>5 DEF EnsureSuspension, LeavesCapital, BooksType
<1> QED
  BY <1>3, <1>4

LEMMA NextDayLeaves ==
  ASSUME CapitalInvariant, NextDay
  PROVE  LeavesCapital
<1>1. books \in BooksType
  BY DEF CapitalInvariant, EconomyInvariant, CallInvariant, EconomyTypeOK
<1> QED
  BY <1>1 DEF NextDay, LeavesCapital, callVars, BooksType

LEMMA StutterLeaves == ASSUME UNCHANGED vars PROVE LeavesCapital
BY DEF vars, callVars, ledgerVars, LeavesCapital

-----------------------------------------------------------------------------
(* The theorems on capital.                                                *)

LEMMA CapitalInit ==
  ASSUME Init
  PROVE  CapitalInvariant /\ Owners = {} /\ AtRisk = {} /\ Active = {}
<1>1. CallInvariant
  BY EconomyInit, NameAssumption, RatioAssumption
<1>2. Owners = {} /\ AtRisk = {} /\ Active = {}
  BY DEF Init, Owners, AtRisk, Active, Stopped
<1>3. Reserving = {} /\ Committing = {} /\ InSettling = {}
  BY <1>2 DEF Reserving, Committing, InSettling
<1>4. HeldBy({}) = 0
  BY HeldIsSum, SumNone
<1>5. /\ books.reserved = 0 /\ books.committed = 0 /\ books.settling = 0 /\ books.unresolved = {}
      /\ books.nav = Genesis /\ books.peak = Genesis
  BY DEF Init, OpenBooks
<1>6. CapitalAccounted
  BY <1>3, <1>4, <1>5 DEF CapitalAccounted
<1>7. Genesis \in Nat /\ MaxExposure \in Nat /\ MaxExposure * Genesis \in Nat
  BY RatioAssumption DEF RatioAssumption
<1>8. ExposureBounded
  BY <1>5, <1>7 DEF ExposureBounded, Exposure
<1>9. LedgerInOrder /\ StakesAdmitted
  BY <1>2, <1>5, <1>7 DEF LedgerInOrder, StakesAdmitted
<1> QED
  BY <1>1, <1>2, <1>6, <1>8, <1>9 DEF CapitalInvariant, EconomyInvariant

(* Every step of a call but the gates is orderly and covered.              *)
LEMMA CallStep ==
  ASSUME CapitalInvariant, NEW c \in Calls,
         \/ DeniedByPolicy(c) \/ Claim(c)
         \/ AppendReserve(c) \/ AppendCommit(c) \/ AppendSettling(c)
         \/ PrepareFails(c) \/ Refuse(c)
         \/ GatewayRefuses(c) \/ Invoke(c) \/ Return(c)
         \/ Settle(c) \/ BookPnl(c) \/ Finish(c)
         \/ Abandon(c) \/ Recover(c) \/ Reconcile(c)
  PROVE  Orderly(c) /\ Covered(c)
<1>1. CallInvariant
  BY DEF CapitalInvariant, EconomyInvariant
<1>2. CASE DeniedByPolicy(c)
  <2>1. UNCHANGED <<ledgerVars, lock>>
    BY <1>2 DEF DeniedByPolicy
  <2> QED
    BY <1>1, <1>2, <2>1, DeniedByPolicyEnters, EntersOrderly
<1>3. CASE Claim(c)
  <2>1. UNCHANGED <<ledgerVars, lock>>
    BY <1>3 DEF Claim
  <2> QED
    BY <1>1, <1>3, <2>1, ClaimEnters, EntersOrderly
<1>4. CASE AppendReserve(c)
  BY <1>4, AppendReserveOrderly
<1>5. CASE AppendCommit(c)
  BY <1>5, AppendCommitOrderly
<1>6. CASE AppendSettling(c)
  BY <1>6, AppendSettlingOrderly
<1>7. CASE PrepareFails(c)
  BY <1>7, PrepareFailsOrderly
<1>8. CASE Refuse(c)
  BY <1>8, RefuseOrderly
<1>9. CASE GatewayRefuses(c)
  BY <1>9, GatewayRefusesOrderly
<1>10. CASE Invoke(c)
  BY <1>10, InvokeOrderly
<1>11. CASE Return(c)
  BY <1>11, ReturnOrderly
<1>12. CASE Settle(c)
  BY <1>12, SettleOrderly
<1>13. CASE BookPnl(c)
  BY <1>13, BookPnlOrderly
<1>14. CASE Finish(c)
  BY <1>14, FinishOrderly
<1>15. CASE Abandon(c)
  BY <1>15, AbandonOrderly
<1>16. CASE Recover(c)
  BY <1>16, RecoverOrderly
<1>17. CASE Reconcile(c)
  BY <1>17, ReconcileOrderly
<1> QED
  BY <1>2, <1>3, <1>4, <1>5, <1>6, <1>7, <1>8, <1>9, <1>10, <1>11, <1>12, <1>13, <1>14, <1>15,
     <1>16, <1>17

(* A step is one of those, or the gates, or leaves capital alone.          *)
LEMMA StepKinds ==
  ASSUME CapitalInvariant, [Next]_vars
  PROVE  \/ LeavesCapital
         \/ \E c \in Calls : (Orderly(c) /\ Covered(c)) \/ CheckReserve(c)
<1>1. CASE UNCHANGED vars
  BY <1>1, StutterLeaves
<1>2. CASE NextDay
  BY <1>2, NextDayLeaves
<1>3. ASSUME NEW c \in Calls, EnsureSuspension(c) PROVE LeavesCapital
  BY <1>3, EnsureSuspensionLeaves
<1>4. ASSUME NEW c \in Calls,
             \/ DeniedByPolicy(c) \/ Claim(c)
             \/ AppendReserve(c) \/ AppendCommit(c) \/ AppendSettling(c)
             \/ PrepareFails(c) \/ Refuse(c)
             \/ GatewayRefuses(c) \/ Invoke(c) \/ Return(c)
             \/ Settle(c) \/ BookPnl(c) \/ Finish(c)
             \/ Abandon(c) \/ Recover(c) \/ Reconcile(c)
      PROVE  Orderly(c) /\ Covered(c)
  BY <1>4, CallStep
<1> QED
  BY <1>1, <1>2, <1>3, <1>4 DEF Next

(* Keys, entries, admissions and accumulators, in every reachable state.   *)
LEMMA CapitalStep ==
  ASSUME CapitalInvariant, [Next]_vars
  PROVE  CapitalInvariant'
<1>1. CallInvariant'
  BY EconomyStep, NameAssumption, IntentAssumption, PnlAssumption, RatioAssumption
  DEF CapitalInvariant, EconomyInvariant
<1>2. CASE LeavesCapital
  BY <1>1, <1>2, CapitalLeft
<1>3. ASSUME NEW c \in Calls, Orderly(c) \/ CheckReserve(c) PROVE CapitalInvariant'
  BY <1>1, <1>3, CheckReserveOrderly, OrderlyKeeps
<1> QED
  BY <1>2, <1>3, StepKinds

LEMMA CapitalInvariantHolds == Spec => []CapitalInvariant
<1>1. Init => CapitalInvariant
  BY CapitalInit
<1>2. CapitalInvariant /\ [Next]_vars => CapitalInvariant'
  BY CapitalStep
<1> QED
  BY <1>1, <1>2, PTL DEF Spec

(* Who owns a key, a row and an entry, how far a call has come, which      *)
(* entries it has by then, and what the gates let through                  *)
(* (capabilities/runtime.py:87-331, services/economy.py:421-560).          *)
THEOREM EconomyInvariantHolds == Spec => []EconomyInvariant
<1>1. CapitalInvariant => EconomyInvariant
  BY DEF CapitalInvariant
<1> QED
  BY <1>1, CapitalInvariantHolds, PTL

(* The three accumulators are exactly the stakes of the calls in flight:   *)
(* no clamp at zero ever swallows or invents an amount, whatever calls     *)
(* fail, die or are reconciled by hand (services/economy.py:225-257).      *)
THEOREM CapitalIsAccounted == Spec => []CapitalAccounted
<1>1. CapitalInvariant => CapitalAccounted
  BY DEF CapitalInvariant
<1> QED
  BY <1>1, CapitalInvariantHolds, PTL

(* Outstanding capital stays within the exposure limit of the highest NAV: *)
(* the lock is held from the gates to the RESERVE row, and every other     *)
(* entry only moves or releases what was admitted                          *)
(* (services/economy.py:421-447).                                          *)
THEOREM ExposureIsBounded == Spec => []ExposureBounded
<1>1. CapitalInvariant => ExposureBounded
  BY DEF CapitalInvariant
<1> QED
  BY <1>1, CapitalInvariantHolds, PTL

-----------------------------------------------------------------------------
(* Solvency: the structural reserve covers the losses not booked yet.      *)

(* k stakes of at most m, where m is within the risk limit R of a peak P,  *)
(* fit into what a gate leaves free, if S, D and R are in proportion.      *)
LEMMA ReserveSuffices ==
  ASSUME NEW P \in Nat, NEW m \in Nat, NEW k \in Nat, NEW R \in Nat, NEW S \in Nat,
         NEW D \in 0 .. 100, NEW N \in Int, NEW F \in Int, NEW H \in Int,
         100 * k * R <= S * (100 - D), 100 * m <= R * P, H <= k * m,
         100 * (P - N) < D * P, 100 * F >= S * N
  PROVE  H <= F
<1>1. (100 - D) * P <= 100 * N
  <2>1. (100 - D) * P = 100 * P - D * P
    OBVIOUS
  <2>2. D * P \in Int
    OBVIOUS
  <2> QED
    BY <2>1, <2>2
<1>2. S * ((100 - D) * P) <= S * (100 * N)
  <2>1. (100 - D) * P \in Int /\ 100 * N \in Int
    OBVIOUS
  <2> QED
    BY <1>1, <2>1, PeakRaises
<1>3. P * (100 * k * R) <= P * (S * (100 - D))
  <2>1. 100 * k * R \in Int /\ S * (100 - D) \in Int
    OBVIOUS
  <2> QED
    BY <2>1, PeakRaises
<1>4. k * (100 * m) <= k * (R * P)
  <2>1. 100 * m \in Int /\ R * P \in Int
    OBVIOUS
  <2> QED
    BY <2>1, PeakRaises
<1>5. /\ P * (100 * k * R) = 100 * (k * (R * P))
      /\ P * (S * (100 - D)) = S * ((100 - D) * P)
      /\ k * (100 * m) = 100 * (k * m)
      /\ S * (100 * N) = 100 * (S * N)
  OBVIOUS
<1>6. /\ k * m \in Int /\ S * N \in Int /\ k * (R * P) \in Int
      /\ S * ((100 - D) * P) \in Int
  OBVIOUS
<1> QED
  BY <1>2, <1>3, <1>4, <1>5, <1>6

(* At most MaxConcurrent calls are in progress.                            *)
LEMMA OneCallMoves ==
  ASSUME EconomyTypeOK, CallsOnTrack, [Next]_vars
  PROVE  \/ pc' = pc
         \/ \E c \in Calls, v \in Steps :
              pc' = [pc EXCEPT ![c] = v] /\ (pc[c] \notin Stopped \/ CanStart(c))
<1>1. CASE UNCHANGED vars \/ NextDay
  BY <1>1 DEF vars, callVars, NextDay
<1>2. ASSUME NEW c \in Calls, DeniedByPolicy(c) \/ Claim(c)
      PROVE  CanStart(c) /\ \E v \in Steps : pc' = [pc EXCEPT ![c] = v]
  BY <1>2 DEF DeniedByPolicy, Claim, End, Goto, Steps, Preparing, Stopped
<1>3. ASSUME NEW c \in Calls,
             \/ CheckReserve(c) \/ AppendReserve(c) \/ AppendCommit(c) \/ AppendSettling(c)
             \/ PrepareFails(c) \/ Refuse(c) \/ GatewayRefuses(c) \/ Invoke(c) \/ Return(c)
      PROVE  pc[c] \notin Stopped /\ \E v \in Steps : pc' = [pc EXCEPT ![c] = v]
  BY <1>3 DEF CheckReserve, AppendReserve, AppendCommit, AppendSettling, PrepareFails, Refuse,
              GatewayRefuses, Invoke, Return, AfterEffect, End, Goto, Steps, Preparing, Settling,
              Stopped
<1>4. ASSUME NEW c \in Calls,
             Settle(c) \/ BookPnl(c) \/ EnsureSuspension(c) \/ Abandon(c)
      PROVE  pc[c] \notin Stopped /\ \E v \in Steps : pc' = [pc EXCEPT ![c] = v]
  BY <1>4 DEF Settle, BookPnl, EnsureSuspension, Abandon, Goto, Steps, Settling, Stopped
<1>5. ASSUME NEW c \in Calls, Recover(c) \/ Reconcile(c) PROVE pc' = pc
  BY <1>5 DEF Recover, Reconcile, callVars
<1>6. ASSUME NEW c \in Calls, Finish(c)
      PROVE  pc[c] \notin Stopped /\ \E v \in Steps : pc' = [pc EXCEPT ![c] = v]
  <2>1. outcome[c].kind \in {"ok", "notok", "raised"}
    BY <1>6 DEF CallsOnTrack, OnTrack, Finish, EconomyTypeOK, OutcomeType
  <2> QED
    BY <1>6, <2>1 DEF Finish, End, Steps, Stopped
<1> QED
  BY <1>1, <1>2, <1>3, <1>4, <1>5, <1>6 DEF Next

LEMMA ActiveBounded ==
  ASSUME EconomyTypeOK, CallsOnTrack, Cardinality(Active) <= MaxConcurrent, [Next]_vars
  PROVE  (Cardinality(Active) <= MaxConcurrent)'
<1>1. \A C \in SUBSET Calls : IsFiniteSet(C) /\ Cardinality(C) \in Nat
  BY CallAssumption, FS_Subset, FS_CardinalityType DEF CallAssumption
<1>2. Active \in SUBSET Calls /\ Active' \in SUBSET Calls
  BY DEF Active
<1>3. MaxConcurrent \in Nat
  BY RatioAssumption DEF RatioAssumption
<1>4. CASE Active' \subseteq Active
  <2>1. Cardinality(Active') <= Cardinality(Active)
    BY <1>1, <1>2, <1>4, FS_Subset
  <2> QED
    BY <1>1, <1>2, <1>3, <2>1
<1>5. ASSUME NEW c \in Calls, CanStart(c), Active' \subseteq Active \cup {c}
      PROVE  Cardinality(Active') <= MaxConcurrent
  <2>1. c \notin Active /\ Cardinality(Active) < MaxConcurrent
    BY <1>5 DEF CanStart, Active, Stopped
  <2>2. Cardinality(Active \cup {c}) = Cardinality(Active) + 1
    BY <1>1, <1>2, <2>1, FS_AddElement
  <2>3. Cardinality(Active') <= Cardinality(Active \cup {c})
    BY <1>1, <1>2, <1>5, FS_Subset
  <2> QED
    BY <1>1, <1>2, <1>3, <2>1, <2>2, <2>3
<1> QED
  BY <1>4, <1>5, OneCallMoves DEF Active, EconomyTypeOK

(* A call about to append or about to book has its row, and a stake within *)
(* the risk limit.                                                         *)
LEMMA RiskTakers ==
  ASSUME CapitalInvariant, NEW c \in AtRisk
  PROVE  /\ c \in Owners /\ c \in Active /\ 100 * intent[c].amount <= MaxRisk * books.peak
         /\ pc[c] = "append" => lock = c
<1>1. c \in Calls /\ pc[c] \in {"append", "pnl"}
  BY DEF AtRisk
<1>2. row[c] = "AUTHORIZED" /\ InOrder(c) /\ Admitted(c)
  BY <1>1, Standing DEF Stopped
<1>3. pc[c] = "pnl" => Recorded("RESERVE", c)
  <2>1. pc[c] = "pnl" => Recorded("SETTLE", c)
    BY <1>1 DEF CapitalInvariant, EconomyInvariant, CallInvariant, MoneyFollows, Followed
  <2> QED
    BY <1>2, <2>1 DEF InOrder
<1> QED
  BY <1>1, <1>2, <1>3 DEF Admitted, Owners, Active, Stopped

(* When the gates let c through, the reserve covers c's stake and all the  *)
(* losses still to be booked.                                              *)
LEMMA GateCovers ==
  ASSUME ReserveCoversSettlements, CapitalInvariant, Cardinality(Active) <= MaxConcurrent,
         NEW c \in Calls, pc[c] = "reserve", lock = NoCall, Admissible(books, intent[c].amount)
  PROVE  HeldBy(AtRisk) <= Available(books) - intent[c].amount
<1>1. /\ books.nav \in Int /\ books.peak \in Int /\ books.nav <= books.peak
      /\ intent[c].amount \in Nat /\ Available(books) \in Int
      /\ MaxRisk \in Nat /\ Structural \in Nat /\ DrawdownStop \in 0 .. 100
  BY Numbers
<1>2. /\ books.nav > 0 /\ 100 * (books.peak - books.nav) < DrawdownStop * books.peak
      /\ 100 * (Available(books) - intent[c].amount) >= Structural * books.nav
  <2>1. EconomicStatus(books) = "ACTIVE"
    BY DEF Admissible
  <2>2. ~(books.nav <= 0) /\ ~(100 * (books.peak - books.nav) >= DrawdownStop * books.peak)
    BY <2>1 DEF EconomicStatus
  <2>3. \A u, v \in Int : ~(u >= v) => u < v
    OBVIOUS
  <2>4. 100 * (books.peak - books.nav) \in Int /\ DrawdownStop * books.peak \in Int
    BY <1>1
  <2> QED
    BY <1>1, <2>2, <2>3, <2>4 DEF Admissible
<1>3. books.peak \in Nat
  BY <1>1, <1>2
<1>4. PICK m \in Nat : /\ 100 * m <= MaxRisk * books.peak
                       /\ \A x \in Nat : 100 * x <= MaxRisk * books.peak => x <= m
  <2>1. PICK q \in Nat : q = MaxRisk * books.peak
    BY <1>1, <1>3
  <2>2. q \div 100 \in Nat /\ 100 * (q \div 100) <= q
        /\ \A x \in Nat : 100 * x <= q => x <= q \div 100
    OBVIOUS
  <2> QED
    BY <2>1, <2>2
<1>5. AtRisk \in SUBSET Calls /\ c \notin AtRisk
  BY DEF AtRisk
<1>6. \A d \in AtRisk : intent[d].amount <= m
  <2>1. \A d \in AtRisk : 100 * intent[d].amount <= MaxRisk * books.peak /\ intent[d].amount \in Nat
    BY <1>5, RiskTakers, Numbers
  <2> QED
    BY <1>4, <2>1
<1>7. intent \in [Calls -> IntentType]
  BY DEF CapitalInvariant, EconomyInvariant, CallInvariant, EconomyTypeOK
<1>8. /\ IsFiniteSet(AtRisk) /\ Cardinality(AtRisk) \in Nat
      /\ SumOf(intent, AtRisk) <= Cardinality(AtRisk) * m /\ SumOf(intent, AtRisk) \in Nat
  BY <1>5, <1>6, <1>7, SumBound, SumType
<1>9. Cardinality(AtRisk) + 1 <= MaxConcurrent /\ MaxConcurrent \in Nat
  <2>1. AtRisk \cup {c} \subseteq Active /\ Active \in SUBSET Calls
    BY RiskTakers DEF Active, Stopped
  <2>2. IsFiniteSet(Active) /\ Cardinality(Active) \in Nat
    BY <2>1, CallAssumption, FS_Subset, FS_CardinalityType DEF CallAssumption
  <2>3. Cardinality(AtRisk \cup {c}) = Cardinality(AtRisk) + 1
    BY <1>5, <1>8, FS_AddElement
  <2>4. Cardinality(AtRisk \cup {c}) <= Cardinality(Active)
    BY <2>1, <2>2, FS_Subset
  <2>5. MaxConcurrent \in Nat
    BY RatioAssumption DEF RatioAssumption
  <2> QED
    BY <1>8, <2>2, <2>3, <2>4, <2>5
<1>10. PICK k \in Nat : k = MaxConcurrent - 1
  BY <1>8, <1>9
<1>11. SumOf(intent, AtRisk) <= k * m
  <2>1. m * Cardinality(AtRisk) <= m * k
    BY <1>8, <1>9, <1>10, PeakRaises
  <2>2. Cardinality(AtRisk) * m = m * Cardinality(AtRisk) /\ k * m = m * k
    BY <1>8
  <2>3. m * k \in Int /\ m * Cardinality(AtRisk) \in Int
    BY <1>8
  <2> QED
    BY <1>8, <2>1, <2>2, <2>3
<1>12. 100 * k * MaxRisk <= Structural * (100 - DrawdownStop)
  BY <1>10 DEF ReserveCoversSettlements
<1>13. SumOf(intent, AtRisk) <= Available(books) - intent[c].amount
  <2>1. Available(books) - intent[c].amount \in Int /\ SumOf(intent, AtRisk) \in Int
    BY <1>1, <1>8
  <2>2. PICK P \in Nat, N \in Int, F \in Int, H \in Int :
          /\ P = books.peak /\ N = books.nav /\ F = Available(books) - intent[c].amount
          /\ H = SumOf(intent, AtRisk)
    BY <1>1, <1>3, <2>1
  <2>3. /\ 100 * m <= MaxRisk * P /\ 100 * (P - N) < DrawdownStop * P
        /\ 100 * F >= Structural * N /\ H <= k * m
    BY <1>2, <1>4, <1>11, <2>2
  <2>4. H <= F
    BY <1>1, <1>12, <2>3, ReserveSuffices
  <2> QED
    BY <2>2, <2>4
<1> QED
  BY <1>13, HeldIsSum

Solvent == CapitalInvariant /\ Cardinality(Active) <= MaxConcurrent /\ NeverOverdrawn

LEMMA SolvencyStep ==
  ASSUME ReserveCoversSettlements, Solvent, [Next]_vars
  PROVE  Solvent'
<1>1. CapitalInvariant' /\ CapitalInvariant /\ CallInvariant'
  BY CapitalStep DEF Solvent, CapitalInvariant, EconomyInvariant
<1>2. EconomyTypeOK /\ CallsOnTrack /\ intent \in [Calls -> IntentType] /\ intent' \in [Calls -> IntentType]
  BY <1>1 DEF CapitalInvariant, EconomyInvariant, CallInvariant, EconomyTypeOK
<1>3. (Cardinality(Active) <= MaxConcurrent)'
  BY <1>2, ActiveBounded DEF Solvent
<1>4. /\ HeldBy(AtRisk) = SumOf(intent, AtRisk)
      /\ HeldBy(AtRisk)' = SumOf(intent', AtRisk')
      /\ Available(books) \in Int /\ Available(books') \in Int
  <2>1. Available(books) \in Int
    BY <1>1, Numbers
  <2>2. books' \in BooksType
    BY <1>1 DEF CallInvariant, EconomyTypeOK
  <2>3. Available(books') \in Int
    BY <2>2 DEF Available, Exposure, BooksType
  <2> QED
    BY <2>1, <2>3 DEF HeldBy, SumOf, UnitsOf, Stake
<1>5. SumOf(intent, AtRisk) <= Available(books)
  BY <1>4 DEF Solvent, NeverOverdrawn
<1>6. AtRisk \in SUBSET Calls /\ AtRisk' \in SUBSET Calls /\ AtRisk \subseteq Owners
  BY <1>1, RiskTakers DEF AtRisk
<1>7. SumOf(intent, AtRisk) \in Nat /\ SumOf(intent', AtRisk') \in Nat
  BY <1>2, <1>6, SumType
<1>8. CASE LeavesCapital
  <2>1. AtRisk' = AtRisk /\ Available(books') = Available(books) /\ intent' = intent
    BY <1>1, <1>8, CapitalLeft DEF LeavesCapital
  <2> QED
    BY <1>1, <1>3, <1>4, <1>5, <2>1 DEF Solvent, NeverOverdrawn
<1>9. ASSUME NEW c \in Calls, Orderly(c), Covered(c) PROVE NeverOverdrawn'
  <2>1. PICK t \in EntryTypes, a \in Nat : Moves(c, t, a)
    BY <1>9 DEF Orderly
  <2> DEFINE rest == AtRisk \ {c}
  <2>2. rest \in SUBSET Calls /\ AtRisk' \ {c} = rest
    BY <1>6, <2>1 DEF AtRisk, Moves
  <2>3. SumOf(intent', rest) = SumOf(intent, rest)
    BY <1>6, <2>1, SumSame DEF Moves, SeenByLedger
  <2>4. SumOf(intent, AtRisk) = SumOf(intent, rest) + OwnRisk(c)
    <3>1. CASE c \in AtRisk
      BY <1>2, <1>6, <3>1, SumDrops DEF OwnRisk
    <3>2. CASE c \notin AtRisk
      <4>1. rest = AtRisk
        BY <3>2
      <4> QED
        BY <1>7, <3>2, <4>1 DEF OwnRisk
    <3> QED
      BY <3>1, <3>2
  <2>5. SumOf(intent', AtRisk') = SumOf(intent', rest) + OwnRisk(c)'
    <3>1. CASE c \in AtRisk'
      BY <1>2, <1>6, <2>2, <3>1, SumDrops DEF OwnRisk
    <3>2. CASE c \notin AtRisk'
      <4>1. rest = AtRisk'
        BY <2>2, <3>2
      <4> QED
        BY <1>7, <3>2, <4>1 DEF OwnRisk
    <3> QED
      BY <3>1, <3>2
  <2>6. Available(books') - OwnRisk(c)' >= Available(books) - OwnRisk(c)
    BY <1>9 DEF Covered
  <2>7. OwnRisk(c) \in Int /\ OwnRisk(c)' \in Int /\ SumOf(intent, rest) \in Nat
    <3>1. intent[c].amount \in Nat /\ intent'[c].amount \in Nat
      BY <1>2 DEF IntentType
    <3> QED
      BY <1>2, <2>2, <3>1, SumType DEF OwnRisk
  <2>8. SumOf(intent', AtRisk') <= Available(books')
    BY <1>4, <1>5, <2>3, <2>4, <2>5, <2>6, <2>7
  <2> QED
    BY <1>4, <1>7, <2>8 DEF NeverOverdrawn
<1>10. ASSUME NEW c \in Calls, CheckReserve(c) PROVE NeverOverdrawn'
  <2>1. books' = books /\ intent' = intent /\ outcome' = outcome /\ pc[c] = "reserve" /\ lock = NoCall
    BY <1>10 DEF CheckReserve, ledgerVars
  <2>2. pc' = [pc EXCEPT ![c] = IF Admissible(books, intent[c].amount) THEN "append" ELSE "refuse"]
    BY <1>10 DEF CheckReserve, Goto
  <2>3. CASE Admissible(books, intent[c].amount)
    <3>1. AtRisk' = AtRisk \cup {c} /\ c \notin AtRisk
      BY <1>2, <2>1, <2>2, <2>3 DEF AtRisk, EconomyTypeOK
    <3>2. SumOf(intent', AtRisk') = SumOf(intent, AtRisk) + intent[c].amount
      BY <1>2, <1>6, <2>1, <3>1, SumAdds
    <3>3. HeldBy(AtRisk) <= Available(books) - intent[c].amount
      BY <1>1, <2>1, <2>3, GateCovers DEF Solvent
    <3>4. intent[c].amount \in Nat
      BY <1>2 DEF IntentType
    <3>5. SumOf(intent', AtRisk') <= Available(books')
      BY <1>4, <1>7, <2>1, <3>2, <3>3, <3>4
    <3> QED
      BY <1>4, <1>7, <3>5 DEF NeverOverdrawn
  <2>4. CASE ~Admissible(books, intent[c].amount)
    <3>1. AtRisk' = AtRisk
      BY <1>2, <2>1, <2>2, <2>4 DEF AtRisk, EconomyTypeOK
    <3> QED
      BY <1>4, <1>5, <2>1, <3>1 DEF NeverOverdrawn
  <2> QED
    BY <2>3, <2>4
<1> QED
  BY <1>1, <1>3, <1>8, <1>9, <1>10, StepKinds DEF Solvent

(* If the structural reserve is in proportion to what calls may risk, what *)
(* is available always covers the stakes that no accumulator holds just    *)
(* now, and the Universe never owes more than it has                       *)
(* (services/economy.py:263, :429-447, :535-548).                          *)
THEOREM ReserveCoversStakes ==
  ASSUME ReserveCoversSettlements
  PROVE  Spec => []NeverOverdrawn
<1>1. Init => Solvent
  <2> SUFFICES ASSUME Init PROVE Solvent
    OBVIOUS
  <2>1. CapitalInvariant /\ AtRisk = {} /\ Active = {}
    BY CapitalInit
  <2>2. HeldBy({}) = 0 /\ Cardinality({}) = 0
    BY HeldIsSum, SumNone, FS_EmptySet
  <2>3. Available(books) = Genesis /\ Genesis \in Nat /\ MaxConcurrent \in Nat
    BY RatioAssumption DEF Init, OpenBooks, Available, Exposure, RatioAssumption
  <2> QED
    BY <2>1, <2>2, <2>3 DEF Solvent, NeverOverdrawn
<1>2. Solvent /\ [Next]_vars => Solvent'
  BY SolvencyStep
<1>3. Solvent => NeverOverdrawn
  BY DEF Solvent
<1> QED
  BY <1>1, <1>2, <1>3, PTL DEF Spec
=============================================================================
