---------------------------- MODULE SemanticCache ----------------------------
(***************************************************************************)
(* The semantic cache in front of the provider router (cache/, and         *)
(* CachingModelRouter in cache/routing.py): rows in Postgres, copies and   *)
(* single-flight locks in Redis, both reached over the network by          *)
(* concurrent requests, and invalidation by the domain service after a     *)
(* Conversation changed.  A request is atomic between two awaits.          *)
(*                                                                         *)
(* An entry is identified by a question; the Conversations that asked it   *)
(* are its tags, which are no part of its identity (fingerprint.py:80), so *)
(* Conversations with the same history share an entry.                     *)
(***************************************************************************)
EXTENDS ModelRouter

CONSTANTS
    Meta,           \* request -> what its messages and metadata say
    Near,           \* pairs of questions at or above the similarity threshold
    Close,          \* pairs between the revalidation and similarity thresholds
    Mode,           \* "exact", "semantic" or "shadow"
    MaxChanges      \* bound: changes of Conversations

(* classify_intent: the first verdict that applies.  What the request      *)
(* declares about itself comes after what it does and what its words ask   *)
(* for.                                                                    *)
Intent(m) ==
    LET verdicts == << <<m.bypass, "UNKNOWN">>,
                       <<m.acts, "SYSTEM_COMMAND">>,
                       <<"security" \in m.words, "SECURITY_DECISION">>,
                       <<"authorization" \in m.words, "AUTHORIZATION">>,
                       <<"action" \in m.words, "SYSTEM_COMMAND">>,
                       <<{"live", "financial"} \subseteq m.words, "FINANCIAL_LIVE">>,
                       <<"live" \in m.words, "LIVE_STATE">>,
                       <<m.declared # "none", m.declared>>,
                       <<m.retrieval \/ m.version, "DOCUMENT_QA">>,
                       <<"explanation" \in m.words, "EXPLANATION">>,
                       <<TRUE, "UNKNOWN">> >>
        applies(k) == verdicts[k][1]
    IN verdicts[CHOOSE k \in DOMAIN verdicts :
                    applies(k) /\ \A j \in 1..(k - 1) : ~applies(j)][2]

CacheableIntents == {"KNOWLEDGE_STATIC", "EXPLANATION", "DOCUMENT_QA", "DETERMINISTIC_COMPUTE"}

(* evaluate_policy.                                                        *)
Eligible(m) ==
    /\ ~m.bypass
    /\ m.sensitivity \notin {"SENSITIVE", "NO_CACHE"}
    /\ Intent(m) \in CacheableIntents
    /\ Intent(m) = "DOCUMENT_QA" => m.retrieval /\ m.version

(* The exact key: the question and all of its context but the tags.        *)
ExactKey(m) == [query |-> m.query, creator |-> m.creator, history |-> m.history]

Ask == [r \in Requests |-> ExactKey(Meta[r])]
In == [r \in Requests |-> Meta[r].conversation]
Cacheable == {r \in Requests : Eligible(Meta[r])}
Questions == {Ask[r] : r \in Requests}
Conversations == {In[r] : r \in Requests}

NoRequest == "nobody"

ASSUME CacheConstants ==
    /\ Near \subseteq Questions \X Questions
    /\ Close \subseteq Questions \X Questions
    /\ Mode \in {"exact", "semantic", "shadow"}
    /\ MaxChanges \in Nat
    /\ NoRequest \notin Requests

VARIABLES
    pc,        \* request -> where its generate() is
    row,       \* question -> the Postgres entry
    hot,       \* question -> the Redis copy, with who wrote it
    lock,      \* question -> the request whose token is in Redis
    token,     \* requests that hold a lock token, still valid or not
    carried,   \* request -> the answer it read or is storing
    changes,   \* changes of Conversations so far
    deleting,  \* Conversation -> keys its invalidation has yet to delete
    racers,    \* requests in flight while an invalidation committed
    due,       \* question -> makers of the answers an invalidation was to remove
    missed,    \* questions whose Redis copy an invalidation failed to delete
    sharers    \* question -> Conversations an entry was admitted for

cacheVars == <<pc, row, hot, lock, token, carried, changes, deleting,
               racers, due, missed, sharers>>
vars == <<routerVars, cacheVars>>

NoAnswer == [by |-> NoProvider, from |-> NoProvider, maker |-> NoRequest]
NoRow == [status |-> "NONE", live |-> FALSE, answer |-> NoAnswer, tags |-> {}]
NoCopy == [held |-> FALSE, answer |-> NoAnswer, writer |-> NoRequest]

Locking == Mode \in {"exact", "semantic"}
Serves == Mode \in {"exact", "semantic"}

CacheInit ==
    /\ pc = [r \in Requests |-> "idle"]
    /\ row = [q \in Questions |-> NoRow]
    /\ hot = [q \in Questions |-> NoCopy]
    /\ lock = [q \in Questions |-> NoRequest]
    /\ token = {}
    /\ carried = [r \in Requests |-> NoAnswer]
    /\ changes = 0
    /\ deleting = [c \in Conversations |-> {}]
    /\ racers = {}
    /\ due = [q \in Questions |-> {}]
    /\ missed = {}
    /\ sharers = [q \in Questions |-> {}]

Init == RouterInit /\ CacheInit

Usable(q) == row[q].status = "VALIDATED" /\ row[q].live

Goes(r, from, to) == pc[r] = from /\ pc' = [pc EXCEPT ![r] = to]

(* A local variable ends with its call.                                    *)
Return(r, from) ==
    /\ Goes(r, from, "done")
    /\ carried' = [carried EXCEPT ![r] = NoAnswer]

-----------------------------------------------------------------------------
(* lookup.  Every store may fail, and the lookup then goes on without it.  *)

Begin(r) ==
    /\ Goes(r, "idle", IF r \in Cacheable THEN "redis" ELSE "routing")
    /\ UNCHANGED <<routerVars, row, hot, lock, token, carried, changes, deleting,
                   racers, due, missed, sharers>>

ReadRedis(r) ==
    /\ \/ hot[Ask[r]].held /\ Serves /\ Return(r, "redis")
       \/ Goes(r, "redis", "rows") /\ UNCHANGED carried
    /\ UNCHANGED <<routerVars, row, hot, lock, token, changes, deleting, racers, due,
                   missed, sharers>>

ReadRow(r) ==
    /\ \/ /\ Usable(Ask[r])
          /\ Goes(r, "rows", "refill")
          /\ carried' = [carried EXCEPT ![r] = row[Ask[r]].answer]
       \/ /\ Goes(r, "rows", "similar")
          /\ UNCHANGED carried
    /\ UNCHANGED <<routerVars, row, hot, lock, token, changes, deleting,
                   racers, due, missed, sharers>>

(* The row read a moment ago is copied to Redis, then served if the hit    *)
(* can still be recorded.                                                  *)
Refill(r) ==
    /\ pc[r] = "refill"
    /\ \/ hot' = [hot EXCEPT ![Ask[r]] =
                    [held |-> TRUE, answer |-> carried[r], writer |-> r]]
       \/ UNCHANGED hot
    /\ \/ Serves /\ Return(r, "refill")
       \/ Goes(r, "refill", "similar") /\ carried' = [carried EXCEPT ![r] = NoAnswer]
    /\ UNCHANGED <<routerVars, row, lock, token, changes, deleting, racers, due, missed,
                   sharers>>

(* semantic_candidates: live entries of the same Creator and history.      *)
Candidates(k) ==
    {q \in Questions : Usable(q) /\ q.creator = k.creator /\ q.history = k.history}

(* A compatible entry of another question is served, or only noted: then   *)
(* the request goes on without asking for the lock.                        *)
LookSimilar(r) ==
    /\ \/ /\ Mode = "semantic"
          /\ \E q \in Candidates(Ask[r]) : <<Ask[r], q>> \in Near
          /\ Return(r, "similar")
       \/ /\ Mode \in {"semantic", "shadow"}
          /\ \E q \in Candidates(Ask[r]) :
                <<Ask[r], q>> \in Close \cup (IF Mode = "shadow" THEN Near ELSE {})
          /\ Goes(r, "similar", "routing")
          /\ UNCHANGED carried
       \/ /\ Goes(r, "similar", IF Locking THEN "lock" ELSE "routing")
          /\ UNCHANGED carried
    /\ UNCHANGED <<routerVars, row, hot, lock, token, changes, deleting, racers, due,
                   missed, sharers>>

TakeLock(r) ==
    /\ \/ /\ lock[Ask[r]] = NoRequest
          /\ Goes(r, "lock", "routing")
          /\ lock' = [lock EXCEPT ![Ask[r]] = r]
          /\ token' = token \cup {r}
       \/ /\ lock[Ask[r]] # NoRequest
          /\ Goes(r, "lock", "waiting")
          /\ UNCHANGED <<lock, token>>
       \/ /\ Goes(r, "lock", "routing")   \* Redis unavailable
          /\ UNCHANGED <<lock, token>>
    /\ UNCHANGED <<routerVars, row, hot, carried, changes, deleting, racers, due,
                   missed, sharers>>

(* wait_for_exact: the peer's answer, or the end of the wait.              *)
WaitEnds(r) ==
    /\ \/ hot[Ask[r]].held /\ Return(r, "waiting")
       \/ Goes(r, "waiting", "routing") /\ UNCHANGED carried
    /\ UNCHANGED <<routerVars, row, hot, lock, token, changes, deleting, racers, due,
                   missed, sharers>>

Lookup(r) ==
    \/ Begin(r) \/ ReadRedis(r) \/ ReadRow(r) \/ Refill(r)
    \/ LookSimilar(r) \/ TakeLock(r) \/ WaitEnds(r)

-----------------------------------------------------------------------------
(* The call of the router, then admit and abort.                           *)

StartRouting(r) == pc[r] = "routing" /\ BeginRoute(r) /\ UNCHANGED cacheVars

Calls(r) == pc[r] = "routing" /\ CallReturns(r) /\ UNCHANGED cacheVars

(* The answer is admitted unless it is empty or asks for a capability;     *)
(* cached metadata keeps neither fallback_from nor fallback_reason.        *)
Routed(r) ==
    /\ outcome[r] \notin {Pending, Cancelled}
    /\ \/ /\ outcome[r].kind = "answered" /\ r \in Cacheable
          /\ Goes(r, "routing", "admit")
          /\ carried' = [carried EXCEPT ![r] =
                [by |-> outcome[r].by, from |-> NoProvider, maker |-> r]]
       \/ /\ Goes(r, "routing", "abort")
          /\ UNCHANGED carried
    /\ UNCHANGED <<routerVars, row, hot, lock, token, changes, deleting,
                   racers, due, missed, sharers>>

(* Mutant: the tags of the conflicting row are replaced.                   *)
Upserted_TagsReplaced(q, r) ==
    [status |-> "VALIDATED", live |-> TRUE, answer |-> carried[r], tags |-> {In[r]}]

(* upsert: whatever the row was, it is VALIDATED again with both tags.     *)
Upserted(q, r) ==
    [status |-> "VALIDATED", live |-> TRUE, answer |-> carried[r],
     tags |-> row[q].tags \cup {In[r]}]

AdmitRow(r) ==
    /\ \/ /\ Goes(r, "admit", "store")
          /\ row' = [row EXCEPT ![Ask[r]] = Upserted(Ask[r], r)]
          /\ sharers' = [sharers EXCEPT ![Ask[r]] = @ \cup {In[r]}]
       \/ /\ Goes(r, "admit", "abort")   \* the transaction failed
          /\ UNCHANGED <<row, sharers>>
    /\ UNCHANGED <<routerVars, hot, lock, token, carried, changes, deleting,
                   racers, due, missed>>

AdmitCopy(r) ==
    /\ Goes(r, "store", "abort")
    /\ \/ hot' = [hot EXCEPT ![Ask[r]] =
                    [held |-> TRUE, answer |-> carried[r], writer |-> r]]
       \/ UNCHANGED hot
    /\ UNCHANGED <<routerVars, row, lock, token, carried, changes, deleting,
                   racers, due, missed, sharers>>

(* Mutant: the lock is deleted whoever holds it.                           *)
Released_AnyToken(q, r) == NoRequest

(* The lock is deleted only while it holds this request's own token.       *)
Released(q, r) == IF lock[q] = r THEN NoRequest ELSE lock[q]

Abort(r) ==
    /\ Return(r, "abort")
    /\ \/ r \in token /\ lock' = [lock EXCEPT ![Ask[r]] = Released(Ask[r], r)]
       \/ UNCHANGED lock
    /\ token' = token \ {r}
    /\ UNCHANGED <<routerVars, row, hot, changes, deleting, racers, due,
                   missed, sharers>>

(* The caller's deadline cancels the request at an await: CancelledError   *)
(* is no Exception, so nothing is released.                                *)
Cancel(r) ==
    /\ pc[r] \notin {"idle", "done"}
    /\ Return(r, pc[r])
    /\ IF calling[r] # 0 THEN CallIsCancelled(r)
       ELSE /\ outcome' = [outcome EXCEPT ![r] = Cancelled]
            /\ UNCHANGED <<circuit, cooled, limited, calling, blamed, leaked, lapses>>
    /\ UNCHANGED <<row, hot, lock, token, changes, deleting, racers, due,
                   missed, sharers>>

-----------------------------------------------------------------------------
(* invalidate: the rows in one transaction, then their copies in Redis.    *)

InFlight == {r \in Requests : pc[r] \notin {"idle", "done"}}

InvalidateRows(c) ==
    /\ deleting[c] = {}
    /\ changes < MaxChanges
    /\ LET keys == {q \in Questions : row[q].status = "VALIDATED" /\ c \in row[q].tags} IN
       /\ row' = [q \in Questions |->
                    IF q \in keys THEN [row[q] EXCEPT !.status = "INVALID"] ELSE row[q]]
       /\ deleting' = [deleting EXCEPT ![c] = keys]
    /\ changes' = changes + 1
    /\ due' = [q \in Questions |->
                 IF c \in sharers[q]
                 THEN due[q] \cup ({row[q].answer.maker, hot[q].answer.maker} \ {NoRequest})
                 ELSE due[q]]
    /\ racers' = racers \cup InFlight
    /\ UNCHANGED <<routerVars, pc, hot, lock, token, carried, missed, sharers>>

InvalidateCopies(c) ==
    /\ deleting[c] # {}
    /\ \/ /\ hot' = [q \in Questions |-> IF q \in deleting[c] THEN NoCopy ELSE hot[q]]
          /\ UNCHANGED missed
       \/ /\ missed' = missed \cup deleting[c]   \* Redis unavailable: swallowed
          /\ UNCHANGED hot
    /\ deleting' = [deleting EXCEPT ![c] = {}]
    /\ UNCHANGED <<routerVars, pc, row, lock, token, carried, changes, racers, due,
                   sharers>>

(* TTLs.                                                                   *)
RowExpires(q) ==
    /\ Lapse
    /\ row[q].live
    /\ row' = [row EXCEPT ![q].live = FALSE]
    /\ UNCHANGED <<circuit, cooled, limited, calling, outcome, blamed, leaked,
                   pc, hot, lock, token, carried, changes, deleting, racers, due, missed, sharers>>

CopyExpires(q) ==
    /\ Lapse
    /\ hot[q].held
    /\ hot' = [hot EXCEPT ![q] = NoCopy]
    /\ missed' = missed \ {q}
    /\ UNCHANGED <<circuit, cooled, limited, calling, outcome, blamed, leaked,
                   pc, row, lock, token, carried, changes, deleting,
                   racers, due, sharers>>

LockExpires(q) ==
    /\ Lapse
    /\ lock[q] # NoRequest
    /\ lock' = [lock EXCEPT ![q] = NoRequest]
    /\ UNCHANGED <<circuit, cooled, limited, calling, outcome, blamed, leaked,
                   pc, row, hot, token, carried, changes, deleting, racers, due, missed,
                   sharers>>

Clock ==
    \/ \E p \in Providers : (CircuitCools(p) \/ LimitLapses(p)) /\ UNCHANGED cacheVars
    \/ \E q \in Questions : RowExpires(q) \/ CopyExpires(q) \/ LockExpires(q)

Finish(r) == Routed(r) \/ AdmitRow(r) \/ AdmitCopy(r) \/ Abort(r)

Step(r) == Lookup(r) \/ StartRouting(r) \/ Calls(r) \/ Finish(r)

Next ==
    \/ \E r \in Requests : Step(r) \/ Cancel(r)
    \/ \E c \in Conversations : InvalidateRows(c) \/ InvalidateCopies(c)
    \/ Clock

Spec == Init /\ [][Next]_vars

-----------------------------------------------------------------------------
Answers == [by : Providers \cup {NoProvider}, from : Providers \cup {NoProvider},
            maker : Requests \cup {NoRequest}]

TypeOK ==
    /\ RouterTypeOK
    /\ pc \in [Requests -> {"idle", "redis", "rows", "refill", "similar", "lock",
                            "waiting", "routing", "admit", "store", "abort", "done"}]
    /\ row \in [Questions -> [status : {"NONE", "VALIDATED", "INVALID"}, live : BOOLEAN,
                              answer : Answers, tags : SUBSET Conversations]]
    /\ hot \in [Questions -> [held : BOOLEAN, answer : Answers,
                              writer : Requests \cup {NoRequest}]]
    /\ lock \in [Questions -> Requests \cup {NoRequest}]
    /\ token \subseteq Requests
    /\ carried \in [Requests -> Answers]
    /\ changes \in 0..MaxChanges
    /\ deleting \in [Conversations -> SUBSET Questions]
    /\ racers \subseteq Requests /\ missed \subseteq Questions
    /\ due \in [Questions -> SUBSET Requests]
    /\ sharers \in [Questions -> SUBSET Conversations]

(* Whoever made an answer that is kept, or that was to be removed, had it  *)
(* admitted: it stores its copy or has gone on.                            *)
Stored(m) == pc[m] \in {"store", "abort", "done"}
MakersStored ==
    \A q \in Questions :
        /\ \A m \in {row[q].answer.maker, hot[q].answer.maker} \ {NoRequest} : Stored(m)
        /\ \A m \in due[q] : Stored(m)

(* What a request that may write a copy carries: an answer read from a row,*)
(* or its own.  If the row has been invalidated since, or the answer is    *)
(* one an invalidation was to remove, the request was in flight then.      *)
CopiersRace ==
    \A r \in Requests :
        /\ pc[r] \in {"admit", "store"} => carried[r].maker = r
        /\ pc[r] = "refill" => Stored(carried[r].maker) \/ carried[r].maker = NoRequest
        /\ (/\ pc[r] \in {"refill", "store"}
            /\ row[Ask[r]].status # "VALIDATED" \/ carried[r].maker \in due[Ask[r]])
                => r \in racers

(* Every Conversation an entry was admitted for can invalidate it, and a   *)
(* copy whose row is gone is explained as InvalidationReaches says.        *)
CopiesExplained ==
    \A q \in Questions :
        /\ sharers[q] \subseteq row[q].tags
        /\ hot[q].held /\ row[q].status # "VALIDATED" =>
              \/ hot[q].writer \in racers
              \/ q \in missed
              \/ \E c \in Conversations : q \in deleting[c]

(* An entry shared by several Conversations is out of reach of none of     *)
(* their invalidations (repository.py:104): an answer that was stored when *)
(* a Conversation it was admitted for changed is no longer usable in the   *)
(* rows, and a copy of it in Redis was put there by a request that was in  *)
(* flight at the time, or survives a deletion that Redis refused or that   *)
(* is still under way.                                                     *)
InvalidationReaches ==
    \A q \in Questions :
        /\ Usable(q) => row[q].answer.maker \notin due[q]
        /\ hot[q].held /\ hot[q].answer.maker \in due[q] =>
              \/ hot[q].writer \in racers
              \/ q \in missed
              \/ \E c \in Conversations : q \in deleting[c]

(* A lock in Redis goes with its owner's own release or by its lifetime:   *)
(* a request that outlived its lock never frees the one a later request    *)
(* took (redis_store.py:10).                                               *)
LockFreedByOwner ==
    [][\A q \in Questions :
          lock[q] # NoRequest /\ lock'[q] # lock[q] => pc' = pc \/ pc'[lock[q]] # pc[lock[q]]]_vars

(* An answer the router obtained after an earlier candidate was refused or *)
(* failed names the candidate the request was meant for, through any mix   *)
(* of refused and failed ones, and no other answer names one (router.py:245).*)
FallbackNamed ==
    \A r \in Requests, j \in Route :
        outcome[r].kind = "answered" /\ outcome[r].by = Chain[j] =>
            outcome[r].from = IF j # First THEN Chain[First] ELSE NoProvider

(* Rows, copies, locks and circuits keep their types; a circuit is left    *)
(* half open by a probe under way or by one that reported nothing; and the *)
(* answers, their makers and their copies are where the loops put them.    *)
RouterInvariant ==
    /\ TypeOK /\ HalfOpenAccounted /\ BlameKnown
    /\ MakersStored /\ CopiersRace /\ CopiesExplained
=============================================================================
