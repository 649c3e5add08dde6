------------------------- MODULE DiagnosticObserver -------------------------
(***************************************************************************)
(* The diagnostics worker (diagnostics/worker.py): one process, alone by a  *)
(* file lock, that probes every resource each cycle, applies the rules      *)
(* (three failures open an incident, two successes end it), writes what it  *)
(* saw into a local SQLite journal, saves the rules, and then publishes the *)
(* journal's pending entries in order into PostgreSQL: the incident's       *)
(* evidence and the knowledge note, one transaction per entry, acknowledged *)
(* in the journal afterwards.                                               *)
(*                                                                          *)
(* The rules live in memory (rules) and in the journal (saved); a crash can *)
(* fall between any two of the journal's and the database's commits.        *)
(* Abstracted: the probes' evidence, the uuids (entries are numbered as     *)
(* they are admitted, an episode is named by the cycle that opened it), the *)
(* journal's bytes (an entry is one unit of Capacity), the limit of 100 on  *)
(* a batch, which is above Capacity here.  The journal is a set of rows;    *)
(* its sequence numbers grow with the entries' numbers.                     *)
(***************************************************************************)
EXTENDS Naturals, FiniteSets, Sequences, SequencesExt

CONSTANTS
    Probes,         \* the probed resources, in the order of the dict of probes
    SpoolProbe,     \* the one of them that reads the journal's own marker
    Capacity,       \* how many entries the journal may hold
    EvidenceWindow, \* how many entry ids an incident remembers (256)
    Horizon,        \* bound: cycles that collect
    MaxCrashes,     \* bound: crashes of the worker
    MaxOutages,     \* bound: publications stopped by a database or a Creator not there
    MaxRevokes      \* bound: notes the Creator revokes

ASSUME ObserverAssumption ==
    /\ Probes \in Seq(ToSet(Probes))
    /\ \A m, n \in DOMAIN Probes : Probes[m] = Probes[n] => m = n
    /\ Capacity \in Nat \ {0} /\ EvidenceWindow \in Nat \ {0}
    /\ Horizon \in Nat /\ MaxCrashes \in Nat /\ MaxOutages \in Nat /\ MaxRevokes \in Nat

OpenAfter == 3
RecoverAfter == 2
None == <<>>

Resources == ToSet(Probes)
Statuses == {"healthy", "unhealthy", "unknown"}
Episodes == Resources \X (1 .. Horizon)
EntryTypes == {"observation", "incident"}
Ids == 1 .. 2 * Len(Probes) * Horizon

VARIABLES
    at,         \* where the worker is: "idle", "observe", "incident", "publish", "ack"
    clock,      \* the number of the current cycle
    sample,     \* what the probes answered in this cycle
    probing,    \* the probe whose answer is being handled
    rules,      \* DiagnosticRules.states: the rules in memory
    event,      \* the incident transition of the resource being handled
    journal,    \* the observations table
    issued,     \* how many entries were admitted to it
    saved,      \* the rules as the journal's metadata keeps them
    full,       \* spool-full.json exists
    incidents,  \* the diagnostic_incidents rows, by episode
    notes,      \* the current active note of each diagnostic, or None
    requests,   \* knowledge requests written: entry id -> the item and revision it named
    committed,  \* history: the entries whose publication has committed
    crashes, outages, revokes

workerVars == <<at, clock, sample, probing, rules, event>>
journalVars == <<journal, issued, saved, full>>
databaseVars == <<incidents, notes, requests, committed>>
spentVars == <<crashes, outages, revokes>>
observerVars == <<workerVars, journalVars, databaseVars, spentVars>>

---------------------------------------------------------------------------
(* The rules                                                                *)

CleanRow == [failures |-> 0, successes |-> 0, open |-> FALSE, episode |-> None]
NoEvent == [state |-> "none", episode |-> None]

\* Three failures or more are as good as three, two successes as good as two.
Capped(n, cap) == IF n > cap THEN cap ELSE n

\* The counters after an answer that is not unknown.
Counted(row, status) ==
    [row EXCEPT !.failures = IF status = "healthy" THEN 0 ELSE Capped(@ + 1, OpenAfter),
                !.successes = IF status = "healthy" THEN Capped(@ + 1, RecoverAfter) ELSE 0]

Opens(row) == ~row.open /\ row.failures >= OpenAfter
Recovers(row) == row.open /\ row.successes >= RecoverAfter

\* What an answer makes of the row, and the transition it reports.
Observed(row, status, episode) ==
    LET next == IF status = "unknown" THEN row ELSE Counted(row, status) IN
    CASE status = "unknown" -> [row |-> next, event |-> NoEvent]
      [] status # "unknown" /\ Opens(next) ->
            [row |-> [next EXCEPT !.open = TRUE, !.episode = episode],
             event |-> [state |-> "open", episode |-> episode]]
      [] status # "unknown" /\ Recovers(next) ->
            [row |-> [next EXCEPT !.open = FALSE, !.episode = None],
             event |-> [state |-> "recovered", episode |-> next.episode]]
      [] OTHER -> [row |-> next, event |-> NoEvent]

---------------------------------------------------------------------------
(* The journal                                                              *)

Pending == {x \in journal : ~x.acked}

\* Acknowledged entries older than a week are deleted by the next append.
Unpruned(week) == {x \in journal : ~(x.acked /\ x.cycle < week)}

\* Admits an entry, or raises the marker and drops it when the journal is full.
Admit(x) ==
    \E week \in {0, clock} :
        IF Cardinality(Unpruned(week)) >= Capacity
        THEN journal' = Unpruned(week) /\ full' = TRUE /\ UNCHANGED issued
        ELSE journal' = Unpruned(week) \cup {x} /\ full' = FALSE /\ issued' = x.id

\* Whether Admit has taken the entry.
Admitted(x) == issued' = x.id

\* The entry a resource's answer becomes; an incident's copies it.
Entry(r, type, episode, state) ==
    [id |-> issued + 1, resource |-> r, cycle |-> clock, type |-> type, episode |-> episode,
     state |-> state, acked |-> FALSE]

---------------------------------------------------------------------------
(* The database                                                             *)

\* An observation replaces its resource's note, an incident its episode's.
NoteKeys == ((Resources \X {0}) \X {"observation"}) \cup (Episodes \X {"incident"})
NoteKey(x) ==
    IF x.type = "incident" THEN <<x.episode, "incident">> ELSE <<<<x.resource, 0>>, "observation">>

NoIncident == [state |-> "absent", count |-> 0, ids |-> <<>>]

Trimmed(ids) ==
    IF Len(ids) > EvidenceWindow THEN SubSeq(ids, Len(ids) - EvidenceWindow + 1, Len(ids)) ELSE ids

\* Mutant: a replayed entry is appended and counted again.
Evidenced_NoDedupe(row, x) ==
    [row EXCEPT !.ids = Trimmed(Append(@, x.id)), !.count = @ + 1,
                !.state = IF x.type = "incident" THEN x.state ELSE IF @ = "absent" THEN "open" ELSE @]

\* record_incident_evidence: the first entry opens the row whatever its type, later
\* ones are counted unless the window still holds their id.
Evidenced(row, x) ==
    LET seen == x.id \in ToSet(row.ids) IN
    [row EXCEPT !.ids = IF seen THEN @ ELSE Trimmed(Append(@, x.id)),
                !.count = IF seen THEN @ ELSE @ + 1,
                !.state = IF x.type = "incident" THEN x.state ELSE IF @ = "absent" THEN "open" ELSE @]

\* _current_projection: the active note the entry would revise.
Previous(x) == notes[NoteKey(x)]

\* The note already shows this entry or a later one.
Superseded(x) == Previous(x) # None /\ Previous(x).cycle >= x.cycle

\* The item and the revision the write names, which its fingerprint covers.
Target(x) == IF Previous(x) = None THEN None ELSE <<Previous(x).item, Previous(x).revision>>

\* Mutant: nothing is skipped; what was published is written again.
Conflicts_NeverOlder(x) == requests[x.id] # <<"new">> /\ requests[x.id] # Target(x)

\* The write is refused: the request key is known with another payload.
Conflicts(x) == ~Superseded(x) /\ requests[x.id] # <<"new">> /\ requests[x.id] # Target(x)

\* The note is written; a request that repeats one already written changes nothing.
Writes(x) == ~Superseded(x) /\ requests[x.id] = <<"new">>

DiagnosticNote(x) ==
    [item |-> IF Previous(x) = None THEN x.id ELSE Previous(x).item,
     revision |-> x.id, cycle |-> x.cycle]

---------------------------------------------------------------------------
ObserverInit ==
    /\ at = "idle" /\ clock = 0 /\ probing = 1 /\ event = NoEvent
    /\ sample = [r \in Resources |-> "unknown"]
    /\ rules = [r \in Resources |-> CleanRow] /\ saved = [r \in Resources |-> CleanRow]
    /\ journal = {} /\ issued = 0 /\ full = FALSE
    /\ incidents = [e \in Episodes |-> NoIncident]
    /\ notes = [k \in NoteKeys |-> None]
    /\ requests = [d \in Ids |-> <<"new">>]
    /\ committed = {}
    /\ crashes = 0 /\ outages = 0 /\ revokes = 0

\* What the probes can answer together: the journal's own probe reads the marker,
\* the others find in the database, Redis, the API, the disk and the heartbeats
\* whatever is there.
Answers ==
    {a \in [Resources -> Statuses] :
        SpoolProbe \in Resources => a[SpoolProbe] = IF full THEN "unhealthy" ELSE "healthy"}

\* collect: every probe answers within its two seconds; one that fails or times
\* out is unhealthy, one with nothing to say is unknown.
Collect ==
    /\ at = "idle" /\ clock < Horizon
    /\ clock' = clock + 1 /\ at' = "observe" /\ probing' = 1
    /\ sample' \in Answers
    /\ UNCHANGED <<rules, event, journalVars, databaseVars, spentVars>>

\* The rules see one answer and its observation goes to the journal. When the
\* journal is full the incident of the same answer is not even tried.
Observe ==
    /\ at = "observe" /\ probing <= Len(Probes)
    /\ LET r == Probes[probing]
           seen == Observed(rules[r], sample[r], <<r, clock>>)
           episode == IF seen.row.episode # None THEN seen.row.episode ELSE seen.event.episode
           x == Entry(r, "observation", episode, "none")
       IN /\ rules' = [rules EXCEPT ![r] = seen.row]
          /\ Admit(x)
          /\ IF Admitted(x) /\ seen.event # NoEvent
             THEN at' = "incident" /\ event' = seen.event /\ probing' = probing
             ELSE at' = at /\ event' = NoEvent /\ probing' = probing + 1
    /\ UNCHANGED <<clock, sample, saved, databaseVars, spentVars>>

\* The transition goes to the journal as an entry of its own.
Report ==
    /\ at = "incident"
    /\ Admit(Entry(Probes[probing], "incident", event.episode, event.state))
    /\ at' = "observe" /\ event' = NoEvent /\ probing' = probing + 1
    /\ UNCHANGED <<clock, sample, rules, saved, databaseVars, spentVars>>

\* Once every answer is in the journal the rules are saved.
SaveRules ==
    /\ at = "observe" /\ probing > Len(Probes)
    /\ saved' = rules /\ at' = "publish"
    /\ UNCHANGED <<clock, sample, probing, rules, event, journal, issued, full, databaseVars, spentVars>>

\* Past the horizon the worker goes on publishing without new observations.
Retry ==
    /\ at = "idle" /\ clock = Horizon /\ Pending # {}
    /\ at' = "publish"
    /\ UNCHANGED <<clock, sample, probing, rules, event, journalVars, databaseVars, spentVars>>

\* Mutant: the batch starts from the newest entry.
First_Newest == CHOOSE x \in Pending : \A y \in Pending : x.id >= y.id

\* The entry to publish: the pending one with the lowest sequence.
First == CHOOSE x \in Pending : \A y \in Pending : x.id <= y.id

\* One entry's transaction: evidence, then the note, then the commit.
Publish ==
    /\ at = "publish" /\ Pending # {} /\ ~Conflicts(First)
    /\ LET x == First IN
       /\ incidents' = IF x.episode = None THEN incidents
                       ELSE [incidents EXCEPT ![x.episode] = Evidenced(@, x)]
       /\ notes' = IF Writes(x) THEN [notes EXCEPT ![NoteKey(x)] = DiagnosticNote(x)] ELSE notes
       /\ requests' = IF Writes(x) THEN [requests EXCEPT ![x.id] = Target(x)] ELSE requests
       /\ committed' = committed \cup {x}
    /\ at' = "ack"
    /\ UNCHANGED <<clock, sample, probing, rules, event, journalVars, spentVars>>

\* After the commit the entry is acknowledged in the journal.
Acknowledge ==
    /\ at = "ack"
    /\ journal' = (journal \ {First}) \cup {[First EXCEPT !.acked = TRUE]}
    /\ at' = "publish"
    /\ UNCHANGED <<clock, sample, probing, rules, event, issued, saved, full, databaseVars, spentVars>>

\* Mutant: an entry whose transaction failed is acknowledged all the same.
PublishStops_Acks ==
    /\ at = "publish" /\ Pending # {} /\ outages < MaxOutages
    /\ outages' = outages + 1 /\ at' = "ack"
    /\ UNCHANGED <<clock, sample, probing, rules, event, journalVars, databaseVars, crashes, revokes>>

\* No Creator, no database, an error in the transaction: what is pending is
\* retained and the cycle ends.
PublishStops ==
    /\ at = "publish" /\ Pending # {} /\ outages < MaxOutages
    /\ outages' = outages + 1 /\ at' = "idle"
    /\ UNCHANGED <<clock, sample, probing, rules, event, journalVars, databaseVars, crashes, revokes>>

\* The refused write rolls its transaction back and ends the cycle.
PublishRefused ==
    /\ at = "publish" /\ Pending # {} /\ Conflicts(First)
    /\ at' = "idle"
    /\ UNCHANGED <<clock, sample, probing, rules, event, journalVars, databaseVars, spentVars>>

\* Nothing is left to publish: the worker sleeps until the next cycle.
Sleep ==
    /\ at = "publish" /\ Pending = {}
    /\ at' = "idle"
    /\ UNCHANGED <<clock, sample, probing, rules, event, journalVars, databaseVars, spentVars>>

\* The process dies and starts again with the rules last saved.
Restart ==
    /\ crashes < MaxCrashes /\ crashes' = crashes + 1
    /\ at' = "idle" /\ probing' = 1 /\ event' = NoEvent /\ rules' = saved
    /\ sample' = [r \in Resources |-> "unknown"]
    /\ UNCHANGED <<clock, journalVars, databaseVars, outages, revokes>>

\* The Creator revokes a diagnostic note through the knowledge API.
RevokeNote(k) ==
    /\ revokes < MaxRevokes /\ notes[k] # None
    /\ revokes' = revokes + 1 /\ notes' = [notes EXCEPT ![k] = None]
    /\ UNCHANGED <<workerVars, journalVars, incidents, requests, committed, crashes, outages>>

WorkerStep ==
    \/ Collect \/ Observe \/ Report \/ SaveRules \/ Retry
    \/ Publish \/ Acknowledge \/ PublishRefused \/ Sleep

ObserverNext ==
    \/ WorkerStep \/ PublishStops \/ Restart
    \/ \E k \in NoteKeys : RevokeNote(k)

ObserverSpec == ObserverInit /\ [][ObserverNext]_observerVars /\ WF_observerVars(WorkerStep)

---------------------------------------------------------------------------
(* Properties                                                               *)

RuleRows ==
    [failures : 0 .. OpenAfter, successes : 0 .. RecoverAfter, open : BOOLEAN,
     episode : Episodes \cup {None}]

EntryRows ==
    [id : Nat, resource : Resources, cycle : 1 .. Horizon, type : EntryTypes,
     episode : Episodes \cup {None}, state : {"none", "open", "recovered"}, acked : BOOLEAN]

IncidentRows == [state : {"absent", "open", "recovered"}, count : Nat, ids : Seq(Nat)]
NoteRows == [item : Nat, revision : Nat, cycle : Nat]

\* Every variable keeps its type; the journal stays within its capacity.
ObserverTypeOK ==
    /\ at \in {"idle", "observe", "incident", "publish", "ack"}
    /\ clock \in 0 .. Horizon /\ probing \in 1 .. Len(Probes) + 1
    /\ sample \in [Resources -> Statuses]
    /\ rules \in [Resources -> RuleRows] /\ saved \in [Resources -> RuleRows]
    /\ event \in [state : {"none", "open", "recovered"}, episode : Episodes \cup {None}]
    /\ journal \subseteq EntryRows /\ IsFiniteSet(journal) /\ Cardinality(journal) <= Capacity
    /\ issued \in Nat /\ full \in BOOLEAN
    /\ committed \subseteq EntryRows /\ IsFiniteSet(committed)
    /\ incidents \in [Episodes -> IncidentRows]
    /\ \A e \in Episodes : Len(incidents[e].ids) <= EvidenceWindow
    /\ notes \in [NoteKeys -> NoteRows \cup {None}]
    /\ requests \in [Ids -> {<<"new">>, None} \cup (Nat \X Nat)]

\* An incident counts each entry of its episode once, however often a crash between
\* the database's commit and the journal's acknowledgement makes it published again,
\* and though it remembers only the last ids (record_incident_evidence).
EvidenceCountedOnce ==
    \A e \in Episodes :
        incidents[e].count = Cardinality({x \in committed : x.episode = e})

\* An observation the journal admitted leaves the pending ones only once its
\* transaction has committed: no clean-up, crash or outage loses it
\* (docs/connected-os.md: pending entries are never silently discarded).
NothingPendingLost ==
    [][\A x \in Pending :
          x \in Pending' \/ x \in committed]_observerVars

\* An incident that has been recorded as recovered is not opened again by an entry
\* published late or twice: its journal is drained in the order it was written.
RecoveredStaysRecovered ==
    [][\A e \in Episodes :
          incidents[e].state = "recovered" => incidents'[e].state = "recovered"]_observerVars

\* The one way a pending entry can be stuck: it was committed, its worker died
\* before acknowledging it, and its note was revoked before the replay.
Poisoned ==
    /\ Pending # {} /\ First \in committed
    /\ Previous(First) = None

\* What the journal holds is eventually published and acknowledged, through
\* crashes and outages, unless its head is poisoned.
PendingDrains == <>[](Pending = {} \/ Poisoned)

---------------------------------------------------------------------------
(* The inductive invariant                                                  *)

\* What was ever admitted and can still be told: by the journal or the database.
Known == committed \cup {[x EXCEPT !.acked = FALSE] : x \in journal}

\* Entries are numbered in the order of their cycles. What is committed and not yet
\* acknowledged is the first pending entry, and no later one is committed.
JournalInOrder ==
    /\ \A x \in Known : ~x.acked /\ x.id <= issued /\ x.cycle <= clock
    /\ \A x, y \in Known : (x.id = y.id => x = y) /\ (x.id < y.id => x.cycle <= y.cycle)
    /\ \A x, y \in journal : x.id = y.id => x = y
    /\ \A x \in committed, y \in Pending : x.id <= y.id
    /\ at = "ack" => Pending \cap committed # {}

\* An incident's ids are those of committed entries of its own, and a committed entry
\* that may be published again is still among them.
EvidenceRemembered ==
    \A e \in Episodes :
        /\ \A id \in ToSet(incidents[e].ids) : \E x \in committed : x.id = id /\ x.episode = e
        /\ \A x \in Pending \cap committed : x.episode = e => x.id \in ToSet(incidents[e].ids)

\* An episode opens in the cycle that names it and recovers in a later one.
InTime(state, episode, cycle) ==
    /\ episode \in Episodes
    /\ \/ state = "open" /\ cycle = episode[2]
       \/ state = "recovered" /\ cycle > episode[2]

\* How recent a resource's episode can be: probes not yet handled in this cycle have
\* none of this cycle.
NotBefore(k) ==
    IF (at = "observe" /\ k >= probing) \/ (at = "incident" /\ k > probing) THEN clock - 1 ELSE clock

EntriesInTime == \A x \in Known : x.type = "incident" => InTime(x.state, x.episode, x.cycle)

RulesInTime ==
    /\ at = "incident" => probing <= Len(Probes) /\ InTime(event.state, event.episode, clock)
    /\ at \in {"observe", "incident"} => clock > 0
    /\ \A k \in DOMAIN Probes :
          LET row == rules[Probes[k]] IN
          /\ row.open => row.episode \in Episodes
          /\ row.episode # None => row.episode[2] <= NotBefore(k)
    /\ \A r \in Resources :
          /\ saved[r].open => saved[r].episode \in Episodes
          /\ saved[r].episode # None => saved[r].episode[2] <= clock

\* A recovered incident has the committed entry that says so.
RecoveryRecorded ==
    \A e \in Episodes :
        incidents[e].state = "recovered" =>
            \E x \in committed : x.type = "incident" /\ x.state = "recovered" /\ x.episode = e

\* Every variable keeps its type, incidents count what was committed, and entries,
\* evidence and episodes keep their order.
ObserverInvariant ==
    /\ ObserverTypeOK
    /\ EvidenceCountedOnce
    /\ JournalInOrder
    /\ EvidenceRemembered
    /\ EntriesInTime
    /\ RulesInTime
    /\ RecoveryRecorded
=============================================================================
