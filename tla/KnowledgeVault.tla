---------------------------- MODULE KnowledgeVault ----------------------------
(***************************************************************************)
(* The export of DEUS's knowledge to an Obsidian folder (knowledge/          *)
(* obsidian.py), run by the knowledge worker every thirty seconds when it is *)
(* enabled (knowledge/worker.py), over the store of KnowledgeStore. One file *)
(* per item, and a manifest in SQLite with the hashes of what the exporter   *)
(* found and of what it was about to write. The Creator edits and deletes    *)
(* the same files at any moment; the exporter may die between any two of its *)
(* steps. A file is what wrote it: the revision whose note it is, or the     *)
(* Creator; a hash stands for its content.                                   *)
(***************************************************************************)
EXTENDS KnowledgeStore

CONSTANTS
    ExportSessions, \* bound: the sessions that write while the export is enabled
    ExportRequests, \* bound: the transactions they begin
    MaxEdits        \* bound: edits and deletions by the Creator

ASSUME VaultAssumption == ExportSessions \subseteq Writers /\ ExportRequests \in Nat /\ MaxEdits \in Nat

VARIABLES
    exporting,  \* settings.deus_obsidian_export_enabled
    disk,       \* the file of each item
    manifest,   \* the manifest's row of each item
    quarantine, \* files moved to .quarantine, per item
    ex,         \* the exporter
    edits

vault == <<exporting, disk, manifest, quarantine, ex, edits>>
vvars == <<kvars, vault>>

NoFile == 0
Human == MaxRevisions + 1
NoRow == [on |-> FALSE, old |-> NoFile, new |-> NoFile]
Row_NewOnly(old, new) == [on |-> TRUE, old |-> NoFile, new |-> new]
Row(old, new) == [on |-> TRUE, old |-> old, new |-> new]

\* `rows`: current revisions first selected; `notes`: item to revision, for
\* those found eligible; `left`: items still to do; `at`, `saw`: the item at
\* hand and the file it had when it was hashed.
Resting == [pc |-> "rest", rows |-> {}, notes |-> {}, left |-> {}, at |-> 0, saw |-> NoFile]

VInit ==
    /\ KInit
    /\ exporting \in BOOLEAN
    /\ disk = [i \in RevIds |-> NoFile] /\ manifest = [i \in RevIds |-> NoRow]
    /\ quarantine = [i \in RevIds |-> 0]
    /\ ex = Resting /\ edits = 0

---------------------------------------------------------------------------
(* The Creator                                                              *)

Edits(i, content) ==
    /\ exporting /\ edits < MaxEdits
    /\ disk[i] \notin {NoFile, content}
    /\ disk' = [disk EXCEPT ![i] = content]
    /\ edits' = edits + 1
    /\ UNCHANGED <<kvars, exporting, manifest, quarantine, ex>>

---------------------------------------------------------------------------
(* The exporter                                                             *)

\* The current revisions are selected by one statement and each is then judged
\* by others: what commits in between is missing from the notes.
SelectRows ==
    /\ exporting /\ ex.pc = "rest"
    /\ ex' = [ex EXCEPT !.pc = "judge", !.rows = {Current(Kept, i) : i \in Items(Kept)}]
    /\ UNCHANGED <<kvars, exporting, disk, manifest, quarantine, edits>>

Listed == {i \in RevIds : manifest[i].on}

\* Every item that has a file or ought to have one.
ToDo_NotesOnly(notes) == {rev[n].item : n \in notes}
ToDo(notes) == Listed \cup {rev[n].item : n \in notes}

JudgeRows ==
    /\ ex.pc = "judge"
    /\ LET notes == ex.rows \cap Eligible(Kept)
       IN  ex' = [ex EXCEPT !.pc = "next", !.rows = {}, !.notes = notes,
                            !.left = ToDo(notes)]
    /\ UNCHANGED <<kvars, exporting, disk, manifest, quarantine, edits>>

HasNote(i) == \E n \in ex.notes : rev[n].item = i
NoteOf(i) == CHOOSE n \in ex.notes : rev[n].item = i

\* A file is the exporter's to change while it is as one of the manifest's two
\* hashes says: what was there before the last write, or what it was to write.
Managed_Listed(i) == disk[i] = NoFile \/ manifest[i].on
Managed(i) ==
    \/ disk[i] = NoFile
    \/ manifest[i].on /\ disk[i] \in {manifest[i].old, manifest[i].new}

Turn(pc, i) == [ex EXCEPT !.pc = pc, !.at = i, !.saw = disk[i], !.left = @ \ {i}]
Skip(i) == [ex EXCEPT !.left = @ \ {i}]

\* The file is hashed, and what is to be done with it decided: a note is only
\* announced here, in the manifest, before its file is touched.
Look(i) ==
    /\ ex.pc = "next" /\ i \in ex.left
    /\ IF HasNote(i)
       THEN IF ~Managed(i) THEN ex' = Skip(i) /\ UNCHANGED manifest
            ELSE /\ manifest' = [manifest EXCEPT ![i] = Row(disk[i], NoteOf(i))]
                 /\ ex' = IF disk[i] = NoteOf(i) THEN Skip(i) ELSE Turn("replace", i)
       ELSE /\ ex' = Turn(IF ~Managed(i) THEN "quarantine"
                          ELSE IF disk[i] # NoFile THEN "unlink" ELSE "forget", i)
            /\ UNCHANGED manifest
    /\ UNCHANGED <<kvars, exporting, disk, quarantine, edits>>

Done == [ex EXCEPT !.pc = "next", !.at = 0, !.saw = NoFile]

Replace ==
    /\ ex.pc = "replace"
    /\ disk' = [disk EXCEPT ![ex.at] = NoteOf(ex.at)]
    /\ ex' = Done
    /\ UNCHANGED <<kvars, exporting, manifest, quarantine, edits>>

\* A file deleted meanwhile is noticed by path.exists(), or ends the run.
Vanished == {Resting, [ex EXCEPT !.pc = "forget"]}

\* A file of the Creator's that stands for nothing any more is moved to a name
\* of its own.
Quarantine ==
    /\ ex.pc = "quarantine"
    /\ IF disk[ex.at] = NoFile THEN ex' \in Vanished /\ UNCHANGED <<disk, quarantine>>
       ELSE /\ quarantine' = [quarantine EXCEPT ![ex.at] = @ + 1]
            /\ disk' = [disk EXCEPT ![ex.at] = NoFile]
            /\ ex' = [ex EXCEPT !.pc = "forget"]
    /\ UNCHANGED <<kvars, exporting, manifest, edits>>

Unlink ==
    /\ ex.pc = "unlink"
    /\ ex' \in IF disk[ex.at] = NoFile THEN Vanished ELSE {[ex EXCEPT !.pc = "forget"]}
    /\ disk' = [disk EXCEPT ![ex.at] = NoFile]
    /\ UNCHANGED <<kvars, exporting, manifest, quarantine, edits>>

Forget ==
    /\ ex.pc = "forget"
    /\ manifest' = [manifest EXCEPT ![ex.at] = NoRow]
    /\ ex' = Done
    /\ UNCHANGED <<kvars, exporting, disk, quarantine, edits>>

EndExport ==
    /\ ex.pc = "next" /\ ex.left = {}
    /\ ex' = Resting
    /\ UNCHANGED <<kvars, exporting, disk, manifest, quarantine, edits>>

\* The worker dies; its lock goes with it, the temporary file is not the note's.
ExporterDies ==
    /\ ex.pc # "rest" /\ faults < MaxFaults
    /\ ex' = Resting /\ faults' = faults + 1
    /\ UNCHANGED <<rev, outbox, lapsed, tx, receipts, asked, exporting, disk, manifest, quarantine, edits>>

Export == SelectRows \/ JudgeRows \/ (\E i \in RevIds : Look(i)) \/ Replace \/ Quarantine \/ Unlink \/ Forget \/ EndExport

\* Two settings, two bounds: with the export enabled few sessions write, and
\* only then do sources change; with it disabled every writer is at work.
VNext ==
    \/ /\ KNext
       /\ exporting => asked' <= ExportRequests /\ \A w \in Writers \ ExportSessions : tx'[w] = Idle
       /\ lapsed' # lapsed => exporting
       /\ UNCHANGED vault
    \/ \E i \in RevIds, content \in {NoFile, Human} : Edits(i, content)
    \/ Export \/ ExporterDies

VSpec == VInit /\ [][VNext]_vvars /\ (\A w \in Writers : WF_vvars(Work(w) /\ UNCHANGED vault))
               /\ WF_vvars(IndexRun /\ UNCHANGED vault) /\ WF_vvars(Export)

---------------------------------------------------------------------------
(* Properties                                                               *)

Exporters == [pc : {"rest", "judge", "next", "replace", "quarantine", "unlink", "forget"},
              rows : SUBSET RevIds, notes : SUBSET RevIds, left : SUBSET RevIds,
              at : 0..MaxRevisions, saw : 0..Human]

\* Every column holds what its code writes.
VaultTypeOK ==
    /\ disk \in [RevIds -> 0..Human] /\ quarantine \in [RevIds -> Nat]
    /\ manifest \in [RevIds -> [on : BOOLEAN, old : 0..MaxRevisions, new : 0..MaxRevisions]]
    /\ ex \in Exporters

\* At each place of the exporter: its notes are committed revisions, one of an item;
\* a file it is about to replace or to delete was its own when it was hashed, and the
\* manifest already names the note that is to be written; a row is forgotten once
\* its file is gone.
ExporterInStep ==
    /\ ex.rows \cup ex.notes \subseteq Kept
    /\ \A n, o \in ex.rows : rev[n].item = rev[o].item => n = o
    /\ \A n, o \in ex.notes : rev[n].item = rev[o].item => n = o
    /\ ex.pc \in {"replace", "quarantine", "unlink", "forget"} => ex.at \in RevIds
    /\ ex.pc \in {"replace", "unlink"} => ex.saw # Human
    /\ ex.pc = "replace" =>
          /\ HasNote(ex.at)
          /\ manifest[ex.at].on /\ manifest[ex.at].new = NoteOf(ex.at)
    /\ ex.pc = "forget" => disk[ex.at] \notin RevIds

\* The manifest is written ahead of the files: wherever the exporter died, each
\* note on the disk is one the manifest lists, so that the next run neither
\* takes it for the Creator's nor leaves it behind.
OwnFilesManaged ==
    \A i \in RevIds : disk[i] \in RevIds => Managed(i)

\* What the Creator wrote in a note is never overwritten or deleted by the
\* exporter, which at most moves it to the quarantine. (An edit that arrives
\* after the exporter has hashed the file is lost: `saw`.)
EditsSurvive ==
    [][\A i \in RevIds :
          (disk[i] = Human /\ disk'[i] # Human /\ ex' # ex)
              => quarantine'[i] = quarantine[i] + 1 \/ (ex.at = i /\ ex.saw # Human)]_vvars

Revoked(i) == i \in Items(Kept) /\ ~Active(Kept, i)

\* What is revoked leaves the vault and stays out, whatever the exporter was
\* doing, and wherever it died, when the revocation committed.
RevokedLeavesVault ==
    <>[](exporting => \A i \in RevIds : Revoked(i) => disk[i] \notin RevIds)

\* Rows, sessions and files keep their types, chains and locks are in order, and the
\* manifest knows the exporter's files.
VaultInvariant == KnowledgeInvariant /\ VaultTypeOK /\ ExporterInStep /\ OwnFilesManaged
=============================================================================
