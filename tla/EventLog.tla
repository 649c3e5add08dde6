------------------------------ MODULE EventLog ------------------------------
(***************************************************************************)
(* What the Chronicle promises those who read it, with transactions, locks, *)
(* refreshers and connections left out: a log that is only added to, whose  *)
(* entries are numbered by their places; a projection that only moves       *)
(* forward and stays within the log; and a follower, who opens the log at   *)
(* its head and is then shown every entry after that, one by one, until it  *)
(* stops.                                                                   *)
(***************************************************************************)
EXTENDS Naturals, Sequences

VARIABLES
    log,        \* the entries
    projected,  \* how many of them the projection stands for
    following,  \* whether the follower has opened the log
    start,      \* how many there were when it did
    shown       \* the entries it was shown since

logVars == <<log, projected, following, start, shown>>

\* Each entry is numbered by its place.
Numbered(entries) == \A k \in DOMAIN entries : entries[k].position = k

Init ==
    /\ log = <<>> /\ projected = 0
    /\ ~following /\ start = 0 /\ shown = <<>>

\* Entries are added at the end; those that are there stay as they are.
Extend ==
    /\ Len(log') >= Len(log) /\ \A k \in DOMAIN log : log'[k] = log[k]
    /\ Numbered(log')
    /\ UNCHANGED <<projected, following, start, shown>>

\* The projection takes in more of the log, and no more than there is.
Project ==
    /\ projected' \in projected .. Len(log)
    /\ UNCHANGED <<log, following, start, shown>>

\* The log is opened at its head.
Follow ==
    /\ ~following /\ following'
    /\ start' = Len(log) /\ shown' = <<>>
    /\ UNCHANGED <<log, projected>>

\* The follower is shown the next entry.
Show ==
    /\ following /\ start + Len(shown) < Len(log)
    /\ shown' = Append(shown, log[start + Len(shown) + 1])
    /\ UNCHANGED <<log, projected, following, start>>

\* The follower stops, and keeps what it was shown.
Stop ==
    /\ following /\ ~following'
    /\ UNCHANGED <<log, projected, start, shown>>

Next == Extend \/ Project \/ Follow \/ Show \/ Stop

Spec == Init /\ [][Next]_logVars
=============================================================================
