--------------------------- MODULE MissionPromise ---------------------------
(***************************************************************************)
(* What the kernel promises about Missions and their Tasks, with the       *)
(* worker, attempts, invocations and restarts left out: a Mission follows  *)
(* its lifecycle; one Task at a time is worked on, under an executing      *)
(* Mission and after everything it depends on is done; a Task done or lost *)
(* stays so, and is lost only by its own attempt or by a lost dependency;  *)
(* a Mission manifests only when all its Tasks are done.                   *)
(***************************************************************************)
CONSTANTS Missions, Tasks, MissionOf, DependsOn, Lifecycle

VARIABLES
  status,    \* the status of a Mission
  outcome    \* todo, doing, done or lost

Init ==
  /\ status = [m \in Missions |-> "drafted"]
  /\ outcome = [t \in Tasks |-> "todo"]

StatusStep(m) ==
  \/ status'[m] = status[m]
  \/ /\ <<status[m], status'[m]>> \in Lifecycle
     /\ status'[m] = "manifested" =>
          \A t \in Tasks : MissionOf[t] = m => outcome[t] = "done"

Begin(t) ==
  /\ outcome[t] = "todo" /\ outcome'[t] = "doing"
  /\ status[MissionOf[t]] = "executing"
  /\ \A d \in DependsOn[t] : outcome[d] = "done"

(* Back to todo is a retry, by the attempt or after a restart.             *)
End(t) == outcome[t] = "doing" /\ outcome'[t] \in {"todo", "done", "lost"}

Lose(t) ==
  /\ outcome[t] = "todo" /\ outcome'[t] = "lost"
  /\ \E d \in DependsOn[t] : outcome'[d] = "lost"

TaskStep(t) == outcome'[t] = outcome[t] \/ Begin(t) \/ End(t) \/ Lose(t)

OneAtATime == \A t, u \in Tasks : outcome'[t] = "doing" /\ outcome'[u] = "doing" => t = u

Next ==
  /\ \A m \in Missions : StatusStep(m)
  /\ \A t \in Tasks : TaskStep(t)
  /\ OneAtATime

Spec == Init /\ [][Next]_<<status, outcome>>
=============================================================================
