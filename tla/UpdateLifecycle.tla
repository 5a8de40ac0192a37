--------------------------- MODULE UpdateLifecycle ---------------------------
(***************************************************************************)
(* What the supervisor promises to whoever watches update-status.json      *)
(* beside the container: the state machine of an update ("strict,          *)
(* observable states"), with the one fact about the running version each   *)
(* state stands for.  Crashes, files and Docker calls are not visible      *)
(* here; Supervisor implements this specification.                         *)
(***************************************************************************)
EXTENDS Naturals

CONSTANT MaxVersion

VARIABLES
  status,   \* the content of update-status.json
  running   \* the version the container runs, 0 when there is none

lifecycleVars == <<status, running>>

Critical == {"applying", "health_check", "rolling_back"}
Preparing == {"idle", "requested", "staging", "cancelled"}
Outcome == {"completed", "rolled_back", "failed"}
Quiet == Preparing \cup Outcome

Init ==
  /\ status.state = "idle"
  /\ running \in 1 .. MaxVersion

(* Requests come and go, are staged, cancelled, refused or dismissed: the  *)
(* container is left alone, and no success is claimed.                     *)
Prepare ==
  /\ status.state \in Quiet
  /\ status'.state \in Preparing \cup {"failed"}
  /\ UNCHANGED running

StartApplying ==
  /\ status.state \in Quiet
  /\ status'.state = "applying"
  /\ UNCHANGED running

(* The container is replaced, by an image, by nothing, or half-way.        *)
Replace ==
  /\ status.state \in {"applying", "rolling_back"}
  /\ running' \in 0 .. MaxVersion
  /\ UNCHANGED status

StartVerifying ==
  /\ status.state = "applying"
  /\ status'.state = "health_check"
  /\ UNCHANGED running

StartRollback ==
  /\ status.state \in {"applying", "health_check"}
  /\ status'.state = "rolling_back"
  /\ UNCHANGED running

(* Success is announced of a node that runs the target.                    *)
Succeed ==
  /\ status'.state = "completed"
  /\ running = status'.tgt
  /\ UNCHANGED running

(* A rollback is announced of a node that is back on the version it names. *)
Restore ==
  /\ status.state = "rolling_back"
  /\ status'.state = "rolled_back"
  /\ running = status'.cur
  /\ UNCHANGED running

(* The rollback failed, or a new supervisor found the update interrupted.  *)
GiveUp ==
  /\ status.state \in Critical
  /\ status'.state = "failed"
  /\ UNCHANGED running

Next == Prepare \/ StartApplying \/ Replace \/ StartVerifying \/ StartRollback
          \/ Succeed \/ Restore \/ GiveUp

Spec == Init /\ [][Next]_lifecycleVars
==============================================================================
