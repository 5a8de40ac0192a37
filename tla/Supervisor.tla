------------------------------ MODULE Supervisor ------------------------------
(***************************************************************************)
(* The host update supervisor (AltrSupervisor): a daemon outside the       *)
(* container that takes an update request from a file, pulls the target    *)
(* image, recreates the service container, checks its health, and rolls    *)
(* back to the previous image when that check fails.  Its peers are the    *)
(* update API of the application, which writes the request and reads the   *)
(* status, and the Docker engine, every call of which may fail.            *)
(*                                                                         *)
(* An image is identified with the version its /health endpoint reports,   *)
(* 0 standing for "no container" and for an unknown version.               *)
(***************************************************************************)
EXTENDS Naturals

CONSTANTS
  MaxVersion,   \* bound: the versions are 1 .. MaxVersion
  MaxRequests,  \* bound: how many requests the application submits
  MaxCrashes,   \* bound: how often the supervisor process dies
  Shared,       \* ./data/updates is bind-mounted: host and container share files
  AllowLocal,   \* allow_local_images
  DiskFaults,   \* writing .env may fail with OSError
  UnlinkFaults, \* removing the request file may fail with OSError
  MayCancel     \* the user may cancel an update

ASSUME ConstantsAssumption ==
  /\ MaxVersion \in Nat \ {0}
  /\ MaxRequests \in Nat
  /\ MaxCrashes \in Nat
  /\ Shared \in BOOLEAN
  /\ AllowLocal \in BOOLEAN
  /\ DiskFaults \in BOOLEAN
  /\ UnlinkFaults \in BOOLEAN
  /\ MayCancel \in BOOLEAN

VARIABLES
  pc,           \* where the supervisor process is
  job,          \* the locals of process_pending_request
  hostReq,      \* update-request.json on the host
  ctrReq,       \* ... and in the container's volume
  hostStatus,   \* update-status.json on the host
  ctrStatus,    \* ... and in the container's volume
  image,        \* the image of the service container, 0 when there is none
  up,           \* the health endpoint of the container answers
  persisted,    \* ALTR_STREAM_IMAGE in .env and the compose file
  submitted,    \* how many requests have been submitted
  crashes,      \* how often the supervisor has died
  answered      \* observation: requests brought to a terminal status

vars == <<pc, job, hostReq, ctrReq, hostStatus, ctrStatus, image, up,
          persisted, submitted, crashes, answered>>
fileVars == <<hostReq, ctrReq, hostStatus, ctrStatus, answered>>
nodeVars == <<image, up, persisted>>
countVars == <<submitted, crashes>>

Version == 1 .. MaxVersion
Unknown == 0
VersionOrNone == Version \cup {Unknown}

ActiveStates ==
  {"requested", "staging", "applying", "health_check", "rolling_back"}
CancellableStates == {"requested", "staging"}
TerminalStates == {"completed", "failed", "cancelled", "rolled_back", "idle"}

(* UpdateRequest.  "valid" is what _validate_request finds out.            *)
Request == [id : 1 .. MaxRequests, cur : VersionOrNone, tgt : Version,
            img : Version, valid : BOOLEAN]
NoRequest == [id |-> 0, cur |-> Unknown, tgt |-> Unknown, img |-> Unknown,
              valid |-> FALSE]

(* UpdateStatus, with rb for rollback_performed.                           *)
UpdateStatus == [id : 0 .. MaxRequests, state : ActiveStates \cup TerminalStates,
                 cur : VersionOrNone, tgt : VersionOrNone, rb : BOOLEAN]
Status(id, state, cur, tgt, rb) ==
  [id |-> id, state |-> state, cur |-> cur, tgt |-> tgt, rb |-> rb]
Progress(state, rb) ==
  Status(job.req.id, state, job.req.cur, job.req.tgt, rb)

Job == [req : Request \cup {NoRequest}, prev : VersionOrNone,
        expected : VersionOrNone, healthy : BOOLEAN]
NoJob == [req |-> NoRequest, prev |-> Unknown, expected |-> Unknown,
          healthy |-> FALSE]

Locations == {"down", "startup", "poll", "check", "pull", "capture", "recreate",
              "begin_verify", "verify", "persist", "complete", "begin_rollback",
              "rollback", "rb_verify", "rb_live", "rb_persist", "rb_done",
              "rb_failed", "cleanup"}

TypeOK ==
  /\ pc \in Locations
  /\ job \in Job
  /\ hostReq \in Request \cup {NoRequest}
  /\ ctrReq \in Request \cup {NoRequest}
  /\ hostStatus \in UpdateStatus
  /\ ctrStatus \in UpdateStatus
  /\ image \in VersionOrNone
  /\ up \in BOOLEAN
  /\ persisted \in Version
  /\ submitted \in 0 .. MaxRequests
  /\ crashes \in 0 .. MaxCrashes
  /\ answered \subseteq 1 .. MaxRequests

(* A freshly installed node: the service runs the image .env names, there  *)
(* is no request, and a missing status file reads as idle.                 *)
Init ==
  /\ pc = "startup"
  /\ job = NoJob
  /\ hostReq = NoRequest
  /\ ctrReq = NoRequest
  /\ image \in Version
  /\ up \in BOOLEAN
  /\ persisted = image
  /\ hostStatus = Status(0, "idle", Unknown, Unknown, FALSE)
  /\ ctrStatus = hostStatus
  /\ submitted = 0
  /\ crashes = 0
  /\ answered = {}

-----------------------------------------------------------------------------
(* The Docker engine and the health endpoint, as HostDockerClient and      *)
(* HostHealthChecker see them.                                             *)

(* get_live_version: None on any error, the running version otherwise.     *)
LiveVersions == {Unknown} \cup (IF up THEN {image} ELSE {})

(* get_current_image: "" when both docker commands fail.                   *)
CurrentImages == {Unknown, image}

(* docker compose up --no-deps: on success the container runs img.         *)
RecreateSucceeds(img) ==
  /\ img # Unknown
  /\ image' = img
  /\ up' \in BOOLEAN
  /\ UNCHANGED persisted

(* A failed or timed out compose up may have done nothing, removed the old *)
(* container, or created the new one.                                      *)
RecreateFails(img) ==
  /\ image' \in {image, img, Unknown}
  /\ up' \in (IF image' = Unknown THEN {FALSE} ELSE BOOLEAN)
  /\ UNCHANGED persisted

(* docker cp into the container's volume; it needs a container and may     *)
(* fail, unless both paths are the same bind-mounted file.                 *)
CopiedStatus(s, ctr) ==
  IF Shared THEN {s} ELSE IF ctr = Unknown THEN {ctrStatus} ELSE {s, ctrStatus}

(* _write_status_atomic: replace the host's file, then copy it.            *)
WriteStatus(s) ==
  /\ hostStatus' = s
  /\ ctrStatus' \in CopiedStatus(s, image)
  /\ answered' = IF s.state \in TerminalStates /\ s.id # 0
                 THEN answered \cup {s.id} ELSE answered
  /\ UNCHANGED <<hostReq, ctrReq>>

(* recreate_service is followed by one more copy of the current status.    *)
ResyncStatus ==
  /\ ctrStatus' \in CopiedStatus(hostStatus, image')
  /\ UNCHANGED <<hostReq, ctrReq, hostStatus, answered>>

-----------------------------------------------------------------------------
(* Mutant: the list of orphaned states forgets rolling_back.               *)
ReconcileForgetsRollback ==
  /\ pc = "startup"
  /\ hostStatus.state \notin ActiveStates \ {"rolling_back"}
  /\ pc' = "poll"
  /\ UNCHANGED <<job, fileVars, nodeVars, countVars>>

(* reconcile_startup_state, once per process, before the polling loop.     *)
ReconcileNothing ==
  /\ pc = "startup"
  /\ hostStatus.state \notin ActiveStates
  /\ pc' = "poll"
  /\ UNCHANGED <<job, fileVars, nodeVars, countVars>>

ReconcileOrphan ==
  /\ pc = "startup"
  /\ hostStatus.state \in ActiveStates
  /\ \E live \in LiveVersions :
       IF live # Unknown /\ live = hostStatus.tgt
       THEN WriteStatus(Status(hostStatus.id, "completed", live,
                               hostStatus.tgt, FALSE))
       ELSE WriteStatus(Status(hostStatus.id, "failed",
                               IF live # Unknown THEN live ELSE hostStatus.cur,
                               hostStatus.tgt, FALSE))
  /\ pc' = "cleanup"
  /\ UNCHANGED <<job, nodeVars, countVars>>

(* process_pending_request, first part: fetch the request, and the status  *)
(* with it, from the container when the host has none.                     *)
SyncFromContainer ==
  /\ pc = "poll"
  /\ ~Shared
  /\ hostReq = NoRequest
  /\ ctrReq # NoRequest
  /\ image # Unknown
  /\ hostReq' = ctrReq
  /\ hostStatus' \in {hostStatus, ctrStatus}
  /\ UNCHANGED <<pc, job, ctrReq, ctrStatus, answered, nodeVars, countVars>>

(* Mutant: a request that has had its answer is not run again.             *)
ReadUnanswered ==
  /\ pc = "poll"
  /\ hostReq # NoRequest
  /\ hostReq.valid
  /\ hostReq.id \notin answered
  /\ job' = [NoJob EXCEPT !.req = hostReq]
  /\ pc' = "check"
  /\ UNCHANGED <<fileVars, nodeVars, countVars>>

(* Read and parse the request file.                                        *)
ReadRequest ==
  /\ pc = "poll"
  /\ hostReq # NoRequest
  /\ hostReq.valid
  /\ job' = [NoJob EXCEPT !.req = hostReq]
  /\ pc' = "check"
  /\ UNCHANGED <<fileVars, nodeVars, countVars>>

(* An unreadable request is refused with a status that names no request.   *)
RejectInvalid ==
  /\ pc = "poll"
  /\ hostReq # NoRequest
  /\ ~hostReq.valid
  /\ hostStatus' = Status(0, "failed", Unknown, Unknown, FALSE)
  /\ ctrStatus' \in CopiedStatus(hostStatus', image)
  /\ answered' = answered \cup {hostReq.id}
  /\ pc' = "cleanup"
  /\ UNCHANGED <<job, hostReq, ctrReq, nodeVars, countVars>>

(* The version an update starts from: the live one, else the one the       *)
(* request recorded, else the tag of the current image.                    *)
RunningVersions ==
  {IF live # Unknown THEN live
   ELSE IF job.req.cur # Unknown THEN job.req.cur ELSE tag :
     live \in LiveVersions, tag \in CurrentImages}

(* Already satisfied, superseded, or started with the staging status.      *)
CheckVersion ==
  /\ pc = "check"
  /\ \E running \in RunningVersions :
       \/ /\ running = job.req.tgt
          /\ WriteStatus(Status(job.req.id, "completed", running,
                                job.req.tgt, FALSE))
          /\ pc' = "cleanup"
          /\ UNCHANGED job
       \/ /\ running # Unknown
          /\ running > job.req.tgt
          /\ WriteStatus(Status(job.req.id, "failed", running,
                                job.req.tgt, FALSE))
          /\ pc' = "cleanup"
          /\ UNCHANGED job
       \/ /\ running = Unknown \/ running < job.req.tgt
          /\ WriteStatus(Progress("staging", FALSE))
          /\ job' = [job EXCEPT !.expected = running]
          /\ pc' = "pull"
  /\ UNCHANGED <<nodeVars, countVars>>

(* pull_image, or the local image when that is allowed and present.        *)
PullSucceeds ==
  /\ pc = "pull"
  /\ pc' = "capture"
  /\ UNCHANGED <<job, fileVars, nodeVars, countVars>>

PullFails ==
  /\ pc = "pull"
  /\ IF AllowLocal
     THEN \E existsLocally \in BOOLEAN :
            IF existsLocally
            THEN pc' = "capture" /\ UNCHANGED fileVars
            ELSE pc' = "cleanup" /\ WriteStatus(Progress("failed", FALSE))
     ELSE pc' = "cleanup" /\ WriteStatus(Progress("failed", FALSE))
  /\ UNCHANGED <<job, nodeVars, countVars>>

(* Mutant: the container is replaced before the status says so.            *)
CaptureSilently ==
  /\ pc = "capture"
  /\ \E cur \in CurrentImages :
       job' = [job EXCEPT !.prev = IF cur # Unknown THEN cur ELSE job.req.cur]
  /\ pc' = "recreate"
  /\ UNCHANGED <<fileVars, nodeVars, countVars>>

(* Remember the image to roll back to, then announce the replacement.      *)
CapturePrevious ==
  /\ pc = "capture"
  /\ \E cur \in CurrentImages :
       job' = [job EXCEPT !.prev = IF cur # Unknown THEN cur ELSE job.req.cur]
  /\ WriteStatus(Progress("applying", FALSE))
  /\ pc' = "recreate"
  /\ UNCHANGED <<nodeVars, countVars>>

Recreate ==
  /\ pc = "recreate"
  /\ \/ /\ RecreateSucceeds(job.req.img)
        /\ ResyncStatus
        /\ pc' = "begin_verify"
     \/ /\ RecreateFails(job.req.img)
        /\ pc' = "begin_rollback"
        /\ UNCHANGED fileVars
  /\ UNCHANGED <<job, countVars>>

BeginVerify ==
  /\ pc = "begin_verify"
  /\ WriteStatus(Progress("health_check", FALSE))
  /\ pc' = "verify"
  /\ UNCHANGED <<job, nodeVars, countVars>>

(* Mutant: any healthy answer will do, whatever version it reports.        *)
HealthIgnoresVersion ==
  /\ pc = "verify"
  /\ up
  /\ pc' = "persist"
  /\ UNCHANGED <<job, fileVars, nodeVars, countVars>>

(* wait_for_health: true once the endpoint reports the expected version,   *)
(* false when the polling time is over.                                    *)
HealthVerified ==
  /\ pc = "verify"
  /\ up
  /\ image = job.req.tgt
  /\ pc' = "persist"
  /\ UNCHANGED <<job, fileVars, nodeVars, countVars>>

HealthTimesOut ==
  /\ pc = "verify"
  /\ pc' = "begin_rollback"
  /\ UNCHANGED <<job, fileVars, nodeVars, countVars>>

(* _persist_image_update: an OSError is only logged.                       *)
PersistImage(new) ==
  /\ persisted' \in (IF DiskFaults THEN {new, persisted} ELSE {new})
  /\ UNCHANGED <<image, up>>

PersistTarget ==
  /\ pc = "persist"
  /\ PersistImage(job.req.img)
  /\ pc' = "complete"
  /\ UNCHANGED <<job, fileVars, countVars>>

Complete ==
  /\ pc = "complete"
  /\ WriteStatus(Status(job.req.id, "completed", job.req.tgt, job.req.tgt, FALSE))
  /\ pc' = "cleanup"
  /\ UNCHANGED <<job, nodeVars, countVars>>

(* Mutant: the rollback starts without a status of its own.                *)
RollbackSilently ==
  /\ pc = "begin_rollback"
  /\ pc' = "rollback"
  /\ UNCHANGED <<job, fileVars, nodeVars, countVars>>

BeginRollback ==
  /\ pc = "begin_rollback"
  /\ WriteStatus(Progress("rolling_back", TRUE))
  /\ pc' = "rollback"
  /\ UNCHANGED <<job, nodeVars, countVars>>

Rollback ==
  /\ pc = "rollback"
  /\ \/ /\ RecreateSucceeds(job.prev)
        /\ ResyncStatus
        /\ pc' = "rb_verify"
     \/ /\ RecreateFails(job.prev)
        /\ pc' = "rb_failed"
        /\ UNCHANGED fileVars
  /\ UNCHANGED <<job, countVars>>

RollbackHealth ==
  /\ pc = "rb_verify"
  /\ \/ /\ up
        /\ image = job.expected
        /\ job' = [job EXCEPT !.healthy = TRUE]
     \/ UNCHANGED job
  /\ pc' = "rb_live"
  /\ UNCHANGED <<fileVars, nodeVars, countVars>>

(* is_truly_restored: the second look at the live version must agree.      *)
RollbackLive ==
  /\ pc = "rb_live"
  /\ \E live \in LiveVersions :
       IF job.healthy /\ live = job.expected
       THEN pc' = "rb_persist" /\ UNCHANGED fileVars
       ELSE /\ pc' = "cleanup"
            /\ WriteStatus(Status(job.req.id, "failed",
                                  IF live # Unknown THEN live ELSE job.req.cur,
                                  job.req.tgt, TRUE))
  /\ UNCHANGED <<job, nodeVars, countVars>>

(* Mutants: the rollback does not restore .env, or writes the target to it. *)
PersistNothing ==
  /\ pc = "rb_persist"
  /\ pc' = "rb_done"
  /\ UNCHANGED <<job, fileVars, nodeVars, countVars>>

PersistTargetAgain ==
  /\ pc = "rb_persist"
  /\ PersistImage(job.req.img)
  /\ pc' = "rb_done"
  /\ UNCHANGED <<job, fileVars, countVars>>

PersistPrevious ==
  /\ pc = "rb_persist"
  /\ PersistImage(job.prev)
  /\ pc' = "rb_done"
  /\ UNCHANGED <<job, fileVars, countVars>>

RolledBack ==
  /\ pc = "rb_done"
  /\ WriteStatus(Status(job.req.id, "rolled_back", job.expected, job.req.tgt, TRUE))
  /\ pc' = "cleanup"
  /\ UNCHANGED <<job, nodeVars, countVars>>

(* Mutant: a failed rollback returns without a final status.               *)
RollbackFailedSilently ==
  /\ pc = "rb_failed"
  /\ pc' = "cleanup"
  /\ UNCHANGED <<job, fileVars, nodeVars, countVars>>

RollbackFailed ==
  /\ pc = "rb_failed"
  /\ WriteStatus(Progress("failed", FALSE))
  /\ pc' = "cleanup"
  /\ UNCHANGED <<job, nodeVars, countVars>>

(* _cleanup_request_file: whatever request is there by now is removed, on  *)
(* the host and in the container, and either removal may fail.  A request  *)
(* that stays is run again at the next poll.                               *)
Cleanup ==
  /\ pc = "cleanup"
  /\ hostReq' \in (IF UnlinkFaults THEN {NoRequest, hostReq} ELSE {NoRequest})
  /\ ctrReq' \in (IF Shared THEN {hostReq'}
                  ELSE IF image = Unknown THEN {ctrReq} ELSE {NoRequest, ctrReq})
  /\ job' = NoJob
  /\ pc' = "poll"
  /\ UNCHANGED <<hostStatus, ctrStatus, answered, nodeVars, countVars>>

-----------------------------------------------------------------------------
(* The process dies and launchd (KeepAlive) or systemd (Restart=always)    *)
(* starts it again.  Only the files survive.                               *)
Crash ==
  /\ pc # "down"
  /\ crashes < MaxCrashes
  /\ crashes' = crashes + 1
  /\ pc' = "down"
  /\ job' = NoJob
  /\ UNCHANGED <<fileVars, nodeVars, submitted>>

Restart ==
  /\ pc = "down"
  /\ pc' = "startup"
  /\ UNCHANGED <<job, fileVars, nodeVars, countVars>>

(* The container stops or starts answering: crash, slow start, recovery.   *)
NodeFlaps ==
  /\ image # Unknown
  /\ up' = ~up
  /\ UNCHANGED <<pc, job, fileVars, image, persisted, countVars>>

(* The update API inside the container (not in this repository) works on   *)
(* its own copy of the files, which is the host's when they are shared.    *)
AppWrites(req, status) ==
  /\ ctrReq' = req
  /\ ctrStatus' = status
  /\ IF Shared THEN hostReq' = req /\ hostStatus' = status
               ELSE UNCHANGED <<hostReq, hostStatus>>

(* POST /updates/apply: refused with "already active" during an update.    *)
Submit ==
  /\ up
  /\ submitted < MaxRequests
  /\ ctrStatus.state \notin ActiveStates
  /\ submitted' = submitted + 1
  /\ \E cur \in {image, Unknown}, tgt \in Version \ {image}, img \in Version,
        valid \in BOOLEAN :
       AppWrites([id |-> submitted', cur |-> cur, tgt |-> tgt, img |-> img,
                  valid |-> valid],
                 Status(submitted', "requested", cur, tgt, FALSE))
  /\ UNCHANGED <<pc, job, answered, nodeVars, crashes>>

(* POST /updates/cancel.                                                   *)
Cancel ==
  /\ MayCancel
  /\ up
  /\ ctrStatus.state \in CancellableStates
  /\ AppWrites(NoRequest, [ctrStatus EXCEPT !.state = "cancelled"])
  /\ answered' = answered \cup ({ctrStatus.id} \ {0})
  /\ UNCHANGED <<pc, job, nodeVars, countVars>>

(* Dismissing a finished update in the UI.                                 *)
ClearStatus ==
  /\ up
  /\ ctrStatus.state \in TerminalStates \ {"idle"}
  /\ AppWrites(ctrReq, Status(0, "idle", ctrStatus.cur, Unknown, FALSE))
  /\ UNCHANGED <<pc, job, answered, nodeVars, countVars>>

-----------------------------------------------------------------------------
Reconcile == ReconcileNothing \/ ReconcileOrphan
Intake == SyncFromContainer \/ ReadRequest \/ RejectInvalid \/ CheckVersion
Apply == PullSucceeds \/ PullFails \/ CapturePrevious \/ Recreate \/ BeginVerify
           \/ HealthVerified \/ HealthTimesOut \/ PersistTarget \/ Complete
RollBack == BeginRollback \/ Rollback \/ RollbackHealth \/ RollbackLive
              \/ PersistPrevious \/ RolledBack \/ RollbackFailed
SupervisorStep == Reconcile \/ Intake \/ Apply \/ RollBack \/ Cleanup
Environment == Crash \/ NodeFlaps \/ Submit \/ Cancel \/ ClearStatus

Next == SupervisorStep \/ Restart \/ Environment

Spec == Init /\ [][Next]_vars

(* The daemon keeps running its loop and is restarted by launchd/systemd;  *)
(* nothing is assumed of the user or of Docker.                            *)
FairSpec == Spec /\ WF_vars(SupervisorStep) /\ WF_vars(Restart)

-----------------------------------------------------------------------------
(* With the updates directory shared, as every compose file here mounts    *)
(* it: a status "completed" on disk is true of the node, whatever crashes, *)
(* reconciliations and reruns of the request led to it (lines 627-650,     *)
(* 774-796, 907-923).                                                      *)
CompletedMeansRunning ==
  hostStatus.state = "completed" => image = hostStatus.tgt

(* With the updates directory shared: "rolled_back" on disk means that the *)
(* node runs the version the status names, and that .env names the image   *)
(* too, so the next compose up keeps it (lines 842-859).                   *)
RolledBackMeansRestored ==
  hostStatus.state = "rolled_back" =>
    /\ image = hostStatus.cur
    /\ ~DiskFaults => persisted = image

(* With the updates directory shared: a critical status on disk always has *)
(* a supervisor working on it, or one about to reconcile it; the update    *)
(* API refuses everything in these states, so an ownerless one would wedge *)
(* the node (lines 882-941).                                               *)
CriticalHasOwner ==
  /\ hostStatus.state = "applying" =>
       pc \in {"recreate", "begin_verify", "begin_rollback", "down", "startup"}
  /\ hostStatus.state = "health_check" =>
       pc \in {"verify", "persist", "complete", "begin_rollback", "down", "startup"}
  /\ hostStatus.state = "rolling_back" =>
       pc \in {"rollback", "rb_verify", "rb_live", "rb_persist", "rb_done",
               "rb_failed", "down", "startup"}

(* The container is only ever replaced under a status, already on disk,    *)
(* that says so: a crash in the middle leaves evidence for the reconciler  *)
(* (lines 734-749, 804-821).                                               *)
StatusPrecedesReplacement ==
  [][image' # image => hostStatus.state \in {"applying", "rolling_back"}]_vars

(* The image that a restart of the host would bring up only ever changes   *)
(* to the image that is running: never to one that failed its check        *)
(* (lines 783, 848).                                                       *)
PersistsOnlyRunning ==
  [][persisted' # persisted => persisted' = image]_vars

(* The supervisor itself announces "completed" only while the node runs    *)
(* the target, shared files or not; a status fetched from the container    *)
(* is not an announcement (lines 638-648, 784-794, 914-937).               *)
AnnouncesOnlyReached ==
  [][hostStatus' # hostStatus /\ hostStatus'.state = "completed" /\ pc # "poll"
       => image = hostStatus'.tgt]_vars

(* A request file the supervisor can see is worked through to its removal, *)
(* and each time the removal is refused it is run again and gets there     *)
(* again: no crash, Docker failure, cancellation or earlier answer leaves  *)
(* it lying there (lines 514-527, 570-880, 937-938).  Whether the disk     *)
(* ever lets it go is not assumed.                                         *)
PendingIsRetried ==
  hostReq # NoRequest ~> hostReq = NoRequest \/ pc = "cleanup"

(* With the updates directory shared: a request the supervisor has read is *)
(* eventually brought to a terminal status, by the workflow or, after a    *)
(* crash, by the reconciler (lines 611-880, 893-939).                      *)
TakenIsAnswered ==
  \A i \in 1 .. MaxRequests : pc = "check" /\ job.req.id = i ~> i \in answered

(* With the updates directory shared: the status file goes through the     *)
(* documented states only, and each state is true of the container (the    *)
(* whole of process_pending_request and reconcile_startup_state).          *)
Lifecycle == INSTANCE UpdateLifecycle WITH status <- hostStatus, running <- image
ImplementsLifecycle == Lifecycle!Spec

-----------------------------------------------------------------------------
(* What the repository's text says and the code does not do.               *)

(* docs/api/reference.md: cancel ends an update in staging "before         *)
(* container application begins".                                          *)
CancelledIsNotApplied ==
  [][pc = "recreate" /\ pc' \in {"begin_verify", "begin_rollback"}
       => job.req.id \notin answered]_vars
===============================================================================
