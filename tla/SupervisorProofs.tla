--------------------------- MODULE SupervisorProofs ---------------------------
(***************************************************************************)
(* Proofs about Supervisor, for every bound and for both ways of mounting  *)
(* the updates directory, and about what makes its requests: the order of  *)
(* versions is a strict total order, and the upgrade that is chosen by it  *)
(* is the only one, the last one needed, and found when there is one.      *)
(***************************************************************************)
EXTENDS Supervisor, SemVer, FiniteSetTheorems, WellFoundedInduction, NaturalsInduction, TLAPS

(* What the supervisor knows at each location, beyond the types: the       *)
(* status it last wrote is still on the host's disk, because the update    *)
(* API touches nothing in a critical state; and it is the only one to      *)
(* change the image.                                                       *)
SameFiles == Shared => ctrReq = hostReq /\ ctrStatus = hostStatus

ProperRequests ==
  /\ hostReq # NoRequest => hostReq.cur # hostReq.tgt
  /\ ctrReq # NoRequest => ctrReq.cur # ctrReq.tgt

Outside == {"down", "startup", "poll", "cleanup"}

JobKnown ==
  /\ pc \notin Outside => job.req \in Request /\ job.req.cur # job.req.tgt
  /\ pc \notin Outside \cup {"rb_live", "rb_persist", "rb_done"} => ~job.healthy

StatusKnown ==
  /\ pc \in {"recreate", "begin_verify"} => hostStatus.state = "applying"
  /\ pc \in {"verify", "persist", "complete"} => hostStatus.state = "health_check"
  /\ pc = "begin_rollback" => hostStatus.state \in {"applying", "health_check"}
  /\ pc \in {"rollback", "rb_verify", "rb_live", "rb_persist", "rb_done", "rb_failed"}
       => hostStatus.state = "rolling_back"

ImageKnown ==
  /\ pc \in {"begin_verify", "verify", "persist", "complete"} => image = job.req.img
  /\ pc \in {"persist", "complete"} => image = job.req.tgt
  /\ pc \in {"rb_verify", "rb_live", "rb_persist", "rb_done"} =>
       image = job.prev /\ image # Unknown
  /\ pc = "rb_live" /\ job.healthy => image = job.expected
  /\ pc \in {"rb_persist", "rb_done"} => image = job.expected
  /\ pc = "rb_done" /\ ~DiskFaults => persisted = image

SharedStatusTrue ==
  Shared => CompletedMeansRunning /\ RolledBackMeansRestored /\ CriticalHasOwner

IInv == /\ TypeOK
        /\ SameFiles
        /\ ProperRequests
        /\ JobKnown
        /\ StatusKnown
        /\ ImageKnown
        /\ SharedStatusTrue

USE DEF Locations, Version, Unknown, VersionOrNone, ActiveStates, TerminalStates,
        CancellableStates

(* The types of the records the actions build.                             *)
LEMMA StatusType ==
  ASSUME NEW id \in 0 .. MaxRequests, NEW st \in ActiveStates \cup TerminalStates,
         NEW cur \in VersionOrNone, NEW tgt \in VersionOrNone, NEW rb \in BOOLEAN
  PROVE  Status(id, st, cur, tgt, rb) \in UpdateStatus
BY DEF Status, UpdateStatus

(* NoRequest is not a request: no request has the id 0.                    *)
LEMMA NoRequestFacts ==
  /\ NoRequest \notin Request
  /\ \A r \in Request \cup {NoRequest} :
       /\ r.id \in 0 .. MaxRequests
       /\ r.cur \in VersionOrNone
       /\ r.tgt \in VersionOrNone
       /\ r.img \in VersionOrNone
       /\ r.valid \in BOOLEAN
       /\ r.id # 0 => r \in Request
<1>1. NoRequest \notin Request
  BY DEF NoRequest, Request
<1>2. ASSUME NEW r \in Request
      PROVE  /\ r.id \in 0 .. MaxRequests
             /\ r.cur \in VersionOrNone
             /\ r.tgt \in VersionOrNone
             /\ r.img \in VersionOrNone
             /\ r.valid \in BOOLEAN
  BY ConstantsAssumption DEF Request
<1>3. /\ NoRequest.id = 0
      /\ NoRequest.cur \in VersionOrNone
      /\ NoRequest.tgt \in VersionOrNone
      /\ NoRequest.img \in VersionOrNone
      /\ NoRequest.valid \in BOOLEAN
  BY DEF NoRequest
<1>4. 0 \in 0 .. MaxRequests
  BY ConstantsAssumption
<1>. QED  BY <1>1, <1>2, <1>3, <1>4

(* The types of the files and of the node, apart from the process.         *)
FilesTyped ==
  /\ hostReq \in Request \cup {NoRequest}
  /\ ctrReq \in Request \cup {NoRequest}
  /\ hostStatus \in UpdateStatus
  /\ ctrStatus \in UpdateStatus
  /\ answered \subseteq 1 .. MaxRequests

NodeTyped ==
  /\ image \in VersionOrNone
  /\ up \in BOOLEAN
  /\ persisted \in Version

(* WriteStatus keeps the types when it is given a status.                  *)
LEMMA WriteStatusType ==
  ASSUME TypeOK, NEW s \in UpdateStatus, WriteStatus(s)
  PROVE  FilesTyped'
<1>1. s.id \in 0 .. MaxRequests
  BY DEF UpdateStatus
<1>2. s.id # 0 => s.id \in 1 .. MaxRequests
  BY <1>1, ConstantsAssumption
<1>3. hostStatus' \in UpdateStatus /\ ctrStatus' \in UpdateStatus
  BY DEF TypeOK, WriteStatus, CopiedStatus
<1>4. answered' \subseteq 1 .. MaxRequests
  BY <1>2 DEF TypeOK, WriteStatus
<1>. QED  BY <1>3, <1>4 DEF FilesTyped, WriteStatus, TypeOK

(* The fields of a job and of a status.                                    *)
LEMMA FieldTypes ==
  ASSUME TypeOK
  PROVE  /\ job.req \in Request \cup {NoRequest}
         /\ job.prev \in VersionOrNone
         /\ job.expected \in VersionOrNone
         /\ job.healthy \in BOOLEAN
         /\ hostStatus.id \in 0 .. MaxRequests
         /\ hostStatus.cur \in VersionOrNone
         /\ hostStatus.tgt \in VersionOrNone
         /\ ctrStatus.id \in 0 .. MaxRequests
         /\ ctrStatus.cur \in VersionOrNone
         /\ ctrStatus.tgt \in VersionOrNone
BY DEF TypeOK, Job, UpdateStatus

(* The progress statuses of a workflow are statuses.                       *)
LEMMA ProgressType ==
  ASSUME TypeOK, NEW st \in ActiveStates \cup TerminalStates, NEW rb \in BOOLEAN
  PROVE  Progress(st, rb) \in UpdateStatus
<1>1. job.req \in Request \cup {NoRequest}
  BY FieldTypes
<1>2. /\ job.req.id \in 0 .. MaxRequests
      /\ job.req.cur \in VersionOrNone
      /\ job.req.tgt \in VersionOrNone
  BY <1>1, NoRequestFacts
<1>. QED  BY <1>2, StatusType DEF Progress

(* What docker and the health endpoint answer has a type.                  *)
LEMMA AnswerTypes ==
  ASSUME TypeOK
  PROVE  /\ LiveVersions \subseteq VersionOrNone
         /\ CurrentImages \subseteq VersionOrNone
         /\ RunningVersions \subseteq VersionOrNone
<1>1. LiveVersions \subseteq VersionOrNone /\ CurrentImages \subseteq VersionOrNone
  BY DEF TypeOK, LiveVersions, CurrentImages
<1>2. job.req.cur \in VersionOrNone
  BY FieldTypes, NoRequestFacts
<1>. QED  BY <1>1, <1>2 DEF RunningVersions

LEMMA NoJobType == NoJob \in Job
BY DEF NoJob, Job

(* No step leaves the types.                                               *)
LEMMA TypeStep == TypeOK /\ JobKnown /\ ImageKnown /\ [Next]_vars => TypeOK'
<1> SUFFICES ASSUME TypeOK, JobKnown, ImageKnown, [Next]_vars
             PROVE  TypeOK'
  OBVIOUS
<1>a. FilesTyped /\ NodeTyped /\ pc \in Locations /\ job \in Job
        /\ submitted \in 0 .. MaxRequests /\ crashes \in 0 .. MaxCrashes
  BY DEF TypeOK, FilesTyped, NodeTyped
<1>b. ASSUME FilesTyped', NodeTyped', pc' \in Locations, job' \in Job,
             submitted' \in 0 .. MaxRequests, crashes' \in 0 .. MaxCrashes
      PROVE  TypeOK'
  BY <1>b DEF TypeOK, FilesTyped, NodeTyped
<1>c. UNCHANGED fileVars => FilesTyped'
  BY <1>a DEF fileVars, FilesTyped
<1>d. UNCHANGED nodeVars => NodeTyped'
  BY <1>a DEF nodeVars, NodeTyped
<1>e. UNCHANGED countVars => submitted' \in 0 .. MaxRequests /\ crashes' \in 0 .. MaxCrashes
  BY <1>a DEF countVars
<1>f. job.req \in Request \cup {NoRequest}
  BY FieldTypes
<1>g. /\ job.req.id \in 0 .. MaxRequests
      /\ job.req.cur \in VersionOrNone
      /\ job.req.tgt \in VersionOrNone
      /\ job.req.img \in VersionOrNone
  BY <1>f, NoRequestFacts
<1>1. CASE ReconcileNothing
  BY <1>1, <1>a, <1>b, <1>c, <1>d, <1>e DEF ReconcileNothing
<1>2. CASE PullSucceeds
  BY <1>2, <1>a, <1>b, <1>c, <1>d, <1>e DEF PullSucceeds
<1>3. CASE HealthVerified
  BY <1>3, <1>a, <1>b, <1>c, <1>d, <1>e DEF HealthVerified
<1>4. CASE HealthTimesOut
  BY <1>4, <1>a, <1>b, <1>c, <1>d, <1>e DEF HealthTimesOut
<1>5. CASE Restart
  BY <1>5, <1>a, <1>b, <1>c, <1>d, <1>e DEF Restart
<1>6. CASE BeginVerify
  <2>1. Progress("health_check", FALSE) \in UpdateStatus
    BY ProgressType
  <2>2. FilesTyped'
    BY <1>6, <2>1, WriteStatusType DEF BeginVerify
  <2>. QED  BY <1>6, <2>2, <1>a, <1>b, <1>d, <1>e DEF BeginVerify
<1>7. CASE BeginRollback
  <2>1. Progress("rolling_back", TRUE) \in UpdateStatus
    BY ProgressType
  <2>2. FilesTyped'
    BY <1>7, <2>1, WriteStatusType DEF BeginRollback
  <2>. QED  BY <1>7, <2>2, <1>a, <1>b, <1>d, <1>e DEF BeginRollback
<1>8. CASE RollbackFailed
  <2>1. Progress("failed", FALSE) \in UpdateStatus
    BY ProgressType
  <2>2. FilesTyped'
    BY <1>8, <2>1, WriteStatusType DEF RollbackFailed
  <2>. QED  BY <1>8, <2>2, <1>a, <1>b, <1>d, <1>e DEF RollbackFailed
<1>9. CASE PullFails
  <2>1. Progress("failed", FALSE) \in UpdateStatus
    BY ProgressType
  <2>2. FilesTyped'
    BY <1>9, <2>1, <1>c, WriteStatusType DEF PullFails
  <2>3. pc' \in Locations
    BY <1>9 DEF PullFails
  <2>. QED  BY <1>9, <2>2, <2>3, <1>a, <1>b, <1>d, <1>e DEF PullFails
<1>10. CASE CapturePrevious
  <2>1. Progress("applying", FALSE) \in UpdateStatus
    BY ProgressType
  <2>2. FilesTyped'
    BY <1>10, <2>1, WriteStatusType DEF CapturePrevious
  <2>3. PICK cur \in CurrentImages :
          job' = [job EXCEPT !.prev = IF cur # Unknown THEN cur ELSE job.req.cur]
    BY <1>10 DEF CapturePrevious
  <2>4. job' \in Job
    BY <2>3, <1>a, <1>g, AnswerTypes DEF Job
  <2>. QED  BY <1>10, <2>2, <2>4, <1>a, <1>b, <1>d, <1>e DEF CapturePrevious
<1>11. CASE ReconcileOrphan
  <2>1. PICK live \in LiveVersions :
          \/ WriteStatus(Status(hostStatus.id, "completed", live, hostStatus.tgt, FALSE))
          \/ WriteStatus(Status(hostStatus.id, "failed",
                                IF live # Unknown THEN live ELSE hostStatus.cur,
                                hostStatus.tgt, FALSE))
    BY <1>11 DEF ReconcileOrphan
  <2>2. live \in VersionOrNone
    BY <2>1, AnswerTypes
  <2>3. /\ Status(hostStatus.id, "completed", live, hostStatus.tgt, FALSE) \in UpdateStatus
        /\ Status(hostStatus.id, "failed", IF live # Unknown THEN live ELSE hostStatus.cur,
                  hostStatus.tgt, FALSE) \in UpdateStatus
    BY <2>2, FieldTypes, StatusType
  <2>4. FilesTyped'
    BY <2>1, <2>3, WriteStatusType
  <2>. QED  BY <1>11, <2>4, <1>a, <1>b, <1>d, <1>e DEF ReconcileOrphan
<1>12. CASE SyncFromContainer
  <2>1. FilesTyped'
    BY <1>12, <1>a DEF SyncFromContainer, FilesTyped
  <2>. QED  BY <1>12, <2>1, <1>a, <1>b, <1>d, <1>e DEF SyncFromContainer
<1>13. CASE ReadRequest
  <2>1. job' \in Job
    BY <1>13, <1>a DEF ReadRequest, NoJob, Job, FilesTyped
  <2>. QED  BY <1>13, <2>1, <1>a, <1>b, <1>c, <1>d, <1>e DEF ReadRequest
<1>14. CASE RejectInvalid
  <2>1. Status(0, "failed", Unknown, Unknown, FALSE) \in UpdateStatus
    BY ConstantsAssumption DEF Status, UpdateStatus
  <2>2. hostStatus' \in UpdateStatus /\ ctrStatus' \in UpdateStatus
    BY <1>14, <2>1, <1>a DEF RejectInvalid, CopiedStatus, FilesTyped
  <2>3. hostReq.id \in 1 .. MaxRequests
    BY <1>14, <1>a DEF RejectInvalid, FilesTyped, Request
  <2>4. FilesTyped'
    BY <1>14, <2>2, <2>3, <1>a DEF RejectInvalid, FilesTyped
  <2>. QED  BY <1>14, <2>4, <1>a, <1>b, <1>d, <1>e DEF RejectInvalid
<1>15. CASE CheckVersion
  <2>1. PICK running \in RunningVersions :
          \/ /\ WriteStatus(Status(job.req.id, "completed", running, job.req.tgt, FALSE))
             /\ pc' = "cleanup" /\ job' = job
          \/ /\ WriteStatus(Status(job.req.id, "failed", running, job.req.tgt, FALSE))
             /\ pc' = "cleanup" /\ job' = job
          \/ /\ WriteStatus(Progress("staging", FALSE))
             /\ job' = [job EXCEPT !.expected = running]
             /\ pc' = "pull"
    BY <1>15 DEF CheckVersion
  <2>2. running \in VersionOrNone
    BY <2>1, AnswerTypes
  <2>3. /\ Status(job.req.id, "completed", running, job.req.tgt, FALSE) \in UpdateStatus
        /\ Status(job.req.id, "failed", running, job.req.tgt, FALSE) \in UpdateStatus
        /\ Progress("staging", FALSE) \in UpdateStatus
    BY <2>2, <1>g, StatusType, ProgressType
  <2>4. FilesTyped'
    BY <2>1, <2>3, WriteStatusType
  <2>5. job' \in Job /\ pc' \in Locations
    BY <2>1, <2>2, <1>a DEF Job
  <2>. QED  BY <1>15, <2>4, <2>5, <1>a, <1>b, <1>d, <1>e DEF CheckVersion
<1>16. CASE Recreate
  <2>1. FilesTyped'
    BY <1>16, <1>a, <1>c DEF Recreate, ResyncStatus, CopiedStatus, FilesTyped
  <2>2. NodeTyped'
    BY <1>16, <1>a, <1>g, FieldTypes DEF Recreate, RecreateSucceeds, RecreateFails, NodeTyped
  <2>3. pc' \in Locations
    BY <1>16 DEF Recreate
  <2>. QED  BY <1>16, <2>1, <2>2, <2>3, <1>a, <1>b, <1>e DEF Recreate
<1>17. CASE Rollback
  <2>1. FilesTyped'
    BY <1>17, <1>a, <1>c DEF Rollback, ResyncStatus, CopiedStatus, FilesTyped
  <2>2. NodeTyped'
    BY <1>17, <1>a, <1>g, FieldTypes DEF Rollback, RecreateSucceeds, RecreateFails, NodeTyped
  <2>3. pc' \in Locations
    BY <1>17 DEF Rollback
  <2>. QED  BY <1>17, <2>1, <2>2, <2>3, <1>a, <1>b, <1>e DEF Rollback
<1>18. CASE PersistTarget
  <2>1. job.req \in Request
    BY <1>18 DEF PersistTarget, JobKnown, Outside
  <2>2. NodeTyped'
    BY <1>18, <2>1, <1>a DEF PersistTarget, PersistImage, NodeTyped, Request
  <2>. QED  BY <1>18, <2>2, <1>a, <1>b, <1>c, <1>e DEF PersistTarget
<1>19. CASE Complete
  <2>1. Status(job.req.id, "completed", job.req.tgt, job.req.tgt, FALSE) \in UpdateStatus
    BY <1>g, StatusType
  <2>2. FilesTyped'
    BY <1>19, <2>1, WriteStatusType DEF Complete
  <2>. QED  BY <1>19, <2>2, <1>a, <1>b, <1>d, <1>e DEF Complete
<1>20. CASE RollbackHealth
  <2>1. job' \in Job
    BY <1>20, <1>a DEF RollbackHealth, Job
  <2>. QED  BY <1>20, <2>1, <1>a, <1>b, <1>c, <1>d, <1>e DEF RollbackHealth
<1>21. CASE RollbackLive
  <2>1. PICK live \in LiveVersions :
          \/ pc' = "rb_persist" /\ UNCHANGED fileVars
          \/ /\ pc' = "cleanup"
             /\ WriteStatus(Status(job.req.id, "failed",
                                   IF live # Unknown THEN live ELSE job.req.cur,
                                   job.req.tgt, TRUE))
    BY <1>21 DEF RollbackLive
  <2>2. live \in VersionOrNone
    BY <2>1, AnswerTypes
  <2>3. Status(job.req.id, "failed", IF live # Unknown THEN live ELSE job.req.cur,
               job.req.tgt, TRUE) \in UpdateStatus
    BY <2>2, <1>g, StatusType
  <2>4. FilesTyped' /\ pc' \in Locations
    BY <2>1, <2>3, <1>c, WriteStatusType
  <2>. QED  BY <1>21, <2>4, <1>a, <1>b, <1>d, <1>e DEF RollbackLive
<1>22. CASE PersistPrevious
  <2>1. job.prev \in Version
    BY <1>22, <1>a DEF PersistPrevious, ImageKnown, NodeTyped
  <2>2. NodeTyped'
    BY <1>22, <2>1, <1>a DEF PersistPrevious, PersistImage, NodeTyped
  <2>. QED  BY <1>22, <2>2, <1>a, <1>b, <1>c, <1>e DEF PersistPrevious
<1>23. CASE RolledBack
  <2>1. Status(job.req.id, "rolled_back", job.expected, job.req.tgt, TRUE) \in UpdateStatus
    BY <1>g, FieldTypes, StatusType
  <2>2. FilesTyped'
    BY <1>23, <2>1, WriteStatusType DEF RolledBack
  <2>. QED  BY <1>23, <2>2, <1>a, <1>b, <1>d, <1>e DEF RolledBack
<1>24. CASE Cleanup
  <2>1. FilesTyped'
    BY <1>24, <1>a DEF Cleanup, FilesTyped
  <2>. QED  BY <1>24, <2>1, <1>b, <1>d, <1>e, NoJobType DEF Cleanup
<1>25. CASE Crash
  <2>1. crashes' \in 0 .. MaxCrashes
    BY <1>25, <1>a, ConstantsAssumption DEF Crash
  <2>. QED  BY <1>25, <2>1, <1>a, <1>b, <1>c, <1>d, NoJobType DEF Crash
<1>26. CASE NodeFlaps
  <2>1. NodeTyped'
    BY <1>26, <1>a DEF NodeFlaps, NodeTyped
  <2>. QED  BY <1>26, <2>1, <1>a, <1>b, <1>c, <1>e DEF NodeFlaps
<1>27. CASE Submit
  <2>1. submitted' \in 1 .. MaxRequests
    BY <1>27, <1>a, ConstantsAssumption DEF Submit
  <2>2. PICK cur \in {image, Unknown}, tgt \in Version \ {image}, img \in Version,
             valid \in BOOLEAN :
          AppWrites([id |-> submitted', cur |-> cur, tgt |-> tgt, img |-> img,
                     valid |-> valid],
                    Status(submitted', "requested", cur, tgt, FALSE))
    BY <1>27 DEF Submit
  <2>3. [id |-> submitted', cur |-> cur, tgt |-> tgt, img |-> img, valid |-> valid]
          \in Request
    BY <2>1, <2>2, <1>a DEF Request, NodeTyped
  <2>4. Status(submitted', "requested", cur, tgt, FALSE) \in UpdateStatus
    BY <2>1, <2>2, <1>a, ConstantsAssumption DEF NodeTyped, Status, UpdateStatus
  <2>5. FilesTyped'
    BY <1>27, <2>2, <2>3, <2>4, <1>a DEF Submit, AppWrites, FilesTyped
  <2>6. submitted' \in 0 .. MaxRequests /\ crashes' \in 0 .. MaxCrashes
    BY <1>27, <2>1, <1>a, ConstantsAssumption DEF Submit
  <2>. QED  BY <1>27, <2>5, <2>6, <1>a, <1>b, <1>d DEF Submit
<1>28. CASE Cancel
  <2>1. [ctrStatus EXCEPT !.state = "cancelled"] \in UpdateStatus
    BY <1>a DEF FilesTyped, UpdateStatus
  <2>2. ctrStatus.id # 0 => ctrStatus.id \in 1 .. MaxRequests
    BY FieldTypes, ConstantsAssumption
  <2>3. answered' \subseteq 1 .. MaxRequests
    BY <1>28, <2>2, <1>a DEF Cancel, FilesTyped
  <2>4. FilesTyped'
    BY <1>28, <2>1, <2>3, <1>a DEF Cancel, AppWrites, FilesTyped
  <2>. QED  BY <1>28, <2>4, <1>a, <1>b, <1>d, <1>e DEF Cancel
<1>29. CASE ClearStatus
  <2>1. Status(0, "idle", ctrStatus.cur, Unknown, FALSE) \in UpdateStatus
    BY FieldTypes, ConstantsAssumption DEF Status, UpdateStatus
  <2>2. FilesTyped'
    BY <1>29, <2>1, <1>a DEF ClearStatus, AppWrites, FilesTyped
  <2>. QED  BY <1>29, <2>2, <1>a, <1>b, <1>d, <1>e DEF ClearStatus
<1>30. CASE UNCHANGED vars
  BY <1>30 DEF TypeOK, vars
<1>. QED
  BY <1>1, <1>2, <1>3, <1>4, <1>5, <1>6, <1>7, <1>8, <1>9, <1>10, <1>11, <1>12, <1>13, <1>14, <1>15, <1>16, <1>17, <1>18, <1>19, <1>20, <1>21, <1>22, <1>23, <1>24, <1>25, <1>26, <1>27, <1>28, <1>29, <1>30
  DEF Next, SupervisorStep, Reconcile, Intake, Apply, RollBack, Environment

(* What a status write does to the files.                                  *)
LEMMA WriteStatusEffect ==
  ASSUME NEW s, WriteStatus(s)
  PROVE  /\ hostStatus' = s
         /\ Shared => ctrStatus' = s
         /\ hostReq' = hostReq
         /\ ctrReq' = ctrReq
BY DEF WriteStatus, CopiedStatus

(* Files and locals: the steps that move requests about.                   *)
LEMMA FilesStep == IInv /\ TypeOK' /\ [Next]_vars
                     => SameFiles' /\ ProperRequests' /\ JobKnown'
<1> SUFFICES ASSUME IInv, TypeOK', [Next]_vars
             PROVE  SameFiles' /\ ProperRequests' /\ JobKnown'
  OBVIOUS
<1> USE DEF IInv, SameFiles, ProperRequests, JobKnown, Outside,
            fileVars, nodeVars, countVars
<1>1. CASE ReconcileNothing
  BY <1>1 DEF ReconcileNothing
<1>2. CASE ReconcileOrphan
  BY <1>2, WriteStatusEffect DEF ReconcileOrphan
<1>3. CASE SyncFromContainer
  BY <1>3 DEF SyncFromContainer
<1>4. CASE ReadRequest
  BY <1>4 DEF ReadRequest, TypeOK, Job, NoJob
<1>5. CASE RejectInvalid
  BY <1>5 DEF RejectInvalid, CopiedStatus
<1>6. CASE CheckVersion
  BY <1>6 DEF CheckVersion, WriteStatus, CopiedStatus, TypeOK, Job
<1>7. CASE PullSucceeds
  BY <1>7 DEF PullSucceeds
<1>8. CASE PullFails
  BY <1>8 DEF PullFails, WriteStatus, CopiedStatus
<1>9. CASE CapturePrevious
  BY <1>9 DEF CapturePrevious, WriteStatus, CopiedStatus, TypeOK, Job
<1>10. CASE Recreate
  BY <1>10 DEF Recreate, RecreateSucceeds, RecreateFails, ResyncStatus, CopiedStatus
<1>11. CASE BeginVerify
  BY <1>11 DEF BeginVerify, WriteStatus, CopiedStatus
<1>12. CASE HealthVerified
  BY <1>12 DEF HealthVerified
<1>13. CASE HealthTimesOut
  BY <1>13 DEF HealthTimesOut
<1>14. CASE PersistTarget
  BY <1>14 DEF PersistTarget, PersistImage
<1>15. CASE Complete
  BY <1>15 DEF Complete, WriteStatus, CopiedStatus
<1>16. CASE BeginRollback
  BY <1>16 DEF BeginRollback, WriteStatus, CopiedStatus
<1>17. CASE Rollback
  BY <1>17 DEF Rollback, RecreateSucceeds, RecreateFails, ResyncStatus, CopiedStatus
<1>18. CASE RollbackHealth
  BY <1>18 DEF RollbackHealth, TypeOK, Job
<1>19. CASE RollbackLive
  <2>1. PICK live \in LiveVersions :
          \/ pc' = "rb_persist" /\ UNCHANGED fileVars
          \/ /\ pc' = "cleanup"
             /\ WriteStatus(Status(job.req.id, "failed",
                                   IF live # Unknown THEN live ELSE job.req.cur,
                                   job.req.tgt, TRUE))
    BY <1>19 DEF RollbackLive
  <2>2. hostReq' = hostReq /\ ctrReq' = ctrReq /\ SameFiles'
    BY <2>1 DEF WriteStatus, CopiedStatus
  <2>. QED  BY <1>19, <2>2 DEF RollbackLive
<1>20. CASE PersistPrevious
  BY <1>20 DEF PersistPrevious, PersistImage
<1>21. CASE RolledBack
  BY <1>21 DEF RolledBack, WriteStatus, CopiedStatus
<1>22. CASE RollbackFailed
  BY <1>22 DEF RollbackFailed, WriteStatus, CopiedStatus
<1>23. CASE Cleanup
  BY <1>23 DEF Cleanup
<1>24. CASE Crash
  BY <1>24 DEF Crash
<1>25. CASE Restart
  BY <1>25 DEF Restart
<1>26. CASE NodeFlaps
  BY <1>26 DEF NodeFlaps
<1>27. CASE Submit
  <2>1. PICK cur \in {image, Unknown}, tgt \in Version \ {image}, img \in Version,
             valid \in BOOLEAN :
          AppWrites([id |-> submitted', cur |-> cur, tgt |-> tgt, img |-> img,
                     valid |-> valid],
                    Status(submitted', "requested", cur, tgt, FALSE))
    BY <1>27 DEF Submit
  <2>2. cur # tgt
    BY <2>1, ConstantsAssumption
  <2>3. ctrReq'.cur # ctrReq'.tgt /\ SameFiles'
    BY <2>1, <2>2 DEF AppWrites
  <2>4. hostReq' # NoRequest => hostReq'.cur # hostReq'.tgt
    <3>1. CASE Shared
      BY <3>1, <2>1, <2>2 DEF AppWrites
    <3>2. CASE ~Shared
      BY <3>2, <2>1 DEF AppWrites
    <3>. QED  BY <3>1, <3>2
  <2>. QED  BY <1>27, <2>3, <2>4 DEF Submit
<1>28. CASE Cancel
  BY <1>28 DEF Cancel, AppWrites
<1>29. CASE ClearStatus
  BY <1>29 DEF ClearStatus, AppWrites
<1>30. CASE UNCHANGED vars
  BY <1>30 DEF vars
<1>. QED
  BY <1>1, <1>2, <1>3, <1>4, <1>5, <1>6, <1>7, <1>8, <1>9, <1>10, <1>11, <1>12, <1>13, <1>14, <1>15, <1>16, <1>17, <1>18, <1>19, <1>20, <1>21, <1>22, <1>23, <1>24, <1>25, <1>26, <1>27, <1>28, <1>29, <1>30
  DEF Next, SupervisorStep, Reconcile, Intake, Apply, RollBack, Environment

(* Status and image: what the supervisor knows at each location.           *)
LEMMA KnowledgeStep == IInv /\ TypeOK' /\ [Next]_vars
                         => StatusKnown' /\ ImageKnown'
<1> SUFFICES ASSUME IInv, TypeOK', [Next]_vars
             PROVE  StatusKnown' /\ ImageKnown'
  OBVIOUS
<1> USE DEF IInv, SameFiles, JobKnown, Outside, StatusKnown, ImageKnown, fileVars, nodeVars, countVars
<1>1. CASE ReconcileNothing
  BY <1>1 DEF ReconcileNothing
<1>2. CASE ReconcileOrphan
  BY <1>2 DEF ReconcileOrphan, WriteStatus, CopiedStatus, Progress, Status
<1>3. CASE SyncFromContainer
  BY <1>3 DEF SyncFromContainer
<1>4. CASE ReadRequest
  BY <1>4 DEF ReadRequest
<1>5. CASE RejectInvalid
  BY <1>5 DEF RejectInvalid, Status, CopiedStatus
<1>6. CASE CheckVersion
  BY <1>6 DEF CheckVersion, WriteStatus, CopiedStatus, Progress, Status, TypeOK, Job
<1>7. CASE PullSucceeds
  BY <1>7 DEF PullSucceeds
<1>8. CASE PullFails
  BY <1>8 DEF PullFails, WriteStatus, CopiedStatus, Progress, Status
<1>9. CASE CapturePrevious
  BY <1>9 DEF CapturePrevious, WriteStatus, CopiedStatus, Progress, Status, TypeOK, Job
<1>10. CASE Recreate
  BY <1>10 DEF Recreate, RecreateSucceeds, RecreateFails, ResyncStatus, CopiedStatus
<1>11. CASE BeginVerify
  BY <1>11 DEF BeginVerify, WriteStatus, CopiedStatus, Progress, Status
<1>12. CASE HealthVerified
  BY <1>12 DEF HealthVerified
<1>13. CASE HealthTimesOut
  BY <1>13 DEF HealthTimesOut
<1>14. CASE PersistTarget
  BY <1>14 DEF PersistTarget, PersistImage
<1>15. CASE Complete
  BY <1>15 DEF Complete, WriteStatus, CopiedStatus, Progress, Status
<1>16. CASE BeginRollback
  BY <1>16 DEF BeginRollback, WriteStatus, CopiedStatus, Progress, Status
<1>17. CASE Rollback
  BY <1>17 DEF Rollback, RecreateSucceeds, RecreateFails, ResyncStatus, CopiedStatus
<1>18. CASE RollbackHealth
  BY <1>18 DEF RollbackHealth, TypeOK, Job
<1>19. CASE RollbackLive
  BY <1>19 DEF RollbackLive, WriteStatus, CopiedStatus, Progress, Status, LiveVersions
<1>20. CASE PersistPrevious
  BY <1>20 DEF PersistPrevious, PersistImage
<1>21. CASE RolledBack
  BY <1>21 DEF RolledBack, WriteStatus, CopiedStatus, Progress, Status
<1>22. CASE RollbackFailed
  BY <1>22 DEF RollbackFailed, WriteStatus, CopiedStatus, Progress, Status
<1>23. CASE Cleanup
  BY <1>23 DEF Cleanup
<1>24. CASE Crash
  BY <1>24 DEF Crash
<1>25. CASE Restart
  BY <1>25 DEF Restart
<1>26. CASE NodeFlaps
  BY <1>26 DEF NodeFlaps
<1>27. CASE Submit
  BY <1>27 DEF Submit, Status, AppWrites
<1>28. CASE Cancel
  BY <1>28 DEF Cancel, AppWrites, TypeOK, UpdateStatus
<1>29. CASE ClearStatus
  BY <1>29 DEF ClearStatus, Status, AppWrites
<1>30. CASE UNCHANGED vars
  BY <1>30 DEF vars
<1>. QED
  BY <1>1, <1>2, <1>3, <1>4, <1>5, <1>6, <1>7, <1>8, <1>9, <1>10, <1>11, <1>12, <1>13, <1>14, <1>15, <1>16, <1>17, <1>18, <1>19, <1>20, <1>21, <1>22, <1>23, <1>24, <1>25, <1>26, <1>27, <1>28, <1>29, <1>30
  DEF Next, SupervisorStep, Reconcile, Intake, Apply, RollBack, Environment

(* Shared files: what the status on disk says is true.                     *)
LEMMA TruthStep == IInv /\ TypeOK' /\ [Next]_vars => SharedStatusTrue'
<1> SUFFICES ASSUME IInv, TypeOK', [Next]_vars, Shared
             PROVE  CompletedMeansRunning' /\ RolledBackMeansRestored' /\ CriticalHasOwner'
  BY DEF SharedStatusTrue
<1> USE DEF IInv, SameFiles, StatusKnown, ImageKnown, SharedStatusTrue,
            CompletedMeansRunning, RolledBackMeansRestored, CriticalHasOwner,
            fileVars, nodeVars, countVars
<1>1. CASE ReconcileNothing
  BY <1>1 DEF ReconcileNothing
<1>2. CASE ReconcileOrphan
  BY <1>2 DEF ReconcileOrphan, WriteStatus, CopiedStatus, Progress, Status, LiveVersions
<1>3. CASE SyncFromContainer
  BY <1>3 DEF SyncFromContainer
<1>4. CASE ReadRequest
  BY <1>4 DEF ReadRequest
<1>5. CASE RejectInvalid
  BY <1>5 DEF RejectInvalid, Status, CopiedStatus
<1>6. CASE CheckVersion
  BY <1>6 DEF CheckVersion, WriteStatus, CopiedStatus, Progress, Status, LiveVersions, CurrentImages, RunningVersions, JobKnown, Outside, Request
<1>7. CASE PullSucceeds
  BY <1>7 DEF PullSucceeds
<1>8. CASE PullFails
  BY <1>8 DEF PullFails, WriteStatus, CopiedStatus, Progress, Status
<1>9. CASE CapturePrevious
  BY <1>9 DEF CapturePrevious, WriteStatus, CopiedStatus, Progress, Status
<1>10. CASE Recreate
  BY <1>10 DEF Recreate, RecreateSucceeds, RecreateFails, ResyncStatus, CopiedStatus
<1>11. CASE BeginVerify
  BY <1>11 DEF BeginVerify, WriteStatus, CopiedStatus, Progress, Status
<1>12. CASE HealthVerified
  BY <1>12 DEF HealthVerified
<1>13. CASE HealthTimesOut
  BY <1>13 DEF HealthTimesOut
<1>14. CASE PersistTarget
  BY <1>14 DEF PersistTarget, PersistImage
<1>15. CASE Complete
  BY <1>15 DEF Complete, WriteStatus, CopiedStatus, Progress, Status
<1>16. CASE BeginRollback
  BY <1>16 DEF BeginRollback, WriteStatus, CopiedStatus, Progress, Status
<1>17. CASE Rollback
  BY <1>17 DEF Rollback, RecreateSucceeds, RecreateFails, ResyncStatus, CopiedStatus
<1>18. CASE RollbackHealth
  BY <1>18 DEF RollbackHealth
<1>19. CASE RollbackLive
  BY <1>19 DEF RollbackLive, WriteStatus, CopiedStatus, Progress, Status
<1>20. CASE PersistPrevious
  BY <1>20 DEF PersistPrevious, PersistImage
<1>21. CASE RolledBack
  BY <1>21 DEF RolledBack, WriteStatus, CopiedStatus, Progress, Status
<1>22. CASE RollbackFailed
  BY <1>22 DEF RollbackFailed, WriteStatus, CopiedStatus, Progress, Status
<1>23. CASE Cleanup
  BY <1>23 DEF Cleanup
<1>24. CASE Crash
  BY <1>24 DEF Crash
<1>25. CASE Restart
  BY <1>25 DEF Restart
<1>26. CASE NodeFlaps
  BY <1>26 DEF NodeFlaps
<1>27. CASE Submit
  BY <1>27 DEF Submit, Status, AppWrites
<1>28. CASE Cancel
  BY <1>28 DEF Cancel, AppWrites, TypeOK, UpdateStatus
<1>29. CASE ClearStatus
  BY <1>29 DEF ClearStatus, Status, AppWrites
<1>30. CASE UNCHANGED vars
  BY <1>30 DEF vars
<1>. QED
  BY <1>1, <1>2, <1>3, <1>4, <1>5, <1>6, <1>7, <1>8, <1>9, <1>10, <1>11, <1>12, <1>13, <1>14, <1>15, <1>16, <1>17, <1>18, <1>19, <1>20, <1>21, <1>22, <1>23, <1>24, <1>25, <1>26, <1>27, <1>28, <1>29, <1>30
  DEF Next, SupervisorStep, Reconcile, Intake, Apply, RollBack, Environment

(* The inductive invariant holds at the start and along every step.        *)
THEOREM Invariance == Spec => []IInv
<1>1. Init => IInv
  <2> SUFFICES ASSUME Init PROVE IInv
    OBVIOUS
  <2>1. hostStatus \in UpdateStatus
    BY ConstantsAssumption DEF Init, Status, UpdateStatus
  <2>a. pc \in Locations /\ job \in Job /\ submitted = 0 /\ crashes = 0
    BY NoJobType DEF Init
  <2>b. /\ hostReq = NoRequest /\ ctrReq = NoRequest /\ ctrStatus = hostStatus
        /\ image \in Version /\ up \in BOOLEAN /\ persisted = image /\ answered = {}
    BY DEF Init
  <2>c. 0 \in 0 .. MaxRequests /\ 0 \in 0 .. MaxCrashes
    BY ConstantsAssumption
  <2>2. TypeOK
    BY <2>1, <2>a, <2>b, <2>c DEF TypeOK
  <2>3. hostStatus.state = "idle"
    BY DEF Init, Status
  <2>. QED
    BY <2>2, <2>3 DEF Init, IInv, SameFiles, ProperRequests, JobKnown, Outside,
       StatusKnown, ImageKnown, SharedStatusTrue, CompletedMeansRunning,
       RolledBackMeansRestored, CriticalHasOwner
<1>2. IInv /\ [Next]_vars => IInv'
  BY TypeStep, FilesStep, KnowledgeStep, TruthStep DEF IInv
<1>. QED  BY <1>1, <1>2, PTL DEF Spec

(* Type correctness of the supervisor, for every bound.                    *)
THEOREM TypeCorrect == Spec => []TypeOK
<1>1. IInv => TypeOK
  BY DEF IInv
<1>. QED  BY <1>1, Invariance, PTL

(* Shared files: "completed" on disk is true of the node, whatever number  *)
(* of crashes, requests and versions there are.                            *)
THEOREM CompletedIsTrue == ASSUME Shared PROVE Spec => []CompletedMeansRunning
<1>1. IInv => CompletedMeansRunning
  BY DEF IInv, SharedStatusTrue
<1>. QED  BY <1>1, Invariance, PTL

(* Shared files: "rolled_back" on disk is true of the node and of .env.    *)
THEOREM RolledBackIsTrue == ASSUME Shared PROVE Spec => []RolledBackMeansRestored
<1>1. IInv => RolledBackMeansRestored
  BY DEF IInv, SharedStatusTrue
<1>. QED  BY <1>1, Invariance, PTL

(* Shared files: no critical status is ever left without a supervisor that *)
(* works on it or is about to reconcile it.                                *)
THEOREM CriticalIsOwned == ASSUME Shared PROVE Spec => []CriticalHasOwner
<1>1. IInv => CriticalHasOwner
  BY DEF IInv, SharedStatusTrue
<1>. QED  BY <1>1, Invariance, PTL

(* Only the two recreations change the image, each under its own status.   *)
LEMMA ImageStep ==
  ASSUME IInv, [Next]_vars
  PROVE  image' # image => hostStatus.state \in {"applying", "rolling_back"}
                             /\ UNCHANGED hostStatus
<1>1. CASE Recreate
  BY <1>1 DEF Recreate, IInv, StatusKnown, ResyncStatus, fileVars
<1>2. CASE Rollback
  BY <1>2 DEF Rollback, IInv, StatusKnown, ResyncStatus, fileVars
<1>3. CASE PersistTarget \/ PersistPrevious
  BY <1>3 DEF PersistTarget, PersistPrevious, PersistImage
<1>4. CASE UNCHANGED vars
  BY <1>4 DEF vars
<1>5. CASE ~(Recreate \/ Rollback \/ PersistTarget \/ PersistPrevious) /\ Next
  <2>1. image' = image
    BY <1>5 DEF Next, SupervisorStep, Reconcile, Intake, Apply, RollBack, Environment,
       nodeVars, ReconcileNothing, ReconcileOrphan, SyncFromContainer, ReadRequest,
         RejectInvalid, CheckVersion, PullSucceeds, PullFails,
         CapturePrevious, BeginVerify, HealthVerified, HealthTimesOut,
         Complete, BeginRollback, RollbackHealth, RollbackLive, RolledBack,
         RollbackFailed, Cleanup, Crash, Restart, NodeFlaps, Submit, Cancel,
         ClearStatus
  <2>. QED  BY <2>1
<1>. QED  BY <1>1, <1>2, <1>3, <1>4, <1>5

(* The container is never replaced before the status on disk says so,      *)
(* whichever way the updates directory is mounted.                         *)
THEOREM ReplacementIsAnnounced == Spec => StatusPrecedesReplacement
<1>1. IInv /\ [Next]_vars
        => [image' # image => hostStatus.state \in {"applying", "rolling_back"}]_vars
  BY ImageStep
<1>. QED  BY <1>1, Invariance, PTL DEF Spec, StatusPrecedesReplacement

(* Only a persisting step changes .env, and it writes the running image.   *)
THEOREM OnlyRunningIsPersisted == Spec => PersistsOnlyRunning
<1>1. ASSUME IInv, Next PROVE persisted' # persisted => persisted' = image
  <2>1. CASE PersistTarget
    BY <1>1, <2>1 DEF PersistTarget, PersistImage, IInv, ImageKnown
  <2>2. CASE PersistPrevious
    BY <1>1, <2>2 DEF PersistPrevious, PersistImage, IInv, ImageKnown
  <2>3. CASE Recreate \/ Rollback
    BY <2>3 DEF Recreate, Rollback, RecreateSucceeds, RecreateFails
  <2>4. CASE ~(Recreate \/ Rollback \/ PersistTarget \/ PersistPrevious)
    <3>1. persisted' = persisted
      BY <1>1, <2>4 DEF Next, SupervisorStep, Reconcile, Intake, Apply, RollBack,
         Environment, nodeVars, ReconcileNothing, ReconcileOrphan, SyncFromContainer, ReadRequest,
         RejectInvalid, CheckVersion, PullSucceeds, PullFails,
         CapturePrevious, BeginVerify, HealthVerified, HealthTimesOut,
         Complete, BeginRollback, RollbackHealth, RollbackLive, RolledBack,
         RollbackFailed, Cleanup, Crash, Restart, NodeFlaps, Submit, Cancel,
         ClearStatus
    <3>. QED  BY <3>1
  <2>. QED  BY <2>1, <2>2, <2>3, <2>4
<1>2. IInv /\ [Next]_vars => [persisted' # persisted => persisted' = image]_vars
  BY <1>1
<1>. QED  BY <1>2, Invariance, PTL DEF Spec, PersistsOnlyRunning

(* The supervisor announces "completed" only while the node runs the       *)
(* target, whichever way the updates directory is mounted.  Three steps    *)
(* announce it: the reconciler and the version check have just seen the    *)
(* target running, and the end of the workflow knows the image from its    *)
(* health check.                                                           *)
THEOREM OnlyReachedIsAnnounced == Spec => AnnouncesOnlyReached
<1> DEFINE Announced == hostStatus' # hostStatus /\ hostStatus'.state = "completed"
                          /\ pc # "poll"
<1>1. ASSUME IInv, Next, Announced PROVE image = hostStatus'.tgt
  <2> USE <1>1 DEF fileVars
  <2>1. CASE ReconcileOrphan
    BY <2>1 DEF ReconcileOrphan, WriteStatus, Status, LiveVersions
  <2>2. CASE CheckVersion
    BY <2>2 DEF CheckVersion, WriteStatus, Progress, Status, LiveVersions, CurrentImages,
       RunningVersions, IInv, JobKnown, Outside, Request
  <2>3. CASE Complete
    BY <2>3 DEF Complete, WriteStatus, Status, IInv, ImageKnown
  <2>4. CASE CapturePrevious \/ BeginVerify \/ BeginRollback \/ RolledBack \/ RollbackFailed
    BY <2>4 DEF CapturePrevious, BeginVerify, BeginRollback, RolledBack, RollbackFailed,
       WriteStatus, Progress, Status
  <2>5. CASE PullFails
    BY <2>5 DEF PullFails, WriteStatus, Progress, Status
  <2>6. CASE RollbackLive
    BY <2>6 DEF RollbackLive, WriteStatus, Status
  <2>7. CASE Submit \/ Cancel \/ ClearStatus
    BY <2>7 DEF Submit, Cancel, ClearStatus, AppWrites, Status, IInv, TypeOK, UpdateStatus
  <2>8. CASE Recreate \/ Rollback
    BY <2>8 DEF Recreate, Rollback, ResyncStatus
  <2>9. CASE ReconcileNothing \/ SyncFromContainer \/ ReadRequest \/ RejectInvalid
               \/ PullSucceeds \/ HealthVerified \/ HealthTimesOut \/ PersistTarget
               \/ RollbackHealth \/ PersistPrevious \/ Cleanup \/ Crash \/ Restart \/ NodeFlaps
    BY <2>9 DEF ReconcileNothing, SyncFromContainer, ReadRequest, RejectInvalid,
       PullSucceeds, HealthVerified, HealthTimesOut, PersistTarget, RollbackHealth,
       PersistPrevious, Cleanup, Crash, Restart, NodeFlaps
  <2>. QED  BY <2>1, <2>2, <2>3, <2>4, <2>5, <2>6, <2>7, <2>8, <2>9
            DEF Next, SupervisorStep, Reconcile, Intake, Apply, RollBack, Environment
<1>2. IInv /\ [Next]_vars
        => [hostStatus' # hostStatus /\ hostStatus'.state = "completed" /\ pc # "poll"
              => image = hostStatus'.tgt]_vars
  BY <1>1
<1>. QED  BY <1>2, Invariance, PTL DEF Spec, AnnouncesOnlyReached

(* Shared files: every step of the supervisor, of the update API and of    *)
(* the node is a step of the documented life cycle, or invisible to it.    *)
THEOREM Refinement == ASSUME Shared PROVE Spec => ImplementsLifecycle
<1> USE DEF Lifecycle!Critical, Lifecycle!Preparing, Lifecycle!Outcome, Lifecycle!Quiet
<1>1. Init => Lifecycle!Init
  BY DEF Init, Lifecycle!Init, Status
<1>2. IInv /\ IInv' /\ [Next]_vars => [Lifecycle!Next]_<<hostStatus, image>>
  <2> SUFFICES ASSUME IInv, IInv', [Next]_vars
               PROVE  Lifecycle!Next \/ UNCHANGED <<hostStatus, image>>
    OBVIOUS
  <2>a. hostStatus.state \in ActiveStates \cup TerminalStates /\ image' \in 0 .. MaxVersion
    BY ConstantsAssumption DEF IInv, TypeOK, UpdateStatus
  <2>b. /\ CriticalHasOwner /\ CompletedMeansRunning' /\ RolledBackMeansRestored'
        /\ StatusKnown /\ ctrStatus = hostStatus
    BY DEF IInv, SharedStatusTrue, SameFiles
  <2>c. pc \in {"poll", "check", "pull", "capture", "cleanup"}
          => hostStatus.state \in Lifecycle!Quiet
    BY <2>a, <2>b DEF CriticalHasOwner
  <2>1. CASE ReconcileNothing
    BY <2>1 DEF ReconcileNothing, fileVars, nodeVars
  <2>2. CASE ReadRequest
    BY <2>2 DEF ReadRequest, fileVars, nodeVars
  <2>3. CASE PullSucceeds
    BY <2>3 DEF PullSucceeds, fileVars, nodeVars
  <2>4. CASE HealthVerified
    BY <2>4 DEF HealthVerified, fileVars, nodeVars
  <2>5. CASE HealthTimesOut
    BY <2>5 DEF HealthTimesOut, fileVars, nodeVars
  <2>6. CASE RollbackHealth
    BY <2>6 DEF RollbackHealth, fileVars, nodeVars
  <2>7. CASE Cleanup
    BY <2>7 DEF Cleanup, fileVars, nodeVars
  <2>8. CASE Crash
    BY <2>8 DEF Crash, fileVars, nodeVars
  <2>9. CASE Restart
    BY <2>9 DEF Restart, fileVars, nodeVars
  <2>10. CASE NodeFlaps
    BY <2>10 DEF NodeFlaps, fileVars, nodeVars
  <2>11. CASE PersistTarget
    BY <2>11 DEF PersistTarget, PersistImage, fileVars
  <2>12. CASE PersistPrevious
    BY <2>12 DEF PersistPrevious, PersistImage, fileVars
  <2>13. CASE SyncFromContainer
    BY <2>13 DEF SyncFromContainer
  <2>14. CASE RejectInvalid
    BY <2>14, <2>c DEF RejectInvalid, Status, nodeVars, Lifecycle!Next, Lifecycle!Prepare
  <2>15. CASE ReconcileOrphan
    <3>1. image' = image /\ hostStatus'.state \in {"completed", "failed"}
      BY <2>15 DEF ReconcileOrphan, WriteStatus, Progress, Status, nodeVars
    <3>. QED
      BY <3>1, <2>a, <2>b DEF CompletedMeansRunning,
         Lifecycle!Next, Lifecycle!Succeed, Lifecycle!GiveUp, Lifecycle!Prepare
  <2>16. CASE CheckVersion
    <3>1. image' = image /\ hostStatus'.state \in {"completed", "failed", "staging"}
      BY <2>16 DEF CheckVersion, WriteStatus, Progress, Status, nodeVars
    <3>. QED
      BY <2>16, <3>1, <2>b, <2>c DEF CheckVersion, CompletedMeansRunning,
         Lifecycle!Next, Lifecycle!Succeed, Lifecycle!Prepare
  <2>17. CASE PullFails
    <3>1. image' = image /\ (hostStatus'.state = "failed" \/ UNCHANGED hostStatus)
      BY <2>17 DEF PullFails, fileVars, WriteStatus, Progress, Status, nodeVars
    <3>. QED  BY <2>17, <3>1, <2>c DEF PullFails, Lifecycle!Next, Lifecycle!Prepare
  <2>18. CASE CapturePrevious
    BY <2>18, <2>c DEF CapturePrevious, WriteStatus, Progress, Status, nodeVars, Lifecycle!Next, Lifecycle!StartApplying
  <2>19. CASE Recreate
    <3>1. hostStatus' = hostStatus
      BY <2>19 DEF Recreate, ResyncStatus, fileVars
    <3>. QED  BY <2>19, <3>1, <2>a, <2>b DEF Recreate, StatusKnown, Lifecycle!Next, Lifecycle!Replace
  <2>20. CASE Rollback
    <3>1. hostStatus' = hostStatus
      BY <2>20 DEF Rollback, ResyncStatus, fileVars
    <3>. QED  BY <2>20, <3>1, <2>a, <2>b DEF Rollback, StatusKnown, Lifecycle!Next, Lifecycle!Replace
  <2>21. CASE BeginVerify
    BY <2>21, <2>b DEF BeginVerify, StatusKnown, WriteStatus, Progress, Status, nodeVars, Lifecycle!Next, Lifecycle!StartVerifying
  <2>22. CASE BeginRollback
    BY <2>22, <2>b DEF BeginRollback, StatusKnown, WriteStatus, Progress, Status, nodeVars, Lifecycle!Next, Lifecycle!StartRollback
  <2>23. CASE Complete
    <3>1. image' = image /\ hostStatus'.state = "completed"
      BY <2>23 DEF Complete, WriteStatus, Progress, Status, nodeVars
    <3>. QED  BY <3>1, <2>b DEF CompletedMeansRunning, Lifecycle!Next, Lifecycle!Succeed
  <2>24. CASE RollbackLive
    <3>1. image' = image /\ (hostStatus'.state = "failed" \/ UNCHANGED hostStatus)
      BY <2>24 DEF RollbackLive, fileVars, WriteStatus, Progress, Status, nodeVars
    <3>. QED  BY <2>24, <3>1, <2>b DEF RollbackLive, StatusKnown, Lifecycle!Next, Lifecycle!GiveUp
  <2>25. CASE RollbackFailed
    BY <2>25, <2>b DEF RollbackFailed, StatusKnown, WriteStatus, Progress, Status, nodeVars, Lifecycle!Next, Lifecycle!GiveUp
  <2>26. CASE RolledBack
    <3>1. image' = image /\ hostStatus'.state = "rolled_back"
      BY <2>26 DEF RolledBack, WriteStatus, Progress, Status, nodeVars
    <3>. QED
      BY <2>26, <3>1, <2>b DEF RolledBack, StatusKnown, RolledBackMeansRestored,
         Lifecycle!Next, Lifecycle!Restore
  <2>27. CASE Submit
    <3>1. image' = image /\ hostStatus'.state = "requested"
      BY <2>27 DEF Submit, AppWrites, Status, nodeVars
    <3>. QED  BY <2>27, <3>1, <2>a, <2>b DEF Submit, Lifecycle!Next, Lifecycle!Prepare
  <2>28. CASE Cancel
    <3>1. image' = image /\ hostStatus'.state = "cancelled"
      BY <2>28 DEF Cancel, AppWrites, nodeVars, IInv, TypeOK, UpdateStatus
    <3>. QED  BY <2>28, <3>1, <2>b DEF Cancel, Lifecycle!Next, Lifecycle!Prepare
  <2>29. CASE ClearStatus
    <3>1. image' = image /\ hostStatus'.state = "idle"
      BY <2>29 DEF ClearStatus, AppWrites, Status, nodeVars
    <3>. QED  BY <2>29, <3>1, <2>b DEF ClearStatus, Lifecycle!Next, Lifecycle!Prepare
  <2>30. CASE UNCHANGED vars
    BY <2>30 DEF vars
  <2>. QED
    BY <2>1, <2>2, <2>3, <2>4, <2>5, <2>6, <2>7, <2>8, <2>9, <2>10, <2>11, <2>12, <2>13, <2>14, <2>15, <2>16, <2>17, <2>18, <2>19, <2>20, <2>21, <2>22, <2>23, <2>24, <2>25, <2>26, <2>27, <2>28, <2>29, <2>30
    DEF Next, SupervisorStep, Reconcile, Intake, Apply, RollBack, Environment
<1>. QED
  BY <1>1, <1>2, Invariance, PTL DEF Spec, ImplementsLifecycle, Lifecycle!Spec,
     Lifecycle!lifecycleVars

-----------------------------------------------------------------------------
(* Versions *)

LEMMA FirstNumber ==
  ASSUME NEW S \in SUBSET Nat, S # {}
  PROVE  \E i \in S : \A j \in S : i <= j
<1>1. IsWellFoundedOn(OpToRel(<, Nat), Nat)
  BY NatLessThanWellFounded
<1>2. PICK i \in S : \A j \in S : ~(<<j, i>> \in OpToRel(<, Nat))
  BY <1>1, WFMin
<1>3. ASSUME NEW j \in S PROVE i <= j
  <2>1. j < i => <<j, i>> \in OpToRel(<, Nat)
    BY Zenon DEF OpToRel
  <2>2. ~(j < i)
    BY <1>2, <2>1
  <2>3. i \in Nat /\ j \in Nat
    OBVIOUS
  <2>4. QED
    BY <2>2, <2>3
<1>4. QED
  BY <1>3

(* Two lists of identifiers are equal, or one is a proper beginning of the *)
(* other, or there is a first place where they differ.                     *)
LEMMA FirstDifference ==
  ASSUME NEW p \in Seq(Identifier), NEW q \in Seq(Identifier),
         \A i \in DOMAIN p : ~Differ(p, q, i)
  PROVE  \A i \in Nat : i \in DOMAIN p /\ i \in DOMAIN q => p[i] = q[i]
<1> DEFINE D == {i \in Nat : i \in DOMAIN p /\ i \in DOMAIN q /\ p[i] # q[i]}
<1>1. SUFFICES ASSUME D # {} PROVE FALSE
  OBVIOUS
<1>2. PICK i \in D : \A j \in D : i <= j
  BY <1>1, FirstNumber
<1>3. \A j \in 1 .. i - 1 : p[j] = q[j]
  BY <1>2
<1>4. QED
  BY <1>2, <1>3 DEF Differ

LEMMA IdentifierOrder ==
  ASSUME NEW x \in Identifier, NEW y \in Identifier, NEW z \in Identifier
  PROVE  /\ ~IdentifierLess(x, x)
         /\ IdentifierLess(x, y) /\ IdentifierLess(y, z) => IdentifierLess(x, z)
         /\ x = y \/ IdentifierLess(x, y) \/ IdentifierLess(y, x)
BY DEF Identifier, IdentifierLess

LEMMA PrereleaseTransitive ==
  ASSUME NEW p \in Seq(Identifier), NEW q \in Seq(Identifier), NEW r \in Seq(Identifier),
         PrereleaseLess(p, q), PrereleaseLess(q, r)
  PROVE  PrereleaseLess(p, r)
<1>0. /\ DOMAIN p = 1 .. Len(p) /\ DOMAIN q = 1 .. Len(q) /\ DOMAIN r = 1 .. Len(r)
      /\ Len(p) \in Nat /\ Len(q) \in Nat /\ Len(r) \in Nat
      /\ \A i \in DOMAIN p : p[i] \in Identifier
      /\ \A i \in DOMAIN q : q[i] \in Identifier
      /\ \A i \in DOMAIN r : r[i] \in Identifier
  OBVIOUS
<1>1. CASE \E i \in DOMAIN p : Differ(p, q, i) /\ IdentifierLess(p[i], q[i])
  <2>1. PICK i \in DOMAIN p : Differ(p, q, i) /\ IdentifierLess(p[i], q[i])
    BY <1>1
  <2>2. CASE \E k \in DOMAIN q : Differ(q, r, k) /\ IdentifierLess(q[k], r[k])
    <3>1. PICK k \in DOMAIN q : Differ(q, r, k) /\ IdentifierLess(q[k], r[k])
      BY <2>2
    <3>2. CASE i < k
      <4>0. i \in DOMAIN q /\ i \in DOMAIN r /\ q[i] = r[i] /\ \A j \in 1 .. i - 1 : q[j] = r[j]
        BY <1>0, <2>1, <3>1, <3>2 DEF Differ
      <4>1. Differ(p, r, i) /\ IdentifierLess(p[i], r[i])
        BY <2>1, <4>0 DEF Differ
      <4>2. QED
        BY <4>1 DEF PrereleaseLess
    <3>3. CASE k < i
      <4>1. k \in DOMAIN p /\ Differ(p, r, k) /\ IdentifierLess(p[k], r[k])
        BY <1>0, <2>1, <3>1, <3>3 DEF Differ
      <4>2. QED
        BY <4>1 DEF PrereleaseLess
    <3>4. CASE k = i
      <4>1. IdentifierLess(p[i], r[i])
        BY <1>0, <2>1, <3>1, <3>4, IdentifierOrder DEF Differ
      <4>2. p[i] # r[i]
        BY <1>0, <4>1, <3>1, <3>4, IdentifierOrder DEF Differ
      <4>3. Differ(p, r, i)
        BY <1>0, <2>1, <3>1, <3>4, <4>2 DEF Differ
      <4>4. QED
        BY <4>1, <4>3 DEF PrereleaseLess
    <3>5. QED
      BY <1>0, <3>2, <3>3, <3>4
  <2>3. CASE Len(q) < Len(r) /\ \A k \in DOMAIN q : q[k] = r[k]
    <3>1. Differ(p, r, i) /\ IdentifierLess(p[i], r[i])
      BY <1>0, <2>1, <2>3 DEF Differ
    <3>2. QED
      BY <3>1 DEF PrereleaseLess
  <2>4. QED
    BY <2>2, <2>3 DEF PrereleaseLess
<1>2. CASE Len(p) < Len(q) /\ \A i \in DOMAIN p : p[i] = q[i]
  <2>1. CASE \E k \in DOMAIN q : Differ(q, r, k) /\ IdentifierLess(q[k], r[k])
    <3>1. PICK k \in DOMAIN q : Differ(q, r, k) /\ IdentifierLess(q[k], r[k])
      BY <2>1
    <3>2. CASE k \in DOMAIN p
      <4>1. Differ(p, r, k) /\ IdentifierLess(p[k], r[k])
        BY <1>0, <1>2, <3>1, <3>2 DEF Differ
      <4>2. QED
        BY <3>2, <4>1 DEF PrereleaseLess
    <3>3. CASE k \notin DOMAIN p
      <4>1. \A j \in DOMAIN p : p[j] = r[j]
        BY <1>0, <1>2, <3>1, <3>3 DEF Differ
      <4>2. Len(p) < Len(r)
        BY <1>0, <3>1, <3>3 DEF Differ
      <4>3. QED
        BY <4>1, <4>2 DEF PrereleaseLess
    <3>4. QED
      BY <3>2, <3>3
  <2>2. CASE Len(q) < Len(r) /\ \A k \in DOMAIN q : q[k] = r[k]
    BY <1>0, <1>2, <2>2 DEF PrereleaseLess
  <2>3. QED
    BY <2>1, <2>2 DEF PrereleaseLess
<1>3. QED
  BY <1>1, <1>2 DEF PrereleaseLess

LEMMA PrereleaseTotal ==
  ASSUME NEW p \in Seq(Identifier), NEW q \in Seq(Identifier)
  PROVE  p = q \/ PrereleaseLess(p, q) \/ PrereleaseLess(q, p)
<1>0. /\ DOMAIN p = 1 .. Len(p) /\ DOMAIN q = 1 .. Len(q) /\ Len(p) \in Nat /\ Len(q) \in Nat
      /\ \A i \in DOMAIN p : p[i] \in Identifier
      /\ \A i \in DOMAIN q : q[i] \in Identifier
  OBVIOUS
<1>1. CASE \E i \in DOMAIN p : Differ(p, q, i)
  <2>1. PICK i \in DOMAIN p : Differ(p, q, i)
    BY <1>1
  <2>2. i \in DOMAIN q /\ Differ(q, p, i)
    BY <1>0, <2>1 DEF Differ
  <2>3. IdentifierLess(p[i], q[i]) \/ IdentifierLess(q[i], p[i])
    BY <1>0, <2>1, IdentifierOrder DEF Differ
  <2>4. QED
    BY <2>1, <2>2, <2>3 DEF PrereleaseLess
<1>2. CASE \A i \in DOMAIN p : ~Differ(p, q, i)
  <2>1. \A i \in Nat : i \in DOMAIN p /\ i \in DOMAIN q => p[i] = q[i]
    BY <1>2, FirstDifference
  <2>2. CASE Len(p) < Len(q)
    BY <1>0, <2>1, <2>2 DEF PrereleaseLess
  <2>3. CASE Len(q) < Len(p)
    BY <1>0, <2>1, <2>3 DEF PrereleaseLess
  <2>4. CASE Len(p) = Len(q)
    BY <1>0, <2>1, <2>4
  <2>5. Len(p) < Len(q) \/ Len(q) < Len(p) \/ Len(p) = Len(q)
    <3>1. \A m, n \in Nat : m < n \/ n < m \/ m = n
      OBVIOUS
    <3>2. QED
      BY <1>0, <3>1, Zenon
  <2>6. QED
    BY <2>2, <2>3, <2>4, <2>5
<1>3. QED
  BY <1>1, <1>2

LEMMA PrereleaseIrreflexive ==
  ASSUME NEW p \in Seq(Identifier)
  PROVE  ~PrereleaseLess(p, p)
BY DEF PrereleaseLess, Differ

(* SemVer.__lt__ is a strict total order on versions, as @total_ordering   *)
(* and the sort of resolve_direct_upgrade assume: no version is below      *)
(* itself, the order is transitive, and of two versions that differ one is *)
(* below the other.                                                        *)
THEOREM StrictTotalOrder ==
  ASSUME NEW a \in SemanticVersion, NEW b \in SemanticVersion, NEW c \in SemanticVersion
  PROVE  /\ ~Less(a, a)
         /\ Less(a, b) /\ Less(b, c) => Less(a, c)
         /\ a = b \/ Less(a, b) \/ Less(b, a)
<1>0. /\ a.major \in Nat /\ a.minor \in Nat /\ a.patch \in Nat /\ a.prerelease \in Seq(Identifier)
      /\ b.major \in Nat /\ b.minor \in Nat /\ b.patch \in Nat /\ b.prerelease \in Seq(Identifier)
      /\ c.major \in Nat /\ c.minor \in Nat /\ c.patch \in Nat /\ c.prerelease \in Seq(Identifier)
  BY DEF SemanticVersion
<1>1. ~Less(a, a)
  BY <1>0, PrereleaseIrreflexive DEF Less, SameCore
<1>2. ASSUME Less(a, b), Less(b, c) PROVE Less(a, c)
  <2>1. CASE SameCore(a, b) /\ SameCore(b, c)
    <3>1. SameCore(a, c)
      BY <2>1 DEF SameCore
    <3>2. PrereleaseLess(a.prerelease, b.prerelease) /\ PrereleaseLess(b.prerelease, c.prerelease)
            => PrereleaseLess(a.prerelease, c.prerelease)
      BY <1>0, PrereleaseTransitive
    <3>3. QED
      BY <1>2, <2>1, <3>1, <3>2 DEF Less
  <2>2. CASE ~SameCore(a, b) \/ ~SameCore(b, c)
    BY <1>0, <1>2, <2>2, SMTT(30) DEF Less, SameCore, CoreLess
  <2>3. QED
    BY <2>1, <2>2
<1>3. a = b \/ Less(a, b) \/ Less(b, a)
  <2>1. CASE ~SameCore(a, b)
    BY <1>0, <2>1, SMTT(30) DEF Less, SameCore, CoreLess
  <2>2. CASE SameCore(a, b)
    <3>1. a.prerelease = b.prerelease => a = b
      BY <2>2 DEF SameCore, SemanticVersion
    <3>2. SameCore(b, a)
      BY <2>2 DEF SameCore
    <3>3. a.prerelease = b.prerelease \/ PrereleaseLess(a.prerelease, b.prerelease)
            \/ PrereleaseLess(b.prerelease, a.prerelease)
      BY <1>0, PrereleaseTotal
    <3>4. QED
      BY <2>2, <3>1, <3>2, <3>3 DEF Less
  <2>3. QED
    BY <2>1, <2>2
<1>4. QED
  BY <1>1, <1>2, <1>3

(* What a release of an allowed channel allows was allowed before it: a    *)
(* node that leaves its channel for a more stable one never widens it.     *)
LEMMA AllowedTransitive ==
  ASSUME NEW r, NEW s, NEW u, IsChannelAllowed(r, s), IsChannelAllowed(s, u)
  PROVE  IsChannelAllowed(r, u)
BY DEF IsChannelAllowed

(* resolve_direct_upgrade "select[s] the highest compatible release        *)
(* directly without requiring intermediate hops": there is at most one     *)
(* target, it is newer than the node, and once the node runs it the same   *)
(* releases offer it nothing more, also when no channel was asked for and  *)
(* the node's own channel has changed with its version.                    *)
THEOREM UpgradeIsFinal ==
  ASSUME NEW current \in SemanticVersion, NEW releases \in SUBSET SemanticVersion, NEW channel,
         NEW target \in ResolveDirectUpgrade(current, releases, channel)
  PROVE  /\ Less(current, target)
         /\ ResolveDirectUpgrade(current, releases, channel) = {target}
         /\ ResolveDirectUpgrade(target, releases, channel) = {}
<1> DEFINE newer == NewerReleases(current, releases, channel)
<1>1. /\ target \in SemanticVersion /\ target \in newer /\ Less(current, target)
      /\ \A w \in newer : w = target \/ Less(w, target)
  BY DEF ResolveDirectUpgrade, NewerReleases
<1>2. ASSUME NEW other \in ResolveDirectUpgrade(current, releases, channel) PROVE other = target
  <2>1. other \in SemanticVersion /\ other \in newer /\ \A w \in newer : w = other \/ Less(w, other)
    BY DEF ResolveDirectUpgrade, NewerReleases
  <2>2. ~(Less(other, target) /\ Less(target, other))
    BY <1>1, <2>1, StrictTotalOrder
  <2>3. QED
    BY <1>1, <2>1, <2>2
<1>3. NewerReleases(target, releases, channel) = {}
  <2>1. SUFFICES ASSUME NEW w \in NewerReleases(target, releases, channel) PROVE FALSE
    OBVIOUS
  <2>2. w \in SemanticVersion /\ w \in releases /\ Less(target, w)
        /\ IsChannelAllowed(Channel(w), TargetChannel(target, channel))
    BY <2>1 DEF NewerReleases
  <2>3. IsChannelAllowed(Channel(target), TargetChannel(current, channel))
    BY <1>1 DEF NewerReleases
  <2>4. IsChannelAllowed(Channel(w), TargetChannel(current, channel))
    <3>1. CASE channel = NoChannel
      <4>1. IsChannelAllowed(Channel(w), Channel(target)) /\ IsChannelAllowed(Channel(target), Channel(current))
        BY <3>1, <2>2, <2>3 DEF TargetChannel
      <4>2. IsChannelAllowed(Channel(w), Channel(current))
        BY <4>1, AllowedTransitive
      <4>3. QED
        BY <3>1, <4>2 DEF TargetChannel
    <3>2. CASE channel # NoChannel
      BY <3>2, <2>2 DEF TargetChannel
    <3>3. QED
      BY <3>1, <3>2
  <2>5. Less(current, w)
    BY <1>1, <2>2, StrictTotalOrder
  <2>6. w = target \/ Less(w, target)
    BY <1>1, <2>2, <2>4, <2>5 DEF NewerReleases
  <2>7. QED
    BY <1>1, <2>2, <2>6, StrictTotalOrder
<1>4. QED
  BY <1>1, <1>2, <1>3 DEF ResolveDirectUpgrade

(* Of finitely many versions one is above all others: one that has the     *)
(* fewest above it has none, for those above another one are fewer still.  *)
LEMMA HighestVersion ==
  ASSUME NEW S \in SUBSET SemanticVersion, IsFiniteSet(S), S # {}
  PROVE  \E v \in S : \A w \in S : w = v \/ Less(w, v)
<1> DEFINE Above(v) == {w \in S : Less(v, w)}
           counts == {Cardinality(Above(v)) : v \in S}
<1>1. \A v \in S : IsFiniteSet(Above(v)) /\ Cardinality(Above(v)) \in Nat
  BY FS_Subset, FS_CardinalityType
<1>2. counts \in SUBSET Nat /\ counts # {}
  BY <1>1
<1>3. PICK n \in counts : \A m \in counts : n <= m
  <2> HIDE DEF counts
  <2>1. QED
    BY <1>2, FirstNumber
<1>4. PICK v \in S : n = Cardinality(Above(v))
  OBVIOUS
<1>5. ASSUME NEW u \in Above(v) PROVE FALSE
  <2>1. u \in SemanticVersion /\ v \in SemanticVersion /\ u \in S /\ Less(v, u)
    OBVIOUS
  <2>2. ~Less(u, u)
    BY <2>1, StrictTotalOrder
  <2>3. Above(u) \subseteq Above(v)
    BY <2>1, StrictTotalOrder
  <2>4. u \notin Above(u)
    BY <2>2
  <2> DEFINE A == Above(u)
             B == Above(v)
  <2>5. A \subseteq B /\ u \in B /\ u \notin A /\ IsFiniteSet(B)
    BY <1>1, <1>5, <2>3, <2>4
  <2>6. Cardinality(B) <= Cardinality(A) /\ Cardinality(A) \in Nat /\ Cardinality(B) \in Nat
    BY <1>1, <1>3, <1>4, <2>1
  <2> HIDE DEF A, B
  <2>7. Cardinality(A) <= Cardinality(B) /\ (Cardinality(B) = Cardinality(A) => B = A)
    BY <2>5, FS_Subset
  <2>8. QED
    BY <2>5, <2>6, <2>7
<1>6. ASSUME NEW w \in S PROVE w = v \/ Less(w, v)
  <2>1. ~Less(v, w)
    BY <1>5
  <2>2. QED
    BY <2>1, StrictTotalOrder
<1>7. QED
  BY <1>6

(* resolve_direct_upgrade answers None only when no allowed release is     *)
(* newer: with finitely many releases, a node that can be upgraded is.     *)
THEOREM UpgradeIsFound ==
  ASSUME NEW current \in SemanticVersion, NEW releases \in SUBSET SemanticVersion, IsFiniteSet(releases), NEW channel
  PROVE  ResolveDirectUpgrade(current, releases, channel) = {}
           <=> NewerReleases(current, releases, channel) = {}
<1> DEFINE newer == NewerReleases(current, releases, channel)
<1>1. newer \in SUBSET SemanticVersion /\ IsFiniteSet(newer)
  BY FS_Subset DEF NewerReleases
<1>2. newer # {} => \E v \in newer : \A w \in newer : w = v \/ Less(w, v)
  <2> HIDE DEF newer
  <2>1. QED
    BY <1>1, HighestVersion
<1>3. QED
  BY <1>2 DEF ResolveDirectUpgrade
===============================================================================
