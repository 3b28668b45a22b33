------------------------- MODULE DatabaseInitProofs -------------------------
(***************************************************************************)
(* Proofs about DatabaseInit, for all images, specs, Secret contents and   *)
(* any number of external changes.                                         *)
(***************************************************************************)
EXTENDS DatabaseInit, TLAPS

\* A status, wherever it is held, is honest: Ready implies Complete and no sign
\* of failure, Complete implies a completion time, and both rest on a hash
\* idsvr -I succeeded for.
Honest(st) ==
    /\ st.ready => st.complete /\ ~st.failed /\ ~st.stuck
    /\ st.complete => st.ct
    /\ st.ct => st.lch # None
    /\ st.lch # None => st.lch \in done

\* A Job that is complete has initialised the database for its hash.
Earned(j) == j # None /\ j.phase = "complete" => j.hash \in done

\* The inductive invariant: the object, its cached copy and the write a
\* reconcile has still to make are honest, and so are the Job, its copy and the
\* events on their way.
JobsEarned ==
    /\ Earned(job) /\ Earned(cJob)
    /\ \A i \in DOMAIN jobEvents : Earned(jobEvents[i])

IInv ==
    /\ Honest(db.st) /\ Honest(cDb.st)
    /\ pend # None => Honest(pend.st)
    /\ JobsEarned

-----------------------------------------------------------------------------
\* The statuses the reconciler computes are statuses.
LEMMA StatusTypes ==
    ASSUME NEW st \in Status
    PROVE  /\ clearPriorOutcome(st) \in Status
           /\ NotReady(st) \in Status
           /\ InProgress(st) \in Status
           /\ InProgress(clearPriorOutcome(st)) \in Status
           /\ [InProgress(clearPriorOutcome(st)) EXCEPT !.stuck = TRUE] \in Status
           /\ [st EXCEPT !.progressing = TRUE] \in Status
BY DEF Status, clearPriorOutcome, NotReady, InProgress

LEMMA ApplyType ==
    ASSUME NEW st \in Status, NEW j \in Jobs
    PROVE  applyJobStatus(st, j) \in Status
<1>1. CASE j.phase = "complete"
  BY <1>1 DEF Status, Jobs, applyJobStatus
<1>2. CASE j.phase = "failed"
  BY <1>2 DEF Status, Jobs, applyJobStatus, NotReady
<1>3. CASE j.phase \notin {"complete", "failed"}
  BY <1>3 DEF Status, Jobs, applyJobStatus, InProgress, NotReady
<1> QED BY <1>1, <1>2, <1>3

LEMMA HashType ==
    ASSUME TypeOK, cCluster # None
    PROVE  Hash \in Hashes
BY DEF TypeOK, Hash, Hashes

-----------------------------------------------------------------------------
\* A status handed to updateStatus is one; LeaveStatus touches nothing else.
LEMMA LeaveType ==
    ASSUME NEW st \in Status, NEW r \in BOOLEAN, LeaveStatus(st, r)
    PROVE  /\ queued' \in BOOLEAN
           /\ pend' \in Writes \cup {None}
BY DEF LeaveStatus, Writes

\* The Job, its events and the history keep their types.
JobTypeOK == /\ job \in Jobs \cup {None}
             /\ jobEvents \in Seq(Jobs \cup {None}) /\ unseen \in BOOLEAN

LEMMA SetJobType ==
    ASSUME TypeOK, NEW j \in Jobs \cup {None}, SetJob(j)
    PROVE  JobTypeOK'
BY DEF TypeOK, SetJob, JobTypeOK

LEMMA DeleteJobType ==
    ASSUME TypeOK, DeleteJob
    PROVE  JobTypeOK'
<1>1. CASE UNCHANGED theJob
  BY <1>1 DEF TypeOK, JobTypeOK, theJob
<1>2. CASE SetJob(None)
  BY <1>2, SetJobType
<1> QED BY <1>1, <1>2 DEF DeleteJob

\* Every variable but the Job's, its uid counter and the reconcile's own two is
\* left alone by Reconcile, and stays typed.
LEMMA FrameType ==
    ASSUME TypeOK, Frame, queued' \in BOOLEAN,
           pend' \in Writes \cup {None}, JobTypeOK', nextUid' \in Nat
    PROVE  TypeOK'
BY DEF TypeOK, JobTypeOK, Frame, truth, caches, hist

LEMMA ReconcileType ==
    ASSUME TypeOK, Reconcile
    PROVE  TypeOK'
<1> USE DatabaseInitAssumption
<1>0. /\ cDb.st \in Status /\ nextUid \in Nat
      /\ UNCHANGED theJob => JobTypeOK'
  BY DEF TypeOK, JobTypeOK, theJob
<1>1. CASE ClusterNotFound
  BY <1>0, <1>1, StatusTypes, LeaveType, FrameType DEF ClusterNotFound
<1>2. CASE ConnectionMissing
  BY <1>0, <1>2, StatusTypes, LeaveType, FrameType DEF ConnectionMissing
<1>3. CASE KeepCompleted
  BY <1>0, <1>3, LeaveType, FrameType DEF KeepCompleted
<1>4. CASE CreateRefused
  BY <1>0, <1>4, StatusTypes, LeaveType, FrameType DEF CreateRefused
<1>5. CASE CreateLost
  <2>1. pend' \in Writes \cup {None}
    BY <1>5 DEF CreateLost, TypeOK
  <2> QED BY <1>0, <1>5, <2>1, FrameType DEF CreateLost
<1>6. CASE CreateJob
  <2>1. Hash \in Hashes /\ cSecret \in Secrets
    BY <1>6, HashType DEF CreateJob, InputsFound, TypeOK
  <2>2. [uid |-> nextUid, hash |-> Hash, conn |-> cSecret, phase |-> "pending",
         used |-> None, deleting |-> FALSE] \in Jobs
    BY <1>0, <2>1 DEF Jobs, Phases
  <2>3. JobTypeOK' /\ nextUid' \in Nat
    BY <1>0, <1>6, <2>2, SetJobType DEF CreateJob
  <2> QED BY <1>0, <1>6, <2>3, StatusTypes, LeaveType, FrameType DEF CreateJob
<1>7. CASE AwaitDeletion
  BY <1>0, <1>7, StatusTypes, LeaveType, FrameType DEF AwaitDeletion
<1>8. CASE RecreateOutdated
  BY <1>0, <1>8, StatusTypes, LeaveType, DeleteJobType, FrameType DEF RecreateOutdated
<1>9. CASE RecreateFailed
  BY <1>0, <1>9, StatusTypes, LeaveType, DeleteJobType, FrameType DEF RecreateFailed
<1>10. CASE ReflectJob
  <2>1. cJob \in Jobs
    BY <1>10 DEF ReflectJob, TypeOK
  <2> QED BY <1>0, <1>10, <2>1, ApplyType, LeaveType, FrameType DEF ReflectJob
<1> QED
  BY <1>1, <1>2, <1>3, <1>4, <1>5, <1>6, <1>7, <1>8, <1>9, <1>10 DEF Reconcile

LEMMA SyncType ==
    ASSUME TypeOK, Sync \/ updateStatus
    PROVE  TypeOK'
<1>1. CASE SyncDb
  <2>1. settled' \in Hashes \cup {None}
    BY <1>1 DEF SyncDb, SeenAsRecorded, TypeOK, Status
  <2> QED BY <1>1, <2>1 DEF SyncDb, TypeOK, LagKinds, truth, theJob
<1>2. CASE SyncCluster
  BY <1>2 DEF SyncCluster, TypeOK, LagKinds, truth, theJob, hist
<1>3. CASE SyncSecret
  BY <1>3 DEF SyncSecret, PassesPredicate, TypeOK, LagKinds, truth, theJob, hist
<1>4. CASE SyncJob
  <2>1. /\ Head(jobEvents) \in Jobs \cup {None}
        /\ Tail(jobEvents) \in Seq(Jobs \cup {None})
    BY <1>4 DEF SyncJob, TypeOK
  <2> QED BY <1>4, <2>1 DEF SyncJob, TypeOK, truth, hist
<1>5. CASE updateStatus
  <2>1. pend \in Writes
    BY <1>5 DEF updateStatus, TypeOK
  <2>2. db' \in [spec: Specs, st: Status] /\ lag' \subseteq LagKinds
    BY <1>5, <2>1 DEF updateStatus, TypeOK, LagKinds, Writes
  <2>3. queued' \in BOOLEAN /\ pend' = None
    BY <1>5, <2>1 DEF updateStatus, TypeOK, Writes
  <2> QED BY <1>5, <2>2, <2>3 DEF updateStatus, TypeOK, truth, theJob, caches, hist
<1> QED BY <1>1, <1>2, <1>3, <1>4, <1>5 DEF Sync

LEMMA JobProgressType ==
    ASSUME TypeOK, JobProgress
    PROVE  TypeOK'
<1>0. /\ job # None => job \in Jobs
      /\ JobFrame /\ JobTypeOK' /\ done' \subseteq Hashes => TypeOK'
  BY DEF JobFrame, TypeOK, JobTypeOK, truth, caches
<1>1. done \subseteq Hashes
  BY DEF TypeOK
<1>2. CASE PodStart
  <2>1. [job EXCEPT !.phase = "running", !.used = secret] \in Jobs
    BY <1>0, <1>2 DEF PodStart, TypeOK, Jobs, Phases
  <2> QED BY <1>0, <1>1, <1>2, <2>1, SetJobType DEF PodStart
<1>3. CASE PodSucceed
  <2>1. [job EXCEPT !.phase = "complete"] \in Jobs /\ job.hash \in Hashes
    BY <1>0, <1>3 DEF PodSucceed, Jobs, Phases
  <2>2. done' \subseteq Hashes
    BY <1>1, <1>3, <2>1 DEF PodSucceed
  <2> QED BY <1>0, <1>3, <2>1, <2>2, SetJobType DEF PodSucceed
<1>4. CASE PodFail
  <2>1. PICK p \in {"stuck", "failed"} : SetJob([job EXCEPT !.phase = p])
    BY <1>4 DEF PodFail
  <2>2. [job EXCEPT !.phase = p] \in Jobs
    BY <1>0, <1>4 DEF PodFail, Jobs, Phases
  <2> QED BY <1>0, <1>1, <1>4, <2>1, <2>2, SetJobType DEF PodFail
<1>5. CASE JobRemoved
  BY <1>0, <1>1, <1>5, SetJobType DEF JobRemoved
<1> QED BY <1>2, <1>3, <1>4, <1>5 DEF JobProgress

LEMMA ExternalType ==
    ASSUME TypeOK, External
    PROVE  TypeOK'
<1> USE DatabaseInitAssumption
<1>1. ASSUME NEW s \in Specs, EditDb(s) PROVE TypeOK'
  <2>1. db' \in [spec: Specs, st: Status]
    BY <1>1 DEF EditDb, TypeOK
  <2>2. pend' \in Writes \cup {None}
    BY <1>1 DEF EditDb, TypeOK, Writes
  <2>3. settled' \in Hashes \cup {None} /\ lag' \subseteq LagKinds
    BY <1>1 DEF EditDb, TypeOK, LagKinds
  <2> QED BY <1>1, <2>1, <2>2, <2>3 DEF EditDb, Change, TypeOK, truth, theJob, caches
<1>2. ASSUME NEW c \in Images \cup {None}, ChangeCluster(c) PROVE TypeOK'
  BY <1>2 DEF ChangeCluster, Change, TypeOK, LagKinds, theJob, caches
<1>3. ASSUME NEW s \in Secrets \cup {None}, ChangeSecret(s) PROVE TypeOK'
  BY <1>3 DEF ChangeSecret, Change, TypeOK, LagKinds, theJob, caches
<1>4. CASE ToggleAdmission
  BY <1>4 DEF ToggleAdmission, Change, TypeOK, theJob, caches
<1>5. CASE ExternalDelete
  <2>1. [job EXCEPT !.deleting = TRUE] \in Jobs
    BY <1>5 DEF ExternalDelete, TypeOK, Jobs
  <2>2. JobTypeOK'
    BY <1>5, <2>1, SetJobType DEF ExternalDelete
  <2> QED BY <1>5, <2>2 DEF ExternalDelete, Change, TypeOK, JobTypeOK, truth, caches
<1>6. CASE Crash
  <2>1. <<>> \in Seq(Jobs \cup {None})
    OBVIOUS
  <2>2. jobEvents' \in Seq(Jobs \cup {None})
    BY <1>6, <2>1, Zenon DEF Crash
  <2>3. JobTypeOK'
    BY <1>6, <2>2, Zenon DEF Crash, JobTypeOK, TypeOK
  <2>4. /\ cluster' = cluster /\ secret' = secret /\ admission' = admission /\ db' = db
        /\ nextUid' = nextUid /\ done' = done /\ settled' = settled /\ external' = external + 1
        /\ pend' = None /\ queued' = TRUE /\ lag' = {}
        /\ cCluster' = cluster /\ cSecret' = secret /\ cDb' = db /\ cJob' = job
    BY <1>6, Zenon DEF Crash, Change, truth
  <2> QED BY <2>3, <2>4 DEF JobTypeOK, TypeOK
<1> QED BY <1>1, <1>2, <1>3, <1>4, <1>5, <1>6 DEF External

\* Type correctness, in particular: no Job is ever created from a missing
\* cluster or connection Secret (Reconcile's early returns).
THEOREM TypeCorrect == Spec => []TypeOK
<1>1. Init => TypeOK
  <2> SUFFICES ASSUME Init PROVE TypeOK
    OBVIOUS
  <2>1. <<>> \in Seq(Jobs \cup {None})
    OBVIOUS
  <2>2. JobTypeOK
    BY <2>1, Zenon DEF Init, JobTypeOK
  <2>3. db \in [spec: Specs, st: Status] /\ cDb = db
    BY DatabaseInitAssumption DEF Init, NewStatus, Status
  <2>4. /\ cluster \in Images \cup {None} /\ secret \in Secrets \cup {None}
        /\ cCluster = cluster /\ cSecret = secret /\ cJob = None /\ admission = TRUE
        /\ lag = {} /\ queued = TRUE /\ pend = None /\ nextUid = 0
        /\ done = {} /\ settled = None /\ external = 0
    BY Zenon DEF Init
  <2> QED BY <2>2, <2>3, <2>4 DEF JobTypeOK, TypeOK
<1>2. TypeOK /\ [Next]_vars => TypeOK'
  <2>1. ASSUME TypeOK, UNCHANGED vars PROVE TypeOK'
    BY <2>1 DEF TypeOK, vars, truth, theJob, caches, hist
  <2> QED
    BY <2>1, ReconcileType, SyncType, JobProgressType, ExternalType DEF Next
<1> QED BY <1>1, <1>2, PTL DEF Spec

-----------------------------------------------------------------------------
\* The statuses computed while a Job is missing, going or running stay honest.
LEMMA HonestSteps ==
    ASSUME NEW st \in Status, Honest(st)
    PROVE  /\ Honest(NotReady(st))
           /\ Honest(InProgress(st))
           /\ Honest(InProgress(clearPriorOutcome(st)))
           /\ Honest([InProgress(clearPriorOutcome(st)) EXCEPT !.stuck = TRUE])
           /\ Honest([st EXCEPT !.progressing = TRUE])
BY DEF Status, Honest, NotReady, InProgress, clearPriorOutcome

\* Reflecting an earned Job into an honest status leaves an honest status.
LEMMA HonestApply ==
    ASSUME NEW st \in Status, NEW j \in Jobs, None \notin Hashes,
           Honest(st), Earned(j), j # None
    PROVE  Honest(applyJobStatus(st, j))
<1>1. CASE j.phase = "complete"
  <2>1. j.hash \in done /\ j.hash # None
    BY <1>1 DEF Earned, Jobs
  <2>2. applyJobStatus(st, j) =
          [st EXCEPT !.ct = TRUE, !.lch = j.hash, !.complete = TRUE, !.ready = TRUE,
                     !.stuck = FALSE, !.progressing = FALSE, !.failed = FALSE]
    BY <1>1 DEF applyJobStatus
  <2> QED BY <2>1, <2>2 DEF Honest, Status
<1>2. CASE j.phase = "failed"
  <2>1. applyJobStatus(st, j) = [NotReady(st) EXCEPT !.failed = TRUE, !.progressing = FALSE]
    BY <1>2 DEF applyJobStatus
  <2> QED BY <2>1 DEF Honest, Status, NotReady
<1>3. CASE j.phase \notin {"complete", "failed"}
  <2>1. applyJobStatus(st, j) = [InProgress(st) EXCEPT !.stuck = (j.phase = "stuck")]
    BY <1>3 DEF applyJobStatus
  <2> QED BY <2>1 DEF Honest, Status, InProgress, NotReady
<1> QED BY <1>1, <1>2, <1>3

\* A Job that is written is earned if what is written is.
LEMMA SetJobEarned ==
    ASSUME TypeOK, JobsEarned, NEW j, SetJob(j), UNCHANGED cJob, done \subseteq done',
           j # None /\ j.phase = "complete" => j.hash \in done'
    PROVE  JobsEarned'
<1>1. /\ jobEvents' = Append(jobEvents, j) /\ jobEvents \in Seq(Jobs \cup {None})
      /\ job' = j
  BY DEF SetJob, TypeOK
<1>2. \A i \in DOMAIN jobEvents' : jobEvents'[i] = j \/ (i \in DOMAIN jobEvents /\ jobEvents'[i] = jobEvents[i])
  BY <1>1
<1> QED BY <1>1, <1>2 DEF JobsEarned, Earned

LEMMA DeleteJobEarned ==
    ASSUME TypeOK, JobsEarned, DeleteJob, UNCHANGED <<cJob, done>>
    PROVE  JobsEarned'
<1>1. CASE UNCHANGED theJob
  BY <1>1 DEF theJob, JobsEarned, Earned
<1>2. CASE SetJob(None)
  BY <1>2, SetJobEarned
<1> QED BY <1>1, <1>2 DEF DeleteJob

LEMMA ReconcileHonest ==
    ASSUME TypeOK, IInv, Reconcile
    PROVE  IInv'
<1> USE DatabaseInitAssumption
<1>0. /\ cDb.st \in Status /\ Honest(cDb.st) /\ None \notin Hashes
      /\ JobsEarned
  BY DEF TypeOK, IInv, Hashes
<1>1. ASSUME NEW st, NEW r, LeaveStatus(st, r), Honest(st)
      PROVE  pend' = None \/ Honest(pend'.st)
  BY <1>1 DEF LeaveStatus
<1>2. Reconcile => UNCHANGED <<db, cDb, cJob, done>>
  BY DEF Reconcile, ClusterNotFound, ConnectionMissing, KeepCompleted, CreateRefused,
         CreateLost, CreateJob, AwaitDeletion, RecreateOutdated, RecreateFailed,
         ReflectJob, Frame, caches, hist
<1>3. ASSUME JobsEarned' \/ UNCHANGED theJob, pend' = None \/ Honest(pend'.st)
      PROVE  IInv'
  BY <1>2, <1>3 DEF IInv, JobsEarned, Honest, Earned, theJob
<1>4. CASE ClusterNotFound
  BY <1>1, <1>0, <1>3, <1>4, HonestSteps DEF ClusterNotFound
<1>5. CASE ConnectionMissing
  BY <1>0, <1>1, <1>3, <1>5, HonestSteps DEF ConnectionMissing
<1>6. CASE KeepCompleted
  BY <1>0, <1>1, <1>3, <1>6 DEF KeepCompleted
<1>7. CASE CreateRefused
  BY <1>0, <1>1, <1>3, <1>7, HonestSteps DEF CreateRefused
<1>8. CASE CreateLost
  BY <1>0, <1>3, <1>8 DEF CreateLost, Reconciling
<1>9. CASE CreateJob
  <2>1. JobsEarned'
    BY <1>0, <1>2, <1>9, SetJobEarned DEF CreateJob
  <2> QED BY <1>0, <1>1, <1>3, <1>9, <2>1, HonestSteps DEF CreateJob
<1>10. CASE AwaitDeletion
  BY <1>0, <1>1, <1>3, <1>10, HonestSteps DEF AwaitDeletion
<1>11. CASE RecreateOutdated
  <2>1. JobsEarned'
    BY <1>0, <1>2, <1>11, DeleteJobEarned DEF RecreateOutdated
  <2> QED BY <1>0, <1>1, <1>3, <1>11, <2>1, HonestSteps DEF RecreateOutdated
<1>12. CASE RecreateFailed
  <2>1. JobsEarned'
    BY <1>0, <1>2, <1>12, DeleteJobEarned DEF RecreateFailed
  <2> QED BY <1>0, <1>1, <1>3, <1>12, <2>1, HonestSteps DEF RecreateFailed
<1>13. CASE ReflectJob
  <2>1. cJob \in Jobs /\ cJob # None
    BY <1>13 DEF ReflectJob, TypeOK
  <2>2. Honest(applyJobStatus(cDb.st, cJob))
    BY <1>0, <2>1, HonestApply DEF JobsEarned
  <2> QED BY <1>0, <1>1, <1>3, <1>13, <2>2 DEF ReflectJob
<1> QED
  BY <1>4, <1>5, <1>6, <1>7, <1>8, <1>9, <1>10, <1>11, <1>12, <1>13 DEF Reconcile

\* A pod's step or an external deletion: the phase is complete only if it was,
\* or the hash has just been earned.
LEMMA JobHonest ==
    ASSUME TypeOK, IInv, JobProgress \/ ExternalDelete
    PROVE  IInv'
<1>0. /\ UNCHANGED <<db, cDb, cJob, pend>> /\ done \subseteq done'
      /\ job # None /\ job \in Jobs /\ Earned(job) /\ JobsEarned
  BY DEF JobProgress, PodStart, PodSucceed, PodFail, JobRemoved, JobFrame, ExternalDelete,
         caches, TypeOK, IInv, JobsEarned
<1>1. ASSUME NEW j, SetJob(j), j # None /\ j.phase = "complete" => j.hash \in done'
      PROVE  IInv'
  <2>1. JobsEarned'
    BY <1>0, <1>1, SetJobEarned
  <2> QED BY <1>0, <2>1 DEF IInv, Honest
<1>2. CASE PodStart
  <2>1. [job EXCEPT !.phase = "running", !.used = secret].phase # "complete"
    BY <1>0 DEF Jobs
  <2> QED BY <1>1, <1>2, <2>1, Zenon DEF PodStart
<1>3. CASE PodSucceed
  <2>1. [job EXCEPT !.phase = "complete"].hash = job.hash
    BY <1>0 DEF Jobs
  <2>2. job.hash \in done'
    BY <1>3 DEF PodSucceed
  <2> QED BY <1>1, <1>3, <2>1, <2>2, Zenon DEF PodSucceed
<1>4. CASE PodFail
  <2>1. PICK p \in {"stuck", "failed"} : SetJob([job EXCEPT !.phase = p])
    BY <1>4 DEF PodFail
  <2>2. [job EXCEPT !.phase = p].phase # "complete"
    BY <1>0 DEF Jobs
  <2> QED BY <1>1, <2>1, <2>2, Zenon
<1>5. CASE JobRemoved
  BY <1>1, <1>5, Zenon DEF JobRemoved
<1>6. CASE ExternalDelete
  <2>1. CASE SetJob(None)
    BY <1>1, <2>1, Zenon
  <2>2. CASE SetJob([job EXCEPT !.deleting = TRUE])
    <3>1. /\ [job EXCEPT !.deleting = TRUE].phase = job.phase
          /\ [job EXCEPT !.deleting = TRUE].hash = job.hash
      BY <1>0 DEF Jobs
    <3>2. job.phase = "complete" => job.hash \in done'
      BY <1>0 DEF Earned
    <3> QED BY <1>1, <2>2, <3>1, <3>2, Zenon
  <2> QED BY <1>6, <2>1, <2>2 DEF ExternalDelete
<1> QED BY <1>2, <1>3, <1>4, <1>5, <1>6 DEF JobProgress

\* The other steps copy honest statuses and earned Jobs around.
LEMMA OthersHonest ==
    ASSUME TypeOK, IInv, updateStatus \/ Sync \/ JobProgress \/ External
    PROVE  IInv'
<1> USE DEF JobsEarned
<1>1. CASE updateStatus
  BY <1>1 DEF updateStatus, IInv, Honest, Earned, TypeOK, theJob, caches, hist
<1>2. CASE SyncJob
  <2>1. \A i \in DOMAIN Tail(jobEvents) :
          i + 1 \in DOMAIN jobEvents /\ Tail(jobEvents)[i] = jobEvents[i + 1]
    BY <1>2 DEF SyncJob, TypeOK
  <2>2. Head(jobEvents) = jobEvents[1] /\ 1 \in DOMAIN jobEvents
    BY <1>2 DEF SyncJob, TypeOK
  <2> QED BY <1>2, <2>1, <2>2 DEF SyncJob, IInv, Honest, Earned, hist
<1>3. CASE SyncDb \/ SyncCluster \/ SyncSecret
  BY <1>3 DEF SyncDb, SyncCluster, SyncSecret, IInv, Honest, Earned, theJob, hist
<1>4. CASE JobProgress
  BY <1>4, JobHonest
<1>5. ASSUME NEW s \in Specs, EditDb(s) PROVE IInv'
  BY <1>5 DEF EditDb, IInv, Honest, Earned, TypeOK, theJob, caches
<1>6. ASSUME NEW c, ChangeCluster(c) PROVE IInv'
  BY <1>6 DEF ChangeCluster, IInv, Honest, Earned, theJob, caches
<1>7. ASSUME NEW s, ChangeSecret(s) PROVE IInv'
  BY <1>7 DEF ChangeSecret, IInv, Honest, Earned, theJob, caches
<1>8. CASE ToggleAdmission
  BY <1>8 DEF ToggleAdmission, IInv, Honest, Earned, theJob, caches
<1>9. CASE ExternalDelete
  BY <1>9, JobHonest
<1>10. CASE Crash
  BY <1>10 DEF Crash, IInv, Honest, Earned
<1> QED
  BY <1>1, <1>2, <1>3, <1>4, <1>5, <1>6, <1>7, <1>8, <1>9, <1>10 DEF Sync, External

\* Wherever a status is held it is honest, at every moment.
LEMMA AlwaysHonest == Spec => []IInv
<1>1. Init => IInv
  BY DEF Init, NewStatus, IInv, JobsEarned, Honest, Earned
<1>2. TypeOK /\ IInv /\ [Next]_vars => IInv'
  <2>1. ASSUME IInv, UNCHANGED vars PROVE IInv'
    BY <2>1 DEF IInv, JobsEarned, Honest, Earned, vars, truth, theJob, caches, hist
  <2> QED BY <2>1, ReconcileHonest, OthersHonest DEF Next
<1> QED BY <1>1, <1>2, TypeCorrect, PTL DEF Spec

\* What the status says of the database is true: Ready and the record that
\* stops a second idsvr -I rest on a run that really succeeded, and Ready never
\* stands beside a failure, for any interleaving of stale caches, conflicts,
\* recreated Jobs and crashes (Reconcile, applyJobStatus, updateStatus).
THEOREM StatusIsHonest == Spec => [](ReadyIsEarned /\ RecordIsTrue /\ ConditionsAgree)
<1>1. IInv => ReadyIsEarned /\ RecordIsTrue /\ ConditionsAgree
  BY DEF IInv, Honest, ReadyIsEarned, RecordIsTrue, ConditionsAgree
<1> QED BY <1>1, AlwaysHonest, PTL

-----------------------------------------------------------------------------
(* Deleting by name. *)

\* What the cache shows after i more events.
Shown(i) == IF i = 0 THEN cJob ELSE jobEvents[i]

OneJob(j, k) == j # None /\ k # None => j.uid = k.uid /\ j.hash = k.hash

\* If the cache shows no Job after i events and one after j, none has been shown
\* before, and one exists.
NoGap(i, j) ==
    Shown(i) = None /\ Shown(j) # None => job # None /\ \A k \in 0 .. i : Shown(k) = None

\* The last event shows the Job as it is; unless one has come and gone unseen, all
\* of them are about one Job, which was there from the start or is there in the end.
EventInv ==
    /\ Shown(Len(jobEvents)) = job
    /\ ~unseen => \A i, j \in 0 .. Len(jobEvents) :
                     i < j => OneJob(Shown(i), Shown(j)) /\ NoGap(i, j)

\* An event more leaves what the earlier ones show.
LEMMA SetJobShows ==
    ASSUME TypeOK, NEW j, SetJob(j), UNCHANGED cJob
    PROVE  \E n \in Nat :
              /\ Len(jobEvents) = n /\ Len(jobEvents') = n + 1
              /\ \A i \in 0 .. n : Shown(i)' = Shown(i)
              /\ Shown(n + 1)' = j
<1>1. /\ jobEvents \in Seq(Jobs \cup {None}) /\ Len(jobEvents) \in Nat
      /\ jobEvents' = Append(jobEvents, j)
  BY DEF TypeOK, SetJob
<1>2. PICK n \in Nat : n = Len(jobEvents)
  BY <1>1
<1>3. /\ Len(jobEvents') = n + 1 /\ jobEvents'[n + 1] = j
      /\ \A i \in 1 .. n : jobEvents'[i] = jobEvents[i]
  BY <1>1, <1>2
<1>4. \A i \in 0 .. n : Shown(i)' = Shown(i)
  BY <1>3 DEF Shown
<1>5. Shown(n + 1)' = j
  BY <1>3 DEF Shown
<1> QED BY <1>2, <1>3, <1>4, <1>5

\* The Job is removed, changes, or is created when the cache and the API server
\* have none.
LEMMA SetJobEvents ==
    ASSUME TypeOK, EventInv, NEW j, SetJob(j), UNCHANGED cJob,
           \/ j = None
           \/ j # None /\ job # None /\ OneJob(job, j)
           \/ j # None /\ job = None /\ cJob = None
    PROVE  EventInv'
<1>0. PICK n \in Nat :
        /\ Len(jobEvents) = n /\ Len(jobEvents') = n + 1
        /\ \A i \in 0 .. n : Shown(i)' = Shown(i)
        /\ Shown(n + 1)' = j
  BY SetJobShows
<1>1. /\ n \in Nat /\ Len(jobEvents)' = n + 1 /\ job' = j
      /\ \A i \in 0 .. n : Shown(i)' = Shown(i)
      /\ Shown(n + 1)' = j
  BY <1>0 DEF SetJob
<1>2. Shown(n) = job /\ Shown(0) = cJob
  BY <1>0 DEF EventInv, Shown
<1>3. Shown(Len(jobEvents))' = job'
  <2>1. Shown(Len(jobEvents))' = IF n + 1 = 0 THEN cJob' ELSE jobEvents'[n + 1]
    BY <1>1 DEF Shown
  <2>2. Shown(n + 1)' = IF n + 1 = 0 THEN cJob' ELSE jobEvents'[n + 1]
    BY DEF Shown
  <2> QED BY <1>1, <2>1, <2>2
<1> SUFFICES ASSUME ~unseen', NEW a \in 0 .. n + 1, NEW b \in 0 .. n + 1, a < b
             PROVE  OneJob(Shown(a)', Shown(b)') /\ NoGap(a, b)'
  BY <1>1, <1>3, Zenon DEF EventInv, OneJob
<1>4. ~unseen /\ (j = None => cJob # None)
  BY DEF SetJob
<1>5. ASSUME NEW c \in 0 .. n, NEW d \in 0 .. n, c < d
      PROVE  OneJob(Shown(c), Shown(d)) /\ NoGap(c, d)
  BY <1>0, <1>4, <1>5 DEF EventInv
<1>6. a \in 0 .. n /\ (\A k \in 0 .. a : Shown(k)' = Shown(k))
  BY <1>1
<1>7. /\ 0 \in 0 .. n /\ n \in 0 .. n /\ (b # n + 1 => b \in 0 .. n)
      /\ (a # n => a < n) /\ (a # 0 => 0 < a)
  BY <1>1
<1>8. CASE b # n + 1
  <2>1. Shown(a)' = Shown(a) /\ Shown(b)' = Shown(b) /\ OneJob(Shown(a), Shown(b)) /\ NoGap(a, b)
    BY <1>1, <1>5, <1>6, <1>7, <1>8
  <2>2. Shown(a) = None /\ Shown(b) # None => j # None
    <3>1. Shown(a) = None /\ Shown(b) # None => job # None /\ Shown(0) = None
      BY <2>1, <1>6 DEF NoGap
    <3> QED BY <1>2, <1>4, <3>1
  <2> QED BY <1>1, <1>6, <2>1, <2>2 DEF NoGap
<1>9. CASE b = n + 1
  <2>1. Shown(a)' = Shown(a) /\ Shown(b)' = j
    BY <1>1, <1>6, <1>9
  <2>2. CASE j = None
    BY <2>1, <2>2 DEF OneJob, NoGap
  <2>3. CASE j # None /\ job # None /\ OneJob(job, j)
    <3>1. a # n => OneJob(Shown(a), job) /\ NoGap(a, n)
      BY <1>2, <1>5, <1>6, <1>7
    <3>2. OneJob(Shown(a), j)
      BY <1>2, <2>3, <3>1 DEF OneJob
    <3>3. Shown(a) = None => \A k \in 0 .. a : Shown(k) = None
      BY <1>2, <2>3, <3>1 DEF NoGap
    <3> QED BY <1>1, <1>6, <2>1, <2>3, <3>2, <3>3 DEF NoGap
  <2>4. CASE j # None /\ job = None /\ cJob = None
    <3>1. \A k \in 0 .. n : Shown(k) = None
      <4> SUFFICES ASSUME NEW k \in 0 .. n, Shown(k) # None PROVE FALSE
        OBVIOUS
      <4>1. 0 < k
        BY <1>2, <2>4
      <4>2. NoGap(0, k)
        BY <1>5, <1>7, <4>1
      <4> QED BY <1>2, <2>4, <4>2 DEF NoGap
    <3>2. \A k \in 0 .. a : k \in 0 .. n
      BY <1>1, <1>6
    <3> QED BY <1>1, <1>6, <2>1, <2>4, <3>1, <3>2 DEF OneJob, NoGap
  <2> QED BY <2>2, <2>3, <2>4
<1> QED BY <1>8, <1>9

\* An event arrives: the cache moves one on.
LEMMA SyncJobEvents ==
    ASSUME TypeOK, EventInv, SyncJob
    PROVE  EventInv'
<1>0. PICK n \in Nat : n = Len(jobEvents)
  BY DEF TypeOK
<1>1. /\ jobEvents \in Seq(Jobs \cup {None}) /\ 1 <= n
      /\ jobEvents' = Tail(jobEvents) /\ cJob' = jobEvents[1] /\ job' = job
      /\ Len(jobEvents') = n - 1
  BY <1>0 DEF SyncJob, TypeOK
<1>2. \A i \in 0 .. n - 1 : Shown(i)' = Shown(i + 1)
  <2> SUFFICES ASSUME NEW i \in 0 .. n - 1 PROVE Shown(i)' = Shown(i + 1)
    OBVIOUS
  <2>1. i # 0 => jobEvents'[i] = jobEvents[i + 1]
    BY <1>0, <1>1
  <2> QED BY <1>1, <2>1 DEF Shown
<1>3. Shown(n - 1)' = job'
  BY <1>0, <1>1, <1>2 DEF EventInv
<1>4. Shown(Len(jobEvents))' = job'
  <2>1. Shown(Len(jobEvents))' = IF n - 1 = 0 THEN cJob' ELSE jobEvents'[n - 1]
    BY <1>1 DEF Shown
  <2>2. Shown(n - 1)' = IF n - 1 = 0 THEN cJob' ELSE jobEvents'[n - 1]
    BY DEF Shown
  <2> QED BY <1>3, <2>1, <2>2
<1> SUFFICES ASSUME ~unseen', NEW a \in 0 .. n - 1, NEW b \in 0 .. n - 1, a < b
             PROVE  OneJob(Shown(a)', Shown(b)') /\ NoGap(a, b)'
  BY <1>1, <1>4, Zenon DEF EventInv, OneJob
<1>5. ~unseen
  <2>1. Len(jobEvents') # 0 /\ Len(<<>>) = 0
    BY <1>1
  <2> QED BY <2>1, Zenon DEF SyncJob
<1>6. OneJob(Shown(a + 1), Shown(b + 1)) /\ NoGap(a + 1, b + 1)
  BY <1>0, <1>1, <1>5 DEF EventInv
<1>7. /\ Shown(a)' = Shown(a + 1) /\ Shown(b)' = Shown(b + 1)
      /\ \A k \in 0 .. a : Shown(k)' = Shown(k + 1) /\ k + 1 \in 0 .. a + 1
  BY <1>1, <1>2
<1> QED BY <1>1, <1>6, <1>7 DEF NoGap

LEMMA AlwaysEvents == Spec => []EventInv
<1>1. Init => EventInv
  BY DEF Init, EventInv, Shown
<1>2. TypeOK /\ EventInv /\ [Next]_vars => EventInv'
  <2> SUFFICES ASSUME TypeOK, EventInv, [Next]_vars
               PROVE  EventInv'
    OBVIOUS
  <2>0. job # None => job \in Jobs
    BY DEF TypeOK
  <2>1. ASSUME UNCHANGED <<theJob, cJob>> PROVE EventInv'
    BY <2>1 DEF theJob, EventInv, Shown, OneJob, NoGap
  <2>2. CASE CreateJob
    BY <2>2, SetJobEvents, AbsentIsNoObject, HashType
       DEF CreateJob, Frame, caches, InputsFound, OneJob
  <2>3. CASE RecreateOutdated \/ RecreateFailed
    <3>1. UNCHANGED cJob /\ (UNCHANGED theJob \/ SetJob(None))
      BY <2>3 DEF RecreateOutdated, RecreateFailed, DeleteJob, Frame, caches
    <3> QED BY <2>1, <3>1, SetJobEvents
  <2>4. CASE Reconcile /\ ~(CreateJob \/ RecreateOutdated \/ RecreateFailed)
    BY <2>1, <2>4 DEF Reconcile, ClusterNotFound, ConnectionMissing, KeepCompleted,
                CreateRefused, CreateLost, AwaitDeletion, ReflectJob, Frame, caches
  <2>5. CASE updateStatus \/ SyncDb \/ SyncCluster \/ SyncSecret
    BY <2>1, <2>5 DEF updateStatus, SyncDb, SyncCluster, SyncSecret, caches
  <2>6. CASE SyncJob
    BY <2>6, SyncJobEvents
  <2>7. CASE JobProgress \/ ExternalDelete
    <3>1. UNCHANGED cJob /\ job # None
      BY <2>7 DEF JobProgress, PodStart, PodSucceed, PodFail, JobRemoved, JobFrame,
                  ExternalDelete, caches
    <3>2. ASSUME NEW j, SetJob(j), OneJob(job, j) PROVE EventInv'
      BY <3>1, <3>2, SetJobEvents
    <3>3. /\ OneJob(job, [job EXCEPT !.phase = "running", !.used = secret])
          /\ \A p \in Phases : OneJob(job, [job EXCEPT !.phase = p])
          /\ OneJob(job, [job EXCEPT !.deleting = TRUE]) /\ OneJob(job, None)
      BY <2>0, <3>1 DEF Jobs, OneJob
    <3>4. {"complete", "stuck", "failed"} \subseteq Phases
      BY DEF Phases
    <3> QED BY <2>7, <3>2, <3>3, <3>4, Zenon
            DEF JobProgress, PodStart, PodSucceed, PodFail, JobRemoved, ExternalDelete
  <2>8. CASE Crash
    <3>1. jobEvents' = <<>> /\ cJob' = job' /\ Len(jobEvents)' = 0
      BY <2>8 DEF Crash
    <3> QED BY <3>1 DEF EventInv, Shown
  <2>9. CASE External /\ ~ExternalDelete /\ ~Crash
    BY <2>1, <2>9 DEF External, EditDb, ChangeCluster, ChangeSecret, ToggleAdmission, caches
  <2>10. CASE UNCHANGED vars
    BY <2>1, <2>10 DEF vars, caches
  <2> QED BY <2>2, <2>3, <2>4, <2>5, <2>6, <2>7, <2>8, <2>9, <2>10 DEF Next, Sync
<1> QED BY <1>1, <1>2, TypeCorrect, PTL DEF Spec

\* Deleting a Job by name hits the Job that was looked at: whenever the cache shows
\* a Job and one exists, they are the same Job, made from the same inputs, unless a
\* Job has come and gone before the cache heard of it (RecreateOutdated,
\* RecreateFailed; the events of one kind arrive in order, whatever else is late).
THEOREM DeleteHitsTheCachedJob == Spec => []CachedJobIsTheJob
<1>1. TypeOK /\ EventInv => CachedJobIsTheJob
  <2> SUFFICES ASSUME TypeOK, EventInv, ~unseen PROVE OneJob(cJob, job)
    BY DEF CachedJobIsTheJob, OneJob
  <2>1. Len(jobEvents) \in Nat /\ Shown(0) = cJob
    BY DEF TypeOK, Shown
  <2>2. CASE Len(jobEvents) = 0
    BY <2>1, <2>2 DEF EventInv, OneJob
  <2>3. CASE Len(jobEvents) # 0
    BY <2>1, <2>3 DEF EventInv
  <2> QED BY <2>2, <2>3
<1> QED BY <1>1, TypeCorrect, AlwaysEvents, PTL

-----------------------------------------------------------------------------
(* At rest. *)

\* A cache that has seen every write shows what the API server holds.
SeenInv ==
    /\ "cluster" \notin lag => cCluster = cluster
    /\ "secret" \notin lag => cSecret = secret
    /\ "edit" \notin lag => cDb.spec = db.spec

\* What the caches show needs nothing done.
Settles ==
    cCluster = None \/ cSecret \notin WatchedSecrets
      \/ IF cJob = None THEN Hash \in done
         ELSE ~cJob.deleting /\ cJob.hash = Hash /\ (cJob.phase = "failed" => cJob.conn = cSecret)

\* Either that is so, or the controller is to run again: by its queue, the
\* requeue of the reconcile about to end, or an event of the Job.
RestInv ==
    queued = TRUE \/ (pend # None /\ pend.requeue = TRUE) \/ jobEvents # <<>> \/ Settles

LEMMA ReconcileRests ==
    ASSUME TypeOK, SeenInv, IInv, Reconcile
    PROVE  SeenInv' /\ RestInv'
<1>1. UNCHANGED <<cluster, secret, db, caches, lag, done>>
  BY DEF Reconcile, ClusterNotFound, ConnectionMissing, KeepCompleted, CreateRefused,
         CreateLost, CreateJob, AwaitDeletion, RecreateOutdated, RecreateFailed,
         ReflectJob, Frame, truth, hist
<1>3. SeenInv'
  BY <1>1 DEF SeenInv, caches
<1> SUFFICES RestInv'
  BY <1>3
<1>4. ASSUME NEW st \in Status, LeaveStatus(st, TRUE) PROVE RestInv'
  <2>1. pend' \in Writes /\ pend'.requeue = TRUE
    BY <1>4 DEF LeaveStatus, Writes
  <2> QED BY <2>1, AbsentIsNoObject DEF RestInv
<1>5. Settles => Settles'
  BY <1>1 DEF Settles, Hash, caches
<1>6. cDb.st \in Status
  BY DEF TypeOK
<1>7. CASE CreateRefused \/ AwaitDeletion
  BY <1>4, <1>6, <1>7, StatusTypes DEF CreateRefused, AwaitDeletion
<1>8. CASE RecreateOutdated \/ RecreateFailed
  BY <1>4, <1>6, <1>8, StatusTypes DEF RecreateOutdated, RecreateFailed
<1>9. CASE CreateLost
  <2>1. queued' = TRUE
    BY <1>9 DEF CreateLost
  <2> QED BY <2>1 DEF RestInv
<1>10. CASE CreateJob
  <2>1. jobEvents' # <<>>
    BY <1>10 DEF CreateJob, SetJob, TypeOK
  <2> QED BY <2>1 DEF RestInv
<1>11. CASE ClusterNotFound \/ ConnectionMissing
  <2>1. Settles
    BY <1>11, DatabaseInitAssumption DEF ClusterNotFound, ConnectionMissing, Settles
  <2> QED BY <1>5, <2>1 DEF RestInv
<1>12. CASE KeepCompleted
  <2>1. Hash # None
    <3>1. cCluster # None
      BY <1>12 DEF KeepCompleted, InputsFound
    <3> QED BY <3>1, DatabaseInitAssumption, HashType DEF Hashes
  <2>2. Hash \in done
    BY <1>12, <2>1 DEF KeepCompleted, AlreadyCompleted, IInv, Honest
  <2>3. Settles
    BY <1>12, <2>2 DEF KeepCompleted, Settles
  <2> QED BY <1>5, <2>3 DEF RestInv
<1>13. CASE ReflectJob
  <2>1. Settles
    BY <1>13 DEF ReflectJob, Settles
  <2> QED BY <1>5, <2>1 DEF RestInv
<1> QED BY <1>7, <1>8, <1>9, <1>10, <1>11, <1>12, <1>13 DEF Reconcile

LEMMA OthersRest ==
    ASSUME TypeOK, SeenInv, RestInv, updateStatus \/ Sync \/ JobProgress \/ External
    PROVE  SeenInv' /\ RestInv'
<1>1. CASE updateStatus
  BY <1>1 DEF updateStatus, SeenInv, RestInv, Settles, Hash, TypeOK, truth, theJob, caches, hist
<1>2. CASE SyncDb
  <2>1. "edit" \in lag \/ Hash' = Hash
    BY <1>2 DEF SyncDb, SeenInv, Hash
  <2> QED BY <1>2, <2>1 DEF SyncDb, SeenInv, RestInv, Settles, truth, theJob
<1>3. CASE SyncCluster \/ SyncJob
  BY <1>3 DEF SyncCluster, SyncJob, SeenInv, RestInv, truth, theJob
<1>4. CASE SyncSecret
  <2>1. CASE secret \in WatchedSecrets
    <3>1. queued' = TRUE
      BY <1>4, <2>1, DatabaseInitAssumption DEF SyncSecret, PassesPredicate
    <3> QED BY <1>4, <3>1 DEF SyncSecret, SeenInv, RestInv, truth
  <2>2. CASE secret \notin WatchedSecrets
    BY <1>4, <2>2 DEF SyncSecret, SeenInv, RestInv, Settles, truth
  <2> QED BY <2>1, <2>2
<1>5. CASE JobProgress \/ ExternalDelete
  <2>1. jobEvents' # <<>> /\ UNCHANGED <<cluster, secret, db, caches, lag>>
    BY <1>5 DEF JobProgress, PodStart, PodSucceed, PodFail, JobRemoved, JobFrame, ExternalDelete,
                SetJob, TypeOK, truth
  <2> QED BY <2>1 DEF SeenInv, RestInv, caches
<1>6. ASSUME NEW s, EditDb(s) PROVE SeenInv' /\ RestInv'
  <2>1. pend # None /\ pend.requeue = TRUE => pend' # None /\ pend'.requeue = TRUE
    <3>1. CASE pend = None
      BY <3>1
    <3>2. CASE pend # None
      <4>1. pend \in Writes /\ pend' = [pend EXCEPT !.stale = TRUE]
        BY <1>6, <3>2 DEF EditDb, TypeOK
      <4>2. pend' \in Writes /\ pend'.requeue = pend.requeue
        BY <4>1 DEF Writes
      <4> QED BY <4>2, AbsentIsNoObject
    <3> QED BY <3>1, <3>2
  <2> QED BY <1>6, <2>1 DEF EditDb, SeenInv, RestInv, Settles, Hash, truth, theJob, caches
<1>7. ASSUME NEW c, ChangeCluster(c) PROVE SeenInv' /\ RestInv'
  BY <1>7 DEF ChangeCluster, SeenInv, RestInv, Settles, Hash, theJob, caches
<1>8. ASSUME NEW s, ChangeSecret(s) PROVE SeenInv' /\ RestInv'
  BY <1>8 DEF ChangeSecret, SeenInv, RestInv, Settles, Hash, theJob, caches
<1>9. CASE ToggleAdmission
  BY <1>9 DEF ToggleAdmission, SeenInv, RestInv, Settles, Hash, theJob, caches
<1>10. CASE Crash
  BY <1>10 DEF Crash, SeenInv, RestInv, truth
<1> QED BY <1>1, <1>2, <1>3, <1>4, <1>5, <1>6, <1>7, <1>8, <1>9, <1>10 DEF Sync, External

LEMMA AlwaysRests == Spec => [](SeenInv /\ RestInv)
<1>1. Init => SeenInv /\ RestInv
  BY DEF Init, SeenInv, RestInv
<1>2. TypeOK /\ IInv /\ SeenInv /\ RestInv /\ [Next]_vars => SeenInv' /\ RestInv'
  <2>1. ASSUME SeenInv, RestInv, UNCHANGED vars PROVE SeenInv' /\ RestInv'
    BY <2>1 DEF SeenInv, RestInv, Settles, Hash, vars, truth, theJob, caches, hist
  <2> QED BY <2>1, ReconcileRests, OthersRest DEF Next
<1> QED BY <1>1, <1>2, TypeCorrect, AlwaysHonest, PTL DEF Spec

\* No wake-up is lost: a controller at rest has nothing left to do for the
\* image, the spec, the credentials and the Job as they are, through any number
\* of edits, refused pods, foreign deletions, conflicts and crashes (the
\* watches and the requeues of Reconcile), if the Secret is of a watched type.
THEOREM RestingJobFollowsInputs == Spec => []RestingJobIsCurrent
<1>1. SeenInv /\ RestInv /\ EventInv => RestingJobIsCurrent
  <2>1. EventInv /\ jobEvents = <<>> => cJob = job
    BY DEF EventInv, Shown
  <2> QED BY <2>1, DatabaseInitAssumption
          DEF SeenInv, RestInv, Settles, Hash, Want, AtRest, RestingJobIsCurrent
<1> QED BY <1>1, AlwaysRests, AlwaysEvents, PTL
=============================================================================
