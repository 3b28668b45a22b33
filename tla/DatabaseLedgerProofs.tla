------------------------ MODULE DatabaseLedgerProofs ------------------------
(***************************************************************************)
(* The database controller keeps its ledger (InitLedger), and does not run *)
(* idsvr -I again on inputs whose completion it has seen recorded.         *)
(***************************************************************************)
EXTENDS DatabaseInitProofs

\* What ties a reconcile in flight and the caches to the API server: a cache
\* that has seen every write holds the object, and while it has not, a status is
\* not written; a status that will be written without a conflict keeps the record
\* it was computed from, unless it reports a completion.
CacheInv ==
    /\ lag \cap {"edit", "status"} = {} => cDb = db
    /\ pend # None /\ ~pend.stale =>
          /\ lag \cap {"edit", "status"} = {}
          /\ pend.st.ready \/ pend.st.lch = db.st.lch

-----------------------------------------------------------------------------
\* A status computed by a reconcile keeps the record, or is that of a
\* completed Job (every caller of updateStatus in Reconcile).
KeepsRecord(st, base) == st.ready \/ st.lch = base.lch

LEMMA RecordSteps ==
    ASSUME NEW st \in Status
    PROVE  /\ KeepsRecord(st, st)
           /\ KeepsRecord(NotReady(st), st)
           /\ KeepsRecord(InProgress(clearPriorOutcome(st)), st)
           /\ KeepsRecord([InProgress(clearPriorOutcome(st)) EXCEPT !.stuck = TRUE], st)
           /\ KeepsRecord([st EXCEPT !.progressing = TRUE], st)
BY DEF Status, KeepsRecord, NotReady, InProgress, clearPriorOutcome

LEMMA RecordApply ==
    ASSUME NEW st \in Status, NEW j \in Jobs
    PROVE  KeepsRecord(applyJobStatus(st, j), st)
<1>1. CASE j.phase = "complete"
  BY <1>1 DEF applyJobStatus, Status, KeepsRecord
<1>2. CASE j.phase = "failed"
  BY <1>2 DEF applyJobStatus, NotReady, Status, KeepsRecord
<1>3. CASE j.phase \notin {"complete", "failed"}
  BY <1>3 DEF applyJobStatus, InProgress, NotReady, Status, KeepsRecord
<1> QED BY <1>1, <1>2, <1>3

\* A reconcile leaves such a status to be written; it was read from the cache.
LEMMA ReconcileRecord ==
    ASSUME TypeOK, CacheInv, Reconcile
    PROVE  pend' # None /\ ~pend'.stale => pend'.st.ready \/ pend'.st.lch = db'.st.lch
<1>0. cDb.st \in Status /\ db' = db /\ pend = None
  BY DEF TypeOK, Reconcile, Reconciling, ClusterNotFound, ConnectionMissing, KeepCompleted,
         CreateRefused, CreateLost, CreateJob, AwaitDeletion, RecreateOutdated,
         RecreateFailed, ReflectJob, Frame
<1>1. ASSUME NEW st, NEW r, LeaveStatus(st, r), KeepsRecord(st, cDb.st)
      PROVE  pend' # None /\ ~pend'.stale => pend'.st.ready \/ pend'.st.lch = db'.st.lch
  BY <1>0, <1>1 DEF LeaveStatus, KeepsRecord, CacheInv
<1>2. CASE ClusterNotFound \/ ConnectionMissing \/ KeepCompleted
  BY <1>0, <1>1, <1>2, RecordSteps DEF ClusterNotFound, ConnectionMissing, KeepCompleted
<1>3. CASE CreateRefused \/ CreateJob \/ AwaitDeletion
  BY <1>0, <1>1, <1>3, RecordSteps DEF CreateRefused, CreateJob, AwaitDeletion
<1>4. CASE CreateLost
  BY <1>0, <1>4 DEF CreateLost
<1>5. CASE RecreateOutdated \/ RecreateFailed
  BY <1>0, <1>1, <1>5, RecordSteps DEF RecreateOutdated, RecreateFailed
<1>6. CASE ReflectJob
  <2>1. cJob \in Jobs
    BY <1>6 DEF ReflectJob, TypeOK
  <2> QED BY <1>0, <1>1, <1>6, <2>1, RecordApply DEF ReflectJob
<1> QED BY <1>2, <1>3, <1>4, <1>5, <1>6 DEF Reconcile

LEMMA ReconcileCaches ==
    ASSUME TypeOK, CacheInv, Reconcile
    PROVE  CacheInv'
<1>1. UNCHANGED <<db, cDb, lag>>
  BY DEF Reconcile, ClusterNotFound, ConnectionMissing, KeepCompleted, CreateRefused,
         CreateLost, CreateJob, AwaitDeletion, RecreateOutdated, RecreateFailed,
         ReflectJob, Frame, caches
<1>2. ASSUME NEW st, NEW r, LeaveStatus(st, r), ~pend'.stale
      PROVE  lag \cap {"edit", "status"} = {}
  BY <1>2 DEF LeaveStatus
<1>3. pend' # None /\ ~pend'.stale => lag \cap {"edit", "status"} = {}
  BY <1>2 DEF Reconcile, Reconciling, ClusterNotFound, ConnectionMissing, KeepCompleted,
              CreateRefused, CreateLost, CreateJob, AwaitDeletion, RecreateOutdated,
              RecreateFailed, ReflectJob
<1> QED BY <1>1, <1>3, ReconcileRecord DEF CacheInv

LEMMA OtherCaches ==
    ASSUME TypeOK, CacheInv, updateStatus \/ Sync \/ JobProgress \/ External
    PROVE  CacheInv'
<1>1. CASE updateStatus
  BY <1>1 DEF updateStatus, CacheInv, caches
<1>2. CASE Sync
  BY <1>2 DEF Sync, SyncDb, SyncCluster, SyncSecret, SyncJob, CacheInv
<1>3. CASE JobProgress
  BY <1>3 DEF JobProgress, PodStart, PodSucceed, PodFail, JobRemoved, JobFrame, CacheInv, caches
<1>4. ASSUME NEW s \in Specs, EditDb(s) PROVE CacheInv'
  <2>1. pend' # None => pend'.stale
    BY <1>4 DEF EditDb, TypeOK
  <2> QED BY <1>4, <2>1 DEF EditDb, CacheInv, caches
<1>5. ASSUME NEW c, ChangeCluster(c) PROVE CacheInv'
  BY <1>5 DEF ChangeCluster, CacheInv, caches
<1>6. ASSUME NEW s, ChangeSecret(s) PROVE CacheInv'
  BY <1>6 DEF ChangeSecret, CacheInv, caches
<1>7. CASE ToggleAdmission
  BY <1>7 DEF ToggleAdmission, CacheInv, caches
<1>8. CASE ExternalDelete
  BY <1>8 DEF ExternalDelete, CacheInv, caches
<1>9. CASE Crash
  BY <1>9 DEF Crash, CacheInv
<1> QED BY <1>1, <1>2, <1>3, <1>4, <1>5, <1>6, <1>7, <1>8, <1>9 DEF External

LEMMA AlwaysCaches == Spec => []CacheInv
<1>1. Init => CacheInv
  BY DEF Init, CacheInv
<1>2. TypeOK /\ CacheInv /\ [Next]_vars => CacheInv'
  <2>1. ASSUME CacheInv, UNCHANGED vars PROVE CacheInv'
    BY <2>1 DEF CacheInv, vars, caches
  <2> QED BY <2>1, ReconcileCaches, OtherCaches DEF Next
<1> QED BY <1>1, <1>2, TypeCorrect, PTL DEF Spec

-----------------------------------------------------------------------------
\* A status write signs a hash that was earned, withdraws Ready, or leaves
\* both alone (updateStatus).
LEMMA WriteIsLedgerStep ==
    ASSUME TypeOK, IInv, CacheInv, updateStatus
    PROVE  [Ledger!Next]_Ledger!vars
<1>0. done' = done /\ done \subseteq Hashes
  BY DEF updateStatus, hist, TypeOK
<1>1. CASE UNCHANGED db
  BY <1>0, <1>1 DEF Ledger!vars
<1>2. CASE ~pend.stale /\ db' = [db EXCEPT !.st = pend.st]
  <2>0. /\ pend # None /\ pend.st \in Status /\ db.st \in Status
        /\ db'.st = pend.st
    BY <1>2 DEF updateStatus, TypeOK, Writes
  <2>1. CASE pend.st.ready
    <3>1. pend.st.lch \in done
      BY <2>0, <2>1 DEF IInv, Honest
    <3>2. Ledger!Sign(pend.st.lch)
      BY <1>0, <2>0, <2>1, <3>1 DEF Ledger!Sign, Status
    <3> QED BY <1>0, <3>1, <3>2 DEF Ledger!Next
  <2>2. CASE ~pend.st.ready
    <3>1. db'.st.lch = db.st.lch /\ db'.st.ready = FALSE
      BY <1>2, <2>0, <2>2 DEF CacheInv, Status
    <3>2. CASE db.st.ready
      BY <1>0, <3>1, <3>2 DEF Ledger!Next, Ledger!Withdraw
    <3>3. CASE ~db.st.ready
      <4>1. db.st.ready = FALSE
        BY <2>0, <3>3 DEF Status
      <4> QED BY <1>0, <3>1, <4>1 DEF Ledger!vars
    <3> QED BY <3>2, <3>3
  <2> QED BY <2>1, <2>2
<1> QED BY <1>1, <1>2 DEF updateStatus

\* The controller implements the ledger: whatever the caches, conflicts, Jobs
\* and crashes do, readers of the status see signatures that were earned, are
\* replaced only by earned ones and never vanish (Reconcile, updateStatus).
THEOREM ImplementsLedger == Spec => KeepsLedger
<1>1. Init => Ledger!Init
  BY DEF Init, NewStatus, Ledger!Init
<1>2. TypeOK /\ IInv /\ CacheInv /\ [Next]_vars => [Ledger!Next]_Ledger!vars
  <2> SUFFICES ASSUME TypeOK, IInv, CacheInv, [Next]_vars
               PROVE  [Ledger!Next]_Ledger!vars
    OBVIOUS
  <2>1. CASE updateStatus
    BY <2>1, WriteIsLedgerStep
  <2>2. CASE PodSucceed
    <3>1. job.hash \in Hashes
      BY <2>2 DEF PodSucceed, TypeOK, Jobs
    <3>2. Ledger!Succeed(job.hash)
      BY <2>2 DEF PodSucceed, JobFrame, Ledger!Succeed
    <3> QED BY <3>1, <3>2 DEF Ledger!Next
  <2>3. ASSUME NEW s \in Specs, EditDb(s) PROVE UNCHANGED Ledger!vars
    BY <2>3 DEF EditDb, TypeOK, Ledger!vars
  <2>4. CASE UNCHANGED <<db, done>>
    BY <2>4 DEF Ledger!vars
  <2>5. Reconcile \/ Sync \/ PodStart \/ PodFail \/ JobRemoved => UNCHANGED <<db, done>>
    BY DEF Reconcile, ClusterNotFound, ConnectionMissing, KeepCompleted, CreateRefused,
           CreateLost, CreateJob, AwaitDeletion, RecreateOutdated, RecreateFailed,
           ReflectJob, Frame, Sync, SyncDb, SyncCluster, SyncSecret, SyncJob, PodStart,
           PodFail, JobRemoved, JobFrame, hist
  <2>6. /\ \A c : ChangeCluster(c) => UNCHANGED <<db, done>>
        /\ \A s : ChangeSecret(s) => UNCHANGED <<db, done>>
        /\ ToggleAdmission \/ ExternalDelete \/ Crash => UNCHANGED <<db, done>>
    BY DEF ChangeCluster, ChangeSecret, ToggleAdmission, ExternalDelete, Crash
  <2>7. UNCHANGED vars => UNCHANGED <<db, done>>
    BY DEF vars, hist
  <2> QED BY <2>1, <2>2, <2>3, <2>4, <2>5, <2>6, <2>7 DEF Next, JobProgress, External
<1> QED BY <1>1, <1>2, TypeCorrect, AlwaysHonest, AlwaysCaches, PTL
        DEF Spec, KeepsLedger, Ledger!Spec

-----------------------------------------------------------------------------
\* The record of the settled hash is complete in this status.
Kept(st) == st.ct /\ st.lch = settled

\* These are the settled inputs, or the cluster is missing for the moment.
Current(c, s) == <<c, s>> = settled \/ (c = None /\ s = settled[2])

\* The settled Job, complete, or none.
Done(j) == j = None \/ (j.hash = settled /\ j.phase = "complete")

\* Once a hash has settled, everybody's view is of its inputs, no other Job is to
\* be seen, and its record is in every status that can still be read or written
\* without a conflict.
SettledInv ==
    settled # None =>
        /\ Current(cluster, db.spec) /\ Current(cCluster, cDb.spec)
        /\ Done(cJob) /\ Done(job)
        /\ \A i \in DOMAIN jobEvents : Done(jobEvents[i])
        /\ Kept(db.st) /\ Kept(cDb.st)
        /\ pend # None /\ ~pend.stale => Kept(pend.st)

\* Every status but that of a Job about to be created keeps the record.
LEMMA KeptSteps ==
    ASSUME NEW st \in Status, Kept(st)
    PROVE  Kept(NotReady(st)) /\ Kept([st EXCEPT !.progressing = TRUE])
BY DEF Status, Kept, NotReady

LEMMA KeptApply ==
    ASSUME NEW st \in Status, NEW j \in Jobs, Kept(st), j.hash = settled
    PROVE  Kept(applyJobStatus(st, j))
<1>1. CASE j.phase = "complete"
  BY <1>1 DEF applyJobStatus, Status, Kept
<1>2. CASE j.phase = "failed"
  BY <1>2 DEF applyJobStatus, NotReady, Status, Kept
<1>3. CASE j.phase \notin {"complete", "failed"}
  BY <1>3 DEF applyJobStatus, InProgress, NotReady, Status, Kept
<1> QED BY <1>1, <1>2, <1>3

\* While a hash is settled the controller writes no Job (AlreadyCompleted).
LEMMA SettledWritesNoJob ==
    ASSUME TypeOK, SettledInv, settled # None
    PROVE  ~CreateJob /\ ~CreateRefused /\ ~CreateLost /\ ~RecreateOutdated /\ ~RecreateFailed
<1>1. InputsFound => Hash = settled
  BY DEF SettledInv, Current, InputsFound, Hash
<1>2. InputsFound => AlreadyCompleted
  BY <1>1 DEF SettledInv, Kept, AlreadyCompleted
<1>3. cJob # None => cJob.hash = settled /\ cJob.phase = "complete"
  BY DEF SettledInv, Done
<1> QED BY <1>1, <1>2, <1>3 DEF CreateJob, CreateRefused, CreateLost, RecreateOutdated, RecreateFailed

LEMMA ReconcileSettled ==
    ASSUME TypeOK, SettledInv, Reconcile
    PROVE  SettledInv'
<1>1. UNCHANGED <<settled, cluster, db, cCluster, cDb, cJob>>
  BY DEF Reconcile, ClusterNotFound, ConnectionMissing, KeepCompleted, CreateRefused,
         CreateLost, CreateJob, AwaitDeletion, RecreateOutdated, RecreateFailed,
         ReflectJob, Frame, truth, caches, hist
<1> SUFFICES ASSUME settled # None PROVE SettledInv'
  BY <1>1 DEF SettledInv
<1>2. ClusterNotFound \/ ConnectionMissing \/ KeepCompleted \/ AwaitDeletion \/ ReflectJob
  BY SettledWritesNoJob DEF Reconcile
<1>3. UNCHANGED <<job, jobEvents>>
  BY <1>2 DEF ClusterNotFound, ConnectionMissing, KeepCompleted, AwaitDeletion, ReflectJob, theJob
<1>4. ASSUME NEW st, NEW r, LeaveStatus(st, r), Kept(st)
      PROVE  pend' # None => Kept(pend'.st)
  BY <1>4 DEF LeaveStatus
<1>5. cDb.st \in Status /\ Kept(cDb.st)
  BY DEF TypeOK, SettledInv
<1>6. pend' # None => Kept(pend'.st)
  <2>1. CASE ClusterNotFound \/ ConnectionMissing \/ KeepCompleted \/ AwaitDeletion
    BY <1>4, <1>5, <2>1, KeptSteps
       DEF ClusterNotFound, ConnectionMissing, KeepCompleted, AwaitDeletion
  <2>2. CASE ReflectJob
    <3>1. cJob \in Jobs /\ cJob.hash = settled
      BY <2>2 DEF ReflectJob, TypeOK, SettledInv, Done
    <3> QED BY <1>4, <1>5, <2>2, <3>1, KeptApply DEF ReflectJob
  <2> QED BY <1>2, <2>1, <2>2
<1>7. Kept(pend'.st) => Kept(pend.st)'
  BY <1>1 DEF Kept
<1> QED BY <1>1, <1>3, <1>6, <1>7 DEF SettledInv, Current, Kept, Done

\* A hash settles when the cache comes to show its record: a reconcile that is
\* under way then has an older copy.
LEMMA SyncDbSettled ==
    ASSUME TypeOK, SeenInv, CacheInv, SettledInv, SyncDb
    PROVE  SettledInv'
<1>0. UNCHANGED <<cluster, db, cCluster, cJob, job, jobEvents, pend>> /\ cDb' = db
  BY DEF SyncDb, truth, theJob
<1>1. CASE SeenAsRecorded
  <2>1. settled' = Want /\ db.st.ct /\ db.st.lch = Want /\ cCluster = cluster
    BY <1>1 DEF SyncDb, SeenAsRecorded, SeenInv
  <2>2. pend # None => pend.stale
    BY DEF SyncDb, CacheInv
  <2>3. /\ Done(cJob)' /\ Done(job)'
        /\ \A i \in DOMAIN jobEvents : Done(jobEvents[i])'
    BY <1>0, <1>1, <2>1 DEF SeenAsRecorded, Done
  <2> QED BY <1>0, <2>1, <2>2, <2>3 DEF SettledInv, Current, Want, Kept, Done
<1>2. CASE ~SeenAsRecorded
  <2>1. settled' = settled
    BY <1>2 DEF SyncDb
  <2> QED BY <1>0, <2>1 DEF SettledInv, Current, Kept, Done
<1> QED BY <1>1, <1>2

\* A settled Job is complete: what is left is that it goes.
LEMMA JobSettled ==
    ASSUME TypeOK, SettledInv, JobProgress \/ ExternalDelete
    PROVE  SettledInv'
<1>0. UNCHANGED <<settled, cluster, db, cCluster, cDb, cJob, pend>> /\ job # None /\ job \in Jobs
  BY DEF JobProgress, PodStart, PodSucceed, PodFail, JobRemoved, JobFrame, ExternalDelete,
         truth, caches, TypeOK
<1> SUFFICES ASSUME settled # None PROVE SettledInv'
  BY <1>0 DEF SettledInv
<1>1. ASSUME NEW j, SetJob(j), Done(j) PROVE SettledInv'
  <2>1. jobEvents \in Seq(Jobs \cup {None}) /\ jobEvents' = Append(jobEvents, j) /\ job' = j
    BY <1>1 DEF SetJob, TypeOK
  <2>2. \A i \in DOMAIN jobEvents' :
          jobEvents'[i] = j \/ (i \in DOMAIN jobEvents /\ jobEvents'[i] = jobEvents[i])
    BY <2>1
  <2> QED BY <1>0, <1>1, <2>1, <2>2 DEF SettledInv, Current, Kept, Done
<1>2. job.hash = settled /\ job.phase = "complete"
  BY <1>0 DEF SettledInv, Done
<1>3. JobRemoved \/ ExternalDelete
  BY <1>2 DEF JobProgress, PodStart, PodSucceed, PodFail
<1>4. Done([job EXCEPT !.deleting = TRUE]) /\ Done(None)
  BY <1>0, <1>2 DEF Done, Jobs
<1> QED BY <1>1, <1>3, <1>4, Zenon DEF JobRemoved, ExternalDelete

LEMMA OtherSettled ==
    ASSUME TypeOK, SeenInv, CacheInv, SettledInv, updateStatus \/ Sync \/ External
    PROVE  SettledInv'
<1>1. CASE updateStatus
  <2>1. db' = db \/ (~pend.stale /\ pend # None /\ db'.st = pend.st /\ db'.spec = db.spec)
    BY <1>1 DEF updateStatus, TypeOK
  <2> QED BY <1>1, <2>1 DEF updateStatus, truth, theJob, caches, hist, SettledInv, Current, Kept, Done
<1>2. CASE SyncDb
  BY <1>2, SyncDbSettled
<1>3. CASE SyncCluster \/ SyncSecret
  BY <1>3 DEF SyncCluster, SyncSecret, truth, theJob, hist, SettledInv, Current, Kept, Done
<1>4. CASE SyncJob
  <2>1. \A i \in DOMAIN Tail(jobEvents) :
          i + 1 \in DOMAIN jobEvents /\ Tail(jobEvents)[i] = jobEvents[i + 1]
    BY <1>4 DEF SyncJob, TypeOK
  <2>2. Head(jobEvents) = jobEvents[1] /\ 1 \in DOMAIN jobEvents
    BY <1>4 DEF SyncJob, TypeOK
  <2> QED BY <1>4, <2>1, <2>2 DEF SyncJob, truth, hist, SettledInv, Current, Kept, Done
<1>5. ASSUME NEW s \in Specs, EditDb(s) PROVE SettledInv'
  <2>1. db'.spec = s /\ db'.st = db.st /\ (pend' # None => pend'.stale)
    BY <1>5 DEF EditDb, TypeOK
  <2> QED BY <1>5, <2>1 DEF EditDb, truth, theJob, caches, SettledInv, Current, Kept, Done
<1>6. ASSUME NEW c \in Images \cup {None}, ChangeCluster(c) PROVE SettledInv'
  <2>1. settled \in Hashes \cup {None} /\ cluster' = c
    BY <1>6 DEF ChangeCluster, TypeOK
  <2>2. settled' # None => Current(c, db.spec)
    BY <1>6, <2>1 DEF ChangeCluster, SettledInv, Current, Hashes
  <2>3. UNCHANGED <<db, job, jobEvents, caches, pend>> /\ (settled' # None => settled' = settled)
    BY <1>6 DEF ChangeCluster, theJob
  <2> QED BY <2>1, <2>2, <2>3 DEF caches, SettledInv, Current, Kept, Done
<1>7. ASSUME NEW s, ChangeSecret(s) PROVE SettledInv'
  BY <1>7 DEF ChangeSecret, theJob, caches, SettledInv, Current, Kept, Done
<1>8. CASE ToggleAdmission
  BY <1>8 DEF ToggleAdmission, theJob, caches, SettledInv, Current, Kept, Done
<1>9. CASE ExternalDelete
  BY <1>9, JobSettled
<1>10. CASE Crash
  BY <1>10 DEF Crash, truth, SettledInv, Current, Kept, Done
<1> QED BY <1>1, <1>2, <1>3, <1>4, <1>5, <1>6, <1>7, <1>8, <1>9, <1>10 DEF Sync, External

\* Once the controller's cache has shown the completion of the inputs in force as
\* recorded, no Job is created for them for as long as they stay, whenever the TTL
\* controller or a user removes the Job: the record outlives every conflict,
\* passing absence of the cluster and crash (AlreadyCompleted, clearPriorOutcome).
THEOREM InitRunsOnce == Spec => FinishedInitIsNotRerun
<1>1. Init => SettledInv
  BY DEF Init, SettledInv
<1>2. TypeOK /\ SeenInv /\ CacheInv /\ SettledInv /\ [Next]_vars => SettledInv'
  <2>1. ASSUME SettledInv, UNCHANGED vars PROVE SettledInv'
    BY <2>1 DEF SettledInv, Current, Kept, Done, vars, truth, theJob, caches, hist
  <2> QED BY <2>1, ReconcileSettled, JobSettled, OtherSettled DEF Next
<1>3. TypeOK /\ SettledInv /\ [Next]_vars
        => [job = None /\ job' # None => job'.hash # settled]_vars
  <2> SUFFICES ASSUME TypeOK, SettledInv, Next, job = None, job' # None
               PROVE  job'.hash # settled
    OBVIOUS
  <2>1. CreateJob
    BY DEF Next, Reconcile, ClusterNotFound, ConnectionMissing, KeepCompleted,
           CreateRefused, CreateLost, AwaitDeletion, RecreateOutdated, RecreateFailed,
           DeleteJob, SetJob, ReflectJob, updateStatus, Sync, SyncDb, SyncCluster, SyncSecret,
           SyncJob, JobProgress, PodStart, PodSucceed, PodFail, JobRemoved, External,
           EditDb, ChangeCluster, ChangeSecret, ToggleAdmission, ExternalDelete, Crash, theJob
  <2>2. settled = None
    BY <2>1, SettledWritesNoJob
  <2>3. job'.hash = Hash /\ Hash \in Hashes
    BY <2>1, HashType DEF CreateJob, SetJob, InputsFound
  <2> QED BY <2>2, <2>3, DatabaseInitAssumption DEF Hashes
<1> QED BY <1>1, <1>2, <1>3, TypeCorrect, AlwaysRests, AlwaysCaches, PTL
        DEF Spec, FinishedInitIsNotRerun
=============================================================================
