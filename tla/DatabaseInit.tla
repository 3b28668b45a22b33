---------------------------- MODULE DatabaseInit ----------------------------
(***************************************************************************)
(* The IdentityServerDatabase controller: a run-once Job that executes     *)
(* "idsvr -I" with the image of the referenced cluster, re-run when the    *)
(* image or the spec changes, retried when the connection Secret of a      *)
(* failed run changes, and cleaned up by ttlSecondsAfterFinished.          *)
(*                                                                         *)
(* The controller reads every object from informer caches that trail the   *)
(* API server, each at its own pace, and writes to the API server.  A      *)
(* reconcile makes two writes (the Job, then the status); everything else  *)
(* may happen in between, a crash of the operator included.                *)
(*                                                                         *)
(* resourceVersions are only ever compared for equality, so the model      *)
(* keeps the outcome of the comparison: lag holds the kinds of writes that *)
(* the caches have not seen yet, pend.stale says that the copy of the      *)
(* database object a reconcile holds is no longer the latest.  The Job is  *)
(* deleted and created again under one name, so its cache is fed one event *)
(* at a time, in order: it may show a Job that has gone, while the next    *)
(* one of that name exists already.                                        *)
(***************************************************************************)
EXTENDS Naturals, Sequences, FiniteSets

CONSTANTS
    Images,         \* images a cluster can resolve to
    Specs,          \* connection/jobTemplate parts of the database spec
    Secrets,        \* contents of the connection Secret that hold the needed keys
    GoodSecrets,    \* the contents with which idsvr -I reaches the database
    None,           \* absent object, unset field
    WatchedSecrets, \* the contents held by a Secret of a type the watch lets through
    MaxExternal,    \* bound: changes made by users, TTL and crashes
    MaxUnread       \* bound: a pod starts with fewer Job events on their way

ASSUME DatabaseInitAssumption ==
    /\ GoodSecrets \subseteq Secrets /\ WatchedSecrets \subseteq Secrets
    /\ None \notin Images /\ None \notin Secrets
    /\ None \notin Images \X Specs
    /\ MaxExternal \in Nat /\ MaxUnread \in Nat

VARIABLES
    cluster,    \* image of the referenced cluster, or None
    secret,     \* content of the connection Secret, or None (absent, or a key is missing)
    db,         \* the IdentityServerDatabase: spec and status
    job,        \* the init Job, or None
    jobEvents,  \* what became of it, in order, that its cache has not heard of
    admission,  \* would the apiserver admit the Job's pod?
    cCluster, cSecret, cDb, cJob,  \* the informer caches
    lag,        \* kinds of other writes whose events the caches have not received
    queued,     \* the database's key is in the work queue (or on a timer)
    pend,       \* the status write a reconcile has still to make, or None
    nextUid,    \* uid of the next Job
    done,       \* hashes whose idsvr -I succeeded: the state of the database itself
    settled,    \* the hash whose completion the cache showed as recorded, until inputs change
    unseen,     \* a Job has come and gone that the cache had not shown, and it still trails
    external    \* external changes so far

truth  == <<cluster, secret, admission>>
theJob == <<job, jobEvents, unseen>>
caches == <<cCluster, cSecret, cDb, cJob>>
hist   == <<done, settled, external>>
vars   == <<truth, db, theJob, caches, lag, queued, pend, nextUid, hist>>

-----------------------------------------------------------------------------
Hashes == Images \X Specs

\* The conditions and the bookkeeping of IdentityServerDatabaseStatus.  A
\* condition is TRUE when its status is True; stuck is reason
\* JobPodNotStarting, ct is a non-nil CompletionTime.
Status == [complete: BOOLEAN, failed: BOOLEAN, progressing: BOOLEAN, ready: BOOLEAN,
           stuck: BOOLEAN, ct: BOOLEAN, lch: Hashes \cup {None}]

\* stuck: the pod cannot start, or exited non-zero with retries left.
Phases == {"pending", "stuck", "running", "complete", "failed"}

Jobs == [uid: Nat, hash: Hashes, conn: Secrets, phase: Phases,
         used: Secrets \cup {None}, deleting: BOOLEAN]

Writes == [st: Status, stale: BOOLEAN, requeue: BOOLEAN]

ASSUME AbsentIsNoObject == None \notin Jobs /\ None \notin Writes

\* Unseen writes: to the database object by a user or by updateStatus, to the
\* cluster and the connection Secret.
LagKinds == {"edit", "status", "cluster", "secret"}

TypeOK ==
    /\ cluster \in Images \cup {None} /\ cCluster \in Images \cup {None}
    /\ secret \in Secrets \cup {None} /\ cSecret \in Secrets \cup {None}
    /\ db \in [spec: Specs, st: Status] /\ cDb \in [spec: Specs, st: Status]
    /\ job \in Jobs \cup {None} /\ cJob \in Jobs \cup {None}
    /\ jobEvents \in Seq(Jobs \cup {None}) /\ unseen \in BOOLEAN
    /\ admission \in BOOLEAN
    /\ lag \subseteq LagKinds
    /\ queued \in BOOLEAN
    /\ pend \in Writes \cup {None}
    /\ nextUid \in Nat
    /\ done \subseteq Hashes
    /\ settled \in Hashes \cup {None}
    /\ external \in Nat

NewStatus == [complete |-> FALSE, failed |-> FALSE, progressing |-> FALSE, ready |-> FALSE,
              stuck |-> FALSE, ct |-> FALSE, lch |-> None]

Init ==
    /\ cluster \in Images \cup {None} /\ secret \in Secrets \cup {None}
    /\ \E s \in Specs : db = [spec |-> s, st |-> NewStatus]
    /\ job = None /\ jobEvents = <<>> /\ unseen = FALSE /\ admission = TRUE
    /\ cCluster = cluster /\ cSecret = secret /\ cDb = db /\ cJob = None
    /\ lag = {} /\ queued = TRUE /\ pend = None /\ nextUid = 0
    /\ done = {} /\ settled = None /\ external = 0

-----------------------------------------------------------------------------
(* Helpers of the reconciler. *)

\* computeDatabaseJobHash over what the caches show.
Hash == <<cCluster, cDb.spec>>

\* Mutant: the record of the last completion is cleared along.
clearPriorOutcome_ClearsRecord(st) ==
    [st EXCEPT !.ct = FALSE, !.complete = FALSE, !.failed = FALSE, !.lch = None]

clearPriorOutcome(st) == [st EXCEPT !.ct = FALSE, !.complete = FALSE, !.failed = FALSE]

\* Ready=False, whatever the reason.
NotReady(st) == [st EXCEPT !.ready = FALSE, !.stuck = FALSE]

\* Mutant: Ready is not reset when a new run starts.
InProgress_KeepsReady(st) == [st EXCEPT !.stuck = FALSE, !.progressing = TRUE]

\* Status while a Job is being created, recreated or run.
InProgress(st) == [NotReady(st) EXCEPT !.progressing = TRUE]

\* Mutant: the hash is recorded for every finished Job, failed ones included.
applyJobStatus_RecordsFailed(st, j) ==
    CASE j.phase \in {"complete", "failed"} ->
           [st EXCEPT !.ct = TRUE, !.lch = j.hash, !.complete = (j.phase = "complete"),
                      !.ready = (j.phase = "complete"), !.stuck = FALSE,
                      !.progressing = FALSE, !.failed = (j.phase = "failed")]
      [] OTHER -> [InProgress(st) EXCEPT !.stuck = (j.phase = "stuck")]

applyJobStatus(st, j) ==
    CASE j.phase = "complete" ->
           [st EXCEPT !.ct = TRUE, !.lch = j.hash, !.complete = TRUE, !.ready = TRUE,
                      !.stuck = FALSE, !.progressing = FALSE, !.failed = FALSE]
      [] j.phase = "failed" ->
           [NotReady(st) EXCEPT !.failed = TRUE, !.progressing = FALSE]
      [] OTHER -> \* still running; surfacePodStartFailure adds the pod's cause
           [InProgress(st) EXCEPT !.stuck = (j.phase = "stuck")]

\* Mutant: the result of the reconcile does not ask for a later one.
LeaveStatus_NoRequeue(st, requeue) ==
    /\ queued' = FALSE
    /\ pend' = [st |-> st, stale |-> lag \cap {"edit", "status"} # {}, requeue |-> FALSE]

\* A reconcile has taken its key off the queue and leaves the status st to be
\* written by updateStatus; requeue is the RequeueAfter of its result.
LeaveStatus(st, requeue) ==
    /\ queued' = FALSE
    /\ pend' = [st |-> st, stale |-> lag \cap {"edit", "status"} # {}, requeue |-> requeue]

Reconciling == queued /\ pend = None

\* Mutant: the early return on a missing connection Secret is dropped.
InputsFound_NoSecret == cCluster # None

\* Everything the Job decision needs was found.
InputsFound == cCluster # None /\ cSecret # None

\* Mutant: the record of the completion is not consulted.
AlreadyCompleted_Ignored == FALSE

AlreadyCompleted == cDb.st.ct /\ cDb.st.lch = Hash

-----------------------------------------------------------------------------
(* The reconciler: one action for each way through Reconcile. *)

Frame == UNCHANGED <<truth, db, caches, lag, hist>>

\* The Job is written, and the watch will tell of it.
SetJob(j) ==
    /\ job' = j
    /\ jobEvents' = Append(jobEvents, j)
    /\ unseen' = (unseen \/ (j = None /\ (cJob = None \/ cJob.uid # job.uid)))

ClusterNotFound ==
    /\ Reconciling /\ cCluster = None
    /\ LeaveStatus(NotReady(cDb.st), FALSE)
    /\ Frame /\ UNCHANGED <<theJob, nextUid>>

ConnectionMissing ==
    /\ Reconciling /\ cCluster # None /\ cSecret = None
    /\ LeaveStatus(NotReady(cDb.st), FALSE)
    /\ Frame /\ UNCHANGED <<theJob, nextUid>>

\* The Job is gone but this hash already completed: TTL cleaned it up.
KeepCompleted ==
    /\ Reconciling /\ InputsFound /\ cJob = None
    /\ AlreadyCompleted
    /\ LeaveStatus(cDb.st, FALSE)
    /\ Frame /\ UNCHANGED <<theJob, nextUid>>

\* createJob: the dry-run pod is refused.
CreateRefused ==
    /\ Reconciling /\ InputsFound /\ cJob = None
    /\ ~AlreadyCompleted
    /\ ~admission
    /\ LeaveStatus([InProgress(clearPriorOutcome(cDb.st)) EXCEPT !.stuck = TRUE], TRUE)
    /\ Frame /\ UNCHANGED <<theJob, nextUid>>

\* createJob: the Job exists already, only the cache does not show it yet.
CreateLost ==
    /\ Reconciling /\ InputsFound /\ cJob = None
    /\ ~AlreadyCompleted
    /\ admission /\ job # None
    /\ queued' = TRUE
    /\ Frame /\ UNCHANGED <<theJob, nextUid, pend>>

\* createJob: the Job is created, stamped with the hash and the Secret's hash.
CreateJob ==
    /\ Reconciling /\ InputsFound /\ cJob = None
    /\ ~AlreadyCompleted
    /\ admission /\ job = None
    /\ SetJob([uid |-> nextUid, hash |-> Hash, conn |-> cSecret, phase |-> "pending",
               used |-> None, deleting |-> FALSE])
    /\ nextUid' = nextUid + 1
    /\ LeaveStatus(InProgress(clearPriorOutcome(cDb.st)), FALSE)
    /\ Frame

\* A deletion under way is waited for.
AwaitDeletion ==
    /\ Reconciling /\ InputsFound /\ cJob # None
    /\ cJob.deleting
    /\ LeaveStatus([cDb.st EXCEPT !.progressing = TRUE], TRUE)
    /\ Frame /\ UNCHANGED <<theJob, nextUid>>

\* Mutant: the successor is created in the same reconcile, before the cache
\* has seen the old Job go.
DeleteJob_AndCreate ==
    SetJob([uid |-> nextUid, hash |-> Hash, conn |-> cSecret, phase |-> "pending",
            used |-> None, deleting |-> FALSE])

\* Delete by name, background propagation; NotFound is tolerated.  A Job that
\* another deletion holds on to (foregroundDeletion) stays until that is done.
DeleteJob ==
    IF job = None \/ job.deleting THEN UNCHANGED theJob ELSE SetJob(None)

\* The image or the spec changed since this Job was created.
RecreateOutdated ==
    /\ Reconciling /\ InputsFound /\ cJob # None
    /\ ~cJob.deleting
    /\ cJob.hash # Hash
    /\ DeleteJob
    /\ LeaveStatus(InProgress(clearPriorOutcome(cDb.st)), TRUE)
    /\ Frame /\ UNCHANGED nextUid

\* A failed Job whose connection Secret is not the one stamped on it.
RecreateFailed ==
    /\ Reconciling /\ InputsFound /\ cJob # None
    /\ ~cJob.deleting
    /\ cJob.hash = Hash
    /\ cJob.phase = "failed" /\ cJob.conn # cSecret
    /\ DeleteJob
    /\ LeaveStatus(InProgress(clearPriorOutcome(cDb.st)), TRUE)
    /\ Frame /\ UNCHANGED nextUid

\* Steady state: reflect the Job's outcome.
ReflectJob ==
    /\ Reconciling /\ InputsFound /\ cJob # None
    /\ ~cJob.deleting
    /\ cJob.hash = Hash
    /\ ~(cJob.phase = "failed" /\ cJob.conn # cSecret)
    /\ LeaveStatus(applyJobStatus(cDb.st, cJob), FALSE)
    /\ Frame /\ UNCHANGED <<theJob, nextUid>>

\* updateStatus: written if the copy is the latest, dropped on a conflict.
\* A write that changes nothing leaves the object (and its version) alone.
updateStatus ==
    /\ pend # None
    /\ IF pend.stale \/ pend.st = db.st
         THEN UNCHANGED <<db, lag>>
         ELSE /\ db' = [db EXCEPT !.st = pend.st]
              /\ lag' = lag \cup {"status"}
    /\ queued' = (queued \/ pend.requeue)
    /\ pend' = None
    /\ UNCHANGED <<truth, theJob, caches, nextUid, hist>>

Reconcile ==
    \/ ClusterNotFound \/ ConnectionMissing \/ KeepCompleted
    \/ CreateRefused \/ CreateLost \/ CreateJob
    \/ AwaitDeletion \/ RecreateOutdated \/ RecreateFailed \/ ReflectJob

-----------------------------------------------------------------------------
(* The watches: a cache catches up and the event passes the predicates. *)

Want == <<cluster, db.spec>>

\* The cache is about to show the completion of the inputs in force as recorded,
\* and shows and is told of no other Job.
SeenAsRecorded ==
    /\ db.st.ct /\ db.st.lch = Want /\ "cluster" \notin lag
    /\ \A j \in {cJob, job} \cup {jobEvents[i] : i \in DOMAIN jobEvents} :
          j = None \/ (j.hash = Want /\ j.phase = "complete")

\* Generation, label and annotation changes wake the controller, its own
\* status writes do not.
SyncDb ==
    /\ lag \cap {"edit", "status"} # {}
    /\ cDb' = db /\ lag' = lag \ {"edit", "status"}
    /\ queued' = (queued \/ "edit" \in lag)
    /\ settled' = IF SeenAsRecorded THEN Want ELSE settled
    /\ UNCHANGED <<truth, db, theJob, cCluster, cSecret, cJob, pend, nextUid, done, external>>

\* Mutant: no watch on the referenced cluster.
SyncCluster_NoWake ==
    /\ "cluster" \in lag
    /\ cCluster' = cluster /\ lag' = lag \ {"cluster"}
    /\ UNCHANGED <<truth, db, theJob, cSecret, cDb, cJob, queued, pend, nextUid, hist>>

SyncCluster ==
    /\ "cluster" \in lag
    /\ cCluster' = cluster /\ lag' = lag \ {"cluster"} /\ queued' = TRUE
    /\ UNCHANGED <<truth, db, theJob, cSecret, cDb, cJob, pend, nextUid, hist>>

\* Mutant: no watch on the connection Secret.
SyncSecret_NoWake ==
    /\ "secret" \in lag
    /\ cSecret' = secret /\ lag' = lag \ {"secret"}
    /\ UNCHANGED <<truth, db, theJob, cCluster, cDb, cJob, queued, pend, nextUid, hist>>

\* connectionSecretChangedPredicate lets Opaque and untyped Secrets through; the
\* reconciler reads one of any type.  The type of a Secret that is gone, or has
\* lost its keys, is that of the copy the cache held.
PassesPredicate == IF secret = None THEN cSecret \in WatchedSecrets ELSE secret \in WatchedSecrets

SyncSecret ==
    /\ "secret" \in lag
    /\ cSecret' = secret /\ lag' = lag \ {"secret"}
    /\ queued' = (queued \/ PassesPredicate)
    /\ UNCHANGED <<truth, db, theJob, cCluster, cDb, cJob, pend, nextUid, hist>>

\* The next event of the Job: its phase, its deletionTimestamp or its existence
\* has changed, all of which jobStatusChangedPredicate lets through.
SyncJob ==
    /\ jobEvents # <<>>
    /\ cJob' = Head(jobEvents) /\ jobEvents' = Tail(jobEvents) /\ queued' = TRUE
    /\ unseen' = (unseen /\ jobEvents' # <<>>)
    /\ UNCHANGED <<truth, db, job, cCluster, cSecret, cDb, lag, pend, nextUid, hist>>

-----------------------------------------------------------------------------
(* The Job controller and the kubelet. *)

JobFrame == UNCHANGED <<truth, db, caches, lag, queued, pend, nextUid, settled, external>>

\* The pod's environment is read from the Secret when the container starts.
PodStart ==
    /\ job # None /\ ~job.deleting /\ job.phase \in {"pending", "stuck"}
    /\ Len(jobEvents) < MaxUnread
    /\ SetJob([job EXCEPT !.phase = "running", !.used = secret])
    /\ JobFrame /\ UNCHANGED done

PodSucceed ==
    /\ job # None /\ ~job.deleting /\ job.phase = "running"
    /\ job.used \in GoodSecrets
    /\ SetJob([job EXCEPT !.phase = "complete"])
    /\ done' = done \cup {job.hash}
    /\ JobFrame

\* backoffLimit allows another attempt, or it is exhausted.
PodFail ==
    /\ job # None /\ ~job.deleting /\ job.phase = "running"
    /\ job.used \notin GoodSecrets
    /\ \E p \in {"stuck", "failed"} : SetJob([job EXCEPT !.phase = p])
    /\ JobFrame /\ UNCHANGED done

\* Foreground deletion ends when the pods are gone.
JobRemoved ==
    /\ job # None /\ job.deleting
    /\ SetJob(None)
    /\ JobFrame /\ UNCHANGED done

-----------------------------------------------------------------------------
(* Users, the TTL controller, crashes. *)

Change == external < MaxExternal /\ external' = external + 1

\* A spec edit, or (s = db.spec) an edit of labels or annotations.
EditDb(s) ==
    /\ Change
    /\ db' = [db EXCEPT !.spec = s]
    /\ lag' = lag \cup {"edit"}
    /\ pend' = IF pend = None THEN None ELSE [pend EXCEPT !.stale = TRUE]
    /\ settled' = IF s = db.spec THEN settled ELSE None
    /\ UNCHANGED <<truth, theJob, caches, queued, nextUid, done>>

ChangeCluster(c) ==
    /\ Change
    /\ cluster' = c /\ c # cluster /\ lag' = lag \cup {"cluster"}
    /\ settled' = IF c = None \/ <<c, db.spec>> = settled THEN settled ELSE None
    /\ UNCHANGED <<secret, admission, db, theJob, caches, queued, pend, nextUid, done>>

ChangeSecret(s) ==
    /\ Change
    /\ s # secret
    /\ secret' = s /\ lag' = lag \cup {"secret"}
    /\ UNCHANGED <<cluster, admission, db, theJob, caches, queued, pend, nextUid, done, settled>>

ToggleAdmission ==
    /\ Change
    /\ admission' = ~admission
    /\ UNCHANGED <<cluster, secret, db, theJob, caches, lag, queued, pend, nextUid, done, settled>>

\* The TTL controller deletes a finished Job in the foreground, a user any Job
\* and in either way.
ExternalDelete ==
    /\ Change
    /\ job # None /\ ~job.deleting
    /\ \/ SetJob([job EXCEPT !.deleting = TRUE])
       \/ SetJob(None)
    /\ UNCHANGED <<truth, db, caches, lag, queued, pend, nextUid, done, settled>>

\* The operator restarts: what a reconcile held is lost, the caches are listed
\* afresh and every object is queued.
Crash ==
    /\ Change
    /\ pend' = None /\ queued' = TRUE
    /\ cCluster' = cluster /\ cSecret' = secret /\ cDb' = db /\ cJob' = job /\ lag' = {}
    /\ jobEvents' = <<>> /\ unseen' = FALSE
    /\ UNCHANGED <<truth, db, job, nextUid, done, settled>>

External ==
    \/ \E s \in Specs : EditDb(s)
    \/ \E c \in Images \cup {None} : ChangeCluster(c)
    \/ \E s \in Secrets \cup {None} : ChangeSecret(s)
    \/ ToggleAdmission \/ ExternalDelete \/ Crash

Sync == SyncDb \/ SyncCluster \/ SyncSecret \/ SyncJob

JobProgress == PodStart \/ PodSucceed \/ PodFail \/ JobRemoved

Next == Reconcile \/ updateStatus \/ Sync \/ JobProgress \/ External

Spec == Init /\ [][Next]_vars

\* The work queue hands out its keys, a reconcile finishes, the watches
\* deliver, pods start and end.  Nothing is assumed of users, TTL or crashes;
\* a pod that fails does not fail forever short of its backoffLimit.
Fairness ==
    /\ WF_vars(Reconcile) /\ WF_vars(updateStatus)
    /\ WF_vars(SyncDb) /\ WF_vars(SyncCluster) /\ WF_vars(SyncSecret) /\ WF_vars(SyncJob)
    /\ WF_vars(PodStart) /\ WF_vars(PodSucceed) /\ WF_vars(PodFail) /\ WF_vars(JobRemoved)
    /\ SF_vars(PodFail /\ job'.phase = "failed")

FairSpec == Spec /\ Fairness

-----------------------------------------------------------------------------
(* Properties *)

\* Ready=True is earned: the status carries a completion, and idsvr -I did
\* succeed on the database for the hash recorded in lastCompletedHash.  The
\* status is computed from a stale copy, the Job from another cache, and the
\* write lands later (Reconcile, applyJobStatus, updateStatus).
ReadyIsEarned ==
    db.st.ready => db.st.complete /\ db.st.ct /\ db.st.lch \in done

\* The record behind "don't re-run idsvr -I on an initialized DB" is never
\* wrong: a hash the status remembers as completed was really initialised,
\* through every recreation, conflict and crash (clearPriorOutcome keeps it).
RecordIsTrue ==
    /\ db.st.lch # None => db.st.lch \in done
    /\ db.st.ct => db.st.lch # None

\* Jobs are deleted by name, without a uid precondition: the Job that is
\* deleted is the one whose cached copy made the controller decide, never a
\* successor it created meanwhile, unless a Job has come and gone before the
\* cache heard of it.  (Then the cache shows the dead Job while its successor
\* runs, and the successor can be the one that is deleted.)
CachedJobIsTheJob ==
    ~unseen /\ cJob # None /\ job # None => cJob.uid = job.uid /\ cJob.hash = job.hash

\* The controller implements the ledger: across stale reads, lost writes and
\* crashes a status write reports a completion that happened, or withdraws
\* Ready, and lastCompletedHash is never erased (updateStatus, applyJobStatus).
Ledger == INSTANCE InitLedger WITH signed <- db.st.lch, ready <- db.st.ready

KeepsLedger == Ledger!Spec

\* Ready never stands beside the opposite: a Ready database is Complete, not
\* Failed and has no stuck pod, although every early return of Reconcile sets
\* one condition and leaves the others as an earlier reconcile, perhaps of
\* another hash, has left them.  (Complete beside Failed, and Progressing
\* beside Complete, do happen.)
ConditionsAgree ==
    db.st.ready => db.st.complete /\ ~db.st.failed /\ ~db.st.stuck

\* "a finished init is not re-run" (LastCompletedHash): once the controller's
\* cache has shown the completion of the inputs in force as recorded, and while
\* the inputs stay, no Job is created for them, whenever the TTL controller or a
\* user deletes the one that was.  (Before that nothing keeps the TTL controller
\* from taking the only trace of a completion away.)
FinishedInitIsNotRerun ==
    [][job = None /\ job' # None => job'.hash # settled]_vars

\* The controller has nothing to do and the caches are up to date.
AtRest == ~queued /\ pend = None /\ lag = {} /\ jobEvents = <<>>

\* No wake-up is lost: when nothing is left to do or to learn, the Job was made
\* from the current image and spec, is not about to go, and has not failed on
\* other credentials than the current ones; without a Job, idsvr -I has
\* succeeded for the current image and spec.  A dropped status write, a
\* refused pod or a foreign deletion leave nothing behind (the requeues and the
\* watches of Reconcile).  The Secret is of a type that is watched.
RestingJobIsCurrent ==
    AtRest /\ cluster # None /\ secret \in WatchedSecrets =>
        IF job = None THEN Want \in done
        ELSE ~job.deleting /\ job.hash = Want /\ (job.phase = "failed" => job.conn = secret)

\* Once users are done, the Job that exists was made from the current image
\* and spec, or idsvr -I has succeeded for them: a stale cache, a conflict, a
\* lost Create or a crash only delays it.  (Whether the status says so is
\* another question: see CompletionIsReported.)
JobFollowsInputs ==
    <>[](cluster # None /\ secret \in WatchedSecrets /\ admission)
      => <>[](\/ job # None /\ ~job.deleting /\ job.hash = Want
              \/ Want \in done)

\* "Failed Job whose connection Secret has since changed: recreate to pick up
\* the fix": no Job stays failed that was created for other credentials than those
\* in a Secret of a watched type, wherever the change fell: before the Create
\* showed, around the pod's start, beside a conflict or a crash.
FailedJobIsRetried ==
    ~<>[](/\ cluster # None /\ secret \in WatchedSecrets /\ job # None /\ ~job.deleting
          /\ job.phase = "failed" /\ job.conn # secret)

\* updateStatus: "the conflicting write re-reconciles", so a completed Job of
\* the current inputs does not stay unreported.
CompletionIsReported ==
    ~<>[](/\ cluster # None /\ secret \in WatchedSecrets
          /\ job # None /\ ~job.deleting /\ job.hash = Want
          /\ job.phase = "complete" /\ ~db.st.complete)
=============================================================================
