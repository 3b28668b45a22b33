---------------------------- MODULE ClusterConfig ----------------------------
(***************************************************************************)
(* The cluster controller's generation of cluster.xml: a genclust Job runs *)
(* with the inputs of the cluster (image, packages, ...), the admin node's *)
(* name and the encryption key; its output is read from the pod's logs and *)
(* published in the cluster-config Secret, annotated with hashes of the    *)
(* inputs.  A later reconcile compares the hashes with the current inputs  *)
(* and keeps, patches (Branch B) or regenerates (Branches A, C) the file.  *)
(*                                                                         *)
(* A reconcile makes up to four writes to the API server; rc is what it    *)
(* holds between two of them.  Its reads are served by informer caches,    *)
(* one per kind, each trailing the API server at its own pace: reads made  *)
(* between two writes are therefore taken together, an earlier read being  *)
(* a read of a cache that trails a little more.  As resourceVersions are   *)
(* only compared for equality, lag (the kinds of writes the caches have    *)
(* not seen) and rc's two flags stand for them.                            *)
(***************************************************************************)
EXTENDS Naturals, FiniteSets

CONSTANTS
    Inps,           \* values of the spec fields in computeClusterConfigHash
    Names,          \* names an admin node may have
    Keys,           \* values of CONFIG_ENCRYPTION_KEY
    GoodKeys,       \* the ones genclust accepts
    None,           \* absent object, unset annotation, placeholder data
    MaxExternal,    \* bound: changes made by users, failures and crashes
    InitKeys,       \* the key a cluster starts with (None: the Secret lacks it)
    InitAdmins,     \* the sets of admins a cluster starts with
    InpChanges,     \* the changes <<old, new>> users make to the spec
    KeyChanges,     \* the changes <<old, new>> users make to the key
    AdminChanges,   \* the changes <<old, new>> users make to the set of admins
    SecretMayVanish,\* users may delete the cluster-config Secret
    PodsLinger,     \* a deleted Job's pods outlive it, until they are collected
    LegacySecret    \* there may be a Secret that predates the hash annotation

ASSUME ClusterConfigAssumption ==
    /\ GoodKeys \subseteq Keys
    /\ None \notin Keys /\ None \notin Names /\ None \notin Inps \X Names
    /\ MaxExternal \in Nat
    /\ InitKeys \subseteq Keys \cup {None} /\ InitAdmins \subseteq SUBSET Names
    /\ InpChanges \subseteq Inps \X Inps
    /\ KeyChanges \subseteq (Keys \cup {None}) \X (Keys \cup {None})
    /\ AdminChanges \subseteq (SUBSET Names) \X (SUBSET Names)
    /\ SecretMayVanish \in BOOLEAN /\ PodsLinger \in BOOLEAN /\ LegacySecret \in BOOLEAN

VARIABLES
    inp,        \* the cluster's spec
    cond,       \* reason of ClusterConfigReady; True for SecretReady only
    admins,     \* the cluster's nodes with spec.type admin
    key,        \* CONFIG_ENCRYPTION_KEY in the credentials Secret, or None
    admitted,   \* would the apiserver admit the genclust pod?
    secret,     \* the cluster-config Secret, or None
    job,        \* the genclust Job, or None
    pods,       \* Succeeded genclust pods whose logs can be read
    cInp, cCond, cAdmins, cKey, cSecret, cJob,  \* the informer caches
    lag,        \* kinds of writes whose events the caches have not received
    queued,     \* the cluster's key is in the work queue (or on a timer)
    rc,         \* the reconcile in progress, or None
    external    \* external changes so far

cluster == <<inp, cond>>
cCluster == <<cInp, cCond>>
inputs  == <<admins, key, admitted>>
caches  == <<cCluster, cAdmins, cKey, cSecret, cJob>>
vars    == <<cluster, inputs, secret, job, pods, caches, lag, queued, rc, external>>

-----------------------------------------------------------------------------
\* computeClusterConfigHash: the hashed spec fields and the admin's name.
Hashes == Inps \X Names

OptKeys == Keys \cup {None}

\* A cluster.xml: the inputs and the key genclust ran with, the <host> in it.
Xmls == [inp: Inps, host: Names, key: OptKeys]

\* xml is None for the placeholder, hash is None on a pre-upgrade Secret.
SecretObjects == [xml: Xmls \cup {None}, hash: Hashes \cup {None}, admin: Names, key: OptKeys]

JobObjects == [hash: Hashes, key: OptKeys, phase: {"active", "complete", "failed"}]

\* xml is None for empty output; an orphan's Job has been deleted.
PodObjects == [xml: Xmls \cup {None}, orphan: BOOLEAN]

Reasons == {"none", "WaitingForAdmin", "SecretReady", "Regenerating", "JobCreated", "JobRunning",
            "JobFailed", "LogsUnavailable", "EmptyOutput", "JobPodAdmissionForbidden"}

Steps == {"reset", "drop", "job", "publish", "clean", "status"}

\* What a reconcile holds: the next write, the hash of the inputs it saw, the
\* Secret it is about to write, where a regeneration goes on, the condition
\* in memory, and whether its copies of cluster and Secret are outdated.
Reconciles == [pc: Steps, hash: Hashes \cup {None}, new: SecretObjects \cup {None},
               then: {"job", "status"}, cond: Reasons, stale: BOOLEAN, secStale: BOOLEAN]

ASSUME AbsentIsNoObject ==
    /\ None \notin Xmls /\ None \notin SecretObjects
    /\ None \notin JobObjects /\ None \notin Reconciles

LagKinds == {"edit", "status", "admins", "key", "secret", "job"}

TypeOK ==
    /\ inp \in Inps /\ cInp \in Inps
    /\ cond \in Reasons /\ cCond \in Reasons
    /\ admins \subseteq Names /\ cAdmins \subseteq Names
    /\ key \in OptKeys /\ cKey \in OptKeys
    /\ admitted \in BOOLEAN
    /\ secret \in SecretObjects \cup {None} /\ cSecret \in SecretObjects \cup {None}
    /\ job \in JobObjects \cup {None} /\ cJob \in JobObjects \cup {None}
    /\ pods \subseteq PodObjects
    /\ lag \subseteq LagKinds
    /\ queued \in BOOLEAN
    /\ rc \in Reconciles \cup {None}
    /\ external \in Nat

Init ==
    /\ inp \in Inps
    /\ admins \in InitAdmins
    /\ key \in InitKeys
    /\ admitted \in BOOLEAN
    /\ \/ cond = "none" /\ secret = None
       \/ /\ LegacySecret /\ key \in GoodKeys /\ cond = "SecretReady"
          /\ \E a \in admins :
               secret = [xml |-> [inp |-> inp, host |-> a, key |-> key],
                         hash |-> None, admin |-> a, key |-> key]
    /\ job = None /\ pods = {}
    /\ cInp = inp /\ cCond = cond /\ cAdmins = admins /\ cKey = key /\ cSecret = secret /\ cJob = None
    /\ lag = {} /\ queued = TRUE /\ rc = None /\ external = 0

-----------------------------------------------------------------------------
isClusterConfigReady(s) == s # None /\ s.xml # None

Stale == lag \cap {"edit", "status"} # {}

Start == queued /\ rc = None

\* Mutant: the hash of the inputs is lost on the way to the Job.
Proceed_NoHash(pc, h, c) ==
    /\ queued' = FALSE
    /\ rc' = [pc |-> pc, hash |-> None, new |-> None, then |-> "status", cond |-> c,
              stale |-> Stale, secStale |-> "secret" \in lag]

\* A reconcile that has taken the key off the queue goes on at step pc.
Proceed(pc, h, c) ==
    /\ queued' = FALSE
    /\ rc' = [pc |-> pc, hash |-> h, new |-> None, then |-> "status", cond |-> c,
              stale |-> Stale, secStale |-> "secret" \in lag]

\* An error is returned: the key is queued again.
Fail == rc' = None /\ queued' = TRUE

Continue(pc) == rc' = [rc EXCEPT !.pc = pc] /\ UNCHANGED queued

\* The last write of the reconcile is the status, with reason c.
Finish(c) == rc' = [rc EXCEPT !.pc = "status", !.cond = c] /\ UNCHANGED queued

PutSecret(s) == secret' = s /\ lag' = lag \cup {"secret"}

\* Status().Update of the condition; an unchanged object gets no new version.
PutCond(c) == cond' = c /\ lag' = IF c = cond THEN lag ELSE lag \cup {"status"}

\* Mutant: the successor is created at once, before the cache has seen the
\* old Job go.
DeleteJob_AndCreate ==
    /\ job' = [hash |-> rc.hash, key |-> cKey, phase |-> "active"]
    /\ lag' = lag \cup {"job"}
    /\ pods' = {}

\* Delete by name, background propagation; NotFound is tolerated.
DeleteJob ==
    /\ job' = None
    /\ lag' = IF job = None THEN lag ELSE lag \cup {"job"}
    /\ pods' = IF PodsLinger THEN {[p EXCEPT !.orphan = TRUE] : p \in pods} ELSE {}

OrStored(k, s) == IF k # None THEN k ELSE s.key

-----------------------------------------------------------------------------
(* ensureClusterConfig, steps 1 to 3: the Secret. *)

StartFrame == UNCHANGED <<inp, inputs, job, pods, caches, external>>

NoAdmin ==
    /\ Start /\ cAdmins = {}
    /\ Proceed("status", None, "WaitingForAdmin")
    /\ StartFrame /\ UNCHANGED <<cond, secret, lag>>

KeyRotated ==
    cSecret.key # None /\ cKey # None /\ cSecret.key # cKey

\* Mutant: the Secret is reset without announcing it.
Regenerate_Unannounced(a, s, then) ==
    /\ queued' = FALSE
    /\ rc' = [pc |-> "reset", hash |-> <<cInp, a>>, new |-> s, then |-> then,
              cond |-> "Regenerating", stale |-> Stale, secStale |-> "secret" \in lag]
    /\ UNCHANGED <<cond, lag>>

\* Branches A and C: ClusterConfigReady=False first, then the reset of s.
Regenerate(a, s, then) ==
    IF Stale
      THEN Fail /\ UNCHANGED <<cond, lag>>
      ELSE /\ PutCond("Regenerating")
           /\ queued' = FALSE
           /\ rc' = [pc |-> "reset", hash |-> <<cInp, a>>, new |-> s, then |-> then,
                     cond |-> "Regenerating", stale |-> FALSE, secStale |-> "secret" \in lag]

BranchA(a) ==
    /\ Start /\ isClusterConfigReady(cSecret) /\ KeyRotated
    /\ Regenerate(a, [cSecret EXCEPT !.xml = None, !.key = cKey, !.hash = <<cInp, a>>], "status")
    /\ StartFrame /\ UNCHANGED secret

SteadyState(a) ==
    /\ Start /\ isClusterConfigReady(cSecret) /\ ~KeyRotated
    /\ cSecret.hash = <<cInp, a>>
    /\ Proceed("status", cSecret.hash, "SecretReady")
    /\ StartFrame /\ UNCHANGED <<cond, secret, lag>>

\* The Secret is updated in place; a conflict is an error.
UpdateInPlace(h, s) ==
    IF "secret" \in lag
      THEN Fail /\ UNCHANGED <<secret, lag>>
      ELSE PutSecret(s) /\ Proceed("status", h, "SecretReady")

Backfill(a) ==
    /\ Start /\ isClusterConfigReady(cSecret) /\ ~KeyRotated
    /\ cSecret.hash = None /\ cSecret.admin = a
    /\ UpdateInPlace(<<cInp, a>>, [cSecret EXCEPT !.hash = <<cInp, a>>])
    /\ StartFrame /\ UNCHANGED cond

\* Only the admin's name changed, and the expected <host> is there to replace.
OnlyAdminChanged(a) ==
    /\ cSecret.admin # a
    /\ cSecret.hash = <<cInp, cSecret.admin>>
    /\ cSecret.xml.host = cSecret.admin

BranchB(a) ==
    /\ Start /\ isClusterConfigReady(cSecret) /\ ~KeyRotated
    /\ OnlyAdminChanged(a)
    /\ UpdateInPlace(<<cInp, a>>,
                     [cSecret EXCEPT !.xml.host = a, !.admin = a, !.hash = <<cInp, a>>])
    /\ StartFrame /\ UNCHANGED cond

BranchC(a) ==
    /\ Start /\ isClusterConfigReady(cSecret) /\ ~KeyRotated
    /\ cSecret.hash # <<cInp, a>>
    /\ ~(cSecret.hash = None /\ cSecret.admin = a)
    /\ ~OnlyAdminChanged(a)
    /\ Regenerate(a, [xml |-> None, hash |-> <<cInp, a>>, admin |-> a,
                      key |-> OrStored(cKey, cSecret)], "job")
    /\ StartFrame /\ UNCHANGED secret

\* Job in flight or never run.
PlaceholderFound(a) ==
    /\ Start /\ cSecret # None /\ cSecret.xml = None
    /\ Proceed("job", <<cInp, a>>, cCond)
    /\ StartFrame /\ UNCHANGED <<cond, secret, lag>>

\* AlreadyExists is tolerated.
CreatePlaceholder(a) ==
    /\ Start /\ cSecret = None
    /\ IF secret = None
         THEN PutSecret([xml |-> None, hash |-> <<cInp, a>>, admin |-> a, key |-> cKey])
         ELSE UNCHANGED <<secret, lag>>
    /\ Proceed("job", <<cInp, a>>, cCond)
    /\ StartFrame /\ UNCHANGED cond

\* findAdminNodeName is the first admin of an unordered list.
Begin ==
    \/ NoAdmin
    \/ \E a \in cAdmins : \/ BranchA(a) \/ SteadyState(a) \/ Backfill(a) \/ BranchB(a)
                          \/ BranchC(a) \/ PlaceholderFound(a) \/ CreatePlaceholder(a)

\* Branches A and C, second write: the Secret goes back to the placeholder.
ResetSecret ==
    /\ rc # None /\ rc.pc = "reset"
    /\ IF rc.secStale \/ secret = None
         THEN Fail /\ UNCHANGED <<secret, lag>>
         ELSE PutSecret(rc.new) /\ Continue("drop")
    /\ UNCHANGED <<cluster, inputs, job, pods, caches, external>>

\* Third write: the Job of the previous inputs, if the cache shows one.
DropJob ==
    /\ rc # None /\ rc.pc = "drop"
    /\ IF cJob # None THEN DeleteJob ELSE UNCHANGED <<job, pods, lag>>
    /\ Continue(rc.then)
    /\ UNCHANGED <<cluster, inputs, secret, caches, external>>

-----------------------------------------------------------------------------
(* ensureClusterConfig, steps 4 and 5: the Job. *)

AtJob == rc # None /\ rc.pc = "job"

StepFrame == UNCHANGED <<cluster, inputs, secret, caches, external>>

\* Mutant: a changed spec or admin is not drift.
Drifted_KeyOnly == cJob.key # None /\ cJob.key # cKey

\* Mutant: a changed key is not drift.
Drifted_HashOnly == cJob.hash # rc.hash

Drifted ==
    \/ cJob.hash # rc.hash
    \/ cJob.key # None /\ cJob.key # cKey

JobDrifted ==
    /\ AtJob /\ cJob # None /\ Drifted
    /\ DeleteJob /\ Finish("Regenerating")
    /\ StepFrame

JobCompleted == AtJob /\ cJob # None /\ ~Drifted /\ cJob.phase = "complete"

\* No Succeeded pod in the cache, or its logs cannot be streamed: retry, and
\* after 30 seconds give the Job up.
LogsUnavailable(giveUp) ==
    /\ JobCompleted
    /\ IF giveUp THEN DeleteJob ELSE UNCHANGED <<job, pods, lag>>
    /\ Finish("LogsUnavailable")
    /\ StepFrame

\* readJobPodLogs: the first Succeeded pod with the Job's name on it.
EmptyOutput ==
    /\ JobCompleted
    /\ \E p \in pods : p.xml = None
    /\ DeleteJob /\ Finish("EmptyOutput")
    /\ StepFrame

ReadLogs ==
    /\ JobCompleted
    /\ \E p \in pods :
         /\ p.xml # None
         /\ rc' = [rc EXCEPT !.pc = "publish",
                             !.new = [xml |-> p.xml, hash |-> rc.hash, admin |-> rc.hash[2],
                                      key |-> None]]
    /\ StepFrame /\ UNCHANGED <<job, pods, lag, queued>>

JobFailed ==
    /\ AtJob /\ cJob # None /\ ~Drifted /\ cJob.phase = "failed"
    /\ Finish("JobFailed")
    /\ StepFrame /\ UNCHANGED <<job, pods, lag>>

JobRunning ==
    /\ AtJob /\ cJob # None /\ ~Drifted /\ cJob.phase = "active"
    /\ Finish("JobRunning")
    /\ StepFrame /\ UNCHANGED <<job, pods, lag>>

\* The dry-run pod is refused: handleAdmissionForbidden.
JobForbidden ==
    /\ AtJob /\ cJob = None /\ ~admitted
    /\ Finish("JobPodAdmissionForbidden")
    /\ StepFrame /\ UNCHANGED <<job, pods, lag>>

\* AlreadyExists: the condition stays as it is.
JobExists ==
    /\ AtJob /\ cJob = None /\ admitted /\ job # None
    /\ Finish(rc.cond)
    /\ StepFrame /\ UNCHANGED <<job, pods, lag>>

\* Stamped with the hash of the inputs and, if there is one, of the key.
CreateJob ==
    /\ AtJob /\ cJob = None /\ admitted /\ job = None
    /\ job' = [hash |-> rc.hash, key |-> cKey, phase |-> "active"]
    /\ lag' = lag \cup {"job"}
    /\ Finish("JobCreated")
    /\ StepFrame /\ UNCHANGED pods

\* The output goes into the Secret, read again, with the key's hash, read again.
Publish ==
    /\ rc # None /\ rc.pc = "publish"
    /\ IF cSecret = None \/ "secret" \in lag
         THEN Fail /\ UNCHANGED <<secret, lag>>
         ELSE PutSecret([rc.new EXCEPT !.key = OrStored(cKey, cSecret)]) /\ Continue("clean")
    /\ UNCHANGED <<cluster, inputs, job, pods, caches, external>>

CleanJob ==
    /\ rc # None /\ rc.pc = "clean"
    /\ DeleteJob /\ Finish("SecretReady")
    /\ StepFrame

\* Mutant: a conflict is dropped, as the database controller does.
WriteStatus_IgnoresConflict ==
    /\ rc # None /\ rc.pc = "status"
    /\ IF rc.stale THEN UNCHANGED <<cond, lag>> ELSE PutCond(rc.cond)
    /\ queued' = (queued \/ rc.cond \in {"LogsUnavailable", "JobPodAdmissionForbidden"})
    /\ rc' = None
    /\ UNCHANGED <<inp, inputs, secret, job, pods, caches, external>>

\* The status is written last; a conflict requeues, so do two of the reasons.
WriteStatus ==
    /\ rc # None /\ rc.pc = "status"
    /\ IF rc.stale THEN UNCHANGED <<cond, lag>> ELSE PutCond(rc.cond)
    /\ queued' = (queued \/ rc.stale \/ rc.cond \in {"LogsUnavailable", "JobPodAdmissionForbidden"})
    /\ rc' = None
    /\ UNCHANGED <<inp, inputs, secret, job, pods, caches, external>>

AtJobStep ==
    \/ JobDrifted \/ (\E g \in BOOLEAN : LogsUnavailable(g)) \/ EmptyOutput \/ ReadLogs
    \/ JobFailed \/ JobRunning \/ JobForbidden \/ JobExists \/ CreateJob

Reconcile ==
    Begin \/ ResetSecret \/ DropJob \/ AtJobStep \/ Publish \/ CleanJob \/ WriteStatus

-----------------------------------------------------------------------------
(* The watches: a cache catches up, and the event wakes the controller. *)

SyncFrame == UNCHANGED <<cluster, inputs, secret, job, pods, rc, external>>

\* Generation, label and annotation changes wake the controller, its own
\* status writes do not.
SyncCluster ==
    /\ Stale
    /\ cInp' = inp /\ cCond' = cond /\ lag' = lag \ {"edit", "status"}
    /\ queued' = (queued \/ "edit" \in lag)
    /\ SyncFrame /\ UNCHANGED <<cAdmins, cKey, cSecret, cJob>>

\* Mutant: no watch on the nodes.
SyncAdmins_NoWake ==
    /\ "admins" \in lag
    /\ cAdmins' = admins /\ lag' = lag \ {"admins"}
    /\ SyncFrame /\ UNCHANGED <<cCluster, cKey, cSecret, cJob, queued>>

SyncAdmins ==
    /\ "admins" \in lag
    /\ cAdmins' = admins /\ lag' = lag \ {"admins"} /\ queued' = TRUE
    /\ SyncFrame /\ UNCHANGED <<cCluster, cKey, cSecret, cJob>>

SyncKey ==
    /\ "key" \in lag
    /\ cKey' = key /\ lag' = lag \ {"key"} /\ queued' = TRUE
    /\ SyncFrame /\ UNCHANGED <<cCluster, cAdmins, cSecret, cJob>>

SyncSecret ==
    /\ "secret" \in lag
    /\ cSecret' = secret /\ lag' = lag \ {"secret"} /\ queued' = TRUE
    /\ SyncFrame /\ UNCHANGED <<cCluster, cAdmins, cKey, cJob>>

SyncJob ==
    /\ "job" \in lag
    /\ cJob' = job /\ lag' = lag \ {"job"} /\ queued' = TRUE
    /\ SyncFrame /\ UNCHANGED <<cCluster, cAdmins, cKey, cSecret>>

Sync == SyncCluster \/ SyncAdmins \/ SyncKey \/ SyncSecret \/ SyncJob

-----------------------------------------------------------------------------
(* The genclust pod, the Job controller and the garbage collector. *)

JobFrame == UNCHANGED <<cluster, inputs, secret, caches, queued, rc>>

JobEnds(phase, output) ==
    /\ job # None /\ job.phase = "active"
    /\ job' = [job EXCEPT !.phase = phase]
    /\ pods' = pods \cup output
    /\ lag' = lag \cup {"job"}
    /\ JobFrame

\* genclust reads the key from the credentials Secret, everything else from
\* the Job's template.
GenclustOutput ==
    [xml |-> [inp |-> job.hash[1], host |-> job.hash[2], key |-> key], orphan |-> FALSE]

GenclustSucceeds == key \in GoodKeys /\ JobEnds("complete", {GenclustOutput}) /\ UNCHANGED external

GenclustFails == key \notin GoodKeys /\ JobEnds("failed", {}) /\ UNCHANGED external

CollectPods ==
    /\ \E p \in pods : p.orphan
    /\ pods' = {p \in pods : ~p.orphan}
    /\ JobFrame /\ UNCHANGED <<job, lag, external>>

-----------------------------------------------------------------------------
(* Users, failures, crashes. *)

Change == external < MaxExternal /\ external' = external + 1

\* i = inp: an edit of labels, annotations or fields outside the hash.
EditCluster(i) ==
    /\ Change
    /\ <<inp, i>> \in InpChanges
    /\ inp' = i /\ lag' = lag \cup {"edit"}
    /\ rc' = IF rc = None THEN None ELSE [rc EXCEPT !.stale = TRUE]
    /\ UNCHANGED <<cond, inputs, secret, job, pods, caches, queued>>

\* Admins are created or deleted, or nodes change their spec.type.
ChangeAdmins(s) ==
    /\ Change
    /\ <<admins, s>> \in AdminChanges
    /\ admins' = s
    /\ lag' = lag \cup {"admins"}
    /\ UNCHANGED <<cluster, key, admitted, secret, job, pods, caches, queued, rc>>

ChangeKey(k) ==
    /\ Change
    /\ <<key, k>> \in KeyChanges
    /\ key' = k /\ lag' = lag \cup {"key"}
    /\ UNCHANGED <<cluster, admins, admitted, secret, job, pods, caches, queued, rc>>

DeleteSecret ==
    /\ Change
    /\ SecretMayVanish /\ secret # None /\ PutSecret(None)
    /\ UNCHANGED <<cluster, inputs, job, pods, caches, queued, rc>>

ToggleAdmission ==
    /\ Change
    /\ admitted' = ~admitted
    /\ UNCHANGED <<cluster, admins, key, secret, job, pods, caches, lag, queued, rc>>

GenclustPrintsNothing ==
    Change /\ key \in GoodKeys /\ JobEnds("complete", {[xml |-> None, orphan |-> FALSE]})

\* A completed pod is evicted or its node is lost.
LosePods ==
    /\ Change
    /\ pods # {} /\ pods' = {}
    /\ JobFrame /\ UNCHANGED <<job, lag>>

\* Any read or write of a reconcile may fail for a while.
ApiError ==
    /\ Change
    /\ rc # None /\ Fail
    /\ UNCHANGED <<cluster, inputs, secret, job, pods, caches, lag>>

\* The operator restarts with fresh caches, every object queued.
Crash ==
    /\ Change
    /\ Fail
    /\ cInp' = inp /\ cCond' = cond /\ cAdmins' = admins /\ cKey' = key
    /\ cSecret' = secret /\ cJob' = job /\ lag' = {}
    /\ UNCHANGED <<cluster, inputs, secret, job, pods>>

Disturbance ==
    \/ \E i \in Inps : EditCluster(i)
    \/ \E s \in SUBSET Names : ChangeAdmins(s)
    \/ \E k \in OptKeys : ChangeKey(k)
    \/ DeleteSecret \/ ToggleAdmission \/ GenclustPrintsNothing \/ LosePods
    \/ ApiError

Workload == GenclustSucceeds \/ GenclustFails \/ CollectPods

Next == Reconcile \/ Sync \/ Workload \/ Disturbance \/ Crash

Spec == Init /\ [][Next]_vars

\* The work queue hands out its keys and a reconcile goes on, the watches
\* deliver, pods end and are collected.  Logs that exist are not unreadable
\* at every attempt, and while they are the 30 seconds pass.  Nothing is
\* assumed of users, failures and crashes.
Fairness ==
    /\ WF_vars(Reconcile)
    /\ SF_vars(ReadLogs) /\ SF_vars(LogsUnavailable(TRUE))
    /\ WF_vars(SyncCluster) /\ WF_vars(SyncAdmins) /\ WF_vars(SyncKey)
    /\ WF_vars(SyncSecret) /\ WF_vars(SyncJob)
    /\ WF_vars(GenclustSucceeds) /\ WF_vars(GenclustFails) /\ WF_vars(CollectPods)

FairSpec == Spec /\ Fairness

-----------------------------------------------------------------------------
(* Properties *)

\* "so we never populate the Secret with cluster.xml from stale inputs": a
\* published cluster.xml was generated from the inputs, and names the host,
\* that the Secret's annotations claim.  The hash is what SteadyState and the
\* node controller's gate trust, so a wrong one is never corrected.
ConfigMatchesHash ==
    isClusterConfigReady(secret) /\ secret.hash # None =>
        /\ secret.hash = <<secret.xml.inp, secret.xml.host>>
        /\ secret.admin = secret.xml.host

\* "Status flips to False BEFORE the Secret data reset": a published
\* cluster.xml is never replaced by the placeholder while the API server
\* shows ClusterConfigReady=True (Branches A and C).
ResetIsAnnounced ==
    [][isClusterConfigReady(secret) /\ secret' # None /\ secret'.xml = None
         => cond # "SecretReady"]_vars

\* The genclust Job is deleted by name: when the cache shows a Job and one
\* exists, they were made from the same inputs, so a drift decision hits the
\* Job it was taken about (JobDrifted, DropJob, CleanJob).
CachedJobIsTheJob ==
    cJob # None /\ job # None => cJob.hash = job.hash /\ cJob.key = job.key

\* The controller has nothing to do and the caches are up to date.
AtRest == ~queued /\ rc = None /\ lag = {}

\* No event is missed: when the controller has nothing left to do and the
\* caches are up to date, ClusterConfigReady=True means that the Secret holds
\* a cluster.xml stamped with the current inputs, admin and key.
RestingStatusIsTrue ==
    AtRest /\ cond = "SecretReady" =>
        /\ isClusterConfigReady(secret)
        /\ \E a \in admins : secret.hash = <<inp, a>>
        /\ key # None /\ secret.key # None => secret.key = key

\* Once users leave a cluster with one admin, a usable key and an admitted
\* pod alone, cluster.xml is generated from its inputs and reported: no
\* conflict, lost pod, drifted Job, empty output or crash blocks it for good.
ConfigConverges ==
    <>[](Cardinality(admins) = 1 /\ key \in GoodKeys /\ admitted)
      => <>[](/\ cond = "SecretReady" /\ isClusterConfigReady(secret)
              /\ secret.xml.inp = inp /\ secret.xml.host \in admins)
=============================================================================
