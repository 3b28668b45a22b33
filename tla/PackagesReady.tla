---------------------------- MODULE PackagesReady ----------------------------
(***************************************************************************)
(* Packages of one node.  Every package of cluster.spec.packages is        *)
(* fetched by an init container of the node's pods, with credentials from  *)
(* a Secret.  The node controller checks the Secret before it writes a     *)
(* Deployment with new packages, sets PackagesReady to PackagesPending,    *)
(* translates what the init containers report into the condition, and      *)
(* deletes failing pods once the Secret has changed.                       *)
(*                                                                         *)
(* A reconcile reads the node, the Deployment, the pods and the Secret     *)
(* from caches that trail the API server, and its steps are separate:      *)
(* Deployment write, translation with recovery, status write.  Users edit  *)
(* the spec and the Secret, pods are started and restarted, the quota      *)
(* blocks pods and the operator crashes at any moment in between.          *)
(*                                                                         *)
(* The Deployment has one replica.  The hash of a packages list is the     *)
(* list itself (computePackagesHash is injective but for collisions).      *)
(***************************************************************************)
EXTENDS Integers, Sequences, FiniteSets

CONSTANTS
    Specs,          \* [img, pkgs]: pkgs[i] tells whether package i refers to the Secret
    HasAdmin,       \* the cluster has an admin, so edits of packages close the config gate
    EnvIsCached,    \* a restarted init container keeps the credentials it started with
    InitSpecs,      \* the specs a node may start with
    Contents,       \* of the Secret: "absent", "nokey", "bad" or "good" credentials
    InitContents,   \* what the Secret may hold at first
    MaxSecretEdits, \* bound: edits of the Secret
    MaxPods,        \* bound: pods at a time, those being deleted included
    MaxExternal,    \* bound: edits of the spec, crashes and failures outside the operator
    None

ASSUME PackagesAssumption ==
    /\ \A s \in Specs : DOMAIN s = {"img", "pkgs"} /\ s.pkgs \in Seq(BOOLEAN)
    /\ HasAdmin \in BOOLEAN /\ EnvIsCached \in BOOLEAN
    /\ MaxSecretEdits \in Nat /\ MaxExternal \in Nat /\ MaxPods \in Nat
    /\ InitSpecs \subseteq Specs /\ InitContents \subseteq Contents
    /\ Contents \subseteq {"absent", "nokey", "bad", "good"} /\ None \notin Specs

VARIABLES
    spec,      \* the image and the packages, as the cluster's cache shows them
    gateOpen,  \* ClusterConfigReady, for this spec (Reconcile 5.7)
    deploy,    \* the Deployment: its template and its ReplicaFailure, or None
    pods,      \* the node's pods
    secret,    \* the credentials: content and resourceVersion
    status,    \* of the node: the reason of PackagesReady, lastObservedPackageSecretsHash
    cache,     \* what the controller's caches show of the four
    queued,    \* the node's key is in the work queue, or on a timer
    rc,        \* the reconcile in flight, or None
    external,  \* events so far of those MaxExternal bounds
    fetched,   \* history: packages lists of which a pod has fetched a package
    told       \* history: PackagesReady is about the Deployment's packages, see WriteStatus

truth == <<deploy, pods, secret, status>>
hist == <<fetched, told>>
vars == <<spec, gateOpen, truth, cache, queued, rc, external, hist>>

-----------------------------------------------------------------------------
(* State *)

\* Why the kubelet cannot run, or has given up on, an init container.
Failures == {"secretNotFound", "keyNotFound", "imagePull", "exited"}

\* done package-fetch containers have exited 0, run is the state of the next
\* one and cred the Secret it was started with; scar is the first container
\* with a non-zero exit in its LastTerminationState (0: none).
Pods == [id: Nat, tmpl: Specs, done: Nat, run: {"waiting"} \cup Failures,
         cred: Contents \cup {"good", None}, scar: Nat, del: BOOLEAN]

Reasons == {"absent", "PackagesPending", "AllPackagesFetched", "PackageSecretMissing",
            "PackageSecretKeyMissing", "PackageHTTPError", "PackageImagePullFailed",
            "PackagePodCreationFailed"}

Deployments == [tmpl: Specs, rf: BOOLEAN]

\* pr is the reason of PackagesReady (True for AllPackagesFetched only), last
\* is lastObservedPackageSecretsHash.
Statuses == [pr: Reasons, last: Int]

NoHash == -1

\* base is the node as it was read, pr and last the status being put together.
Reconciles == [step: {"translate", "status"}, pkgs: {s.pkgs : s \in Specs}, base: Statuses,
               pr: Reasons, last: Int, rf: BOOLEAN, requeue: BOOLEAN, wrote: BOOLEAN]

Secrets == [content: Contents, rv: Nat]

Caches == [deploy: Deployments \cup {None}, pods: SUBSET Pods, secret: Secrets, status: Statuses]

ASSUME AbsentIsNoObject == None \notin Deployments /\ None \notin Reconciles

TypeOK ==
    /\ spec \in Specs /\ gateOpen \in BOOLEAN
    /\ deploy \in Deployments \cup {None} /\ pods \subseteq Pods
    /\ secret \in Secrets /\ status \in Statuses /\ cache \in Caches
    /\ queued \in BOOLEAN /\ rc \in Reconciles \cup {None}
    /\ external \in Nat
    /\ \A p \in pods : p.done <= Len(p.tmpl.pkgs)
    /\ told \in BOOLEAN

Truth == [deploy |-> deploy, pods |-> pods, secret |-> secret, status |-> status]

Init ==
    /\ spec \in InitSpecs /\ gateOpen = TRUE
    /\ deploy = None /\ pods = {}
    /\ secret \in [content: InitContents, rv: {1}]
    /\ status = [pr |-> "absent", last |-> NoHash]
    /\ cache = Truth
    /\ queued = TRUE /\ rc = None
    /\ external = 0
    /\ fetched = {} /\ told = TRUE

-----------------------------------------------------------------------------
(* packages.go and packages_status.go *)

packageReferencesSecret(pkgs) == \E i \in DOMAIN pkgs : pkgs[i]

\* checkSecretKeys, over every reference of every package.
checkPackageSecrets(pkgs, s) ==
    IF ~packageReferencesSecret(pkgs) \/ s.content \in {"bad", "good"} THEN "ok"
    ELSE IF s.content = "absent" THEN "PackageSecretMissing" ELSE "PackageSecretKeyMissing"

\* A hash of resourceVersions; a missing Secret counts with an empty one.
computePackageSecretsRVHash(pkgs, s) ==
    IF ~packageReferencesSecret(pkgs) THEN NoHash
    ELSE IF s.content = "absent" THEN 0 ELSE s.rv

\* Failures a Secret edit can plausibly fix; not the image, not the quota.
isRecoverableSecretFailure(pr) ==
    pr \in {"PackageSecretMissing", "PackageSecretKeyMissing", "PackageHTTPError"}

\* The first failing package-fetch container decides: one that restarted (its
\* LastTerminationState), one the kubelet cannot start, or one that exited.
classifyInitContainer(p) ==
    CASE p.scar \in 1..p.done -> "PackageHTTPError"
      [] p.run = "secretNotFound" -> "PackageSecretMissing"
      [] p.run = "keyNotFound" -> "PackageSecretKeyMissing"
      [] p.run = "imagePull" -> "PackageImagePullFailed"
      [] p.run \in {"waiting", "exited"} ->
           IF p.scar # 0 THEN "PackageHTTPError" ELSE "ok"

podsMatchingPackagesHash(ps, pkgs) == {p \in ps : p.tmpl.pkgs = pkgs}

\* The live pods of the ReplicaSet (the template) with the youngest live pod.
currentReplicaSetPods(ps) ==
    LET live == {p \in ps : ~p.del}
    IN  {p \in live : \E q \in live : q.tmpl = p.tmpl /\ \A r \in live : r.id <= q.id}

\* Mutant: the pods of every rollout count.
translatePackagesReady_AnyHash(ps, pkgs, prior) ==
    LET current == currentReplicaSetPods(ps)
        failing == {p \in current : classifyInitContainer(p) # "ok"}
    IN  IF failing # {} THEN {classifyInitContainer(p) : p \in failing}
        ELSE IF \E p \in current : p.done > 0 THEN {"AllPackagesFetched"} ELSE {prior}

\* The possible reasons: pods are looked at in the order they are listed, a
\* failure wins over any success, one success is enough, and without either
\* the condition keeps its prior value.
translatePackagesReady(ps, pkgs, prior) ==
    LET current == currentReplicaSetPods(podsMatchingPackagesHash(ps, pkgs))
        failing == {p \in current : classifyInitContainer(p) # "ok"}
    IN  IF failing # {} THEN {classifyInitContainer(p) : p \in failing}
        ELSE IF \E p \in current : p.done > 0 THEN {"AllPackagesFetched"} ELSE {prior}

failingPackagePodFilter(p, pkgs) ==
    ~p.del /\ p.tmpl.pkgs = pkgs /\ classifyInitContainer(p) # "ok"

-----------------------------------------------------------------------------
(* The node controller *)

Start == queued /\ rc = None

\* Step 5.7, no Deployment yet: look again in 30 seconds.
WaitForConfig ==
    /\ Start /\ ~gateOpen /\ cache.deploy = None
    /\ UNCHANGED vars

Enter(step, pr, rf, requeue, wrote) ==
    /\ rc' = [step |-> step, pkgs |-> spec.pkgs, base |-> cache.status, pr |-> pr,
              last |-> cache.status.last, rf |-> rf, requeue |-> requeue, wrote |-> wrote]
    /\ queued' = FALSE

\* Step 5.7, the Deployment is left as it is; pre-check and Pending are skipped.
DeferDeployment ==
    /\ Start /\ ~gateOpen /\ cache.deploy # None
    /\ Enter("translate", cache.status.pr, cache.deploy.rf, TRUE, FALSE)
    /\ UNCHANGED <<spec, gateOpen, truth, cache, external, hist>>

prevPackages == IF cache.deploy = None THEN <<>> ELSE cache.deploy.tmpl.pkgs

\* The pre-check runs for new packages, or to probe a recoverable failure.
NeedsPreCheck ==
    /\ spec.pkgs # <<>>
    /\ prevPackages # spec.pkgs \/ isRecoverableSecretFailure(cache.status.pr)

\* Mutant: the outcome of the pre-check is not looked at.
PreCheckFails_Always ==
    /\ Start /\ gateOpen /\ NeedsPreCheck
    /\ Enter("status", checkPackageSecrets(spec.pkgs, cache.secret), FALSE, TRUE, FALSE)
    /\ UNCHANGED <<spec, gateOpen, truth, cache, external, hist>>

\* The Deployment is not written; the status is, and a requeue asked for.
PreCheckFails ==
    /\ Start /\ gateOpen /\ NeedsPreCheck
    /\ checkPackageSecrets(spec.pkgs, cache.secret) # "ok"
    /\ Enter("status", checkPackageSecrets(spec.pkgs, cache.secret), FALSE, TRUE, FALSE)
    /\ UNCHANGED <<spec, gateOpen, truth, cache, external, hist>>

PreCheckPasses ==
    /\ Start /\ gateOpen
    /\ NeedsPreCheck => checkPackageSecrets(spec.pkgs, cache.secret) = "ok"

\* Mutant: the condition of the old packages is kept.
Preempted_Never == cache.status.pr

\* Set before the Deployment write: the old pods' success is not for sale.
Preempted == IF NeedsPreCheck THEN "PackagesPending" ELSE cache.status.pr

\* CreateOrUpdate finds nothing to change.
DeploymentUpToDate ==
    /\ PreCheckPasses /\ cache.deploy # None /\ cache.deploy.tmpl = spec
    /\ Enter("translate", Preempted, cache.deploy.rf, FALSE, FALSE)
    /\ UNCHANGED <<spec, gateOpen, truth, cache, external, hist>>

WriteDeployment ==
    /\ PreCheckPasses /\ cache.deploy = deploy
    /\ deploy # None => deploy.tmpl # spec
    /\ deploy' = [tmpl |-> spec, rf |-> deploy # None /\ deploy.rf]
    /\ Enter("translate", Preempted, deploy'.rf, FALSE, prevPackages # spec.pkgs)
    /\ told' = (told /\ prevPackages = spec.pkgs)
    /\ UNCHANGED <<spec, gateOpen, pods, secret, status, cache, external, fetched>>

\* The cached Deployment is behind: AlreadyExists or a conflict, retried.
DeploymentConflict ==
    /\ PreCheckPasses /\ cache.deploy # deploy
    /\ cache.deploy # None => cache.deploy.tmpl # spec
    /\ UNCHANGED vars

\* Mutant: every reconcile of a recoverable failure deletes the failing pods.
SecretChanged_Always(h) == h # NoHash

SecretChanged(h) == h # NoHash /\ h # rc.base.last

\* deleteFailingPackagePods, of the pods as listed; those gone are not found.
DeleteFailing ==
    LET doomed == {p.id : p \in {q \in cache.pods : failingPackagePodFilter(q, rc.pkgs)}}
    IN  pods' = {[p EXCEPT !.del = @ \/ p.id \in doomed] : p \in pods}

Translated(pr) ==
    /\ pr \in IF rc.rf THEN {"PackagePodCreationFailed"}
              ELSE translatePackagesReady(cache.pods, rc.pkgs, rc.pr)

\* Step 9: PackagesReady from the pods, or from the Deployment's ReplicaFailure.
Translate ==
    /\ rc # None /\ rc.step = "translate"
    /\ IF rc.pkgs = <<>> THEN rc' = [rc EXCEPT !.step = "status", !.pr = "absent"]
       ELSE /\ ~(isRecoverableSecretFailure(rc.base.pr)
                 /\ SecretChanged(computePackageSecretsRVHash(rc.pkgs, cache.secret)))
            /\ \E pr \in Reasons : Translated(pr) /\ rc' = [rc EXCEPT !.step = "status", !.pr = pr]
    /\ UNCHANGED <<spec, gateOpen, truth, cache, queued, external, hist>>

\* The same for a recoverable failure after the Secret has changed: failing
\* pods are deleted, and the Secret is recorded as observed even if none was.
TranslateAndRecover ==
    /\ rc # None /\ rc.step = "translate" /\ rc.pkgs # <<>>
    /\ isRecoverableSecretFailure(rc.base.pr)
    /\ LET h == computePackageSecretsRVHash(rc.pkgs, cache.secret)
       IN  /\ SecretChanged(h)
           /\ \E pr \in Reasons : Translated(pr)
                 /\ rc' = [rc EXCEPT !.step = "status", !.pr = pr, !.last = h]
    /\ DeleteFailing
    /\ UNCHANGED <<spec, gateOpen, deploy, secret, status, cache, queued, external, hist>>

\* The condition turns True for packages that the Deployment does not have: an
\* earlier rollout's pods were seen while the Deployment's update was deferred,
\* or while its cached copy was outdated.
TurnsTrueForOthers ==
    /\ rc.pr = "AllPackagesFetched" /\ rc.base.pr # "AllPackagesFetched"
    /\ rc.pkgs # deploy.tmpl.pkgs

\* Step 10, and the write after a failed pre-check: a conflict asks for a requeue.
\* told: the reconcile that wrote the Deployment's packages has written the
\* status, and none has turned it True for other packages since.
WriteStatus ==
    /\ rc # None /\ rc.step = "status"
    /\ IF rc.base = status
         THEN /\ status' = [pr |-> rc.pr, last |-> rc.last]
              /\ told' = (rc.wrote \/ (told /\ ~TurnsTrueForOthers))
              /\ queued' = (queued \/ rc.requeue)
         ELSE queued' = TRUE /\ UNCHANGED <<status, told>>
    /\ rc' = None
    /\ UNCHANGED <<spec, gateOpen, deploy, pods, secret, cache, external, fetched>>

Reconcile ==
    \/ WaitForConfig \/ DeferDeployment \/ PreCheckFails
    \/ DeploymentUpToDate \/ WriteDeployment \/ DeploymentConflict
    \/ Translate \/ TranslateAndRecover \/ WriteStatus

-----------------------------------------------------------------------------
(* The caches catch up, and wake the controller as its watches say. *)

SyncFrame == UNCHANGED <<spec, gateOpen, truth, rc, external, hist>>

\* The node's own status passes none of the predicates.
SyncStatus ==
    /\ cache.status # status
    /\ cache' = [cache EXCEPT !.status = status]
    /\ SyncFrame /\ UNCHANGED queued

\* Owns(Deployment) without predicates.
SyncDeployment ==
    /\ cache.deploy # deploy
    /\ cache' = [cache EXCEPT !.deploy = deploy] /\ queued' = TRUE
    /\ SyncFrame

\* packageSecretCandidatePredicate compares the data, findNodesForPackageSecret
\* asks whether the cluster's packages refer to the Secret.
SyncSecret ==
    /\ cache.secret # secret
    /\ cache' = [cache EXCEPT !.secret = secret]
    /\ queued' = (queued \/ (cache.secret.content # secret.content
                             /\ packageReferencesSecret(spec.pkgs)))
    /\ SyncFrame

InitStatuses(ps) == {<<p.id, p.done, p.run, p.scar>> : p \in ps}

\* Mutant: only deletions of pods wake the controller.
PodsWake_OnDeleteOnly == \E p \in cache.pods : \A q \in pods : q.id # p.id

\* packageInitContainerStatusChangedPredicate: a deleted pod, or a change of
\* package-fetch states; the creation of a pod does not count.
PodsWake ==
    \/ \E p \in cache.pods : \A q \in pods : q.id # p.id
    \/ \E st \in InitStatuses(pods) \ InitStatuses(cache.pods) :
          \/ \E p \in cache.pods : p.id = st[1]
          \/ st # <<st[1], 0, "waiting", 0>>

\* Ids only tell pods apart and order them by age: they can be made small again.
Renumber(ps) == {[p EXCEPT !.id = Cardinality({q \in ps : q.id <= p.id})] : p \in ps}

SyncPods ==
    /\ cache.pods # pods
    /\ pods' = Renumber(pods)
    /\ cache' = [cache EXCEPT !.pods = pods']
    /\ queued' = (queued \/ PodsWake)
    /\ UNCHANGED <<spec, gateOpen, deploy, secret, status, rc, external, hist>>

Sync == SyncStatus \/ SyncDeployment \/ SyncSecret \/ SyncPods

-----------------------------------------------------------------------------
(* Deployment and ReplicaSet controllers, kubelet: one replica, one surplus. *)

WorkloadFrame == UNCHANGED <<spec, gateOpen, deploy, secret, status, cache, queued, rc, told>>

PodReady(p) == ~p.del /\ p.done = Len(p.tmpl.pkgs)

\* Ids stand for uid and creationTimestamp: younger than every pod still known.
FreshIds ==
    LET known == pods \cup cache.pods
    IN  {id \in {1} \cup {p.id + 1 : p \in known} : \A p \in known : p.id < id}

CreatePod ==
    /\ deploy # None /\ ~deploy.rf /\ Cardinality(pods) < MaxPods
    /\ ~\E p \in pods : p.tmpl = deploy.tmpl /\ ~p.del
    /\ \E id \in FreshIds :
         pods' = pods \cup {[id |-> id, tmpl |-> deploy.tmpl, done |-> 0, run |-> "waiting",
                             cred |-> None, scar |-> 0, del |-> FALSE]}
    /\ WorkloadFrame /\ UNCHANGED <<external, fetched>>

Become(p, q) == pods' = (pods \ {p}) \cup {q} /\ WorkloadFrame

\* An old pod goes, at once, when it is not ready or when a new one is.
ScaleDown(p) ==
    /\ p.tmpl # deploy.tmpl /\ ~p.del
    /\ ~PodReady(p) \/ \E q \in pods : q.tmpl = deploy.tmpl /\ PodReady(q)
    /\ pods' = pods \ {p}
    /\ WorkloadFrame /\ UNCHANGED <<external, fetched>>

PodGone(p) ==
    /\ p.del
    /\ pods' = pods \ {p}
    /\ WorkloadFrame /\ UNCHANGED <<external, fetched>>

Fetching(p) == ~p.del /\ p.done < Len(p.tmpl.pkgs)

Exit(p, cred) ==
    Become(p, [p EXCEPT !.run = "exited", !.cred = cred, !.scar = IF @ = 0 THEN p.done + 1 ELSE @])

\* The kubelet resolves the Secret and runs the next container.  One that has
\* exited is run again, with the same environment if EnvIsCached.
Attempt(p, cred) ==
    /\ Fetching(p)
    /\ cred = IF ~p.tmpl.pkgs[p.done + 1] THEN "good"
              ELSE IF EnvIsCached /\ p.run = "exited" THEN p.cred ELSE secret.content

\* The container downloads and unpacks its package.
FetchSucceeds(p) ==
    /\ Attempt(p, "good")
    /\ Become(p, [p EXCEPT !.done = @ + 1, !.run = "waiting", !.cred = None])
    /\ fetched' = fetched \cup {p.tmpl.pkgs}
    /\ UNCHANGED external

NotFound(c) == IF c = "absent" THEN "secretNotFound" ELSE "keyNotFound"

\* The kubelet finds no Secret, or not the key; or the server refuses it.
FetchFails(p) ==
    /\ \/ \E c \in {"absent", "nokey"} :
             /\ Attempt(p, c) /\ p.run # NotFound(c)
             /\ Become(p, [p EXCEPT !.run = NotFound(c)])
       \/ Attempt(p, "bad") /\ p.run # "exited" /\ Exit(p, "bad")
    /\ UNCHANGED <<external, fetched>>

Workload ==
    \/ CreatePod
    \/ \E p \in pods : ScaleDown(p) \/ PodGone(p) \/ FetchSucceeds(p) \/ FetchFails(p)

-----------------------------------------------------------------------------
(* Users, the cluster controller, faults *)

External == external < MaxExternal /\ external' = external + 1

\* Image and packages are inputs of cluster.xml: with an admin, the gate closes.
EditSpec(s) ==
    /\ External /\ s # spec
    /\ spec' = s /\ gateOpen' = ~HasAdmin /\ queued' = TRUE
    /\ UNCHANGED <<truth, cache, rc, hist>>

\* cluster.xml is published for the spec; ClusterConfigReady wakes the nodes.
ConfigRegenerated ==
    /\ ~gateOpen
    /\ gateOpen' = TRUE /\ queued' = TRUE
    /\ UNCHANGED <<spec, truth, cache, rc, external, hist>>

\* Edits of its metadata alone wake nobody and are left out.
EditSecret(c) ==
    /\ secret.rv <= MaxSecretEdits /\ c # secret.content
    /\ secret' = [content |-> c, rv |-> secret.rv + 1]
    /\ UNCHANGED <<spec, gateOpen, deploy, pods, status, cache, queued, rc, external, hist>>

\* A quota or an admission webhook starts, or stops, refusing the pods.
ToggleReplicaFailure ==
    /\ deploy # None
    /\ deploy' = [deploy EXCEPT !.rf = ~@]
    /\ IF deploy.rf THEN UNCHANGED external ELSE External
    /\ UNCHANGED <<spec, gateOpen, pods, secret, status, cache, queued, rc, hist>>

\* The server is down for a moment: a download fails with sound credentials.
Outage(p) ==
    /\ External /\ Attempt(p, "good")
    /\ Exit(p, "good") /\ UNCHANGED fetched

ImagePullFails(p) ==
    /\ External /\ Fetching(p) /\ p.run = "waiting"
    /\ Become(p, [p EXCEPT !.run = "imagePull"]) /\ UNCHANGED fetched

\* A node is drained, or a user deletes the pod.
Evict(p) ==
    /\ External /\ ~p.del
    /\ Become(p, [p EXCEPT !.del = TRUE]) /\ UNCHANGED fetched

\* The operator restarts; its caches are listed afresh, every node is queued.
Crash ==
    /\ External
    /\ rc' = None /\ queued' = TRUE /\ cache' = Truth
    /\ UNCHANGED <<spec, gateOpen, truth, hist>>

Disturbance ==
    \/ \E s \in Specs : EditSpec(s)
    \/ \E c \in Contents : EditSecret(c)
    \/ ToggleReplicaFailure \/ Crash
    \/ \E p \in pods : Outage(p) \/ ImagePullFails(p) \/ Evict(p)

Next == Reconcile \/ Sync \/ Workload \/ ConfigRegenerated \/ Disturbance

Spec == Init /\ [][Next]_vars

\* The work queue hands out the key, caches catch up (pod events are not lost
\* for coming in quick succession), controllers and kubelet do their part, the
\* cluster controller regenerates.  Nothing is assumed of users and faults.
Fairness ==
    /\ WF_vars(Reconcile)
    /\ WF_vars(SyncStatus) /\ WF_vars(SyncDeployment) /\ WF_vars(SyncSecret) /\ SF_vars(SyncPods)
    /\ WF_vars(Workload) /\ WF_vars(ConfigRegenerated)

FairSpec == Spec /\ Fairness

-----------------------------------------------------------------------------
(* Properties *)

\* Nothing is left to do or to learn for the controller.
AtRest == rc = None /\ ~queued /\ cache = Truth /\ gateOpen

\* "it only flips Pending -> True ... when a pod carrying the NEW hash reports":
\* at rest PackagesReady=True is about the current packages, of which some pod
\* has fetched one (pre-check leg of Reconcile, translatePackagesReady).
TrueIsFetched ==
    AtRest /\ spec.pkgs # <<>> /\ status.pr = "AllPackagesFetched" => spec.pkgs \in fetched

\* That is so if the reconcile that wrote the Deployment got its status through,
\* and none has turned PackagesReady True for other packages since.
TrueIsEarned == told => TrueIsFetched

\* A failure is not hidden: at rest, when the youngest pod has the current
\* packages and one of its fetches has failed, PackagesReady is not True
\* (findNodesForPod and the predicate on pods, translatePackagesReady).
FailureIsShown ==
    \A p \in pods :
      /\ AtRest /\ ~p.del /\ p.tmpl.pkgs = spec.pkgs /\ classifyInitContainer(p) # "ok"
      /\ \A q \in pods : q.id <= p.id
      => status.pr # "AllPackagesFetched"

\* "an infinite delete/recreate loop" does not happen: once users leave the
\* Secret alone, wrong as it may be, the operator stops deleting failing pods
\* (recovery of Reconcile step 9, computePackageSecretsRVHash).
RecoveryStops == <>[][rc' # rc => pods' = pods]_vars

Fetchable ==
    /\ packageReferencesSecret(spec.pkgs) => secret.content = "good"
    /\ deploy # None => ~deploy.rf

\* Once users and faults leave a sound cluster alone, and provided that no
\* fetch has exited non-zero, the packages are fetched and PackagesReady says
\* so, or is gone with them: missing Secrets and keys, a failed image pull,
\* refused pods, deferrals, conflicts and crashes only delay it.
PackagesConverge ==
    <>[](Fetchable /\ \A p \in pods : p.scar = 0)
      => <>[]( /\ deploy # None /\ deploy.tmpl = spec
               /\ \E p \in pods : p.tmpl = spec /\ PodReady(p)
               /\ status.pr = IF spec.pkgs = <<>> THEN "absent" ELSE "AllPackagesFetched" )

\* "AllPackagesFetched | True. Every init container exited 0": once every pod
\* has all its packages for good, and more may be created, PackagesReady says so.
FetchedIsReported ==
    <>[](Fetchable /\ pods # {} /\ spec.pkgs # <<>> /\ \A p \in pods : PodReady(p) /\ p.tmpl = spec)
      => <>[](status.pr = "AllPackagesFetched")
==============================================================================
