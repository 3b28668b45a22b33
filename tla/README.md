# Curity operator: TLA+ models, checks and proofs

The repository is a Kubernetes operator for the Curity Identity Server. This
directory models the parts of it whose correctness depends on the order of
events: what happens when a reconcile reads from a stale cache, when a write
conflicts, when a Job ends, vanishes or fails at the wrong moment, when the
operator restarts between two writes.

## 1. The system

| Part | State it keeps | Operations | What makes it correct |
|---|---|---|---|
| Database controller (`identityserverdatabase_reconciler.go`) | status of `IdentityServerDatabase`, the init Job with two hash annotations | create, recreate, wait for, reflect a run-once Job | a finished init is not run again; the status claims nothing that did not happen; a fix of image, spec or credentials is picked up |
| Cluster controller, cluster.xml (`ensureClusterConfig`) | condition `ClusterConfigReady`, the cluster-config Secret with three annotations, the genclust Job | create placeholder, run genclust, publish its output, patch or regenerate when inputs change | the published file was generated from the inputs its annotations claim; it converges; a reset is announced first |
| Node controller, config gate (step 5.7 and 6 of `Reconcile`) | the node's Deployment with a hash of cluster.xml on its pod template | defer or write the Deployment | no Deployment for inputs without a cluster.xml; a deferral ends |
| Cluster controller, finalizer and children | finalizer, ownerRefs, labels | block deletion, follow moved nodes | no node is garbage-collected with a cluster it has left |
| Node controller, orphans and duplicates | ownerRef, children under old names | migrate, delete orphans, detect two admins | nothing of another cluster is deleted |
| Packages (`packages*.go`, steps 6 to 9 of the node's `Reconcile`) | condition `PackagesReady`, a hash of the Secrets last seen | pre-check Secrets, write the packages into the Deployment, translate pod states, delete failing pods | an old pod's success is not reported for a new rollout; a failure is not hidden; a fix is noticed; deleting stops |
| Managed configs (`config_discovery.go`, `managed_config_handler.go`) | issues in the cluster's status; mounts and their hash on the pod template | discover, validate, report, mount, hash | what is mounted and what is reported complement each other; every edit reaches the pods; no endless rollout |
| Keystore conversion (`convert_keystore.go`) | the env Secret with two hash annotations, condition `ConvertKeystoreReady` | convert, publish, repair, clear | sound certificates are published and stay so; the bytes change only when something did |
| Conditions (`conditions.go`, `permanent_error.go`) | status conditions | compute | severity order |
| Predicates and mappers (`predicates.go`) | none | filter events, map them to keys | no event that matters is dropped |
| Resource builders, HPA, PDB, NetworkPolicy, ServiceMonitor (`resources.go`, ...) | one object each | create or update | straight construction |
| Manager (`cmd/manager/main.go`) | none | start-up | one worker per controller |

How the parts interact. All controllers run in one process and read through
one informer cache per kind. A cache is a past state of its kind, it only moves
forward, and caches of different kinds trail by different amounts. Writes go to
the API server; an Update carries the resourceVersion of the copy that was
read and conflicts when it is not the latest; Create fails if the name exists;
Delete goes by name. Each controller has one worker; a key is not reconciled twice
at a time. A controller is woken by the events its watches let through; for its own
kind these are changes of generation, labels and annotations, so its own status
writes do not wake it. Everything else that can happen to an object (users, the Job
controller, the TTL controller, the garbage collector) interleaves freely with
the writes of a reconcile, and the process may die between any two of them.

What is hard here, and hardly reached by the unit and envtest suites, is listed
with its source lines under `hazards` in `PROJECT.json`.

## 2. Modules

| Module | Models | Used by |
|---|---|---|
| `InitLedger` | the promise of the database controller: a ledger of earned completions | `DatabaseInit`, which implements it |
| `DatabaseInit` | database controller, its watches, the Job and its pod, TTL, crashes | `MCDatabaseInit` |
| `ClusterConfig` | cluster.xml generation, its watches, the genclust Job and its pods | `MCClusterConfig`, `ConfigGate` |
| `ConfigGate` | `ClusterConfig` composed with the node controller's gate and Deployment write | `MCConfigGate` |
| `ClusterOwnership` | finalizers, labels, ownerRefs, orphan cleanup, duplicates, NodeCount; garbage collector, crashes | `MCClusterOwnership` |
| `PackagesReady` | packages of one node: pre-check, rollout, translation of pod states, recovery; Deployment controller, kubelet, crashes | `MCPackagesReady` |
| `ConfigDiscovery` | the pure operators of managed-config discovery | `ManagedConfigs` |
| `ManagedConfigs` | both controllers' use of them, their watches, the keystore conversion and its gate | `MCManagedConfigs` |
| `DatabaseInitProofs` | theorems about `DatabaseInit` | `DatabaseLedgerProofs` |
| `DatabaseLedgerProofs` | the refinement of `InitLedger`, and that an init runs once | |
| `ClusterConfigProofs` | theorems about `ClusterConfig` | `ConfigGateProofs` |
| `ConfigGateProofs` | theorems about `ConfigGate`, on top of those | |
| `ClusterOwnershipProofs` | theorems about `ClusterOwnership` | |
| `PackagesReadyProofs` | theorems about `PackagesReady` | |
| `ConfigDiscoveryProofs` | what the operators of `ConfigDiscovery` return, for every input | `ManagedConfigsProofs` |
| `ManagedConfigsProofs` | theorems about `ManagedConfigs` | |

An `MC` module only gives values to constants.
Definitions whose comment begins with "Mutant" are deliberately wrong variants
of the definition that follows them. They are not part of the models: each one is
put in the place of the definition it varies to see that a property notices.

### Conventions

* `x` is the object in the API server, `cX` the controller's cached copy.
* `lag` is the set of kinds of writes whose events the caches have not received.
  resourceVersions are only ever compared for equality, so the models keep the
  outcome of that comparison instead of numbers: a copy read while `lag` names
  its kind is outdated, and a write made with it conflicts.
* A `Sync` action is the arrival of an event: the cache catches up and, if the
  watch's predicate passes the event, the key is queued. `queued` also covers
  the timers (`RequeueAfter`), which may fire at any later moment.
* A hash is the tuple of the values that go into it.
* `external` counts the disturbances (users, failures, crashes) and `MaxExternal`
  bounds them. There is no bound on the steps of the system itself but `MaxUnread` in `DatabaseInit`:
  a pod starts only while fewer than so many of its Job's events are on their way.

### DatabaseInit

State: `cluster` (the image of the referenced cluster), `secret` (content of the
connection Secret; absent also stands for a missing key), `db` (spec and status),
`job`, `admission` (would the API server admit the pod), the four caches, `pend`. The Job is deleted and created
again under one name, so its cache is fed one event at a time, in order (`jobEvents`): it may show a Job that has gone
while the next one exists. `unseen` says that a whole Job has come and gone before the cache heard of it.
`WatchedSecrets` are the contents in a Secret of a type that the watch lets through (`PassesPredicate`); the
reconciler reads the others too, and nothing wakes it when they change.
A reconcile is two steps: one of the ways through `Reconcile` up to and including its write to
the Job (`ClusterNotFound`, `ConnectionMissing`, `KeepCompleted`, `CreateRefused`,
`CreateLost`, `CreateJob`, `AwaitDeletion`, `RecreateOutdated`, `RecreateFailed`,
`ReflectJob`), and `updateStatus`, which writes the status in `pend` or drops it on a
conflict. `PodStart` copies the Secret's content into `job.used`, as the environment of a container is read when it starts; the Job is stamped
with the content at its creation (`job.conn`). `ExternalDelete` is the TTL controller, or a user, at any time: before the
completion is recorded as well as after.
`done` and `settled` are history: the hashes for which idsvr -I has succeeded, and the
hash whose completion the cache has shown as recorded while it was the one in force.

### ClusterConfig

A reconcile makes up to four writes, and `rc` holds what it carries between
them: the next step, the hash of the inputs it saw, the Secret it is about to write,
the condition in memory, and whether its copies are outdated. `Begin` is the
part up to the first write (branches A, B, C, steady state, backfill, placeholder),
`ResetSecret` and `DropJob` are the later writes of a regeneration, the
actions of `AtJobStep` are step 4 and 5 of `ensureClusterConfig`, `Publish` and
`CleanJob` the end of a completed Job, `WriteStatus` the status write at the end of
`Reconcile`. `findAdminNodeName` takes the first admin of a list the cache returns in no particular
order: any of `cAdmins`. A cluster.xml is a record of what it was
generated from. `pods` are the Succeeded pods whose logs can be
read; with `PodsLinger` they outlive a Job deleted with background propagation.
Condition reasons that only refine "the Job is running" (`translateJobPodAdmission`) are one reason.

### ConfigGate

Adds one runtime node: `dep` (its Deployment with the inputs it was built from and
what its cluster-config hash was computed from), `nrc` (a reconcile past the gate),
`flipped` (so that a wake for True -> False -> True between two syncs is not coalesced
away) and the history `published`. The Deployment's own events (`Owns` has no predicate)
wake the node at any time; nothing is assumed about when. The number of nodes is
constant, so `Status.NodeCount` never wakes anyone.

### ClusterOwnership

Clusters and nodes of one namespace. A cluster object has an incarnation (`uid`), the
finalizer, its deletionTimestamp and `NodeCount`; a node object its reference, label,
ownerRef, finalizer and one condition; a Deployment is known by its cluster and node. The
cluster controller reads (`ClusterReads`: the cluster and its children, from two caches) and
later writes with the copy in hand (`BlockDeletion`, `RemoveFinalizer`, `AddFinalizer`, `CountNodes`). A node
reconcile is a patch that ends it (`ReleaseNode`, `LabelNode`, `ensureClusterOwnerRef`) or
goes on step by step: orphan cleanup, the cluster, the siblings, the Deployment, the status.
`Clash` stands for both checks of step 5 (two admins, one role). A `Sync` wakes the keys the
predicates and mappers select from the old and the new object. The garbage collector
is `CollectNode` and `CollectDeployment`. The node reconcile in flight carries `stale`: whether somebody else
has written the node since the copy it holds (`Outdates`, or a cache that trailed at its start), in which case its
patches conflict, also if the node has come back to the same value. For a cluster, whose spec users do not edit here, comparing
copy and object is the same. `asked` and `born` are history.

### InitLedger

What `DatabaseInit` promises the readers of a database's status: `done` (hashes for which
idsvr -I has succeeded), `signed` (`status.lastCompletedHash`), `ready` (the condition). A
signature must be earned, is replaced only by one that was earned, and is never erased; Ready is
withdrawn at any time. `DatabaseInit` instantiates it with its own `done`,
`db.st.lch` and `db.st.ready`; `KeepsLedger` is the ledger's specification under this mapping: each
step of the detailed model is a step of the ledger or leaves it alone.

### PackagesReady

State: `spec` (image and packages), `deploy` (template and `ReplicaFailure`), `pods` (how far the
package-fetch containers have come, what stopped them, whether one exited non-zero before), `secret`
(content and resourceVersion), `status` (the reason of `PackagesReady` and
`lastObservedPackageSecretsHash`), caches of the four, and `rc`. A reconcile is a way through steps
5.7 to 6 up to the Deployment write (`WaitForConfig`, `DeferDeployment`, the pre-check, the write), the
translation with recovery, and the status write. `Workload` is the Deployment controller and the kubelet,
`gateOpen` what `ConfigGate` says of cluster.xml. `fetched` (packages some pod has fetched) and `told` are
history; `told` says that the reconcile that wrote the Deployment's packages got its status through and that none has turned
`PackagesReady` True for other packages since (`TurnsTrueForOthers`). Simplified: one
attempt of a container is one step; scaling down removes a pod at once; ids of pods are renumbered,
as only their order matters; edits of a Secret's metadata are left out.

### ConfigDiscovery and ManagedConfigs

`ConfigDiscovery` has one operator per function of `config_discovery.go`, applied to a snapshot: an
object is its label, its scope, its type and its data. `ManagedConfigs` has the objects, the types of
the nodes, the TLS Secrets and the list of keystores, a cache of each, and what
comes of them: the cluster's status, the env Secret (`Out`, itself such an object), each node's mounts and status.

A cluster reconcile is one of the ways through `ensureConvertedKeystores` with its write to the Secret, then
the status write. A node reconcile is `NodeDiscovers` (steps 4 to 5.5), then `NodeDefers` or
`NodeDeploys` (the gates, the Deployment write and the status write). The cache lists objects in any
order (`Listings`): `discoverManagedResources` is the set of what may be found, and `Issues` and `Mounts` are sets too. Lists are
filtered by `Keep`; `Sorted` is the set of what `sort.Slice` may make of one, which compares names only: in a list of more than
twelve (`StableUpTo`) a ConfigMap and a Secret of one name end up in either order, and `OneOrder` says that the names or the number of the
objects leave one. From `applyLoggingValidations` on, what is found is a set. The hash of the keystores' inputs has the
variables and the contents of each source, not the source's name, as in the code; each encoding has a new salt. `WakesNodes` and `WakesCluster` are the union
of the old and the new scope. Users edit the values of the published Secret (`Tamper`) and its labels and annotations (`Relabel`, which may leave any of `Marks`;
`Intact` says that they are as published).

What `ClusterConfig` and `ConfigGate` say of cluster.xml is `confFor`, the admin it is for. `ConfigFollows` either turns
`ClusterConfigReady`, which wakes the nodes (`ConfigTurns`: published, or withdrawn for want of an admin or before a regeneration), or
rewrites the file in place for another admin, which wakes none (`ConfigIsRewritten`, Branch B). The history `adminless` holds
the nodes that last found no admin although cluster.xml was for one, and that nothing about it has woken since.

Simplified: the conflict of a node's status write with its own previous one is left
out, the cluster's is there; of a status only the issues, the keystore's
condition and the applied resources are kept. The Curity version in the hash of the inputs, the admin's configured port, a user's
deletion of the published Secret and edits of its two hash annotations are left out.

## 3. Runs

| Run | Specification | Result |
|---|---|---|
| `db` | `FairSpec` | `TypeOK`, `ConditionsAgree`, `ReadyIsEarned`, `RecordIsTrue`, `CachedJobIsTheJob`, `RestingJobIsCurrent`, `FinishedInitIsNotRerun`, `JobFollowsInputs`, `FailedJobIsRetried` hold, and the refinement `KeepsLedger` |
| `db_conflict` | `FairSpec` | `CompletionIsReported` is violated |
| `config_safety` | `Spec` | `TypeOK`, `ConfigMatchesHash`, `CachedJobIsTheJob`, `RestingStatusIsTrue`, `ResetIsAnnounced` hold |
| `config_converges` | `FairSpec` | `ConfigConverges` holds from a Secret that predates the hash annotation, with a good key or a refused one that is repaired, and with lingering pods |
| `config_orphans` | `Spec` | `ConfigMatchesHash` is violated when pods outlive their Job |
| `gate` | `FairGateSpec` | `GateTypeOK`, `GateHolds`, `RestingDeploymentIsCurrent`, `DeploymentFollows` hold |
| `ownership_deletion` | `FairSpec` | `TypeOK`, `OnlyUsersDelete`, `DeletionEnds` hold for one node, two clusters and patient users |
| `ownership_settles` | `FairSpec` | `RestingCountIsRight`, `RestingNodeIsSettled`, `RestingNodesDoNotClash`, `CountsSettle`, `WorkloadsSettle` hold for two admins, two clusters and any users |
| `packages` | `FairSpec` | `TypeOK`, `TrueIsEarned`, `FailureIsShown`, `RecoveryStops`, `PackagesConverge` hold |
| `packages_stuck` | `FairSpec` | `FetchedIsReported` is violated |
| `managed` | `FairSpec` | `TypeOK`, `RestIsCurrent`, `StatusTellsMounts`, `ReadyKeystoresArePublished`, `MountsSettle`, `RolloutsStop`, `KeystoresArrive` hold |
| `keystore_race` | `Spec` | `NoPodBootsWithoutKeystore` is violated |

Deadlock is not checked: an operator with nothing to do rests, and the runs end
when the disturbances are used up.

Bounds. Two values of an input are enough for "changed" and "changed back", two
admins for "replaced" and "both". `MaxExternal` is the number of disturbances in one
behaviour: 3 for `ownership_deletion`, 2 for the other passing runs but `packages`
(an edit and a crash, an edit and an edit back, a rotation and a lost pod, ...); `packages` has one
edit of the spec, crash or fault and one edit of the Secret on top of any content it starts with, and
at most two pods. Inside these every interleaving of
the caches, the writes, the Job and the other controller is explored. Where a
user's changes are restricted, the cfg says so by name (`AnyEdit`, `Rotations`, `OneByOne`, ...).
`managed` starts from three clusters: one with a ConfigMap and a Secret of the same name, which turn into
duplicate keys, duplicate or invalid logging, scripts, unknown types or leave the scope, and two with
keystores, of which one has colliding variables and a broken certificate.

Environment assumptions of the passing runs, each dropped in another run or below:

* `db`: nothing is assumed of the TTL, of deletions or of how the Secret changes, back to an old content included.
  What is claimed is narrower than the comments in the code instead: the properties about the Job at rest and its retry are about Secrets of a watched type;
  a failed Job is retried when it was created for other credentials (not when another content passed by unnoticed);
  `FinishedInitIsNotRerun` starts when the cache has shown the record of the completion; and `CachedJobIsTheJob` leaves
  aside the time after a Job has come and gone unseen. What happens otherwise is in section 4.
* `config_safety`: `PodsLinger = FALSE`; see `config_orphans`.
* `config_converges`: one value of the spec. A backfill stamps the current hash on
  data nobody has compared with the spec; an edit before the first reconcile of the new operator
  is taken for granted.
* `gate`: the spec is not edited back to a value it had, and the admin does not leave.
* `ownership_deletion`: `Patient = TRUE`, a cluster is deleted only after the operator has put its
  finalizer on it and has seen the nodes that name it, and no node is moved in or created
  there while it goes. Without it `OnlyUsersDelete` fails; see section 4.
* `packages`: `TrueIsEarned` leaves aside (`told`) a status write that was lost after the Deployment was
  written, and a True that was written for other packages than the Deployment's; see section 4. `PackagesConverge` leaves aside fetches that exited non-zero, see `packages_stuck`.
* `managed`: users keep to one admin at a time, which may hand over directly and come back. `RestIsCurrent` and `MountsSettle` allow
  a node in `adminless` the mounts of a cluster without an admin (section 4, Gate), and claim one result where `OneOrder` holds;
  `ReadyKeystoresArePublished` and `KeystoresArrive` are about a published Secret whose labels and annotations stand or have come back
  (`Intact`; section 4, Managed configs). `MountsSettle` and `KeystoresArrive` are about clusters whose certificates are sound in the end.

Fairness. The work queue hands out its keys and a reconcile ends (WF on `Reconcile`,
`updateStatus`, the node's and the cluster's actions); watches deliver (WF on each `Sync`; in `managed` on all of them
together, that is, some event arrives); pods start, end and are
collected. Strong fairness is assumed in four places: a work queue
does not pass over the same key for ever (`ClusterReads`, `NodeBegins`, `HandsOut`); a failing pod is not
restarted for ever (`backoffLimit`); logs that can be read are not unreadable at every attempt, while a
retry every 2 seconds does reach the 30 seconds after which the Job is given up; and a pod's event is
not delayed for ever by further events of pods (`SyncPods`). Nothing is
assumed of users, failures, crashes or of the informers' periodic resync: the watches of the database
controller drop resync events (old and new object are equal), and the
other liveness properties hold without them.

## 4. What disagrees with the code's comments and documentation

The violation runs (findings in `PROJECT.json` quote the lines):

1. `db_conflict`: "the conflicting write re-reconciles" is not so when that
   write is the controller's own previous status write.
2. `config_orphans`: the logs of a deleted Job's pod are published for the new
   Job, since pods are matched by the Job's name and not by its uid.
3. `packages_stuck`: a fetch that failed once and succeeded on its restart is reported as
   failed for as long as the pod lives, as `LastTerminationState` outweighs the present state.
4. `keystore_race`: the mounts are listed before the gate looks for the env Secret, so a Secret
   published in between opens the gate for a Deployment that does not refer to it.

Also seen in the models while they were written, and not kept as runs.

* Database. A finished init runs again when its Job vanishes, by its TTL or by hand, before the completion is in the status
  and in the cache, although `LastCompletedHash` is there "so a finished init is not re-run"
  (`identityserverdatabase_types.go:48-51`, `identityserverdatabase_reconciler.go:121-122`); `db_conflict` shows
  that the completion may stay unrecorded for any length of time. The drift branch deletes by name (line 143): when a Job came and went
  before the cache heard of it, the cache shows the one before and the successor is deleted. A connection Secret that is
  neither Opaque nor untyped is read but not watched (`predicates.go:443-480`), so its repair leaves the Job failed and its creation
  the Job missing, until something else wakes the controller; a Secret
  that is changed and changed back around the pod's start leaves the Job failed; `Ready` stays False
  beside `Complete` after a passing absence of the cluster when the Job is already
  cleaned up, `Progressing` stays True after the cleanup, and `Complete` and `Failed` can both be
  True after a lost status reset.
* cluster.xml. A Job created without a key has no key hash, so adding the key is no drift; with two admins
  Branch B rewrites the host back and forth; the key is read again at publication, so the new key's
  hash may be stamped on a file made with the old key.
* Gate. The node controller can stamp the placeholder's hash, as it reads
  the Secret a second time after the gate; when another node becomes the admin, the in-place rewrite of
  cluster.xml wakes no node, and only the Deployment's next event makes it roll. So a node (the former admin is one) that looked
  between the one admin's leaving and the other's arrival, or while an admin left and returned unnoticed by the cluster controller, mounts
  what a cluster without an admin would (`adminless`), base configuration and licenses included, until something else wakes it.
* Packages. `AllPackagesFetched` is set as soon as one of several containers succeeded; `PackagesPending` is
  lost when the status write conflicts or a crash follows the Deployment write, and an old success then stays
  until the new pods report (`TrueIsFetched`, without the `told =>` of `TrueIsEarned`, is violated by one crash), while the comment at
  `identityservernode_reconciler.go:650` has it that the condition "only flips Pending -> True ... when a pod carrying the NEW hash
  reports"; a reconcile whose Deployment update is deferred still translates the pods by the packages of
  the spec, so after edits A, B, A, B of the packages the pods of A turn `PackagesReady` True while the Deployment has B, and that
  True survives into the rollout of B (the attempt to prove `TrueIsEarned` led to it, with three disturbances); a change of the Secret that is observed before the failing pod shows its failure uses up
  the recovery; `computePackageSecretsRVHash` counts a missing Secret with an empty
  resourceVersion instead of returning "" as its comment says.
* Managed configs and keystores. `sort.Slice` by name alone does not determine the order of a ConfigMap
  and a Secret of the same name once there are more than twelve objects, while the
  hash is called deterministic (`OneOrder` is what it takes). A published Secret whose labels are stripped by hand is
  not repaired, as `needWrite` (`convert_keystore.go:235-238`) compares inputs and values only: no node mounts it any longer and
  `ConvertKeystoreReady` stays True. The Warning "only on change" of `setConvertKeystoreFailure` comes with every
  reconcile, as the conditions are rebuilt before it looks for the previous one; an item that
  fails to convert takes its last good value out of the Secret when another item succeeds.

Without `Patient` a node can be lost. The finalizer "blocks cluster deletion while any child
IdentityServerNode still exists", but the children are counted in the node cache: a node moved into (or created
in) a cluster about the time of its deletion is not seen, the finalizer goes, the
node controller, whose cluster cache may trail, makes the dead cluster the owner, and the garbage collector
deletes the node. The same happens to a node adopted before the cluster got its
finalizer. The race the two-legged `listChildNodes` was written for, a node that moves away, is closed.
A node moved to a cluster that does not exist keeps its old owner and blocks that cluster's deletion
until it is moved again (the second case of `DeletionEnds`).

The comment at `identityservernode_reconciler.go:239` calls the search for duplicates a "known TOCTOU race", in which two admins created
at once "could both pass validation". In the model they do not (`RestingNodesDoNotClash`, for all nodes `RivalsAreTold`): a node is validated only
when the cache shows its own label, so whichever of the two is validated last finds the other. This is for one operator with one cache, and
nodes that keep their type and role.

## 5. Proofs

All theorems are checked by TLAPS, for every value of the constants: any images, specs, Secrets, packages and
resources, any number of clusters, nodes and disturbances. They assume the named `ASSUME`s of the modules: the shape of the constants (nodes that are settled at first do not clash, for instance), and that
`None` is not an object of some kind (`AbsentIsNoObject`, `AbsentIsNoSecret`, `AbsentIsNoDeployment`), which is how TLA+ writes a nil pointer. The hypotheses
about the environment are written in the theorems:

| Theorem | Hypothesis | Says |
|---|---|---|
| `DatabaseInitProofs!TypeCorrect`, `StatusIsHonest`, `DeleteHitsTheCachedJob`, `RestingJobFollowsInputs` | none | `TypeOK`; `ReadyIsEarned`, `RecordIsTrue`, `ConditionsAgree`; `CachedJobIsTheJob`; `RestingJobIsCurrent` |
| `DatabaseLedgerProofs!ImplementsLedger` | none | `Spec => KeepsLedger`, the refinement of `InitLedger` |
| `DatabaseLedgerProofs!InitRunsOnce` | none | `FinishedInitIsNotRerun` |
| `ClusterConfigProofs!TypeCorrect`, `ReadyIsWithdrawnFirst`, `DeleteHitsTheCachedJob`, `RestingStatusIsTruthful` | none | `TypeOK`, `ResetIsAnnounced`, `CachedJobIsTheJob`, `RestingStatusIsTrue` |
| `ClusterConfigProofs!PublishedConfigMatches` | `~PodsLinger`, `~LegacySecret` | `ConfigMatchesHash` |
| `ConfigGateProofs!GateImplementsClusterConfig`, `GateTypeCorrect`, `GateAlwaysHolds`, `NoDeferralIsForgotten` | none | `GateSpec => Spec`, `GateTypeOK`, `GateHolds`, `RestingDeploymentIsCurrent` |
| `ConfigGateProofs!GateOpensOnItsConfig` | as `PublishedConfigMatches` | the gate opens only on a file made from the spec and for the admin in hand |
| `ClusterOwnershipProofs!TypeCorrect` | none | `TypeOK` |
| `ClusterOwnershipProofs!NoChildIsMissed`, `NoMoveIsMissed`, `RivalsAreTold` | none | `RestingCountIsRight`, `RestingNodeIsSettled`, `RestingNodesDoNotClash` |
| `ClusterOwnershipProofs!NodesOutliveClusters` | `Patient` | `OnlyUsersDelete` |
| `PackagesReadyProofs!TypeCorrect`, `SuccessIsEarned`, `FailureIsAlwaysShown` | none | `TypeOK`, `TrueIsEarned`, `FailureIsShown` |
| `ConfigDiscoveryProofs!FoundOnce` | every order lists all objects once, and `OneOrder` | discovery has one result for all orders |
| `ConfigDiscoveryProofs!DroppedIs` | none | what is reported as dropped is what is not accepted |
| `ManagedConfigsProofs!TypeCorrect`, `NoEditIsMissed`, `ReadyIsEarned` | none | `TypeOK`, `RestIsCurrent`, `ReadyKeystoresArePublished` |
| `ManagedConfigsProofs!DroppedIsReported` | the cluster has a node | `StatusTellsMounts` |

Each hypothesis is one the runs make too, dropped in another run or discussed in section 4. The proofs have one lemma per
group of actions for the types and one per group for each inductive invariant. Why the invariants below are needed:

* Database. The properties are about the status in the API server only; a step writes there what a reconcile
  computed earlier from the cached copy and the cached Job. `IInv` therefore says the same (`Honest`, `Earned`) of the
  three places a status can be in (API server, cache, `pend`), and that a complete Job, cached or not, has its hash in `done`.
  For the ledger, `CacheInv` adds that a status which will be written without a conflict agrees with the stored one on the
  record, unless it reports a completion. `EventInv` says of what the Job's cache shows now and will show, event by event: the last is the Job that is there, and unless `unseen`
  all are about one Job, which was there from the start or is there in the end. `InitRunsOnce` needs that once a completion has settled,
  its record is in the stored status, in the cache and in every status that may still be written, and that no
  other Job is on its way to the cache.
  `RestingJobIsCurrent` is the safety half of `JobFollowsInputs` and `FailedJobIsRetried`. `RestInv` lists what wakes the controller: the key
  is queued, the reconcile about to end asks for a requeue, the Job's event is still to come, or what the caches show needs nothing done. It says
  that an absent Job's hash is in `done`, not that it is in the record: a status write lost to a conflict may leave the record without it.
* cluster.xml. Up to four writes share what the first read. `HoldsInv` says what `rc` holds at each of them. `MatchInv` says that the Secret, its
  cached copy and the Secret a reconcile is about to write hold no cluster.xml but the one their annotations name, and that a readable
  pod belongs to the Job that exists and has printed a file of that Job's inputs. `RestingStatusIsTruthful` is an argument about wake-ups: as long as the
  caches trail or the key is queued nothing is claimed, and otherwise the condition was computed from what is there.
* Gate. The composition implements `ClusterConfig`, so its invariants hold of it; what is left (`GateInv`) is that the
  Secret, its cached copy and a reconcile past the gate vouch only for what has been published. For `RestingDeploymentIsCurrent`, the safety half of
  `DeploymentFollows`, `FollowInv` compares the Deployment, or the one about to be written, with the *cached* spec; `NewSpecWakes` shows that
  the cache does not show another spec without queueing the node, and `CacheInv` of the cluster controller that it shows the spec in force.
* Ownership. A node is collected only if its owner is gone. `OwnersExist` says that every owner exists, and so does the
  cluster the controller would take from its cache as the next owner. What keeps it there is the finalizer:
  it is about to go only from a cluster without children (`LastChildGone`), since the cache that is counted shows every
  node that has or names a cluster under deletion (`SeenInv`), and copies that are not outdated are what they copy (`HeldInv`, `DeletionInv`).
* Wake-ups of the two controllers. `CountInv`: a live cluster is queued, or an event that queues it is to come, or it counts the children
  that the *cache* shows; a cache that changes them queues it (`ChildrenStay`). `SettledInv` says the same of a node that nobody is to look at: its label,
  owner and Deployments fit the cached copy. The cached one, as the object may be moved away and back between two events.
  `FlightInv` carries it through the steps of a reconcile, whose node is queued again as soon as the cache disagrees with the copy in hand; there also
  stands the reason why rivals are told: past the validation, no settled sibling with the same label clashes.
* Packages. `EarnedInv` follows a success from the pod (`FetchedInv`) to the status (`ToldInv`) over the
  reconcile in flight (`FlightInv`, `WrittenInv`). `ShownInv` says that a failure of the youngest pod in the cache is in the status, or in the write about to be made,
  or that the key is queued; `IdInv` ties the cached pods to the pods, and `RankIsMonotone` shows that renumbering keeps their order, so that
  the youngest stays the youngest.
* Managed configs. `ReportInv`, `FlightInv` and `SettledInv` say that a controller whose key is not queued has computed what it
  wrote, or is about to write, from resources that call for the same as the cached ones: a change of one that is in
  scope neither before nor after it leaves the result alone (`NotSeen`), any other queues the key. Whether there is an admin reaches a
  node by way of cluster.xml, and does not when that is rewritten in place: a node that is not queued has reckoned with an admin exactly if it is `Told`, that is,
  if cluster.xml is for one and the node is not `adminless`. `StatusTellsMounts` then compares two functions of the same
  objects, by what `ConfigDiscoveryProofs` says of filtering, sorting and validating (`DroppedIs`, `MountedIs`).
* Keystores. `SecretInv` says that the published Secret, cached or not, has the salts of one write, so that a hand edit
  with a new salt differs from the cache, and that its stamp tells from which certificates it was made. `KeystoreInv`: as long as Ready
  stands, in the status or in the reconcile about to write it, either the cached Secret is right, or one of other data (`Unlike`) is still to come, or
  it has lost its labels and nobody hears of it (`Unwatched`), which the event that brings them back ends. What is kept
  is right as the stamp has the same inputs and no two items share a variable, or Ready would not be said (`ConvertedIs`).
* Lists. What a recursive function computes for every list is proved from the absence of a least counterexample among the
  naturals (`LeastNat`, `Inductive`) and from one existence theorem for such functions (`Recursion`).

Failed attempts corrected the models. `OnlyUsersDelete` failed as conflicts were decided by
comparing copies, which misses that an object changed and changed back; hence `stale`. `TrueIsEarned` failed on the A, B, A, B
schedule of section 4. Both lie beyond the bounds of the runs.

Only model-checked: the liveness properties (`JobFollowsInputs`, `FailedJobIsRetried`, `ConfigConverges`,
`DeploymentFollows`, `DeletionEnds`, `CountsSettle`, `WorkloadsSettle`, `RecoveryStops`, `PackagesConverge`, `MountsSettle`, `RolloutsStop`,
`KeystoresArrive`), as fairness and ENABLED are outside the prover's reach. Every invariant and every safety property of the passing runs
is stated by a theorem.

## 6. Not modelled

A missing credentials Secret (`handleAdminCredsSecretMissing` returns before
`ensureClusterConfig` and waits for the Secret's event); objects the API server rejects as invalid;
foreground deletion of a cluster (the garbage collector then deletes its nodes on
purpose); a name collision with a foreign object; the contents of objects beyond what the hashes and
decisions look at; events and log lines. Two operators at once (`--leader-elect` is
off by default and the chart runs one replica). Two clusters that want the same managed resource are
independent of each other, and one is modelled.

Smaller abstractions: the two reads of the connection Secret in one reconcile of a database are one; the port of the admin
(`findAdminConfigPort`) is not an input of cluster.xml; a cleanup of the genclust Job whose Delete fails is not modelled (the code logs it); the
Secret types that the cluster's watch filters are not told apart; the cluster's reconcile always reaches
the conversion of keystores in `ManagedConfigs`; the genclust Job is deleted by the operator and its TTL only.

Parts without a module: the builders of `resources.go`, HPA, PDB, NetworkPolicy and
ServiceMonitor construct an object from the spec and have no protocol; the aggregation of node
conditions (`computeClusterConditions`) and the translation of pod failures are pure functions
that choose messages; credentials are generated once; `main.go` is wiring.

## 7. Plan

1. An abstract "a Secret that is either pending or consistent" above `ClusterConfig`, and that `ClusterConfig` implements it.
2. The stamp of the Deployment at rest (`ConfigGate`): that it is the one of the cluster.xml in the Secret, as long as the Secret does not vanish, admins
   only arrive and inputs are not changed back. In general it is not (section 4, Gate); under the run's constants `DeploymentFollows` covers it.
