--------------------------- MODULE ClusterOwnership ---------------------------
(***************************************************************************)
(* Which cluster a node belongs to, and what happens when nodes move and   *)
(* clusters are deleted.  A node names its cluster in its spec; the node   *)
(* controller copies the name into a label, makes the cluster the owner of *)
(* the node and creates a Deployment named after both.  The cluster        *)
(* controller keeps a finalizer on the cluster for as long as it sees a    *)
(* child, by spec or by owner, and counts the children in its status.  The *)
(* garbage collector deletes whatever has an owner that is gone.           *)
(*                                                                         *)
(* Modelled of the two Reconcile functions: the finalizers, label,         *)
(* ownerRef, orphan cleanup, validation against the siblings, the          *)
(* Deployment's existence, NodeCount and the node's conditions.  The gate  *)
(* on cluster.xml is open here (see ConfigGate).  x is the object in the   *)
(* API server, cX the copy in the cache of its kind.  A write made with an *)
(* outdated copy conflicts: a copy is compared with the object by the      *)
(* modelled fields when it is read, and nrc.stale says that somebody else  *)
(* has written the node since, even if to what it was before.              *)
(***************************************************************************)
EXTENDS Naturals, FiniteSets

CONSTANTS
    Clusters, Nodes,
    Clash,        \* pairs of nodes that may not share a cluster (admins, roles)
    Home,         \* the cluster a node is settled in at first, None: not created
    Patient,      \* users let the operator see a node before they delete its cluster
    None,
    MaxExternal   \* bound on the users' acts and crashes of a behaviour

ASSUME OwnershipAssumption ==
    /\ Home \in [Nodes -> Clusters \cup {None}]
    /\ Clash \subseteq Nodes \X Nodes
    /\ \A p \in Clash : p[1] # p[2] /\ Home[p[1]] # None => Home[p[1]] # Home[p[2]]
    /\ None \notin Clusters
    /\ IsFiniteSet(Nodes)
    /\ Patient \in BOOLEAN
    /\ MaxExternal \in Nat

VARIABLES
    cluster, node, dep,   \* the API server
    cC, cN, cDep,         \* the informer caches
    qC, qN,               \* the work queues, timers included
    crc, nrc,             \* the reconcile each controller is in, or None
    born,                 \* incarnations of each cluster name: the last uid
    asked,                \* nodes whose deletion a user asked for
    external

api == <<cluster, node, dep>>
caches == <<cC, cN, cDep>>
queues == <<qC, qN>>
history == <<born, asked>>
vars == <<api, caches, queues, crc, nrc, history, external>>

Owners == Clusters \X (Nat \ {0})
Conds == {"New", "ClusterNotFound", "Duplicate", "Valid"}
ClusterObjects ==
    [uid: Nat \ {0}, fin: BOOLEAN, deleting: BOOLEAN, count: Nat]
NodeObjects ==
    [spec: Clusters, label: Clusters \cup {None}, owner: Owners \cup {None},
     fin: BOOLEAN, deleting: BOOLEAN, cond: Conds]
OptClusters == [Clusters -> ClusterObjects \cup {None}]
OptNodes == [Nodes -> NodeObjects \cup {None}]
\* A Deployment is known by its cluster and its node (OwnedResourceName) and
\* is controlled by the node.
Deployments == Clusters \X Nodes

ClusterReconciles == [key: Clusters, obj: ClusterObjects, kids: Nat]
NodeReconciles ==
    [key: Nodes, obj: NodeObjects, step: {"Fetch", "Deploy", "Status"}, cond: Conds,
     stale: BOOLEAN]

ASSUME AbsentIsNoObject ==
    /\ None \notin ClusterObjects /\ None \notin NodeObjects /\ None \notin Owners
    /\ None \notin ClusterReconciles /\ None \notin NodeReconciles

TypeOK ==
    /\ cluster \in OptClusters /\ cC \in OptClusters
    /\ node \in OptNodes /\ cN \in OptNodes
    /\ dep \subseteq Deployments /\ cDep \subseteq Deployments
    /\ qC \subseteq Clusters /\ qN \subseteq Nodes
    /\ crc \in ClusterReconciles \cup {None}
    /\ nrc \in NodeReconciles \cup {None}
    /\ born \in [Clusters -> Nat]
    /\ asked \subseteq Nodes
    /\ external \in Nat

Settled(n) ==
    [spec |-> Home[n], label |-> Home[n], owner |-> <<Home[n], 1>>,
     fin |-> TRUE, deleting |-> FALSE, cond |-> "Valid"]

Init ==
    /\ cluster = [c \in Clusters |->
                    [uid |-> 1, fin |-> TRUE, deleting |-> FALSE,
                     count |-> Cardinality({n \in Nodes : Home[n] = c})]]
    /\ node = [n \in Nodes |-> IF Home[n] = None THEN None ELSE Settled(n)]
    /\ dep = {<<Home[n], n>> : n \in {m \in Nodes : Home[m] # None}}
    /\ cC = cluster /\ cN = node /\ cDep = dep
    /\ qC = {} /\ qN = {} /\ crc = None /\ nrc = None
    /\ born = [c \in Clusters |-> 1]
    /\ asked = {} /\ external = 0

-----------------------------------------------------------------------------
(* The cluster controller *)

\* Mutant: the UID leg is missing.
listChildNodes_SpecOnly(nodes, c, uid) ==
    {n \in Nodes : nodes[n] # None /\ nodes[n].spec = c}

listChildNodes(nodes, c, uid) ==
    {n \in Nodes : /\ nodes[n] # None
                   /\ nodes[n].spec = c \/ nodes[n].owner = <<c, uid>>}

\* The key is taken, the cluster and its children are read.
ClusterReads(c) ==
    /\ c \in qC /\ crc = None
    /\ qC' = qC \ {c}
    /\ crc' = IF cC[c] = None THEN None
              ELSE [key |-> c, obj |-> cC[c],
                    kids |-> Cardinality(listChildNodes(cN, c, cC[c].uid))]
    /\ UNCHANGED <<api, caches, qN, nrc, history, external>>

\* An Update, or Status().Update, of the cluster with the copy in hand.
ClusterUpdate(new, requeue) ==
    LET ok == cluster[crc.key] = crc.obj
    IN /\ cluster' = IF ok THEN [cluster EXCEPT ![crc.key] = new] ELSE cluster
       /\ qC' = IF requeue \/ ~ok THEN qC \cup {crc.key} ELSE qC

ClusterEnds ==
    /\ crc' = None
    /\ UNCHANGED <<node, dep, caches, qN, nrc, history, external>>

Deleted == crc # None /\ crc.obj.deleting

\* DeletionBlocked, with a look every 30 seconds.
BlockDeletion ==
    /\ Deleted /\ crc.kids > 0
    /\ qC' = qC \cup {crc.key}
    /\ UNCHANGED cluster
    /\ ClusterEnds

\* Without its finalizer a deleted object is gone.
RemoveFinalizer ==
    /\ Deleted /\ crc.kids = 0
    /\ ClusterUpdate(None, FALSE)
    /\ ClusterEnds

AddFinalizer ==
    /\ crc # None /\ ~crc.obj.deleting /\ ~crc.obj.fin
    /\ ClusterUpdate([crc.obj EXCEPT !.fin = TRUE], TRUE)
    /\ ClusterEnds

CountNodes ==
    /\ crc # None /\ ~crc.obj.deleting /\ crc.obj.fin
    /\ ClusterUpdate([crc.obj EXCEPT !.count = crc.kids], FALSE)
    /\ ClusterEnds

ClusterWrites == BlockDeletion \/ RemoveFinalizer \/ AddFinalizer \/ CountNodes

-----------------------------------------------------------------------------
(* The node controller *)

\* A Patch, or Status().Update, of node n with an optimistic lock: it needs
\* the latest copy.
NodePatch(n, latest, new) ==
    node' = IF latest THEN [node EXCEPT ![n] = new] ELSE node

NodeStart(n) == n \in qN /\ nrc = None

ForgetNode(n) ==
    /\ NodeStart(n) /\ cN[n] = None
    /\ qN' = qN \ {n}
    /\ UNCHANGED <<api, caches, qC, crc, nrc, history, external>>

ReleaseNode(n) ==
    /\ NodeStart(n) /\ cN[n] # None /\ cN[n].deleting
    /\ NodePatch(n, node[n] = cN[n], None)
    /\ qN' = IF node[n] = cN[n] THEN qN \ {n} ELSE qN
    /\ UNCHANGED <<cluster, dep, caches, qC, crc, nrc, history, external>>

\* Mutant: the label is written once, with the finalizer.
NeedsUpdate_FinalizerOnly(o) == ~o.fin

NeedsUpdate(o) == ~o.fin \/ o.label # o.spec

\* Finalizer and label in one patch; Requeue in either case.
LabelNode(n) ==
    /\ NodeStart(n) /\ cN[n] # None /\ ~cN[n].deleting
    /\ NeedsUpdate(cN[n])
    /\ NodePatch(n, node[n] = cN[n], [cN[n] EXCEPT !.fin = TRUE, !.label = cN[n].spec])
    /\ UNCHANGED <<cluster, dep, caches, queues, crc, nrc, history, external>>

\* What the cache shows under another name than the current one is deleted.
cleanupOrphanChildren(n) ==
    dep \ {d \in cDep : d[2] = n /\ d[1] # cN[n].spec}

CleanUp(n) ==
    /\ NodeStart(n) /\ cN[n] # None /\ ~cN[n].deleting
    /\ ~NeedsUpdate(cN[n])
    /\ dep' = cleanupOrphanChildren(n)
    /\ qN' = qN \ {n}
    /\ nrc' = [key |-> n, obj |-> cN[n], step |-> "Fetch", cond |-> cN[n].cond,
               stale |-> node[n] # cN[n]]
    /\ UNCHANGED <<cluster, node, caches, qC, crc, history, external>>

NodeBegins(n) == ForgetNode(n) \/ ReleaseNode(n) \/ LabelNode(n) \/ CleanUp(n)

AtStep(s) == nrc # None /\ nrc.step = s

Ref == nrc.obj.spec

\* Mutant: the uid is not filled in.
Owner_NoUid == <<Ref, 0>>

Owner == <<Ref, cC[Ref].uid>>

\* Mutant: any cluster will do as the owner.
ownerRefMatches_AnyUid == nrc.obj.owner # None

ownerRefMatches == nrc.obj.owner = Owner

\* The siblings are found by label, not by spec.
HasDuplicate ==
    \E m \in Nodes \ {nrc.key} :
        /\ cN[m] # None /\ cN[m].label = Ref
        /\ <<nrc.key, m>> \in Clash \/ <<m, nrc.key>> \in Clash

ToStatus(c) == nrc' = [nrc EXCEPT !.step = "Status", !.cond = c]

ReportNotFound ==
    /\ AtStep("Fetch") /\ cC[Ref] = None
    /\ ToStatus("ClusterNotFound")
    /\ UNCHANGED <<api, caches, queues, crc, history, external>>

\* A cluster that is being deleted adopts like any other.
ensureClusterOwnerRef ==
    /\ AtStep("Fetch") /\ cC[Ref] # None /\ ~ownerRefMatches
    /\ NodePatch(nrc.key, ~nrc.stale, [nrc.obj EXCEPT !.owner = Owner])
    /\ qN' = qN \cup {nrc.key}
    /\ nrc' = None
    /\ UNCHANGED <<cluster, dep, caches, qC, crc, history, external>>

Validate ==
    /\ AtStep("Fetch") /\ cC[Ref] # None /\ ownerRefMatches
    /\ \/ HasDuplicate /\ ToStatus("Duplicate")
       \/ ~HasDuplicate /\ nrc' = [nrc EXCEPT !.step = "Deploy"]
    /\ UNCHANGED <<api, caches, queues, crc, history, external>>

\* CreateOrUpdate decides by the cache: a Create of what exists and an Update
\* of what is gone fail, and the key is retried.
Deploy ==
    LET d == <<Ref, nrc.key>>
    IN /\ AtStep("Deploy")
       /\ IF (d \in cDep) = (d \in dep)
          THEN dep' = dep \cup {d} /\ ToStatus("Valid") /\ UNCHANGED qN
          ELSE nrc' = None /\ qN' = qN \cup {nrc.key} /\ UNCHANGED dep
       /\ UNCHANGED <<cluster, node, caches, qC, crc, history, external>>

\* Mutant: no RequeueAfter for a duplicate.
Polls_NotForDuplicates(c) == c = "ClusterNotFound"

\* RequeueAfter 30 s
Polls(c) == c \in {"ClusterNotFound", "Duplicate"}

WriteStatus ==
    /\ AtStep("Status")
    /\ NodePatch(nrc.key, ~nrc.stale, [nrc.obj EXCEPT !.cond = nrc.cond])
    /\ qN' = IF Polls(nrc.cond) \/ nrc.stale
             THEN qN \cup {nrc.key} ELSE qN
    /\ nrc' = None
    /\ UNCHANGED <<cluster, dep, caches, qC, crc, history, external>>

NodeContinues ==
    ReportNotFound \/ ensureClusterOwnerRef \/ Validate \/ Deploy \/ WriteStatus

-----------------------------------------------------------------------------
(* Watches: a cache catches up and the events that pass wake their keys. *)

BothThere(o, p) == o # None /\ p # None

\* spec or deletionTimestamp: the generation
GenerationChanged(o, p) == o.spec # p.spec \/ o.deleting # p.deleting

WakesNode(o, p) ==
    o # p /\ (BothThere(o, p) => GenerationChanged(o, p) \/ o.label # p.label)

\* Mutant: ownerRefs are not looked at.
controllerOwnerRefChanged_Never(o, p) == FALSE

controllerOwnerRefChanged(o, p) == o.owner # p.owner

conditionsEqual(o, p) == o.cond = p.cond

nodeStatusConditionsChanged(o, p) ==
    o # p /\ (BothThere(o, p) => \/ GenerationChanged(o, p)
                                 \/ controllerOwnerRefChanged(o, p)
                                 \/ ~conditionsEqual(o, p))

findClusterForNode(o) ==
    IF o = None THEN {}
    ELSE {o.spec} \cup (IF o.owner = None THEN {} ELSE {o.owner[1]})

unionScope(o, p) == findClusterForNode(o) \cup findClusterForNode(p)

SyncNodes ==
    /\ cN # node
    /\ cN' = node
    /\ qN' = qN \cup {n \in Nodes : WakesNode(cN[n], node[n])}
    /\ qC' = qC \cup UNION {unionScope(cN[n], node[n]) :
                 n \in {m \in Nodes : nodeStatusConditionsChanged(cN[m], node[m])}}
    /\ UNCHANGED <<api, cC, cDep, crc, nrc, history, external>>

NewObject(o, p) == BothThere(o, p) => o.uid # p.uid \/ o.deleting # p.deleting

\* clusterSpecOrNodeCountChanged
WakesNodes(o, p) == o # p /\ (NewObject(o, p) \/ o.count # p.count)

findNodesForCluster(c) == {n \in Nodes : cN[n] # None /\ cN[n].label = c}

SyncClusters ==
    /\ cC # cluster
    /\ cC' = cluster
    /\ qC' = qC \cup {c \in Clusters : cC[c] # cluster[c] /\ NewObject(cC[c], cluster[c])}
    /\ qN' = qN \cup UNION {findNodesForCluster(c) :
                 c \in {d \in Clusters : WakesNodes(cC[d], cluster[d])}}
    /\ UNCHANGED <<api, cN, cDep, crc, nrc, history, external>>

\* Owns(Deployment), without a predicate
SyncDeployments ==
    /\ cDep # dep
    /\ cDep' = dep
    /\ qN' = qN \cup {d[2] : d \in (cDep \ dep) \cup (dep \ cDep)}
    /\ UNCHANGED <<api, cC, cN, qC, crc, nrc, history, external>>

-----------------------------------------------------------------------------
(* Kubernetes *)

Exists(owner) == cluster[owner[1]] # None /\ cluster[owner[1]].uid = owner[2]

\* A delete call: a finalizer turns it into a deletionTimestamp.
NodeDelete(n) ==
    node' = [node EXCEPT ![n] = IF @.fin THEN [@ EXCEPT !.deleting = TRUE] ELSE None]

\* A write of node n outdates the copy that a reconcile holds of it.
Outdates(n) ==
    nrc' = IF nrc # None /\ nrc.key = n THEN [nrc EXCEPT !.stale = TRUE] ELSE nrc

Living(n) == node[n] # None /\ ~node[n].deleting

CollectNode(n) ==
    /\ Living(n) /\ node[n].owner # None /\ ~Exists(node[n].owner)
    /\ NodeDelete(n) /\ Outdates(n)
    /\ UNCHANGED <<cluster, dep, caches, queues, crc, history, external>>

CollectDeployment(n) ==
    /\ node[n] = None
    /\ \E d \in dep : d[2] = n
    /\ dep' = {d \in dep : d[2] # n}
    /\ UNCHANGED <<cluster, node, caches, queues, crc, nrc, history, external>>

-----------------------------------------------------------------------------
(* Users, and crashes *)

Disturb == external < MaxExternal /\ external' = external + 1

CreateCluster(c) ==
    /\ Disturb /\ cluster[c] = None
    /\ born' = [born EXCEPT ![c] = @ + 1]
    /\ cluster' = [cluster EXCEPT ![c] =
                     [uid |-> born[c] + 1, fin |-> FALSE, deleting |-> FALSE, count |-> 0]]
    /\ UNCHANGED <<node, dep, caches, queues, crc, nrc, asked>>

\* The operator has put its finalizer on the cluster and has seen every node
\* that is moving in.
Noticed(c) ==
    /\ cluster[c].fin
    /\ \A n \in Nodes : node[n] # None /\ node[n].spec = c
                          => cN[n] # None /\ cN[n].spec = c

DeleteCluster(c) ==
    /\ Disturb /\ cluster[c] # None /\ ~cluster[c].deleting
    /\ Patient => Noticed(c)
    /\ cluster' = [cluster EXCEPT ![c] =
                     IF @.fin THEN [@ EXCEPT !.deleting = TRUE] ELSE None]
    /\ UNCHANGED <<node, dep, caches, queues, crc, nrc, history>>

\* Nobody moves in while the cluster is on its way out, or the operator still
\* takes it for its predecessor.
Joinable(c) ==
    /\ cluster[c] # None => ~cluster[c].deleting
    /\ cC[c] # None => cluster[c] # None /\ cluster[c].uid = cC[c].uid

CreateNode(n, c) ==
    /\ Disturb /\ node[n] = None /\ cN[n] = None /\ n \notin asked
    /\ Patient => Joinable(c)
    /\ node' = [node EXCEPT ![n] =
                  [spec |-> c, label |-> None, owner |-> None, fin |-> FALSE,
                   deleting |-> FALSE, cond |-> "New"]]
    /\ UNCHANGED <<cluster, dep, caches, queues, crc, nrc, history>>

MoveNode(n, c) ==
    /\ Disturb /\ Living(n) /\ node[n].spec # c
    /\ Patient => Joinable(c)
    /\ node' = [node EXCEPT ![n].spec = c] /\ Outdates(n)
    /\ UNCHANGED <<cluster, dep, caches, queues, crc, history>>

DeleteNode(n) ==
    /\ Disturb /\ Living(n)
    /\ NodeDelete(n) /\ Outdates(n)
    /\ asked' = asked \cup {n}
    /\ UNCHANGED <<cluster, dep, caches, queues, crc, born>>

\* The caches are listed afresh and every key is queued.
Crash ==
    /\ Disturb
    /\ crc' = None /\ nrc' = None
    /\ cC' = cluster /\ cN' = node /\ cDep' = dep
    /\ qC' = {c \in Clusters : cluster[c] # None}
    /\ qN' = {n \in Nodes : node[n] # None}
    /\ UNCHANGED <<api, history>>

-----------------------------------------------------------------------------
Next ==
    \/ \E c \in Clusters : ClusterReads(c) \/ CreateCluster(c) \/ DeleteCluster(c)
    \/ ClusterWrites
    \/ \E n \in Nodes : NodeBegins(n) \/ CollectNode(n) \/ CollectDeployment(n) \/ DeleteNode(n)
    \/ \E n \in Nodes, c \in Clusters : CreateNode(n, c) \/ MoveNode(n, c)
    \/ NodeContinues
    \/ SyncNodes \/ SyncClusters \/ SyncDeployments
    \/ Crash

Spec == Init /\ [][Next]_vars

\* The work queues hand out their keys, a reconcile ends, watches deliver and
\* the garbage collector works.
Fairness ==
    /\ \A c \in Clusters : SF_vars(ClusterReads(c))
    /\ WF_vars(ClusterWrites)
    /\ \A n \in Nodes : SF_vars(NodeBegins(n)) /\ WF_vars(CollectNode(n))
                          /\ WF_vars(CollectDeployment(n))
    /\ WF_vars(NodeContinues)
    /\ WF_vars(SyncNodes) /\ WF_vars(SyncClusters) /\ WF_vars(SyncDeployments)

FairSpec == Spec /\ Fairness

-----------------------------------------------------------------------------
(* Properties *)

\* No wake-up of the cluster controller is lost: when it has nothing to do and
\* its caches are up to date, every live cluster has its finalizer and counts
\* its children, those that have left or joined it and those that changed owner
\* included (findClusterForNode, nodeStatusConditionsChanged, unionScope).
RestingCountIsRight ==
    \A c \in Clusters :
        /\ c \notin qC /\ (crc # None => crc.key # c)
        /\ cC[c] = cluster[c] /\ cN = node
        /\ cluster[c] # None /\ ~cluster[c].deleting
        => /\ cluster[c].fin
           /\ cluster[c].count = Cardinality(listChildNodes(node, c, cluster[c].uid))

\* The node controller is done with the living node n.
NodeRests(n) == Living(n) /\ n \notin qN /\ (nrc # None => nrc.key # n)

\* No wake-up of the node controller is lost: a node it is done with, by caches
\* that are up to date, is labelled with its cluster and owned by it, is Valid
\* and runs under its current name and no other.  Whatever is rejected or has
\* no cluster is polled (Reconcile, cleanupOrphanChildren).
RestingNodeIsSettled ==
    cC = cluster /\ cN = node /\ cDep = dep =>
        \A n \in Nodes : NodeRests(n) =>
            LET c == node[n].spec
            IN /\ node[n].cond = "Valid" /\ node[n].label = c
               /\ cluster[c] # None /\ node[n].owner = <<c, cluster[c].uid>>
               /\ {d \in dep : d[2] = n} = {<<c, n>>}

\* Two nodes that may not share a cluster are never both accepted there for
\* good, although each is checked against a cache that may not show the other
\* yet (Reconcile finds the siblings by label): one of them is polled.
RestingNodesDoNotClash ==
    cN = node =>
        \A n, m \in Nodes :
            /\ n # m /\ <<n, m>> \in Clash
            /\ NodeRests(n) /\ NodeRests(m)
            => node[n].spec # node[m].spec

\* Moving a node to a peer while its cluster is deleted does not get the node
\* collected through its old ownerRef: a node is deleted only when a user
\* deletes it (listChildNodes, the finalizer in Reconcile).
OnlyUsersDelete ==
    [][\A n \in Nodes : Living(n) /\ ~Living(n)' => n \in asked']_vars

\* A cluster's deletion ends, unless a node still names the cluster or is
\* owned by it and has nowhere to go (findClusterForNode,
\* nodeStatusConditionsChanged, the requeue of a blocked deletion).
DeletionEnds ==
    \A c \in Clusters :
        (cluster[c] # None /\ cluster[c].deleting)
          ~> \/ cluster[c] = None
             \/ \E n \in listChildNodes(node, c, cluster[c].uid) :
                    node[n].spec = c \/ cluster[node[n].spec] = None

\* Once users rest, NodeCount of every live cluster is the number of its
\* children: the union of old and new reference wakes the abandoned cluster too.
CountsSettle ==
    <>[](\A c \in Clusters : cluster[c] # None /\ ~cluster[c].deleting =>
            cluster[c].count = Cardinality(listChildNodes(node, c, cluster[c].uid)))

\* n has a cluster and no sibling there that it clashes with.
Undisputed(n) ==
    /\ Living(n) /\ cluster[node[n].spec] # None
    /\ \A m \in Nodes \ {n} : node[m] # None /\ node[m].spec = node[n].spec
                                => {<<n, m>>, <<m, n>>} \cap Clash = {}

\* Once users rest, a node whose cluster exists and that clashes with nobody
\* runs under its current name only, although it was moved, was rejected or
\* lost its Deployment to an outdated cleanup; what a deleted node had is gone
\* (cleanupOrphanChildren, the self-poll of a rejected node, Owns(Deployment)).
WorkloadsSettle ==
    <>[](\A n \in Nodes :
            /\ Undisputed(n) => {d \in dep : d[2] = n} = {<<node[n].spec, n>>}
            /\ node[n] = None => {d \in dep : d[2] = n} = {})
===============================================================================
