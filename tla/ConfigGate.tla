------------------------------ MODULE ConfigGate ------------------------------
(***************************************************************************)
(* ClusterConfig composed with the node controller's handling of the       *)
(* Deployment of one runtime node.  A node reconcile first passes a gate   *)
(* (step 5.7 of Reconcile): while cluster.xml is missing, or does not      *)
(* match the spec in hand, Deployment writes are deferred and the node is  *)
(* looked at again 30 seconds later.  Past the gate the Secret is read a   *)
(* second time, its data's hash is stamped on the pod template and the     *)
(* Deployment is written; a new hash rolls the pods.                       *)
(*                                                                         *)
(* Both controllers read through the same caches.  The node controller is  *)
(* woken by events of the cluster (a new generation, or ClusterConfigReady *)
(* changing between True and False) and of its own Deployment: it watches  *)
(* neither the cluster-config Secret nor its sibling nodes.  The number of *)
(* nodes is constant here, admins come and go by changes of spec.type.     *)
(***************************************************************************)
EXTENDS ClusterConfig

VARIABLES
    dep,        \* the node's Deployment, or None
    nodeQueued, \* the node's key is in its work queue (or on a timer)
    nrc,        \* a node reconcile past the gate, or None
    flipped,    \* ClusterConfigReady changed sides since the cache caught up
    published   \* hashes with which a cluster.xml has been in the Secret

nodeVars == <<dep, nodeQueued, nrc, flipped, published>>
gateVars == <<vars, nodeVars>>

\* adm is None when the cluster has no admin, which the gate lets through.
\* stamp is what curity.io/cluster-config-hash was computed from: None for
\* the placeholder; unstamped when there was no Secret.
NodeReconciles == [inp: Inps, adm: Names \cup {None}]
Deployments == [inp: Inps, adm: Names \cup {None}, stamp: Xmls \cup {None}, stamped: BOOLEAN]

\* nil is neither.
ASSUME AbsentIsNoDeployment == None \notin Deployments /\ None \notin NodeReconciles

GateTypeOK ==
    /\ TypeOK
    /\ dep \in Deployments \cup {None}
    /\ nrc \in NodeReconciles \cup {None}
    /\ nodeQueued \in BOOLEAN /\ flipped \in BOOLEAN
    /\ published \subseteq Hashes

\* The hash a Secret vouches for with real data.
Published(s) ==
    IF isClusterConfigReady(s) /\ s.hash # None THEN {s.hash} ELSE {}

GateInit ==
    /\ Init
    /\ dep = None /\ nrc = None /\ nodeQueued = TRUE /\ flipped = FALSE
    /\ published = Published(secret)

-----------------------------------------------------------------------------
(* The node controller. *)

\* Mutant: the condition alone decides.
clusterConfigStale_Never(a) == FALSE

\* Read from the caches with the cluster's spec and the admin in hand.
clusterConfigStale(a) ==
    \/ ~isClusterConfigReady(cSecret)
    \/ cSecret.hash # <<cInp, a>>
    \/ KeyRotated

NodeStart == nodeQueued /\ nrc = None

Open(a) == cCond = "SecretReady" /\ ~clusterConfigStale(a)

NodePass(a) == nrc' = [inp |-> cInp, adm |-> a] /\ nodeQueued' = FALSE

\* Mutant: no RequeueAfter.
NodeDefers_NoRequeue ==
    /\ NodeStart
    /\ \E a \in cAdmins : ~Open(a)
    /\ nodeQueued' = FALSE
    /\ UNCHANGED <<vars, dep, nrc, flipped, published>>

\* The Deployment is left alone (or not created), with a requeue.
NodeDefers ==
    /\ NodeStart
    /\ \E a \in cAdmins : ~Open(a)
    /\ nodeQueued' = TRUE
    /\ UNCHANGED <<vars, dep, nrc, flipped, published>>

NodePasses ==
    /\ NodeStart
    /\ \/ cAdmins = {} /\ NodePass(None)
       \/ \E a \in cAdmins : Open(a) /\ NodePass(a)
    /\ UNCHANGED <<vars, dep, flipped, published>>

\* The Secret is read again; len(data) > 0 holds of the placeholder too.  The
\* node owns the Deployment, so a change of it wakes the controller.
NodeWrites ==
    /\ nrc # None
    /\ dep' = [inp |-> nrc.inp, adm |-> nrc.adm,
               stamp |-> IF cSecret = None THEN None ELSE cSecret.xml,
               stamped |-> cSecret # None]
    /\ nrc' = None
    /\ nodeQueued' = (nodeQueued \/ dep' # dep)
    /\ UNCHANGED <<vars, flipped, published>>

\* The Deployment's status changes, or the informer resyncs.
DeploymentEvent ==
    /\ dep # None
    /\ nodeQueued' = TRUE
    /\ UNCHANGED <<vars, dep, nrc, flipped, published>>

-----------------------------------------------------------------------------
(* Composition: what a step of ClusterConfig means for the node controller. *)

\* Mutant: a new generation passes no event.
ClusterEvent_StatusOnly == Stale /\ ~Stale' /\ flipped

\* The cluster's event arrives with the cache's update; clusterSpecOrNodeCountChanged
\* looks at the generation and at the status of ClusterConfigReady.
ClusterEvent == Stale /\ ~Stale' /\ ("edit" \in lag \/ flipped)

ClusterStep ==
    /\ Reconcile \/ Sync \/ Workload \/ Disturbance
    /\ flipped' = (Stale' /\ (flipped \/ (cond = "SecretReady") # (cond' = "SecretReady")))
    /\ nodeQueued' = (nodeQueued \/ ClusterEvent)
    /\ published' = published \cup Published(secret')
    /\ UNCHANGED <<dep, nrc>>

\* Both controllers live in the operator's process.
Restart ==
    /\ Crash
    /\ nrc' = None /\ nodeQueued' = TRUE /\ flipped' = FALSE
    /\ UNCHANGED <<dep, published>>

GateNext ==
    \/ ClusterStep \/ Restart
    \/ NodeDefers \/ NodePasses \/ NodeWrites \/ DeploymentEvent

GateSpec == GateInit /\ [][GateNext]_gateVars

\* As in ClusterConfig, and the node's work queue hands out its key.  Nothing
\* is assumed of the Deployment's events.
GateFairness ==
    /\ Fairness
    /\ WF_gateVars(NodeDefers) /\ WF_gateVars(NodePasses) /\ WF_gateVars(NodeWrites)

FairGateSpec == GateSpec /\ GateFairness

-----------------------------------------------------------------------------
(* Properties *)

\* The gate holds: a Deployment written while the cluster has an admin is
\* never for inputs (image, packages, admin host) for which no cluster.xml had
\* been published, although the spec edit reaches the node controller before
\* the condition flips and the Secret is reset (Reconcile 5.7,
\* clusterConfigStale).
GateHolds ==
    dep # None /\ dep.adm # None => <<dep.inp, dep.adm>> \in published

\* A node the controller has no reason to look at has its Deployment, and of
\* the spec in force: neither a deferral without an event to end it, nor an
\* edit that arrives between the gate and the write, leaves an earlier one
\* behind (Reconcile 5.7 and 6).  The stamped hash is DeploymentFollows'.
RestingDeploymentIsCurrent ==
    ~nodeQueued /\ nrc = None /\ "edit" \notin lag => dep # None /\ dep.inp = inp

\* A deferral "costs one interval, never a stalled Deployment": once users
\* leave the cluster alone, the Deployment carries the current spec and the
\* hash of the cluster.xml in the Secret (Reconcile 5.7 and 6).
DeploymentFollows ==
    <>[](Cardinality(admins) = 1 /\ key \in GoodKeys /\ admitted)
      => <>[](dep # None /\ dep.inp = inp /\ secret # None /\ dep.stamp = secret.xml)
==============================================================================
