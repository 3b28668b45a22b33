--------------------------- MODULE ConfigGateProofs ---------------------------
(***************************************************************************)
(* Theorems about ConfigGate: the composition is still ClusterConfig, whose *)
(* theorems therefore carry over, and the gate holds.                      *)
(***************************************************************************)
EXTENDS ConfigGate, ClusterConfigProofs

\* Every step of the composition is one of ClusterConfig, or the node
\* controller's, which leaves all of it alone.
LEMMA GateSteps == [GateNext]_gateVars => [Next]_vars
BY DEF GateNext, ClusterStep, Restart, NodeDefers, NodePasses, NodeWrites, DeploymentEvent,
       gateVars, Next

\* The node controller does not disturb the cluster controller: composed with
\* it, the cluster controller behaves as it does alone (ClusterStep, Restart).
THEOREM GateImplementsClusterConfig == GateSpec => Spec
<1>1. GateInit => Init
  BY DEF GateInit
<1> QED BY <1>1, GateSteps, PTL DEF GateSpec, Spec

-----------------------------------------------------------------------------
\* Types of what the node controller adds.
NodeTypeOK ==
    /\ dep \in Deployments \cup {None}
    /\ nrc \in NodeReconciles \cup {None}
    /\ nodeQueued \in BOOLEAN /\ flipped \in BOOLEAN
    /\ published \subseteq Hashes

LEMMA PublishedType ==
    ASSUME NEW s \in SecretObjects \cup {None}
    PROVE  Published(s) \subseteq Hashes
BY DEF Published, isClusterConfigReady, SecretObjects

\* Every state of the two controllers together is well typed.
THEOREM GateTypeCorrect == GateSpec => []GateTypeOK
<1>1. TypeOK /\ GateInit => NodeTypeOK
  BY PublishedType DEF GateInit, NodeTypeOK, TypeOK
<1>2. TypeOK /\ TypeOK' /\ NodeTypeOK /\ [GateNext]_gateVars => NodeTypeOK'
  <2> SUFFICES ASSUME TypeOK, TypeOK', NodeTypeOK, [GateNext]_gateVars PROVE NodeTypeOK'
    OBVIOUS
  <2>1. CASE ClusterStep
    <3>1. published' \subseteq Hashes
      <4>1. secret' \in SecretObjects \cup {None}
        BY DEF TypeOK
      <4>2. Published(secret') \subseteq Hashes
        BY <4>1 DEF Published, isClusterConfigReady, SecretObjects
      <4>3. published' = published \cup Published(secret')
        BY <2>1 DEF ClusterStep
      <4>4. published \subseteq Hashes
        BY DEF NodeTypeOK
      <4> QED BY <4>2, <4>3, <4>4
    <3>2. flipped' \in BOOLEAN /\ nodeQueued' \in BOOLEAN
      BY <2>1 DEF ClusterStep, ClusterEvent, Stale, NodeTypeOK
    <3>3. UNCHANGED <<dep, nrc>>
      BY <2>1 DEF ClusterStep
    <3> QED BY <3>1, <3>2, <3>3 DEF NodeTypeOK
  <2>2. CASE Restart \/ NodeDefers \/ DeploymentEvent
    BY <2>2 DEF Restart, NodeDefers, DeploymentEvent, NodeTypeOK
  <2>3. CASE NodePasses
    <3>1. PICK a \in Names \cup {None} : NodePass(a)
      BY <2>3 DEF NodePasses, TypeOK
    <3>2. nrc' \in NodeReconciles /\ nodeQueued' = FALSE
      BY <3>1 DEF NodePass, NodeReconciles, TypeOK
    <3>3. UNCHANGED <<dep, flipped, published>>
      BY <2>3 DEF NodePasses
    <3> QED BY <3>2, <3>3 DEF NodeTypeOK
  <2>4. CASE NodeWrites
    <3>1. nrc \in NodeReconciles /\ (cSecret # None => cSecret.xml \in Xmls \cup {None})
      BY <2>4 DEF NodeWrites, NodeTypeOK, TypeOK, SecretObjects
    <3>2. dep' \in Deployments
      BY <2>4, <3>1 DEF NodeWrites, NodeReconciles, Deployments
    <3> QED BY <2>4, <3>2 DEF NodeWrites, NodeTypeOK
  <2>5. CASE UNCHANGED gateVars
    BY <2>5 DEF gateVars, nodeVars, NodeTypeOK
  <2> QED BY <2>1, <2>2, <2>3, <2>4, <2>5 DEF GateNext
<1>3. TypeOK /\ NodeTypeOK => GateTypeOK
  BY DEF NodeTypeOK, GateTypeOK
<1> QED BY <1>1, <1>2, <1>3, GateImplementsClusterConfig, TypeCorrect, PTL DEF GateSpec

-----------------------------------------------------------------------------
\* What the Secret and its cached copy vouch for has been published, and so
\* has what a node reconcile past the gate goes by.
GateInv ==
    /\ Published(secret) \subseteq published
    /\ Published(cSecret) \subseteq published
    /\ nrc # None /\ nrc.adm # None => <<nrc.inp, nrc.adm>> \in published
    /\ GateHolds

\* An open gate has seen a cluster.xml stamped with the spec and admin in hand.
LEMMA OpenMeansPublished ==
    ASSUME TypeOK, NEW a \in cAdmins, Open(a)
    PROVE  <<cInp, a>> \in Published(cSecret)
<1>1. isClusterConfigReady(cSecret) /\ cSecret.hash = <<cInp, a>>
  BY DEF Open, clusterConfigStale
<1>2. <<cInp, a>> # None
  BY ClusterConfigAssumption DEF TypeOK
<1> QED BY <1>1, <1>2 DEF Published

\* While the cluster has an admin, no Deployment is written for inputs of which
\* no cluster.xml had been published, although the spec edit reaches the node
\* controller before the condition and the Secret follow (Reconcile 5.7).
THEOREM GateAlwaysHolds == GateSpec => []GateHolds
<1>1. GateInit => GateInv
  BY DEF GateInit, Init, GateInv, GateHolds
<1>2. TypeOK /\ NodeTypeOK /\ GateInv /\ [GateNext]_gateVars => GateInv'
  <2> SUFFICES ASSUME TypeOK, NodeTypeOK, GateInv, [GateNext]_gateVars PROVE GateInv'
    OBVIOUS
  <2>0. Published(cSecret)' = Published(cSecret) \/ Published(cSecret)' = Published(secret)
    BY GateSteps, SecretReads DEF Published, isClusterConfigReady
  <2>1. CASE ClusterStep
    <3>1. /\ Published(secret)' \subseteq published' /\ published \subseteq published'
          /\ UNCHANGED <<dep, nrc>>
      BY <2>1 DEF ClusterStep, Published, isClusterConfigReady
    <3> QED BY <2>0, <3>1 DEF GateInv, GateHolds
  <2>2. CASE Restart
    <3>1. UNCHANGED <<secret, dep, published>> /\ nrc' = None
      BY <2>2 DEF Restart, Crash
    <3> QED BY <2>0, <3>1 DEF GateInv, GateHolds, Published, isClusterConfigReady
  <2>3. CASE NodeDefers \/ DeploymentEvent \/ UNCHANGED gateVars
    <3>1. UNCHANGED <<secret, cSecret, dep, published, nrc>>
      BY <2>3 DEF NodeDefers, DeploymentEvent, gateVars, nodeVars, vars, caches
    <3> QED BY <3>1 DEF GateInv, GateHolds, Published, isClusterConfigReady
  <2>4. CASE NodePasses
    <3>1. UNCHANGED <<secret, cSecret, dep, published>>
      BY <2>4 DEF NodePasses, vars, caches
    <3>2. nrc'.adm # None => <<nrc'.inp, nrc'.adm>> \in published
      BY <2>4, OpenMeansPublished DEF NodePasses, NodePass, GateInv
    <3> QED BY <3>1, <3>2 DEF GateInv, GateHolds, Published, isClusterConfigReady
  <2>5. CASE NodeWrites
    <3>1. UNCHANGED <<secret, cSecret, published>> /\ nrc' = None
          /\ dep'.inp = nrc.inp /\ dep'.adm = nrc.adm
      BY <2>5 DEF NodeWrites, vars, caches
    <3> QED BY <2>5, <3>1 DEF NodeWrites, GateInv, GateHolds, Published, isClusterConfigReady
  <2> QED BY <2>1, <2>2, <2>3, <2>4, <2>5 DEF GateNext
<1>3. GateTypeOK => TypeOK /\ NodeTypeOK
  BY DEF GateTypeOK, NodeTypeOK
<1>4. GateInv => GateHolds
  BY DEF GateInv
<1> QED BY <1>1, <1>2, <1>3, <1>4, GateTypeCorrect, PTL DEF GateSpec

\* What the gate opens on, if a deleted Job takes its pods along and no Secret
\* predates the hash: a cluster.xml that genclust made from exactly the spec
\* in hand, with the admin in hand as its host (clusterConfigStale).
GateSeesItsConfig ==
    \A a \in cAdmins : Open(a) => cSecret.xml.inp = cInp /\ cSecret.xml.host = a

\* The gate opens on a cluster.xml of the inputs in hand, not only on one that
\* claims to be (clusterConfigStale).
THEOREM GateOpensOnItsConfig ==
    ~PodsLinger /\ ~LegacySecret => (GateSpec => []GateSeesItsConfig)
<1>1. TypeOK /\ MatchInv => GateSeesItsConfig
  <2> SUFFICES ASSUME TypeOK, MatchInv, NEW a \in cAdmins, Open(a)
               PROVE  cSecret.xml.inp = cInp /\ cSecret.xml.host = a
    BY DEF GateSeesItsConfig
  <2>1. isClusterConfigReady(cSecret) /\ cSecret.hash = <<cInp, a>>
    BY DEF Open, clusterConfigStale
  <2> QED BY <2>1 DEF MatchInv, Match, isClusterConfigReady
<1> QED BY <1>1, GateImplementsClusterConfig, TypeCorrect, AlwaysMatches, PTL

-----------------------------------------------------------------------------
\* Unless somebody is to look at the node, its Deployment, or the one about to
\* be written, is that of the spec in the cache.
FollowInv ==
    ~nodeQueued => \/ nrc # None /\ nrc.inp = cInp
                   \/ nrc = None /\ dep # None /\ dep.inp = cInp

\* The cache does not show another spec without waking the node controller.
LEMMA NewSpecWakes ==
    ASSUME TypeOK, HoldsInv, CacheInv, ClusterStep
    PROVE  UNCHANGED cInp \/ nodeQueued'
<1>1. CASE Reconcile
  BY <1>1, ReconcileCaches DEF caches, cCluster
<1>2. CASE SyncCluster
  <2>1. CASE "edit" \in lag
    BY <1>2, <2>1 DEF ClusterStep, ClusterEvent, SyncCluster, Stale
  <2>2. CASE "edit" \notin lag
    BY <1>2, <2>2 DEF SyncCluster, CacheInv
  <2> QED BY <2>1, <2>2
<1>3. CASE Sync /\ ~SyncCluster
  BY <1>3 DEF Sync, SyncAdmins, SyncKey, SyncSecret, SyncJob, cCluster
<1>4. CASE Workload \/ Disturbance
  BY <1>4 DEF Workload, GenclustSucceeds, GenclustFails, CollectPods, JobEnds, JobFrame,
         Disturbance, EditCluster, ChangeAdmins, ChangeKey, DeleteSecret, ToggleAdmission,
         GenclustPrintsNothing, LosePods, ApiError, caches, cCluster
<1> QED BY <1>1, <1>2, <1>3, <1>4 DEF ClusterStep

LEMMA FollowStep ==
    ASSUME TypeOK, HoldsInv, CacheInv, NodeTypeOK, FollowInv, [GateNext]_gateVars
    PROVE  FollowInv'
<1>1. CASE ClusterStep
  <2>1. UNCHANGED <<dep, nrc>> /\ (nodeQueued => nodeQueued')
    BY <1>1 DEF ClusterStep
  <2> QED BY <1>1, <2>1, NewSpecWakes DEF FollowInv
<1>2. CASE Restart \/ NodeDefers \/ DeploymentEvent
  BY <1>2 DEF Restart, NodeDefers, DeploymentEvent, FollowInv
<1>3. CASE NodePasses
  <2>1. PICK a \in Names \cup {None} : NodePass(a)
    BY <1>3 DEF NodePasses, TypeOK
  <2>2. nrc' \in NodeReconciles /\ nrc'.inp = cInp
    BY <2>1 DEF NodePass, NodeReconciles, TypeOK
  <2>3. UNCHANGED cInp
    BY <1>3 DEF NodePasses, vars, caches, cCluster
  <2> QED BY <2>2, <2>3, AbsentIsNoDeployment DEF FollowInv
<1>4. CASE NodeWrites
  <2>1. nrc # None /\ nrc' = None /\ dep'.inp = nrc.inp /\ UNCHANGED cInp
        /\ (nodeQueued => nodeQueued')
    BY <1>4 DEF NodeWrites, vars, caches, cCluster
  <2>2. cSecret # None => cSecret.xml \in Xmls \cup {None}
    BY DEF TypeOK, SecretObjects
  <2>3. dep' \in Deployments
    BY <1>4, <2>1, <2>2 DEF NodeWrites, NodeTypeOK, NodeReconciles, Deployments
  <2> QED BY <2>1, <2>3, AbsentIsNoDeployment DEF FollowInv
<1>5. CASE UNCHANGED gateVars
  BY <1>5 DEF gateVars, nodeVars, vars, caches, cCluster, FollowInv
<1> QED BY <1>1, <1>2, <1>3, <1>4, <1>5 DEF GateNext

\* A node nobody is to look at has the Deployment of the spec in force: an edit
\* that arrives between the gate and the write, or while the Deployment is
\* deferred, is not missed (Reconcile 5.7 and 6, clusterSpecOrNodeCountChanged).
THEOREM NoDeferralIsForgotten == GateSpec => []RestingDeploymentIsCurrent
<1>1. GateInit => FollowInv
  BY DEF GateInit, FollowInv
<1>2. CacheInv /\ FollowInv => RestingDeploymentIsCurrent
  BY DEF CacheInv, FollowInv, RestingDeploymentIsCurrent
<1>3. GateTypeOK => NodeTypeOK
  BY DEF GateTypeOK, NodeTypeOK
<1>4. TypeOK /\ HoldsInv /\ CacheInv /\ NodeTypeOK /\ FollowInv /\ [GateNext]_gateVars
        => FollowInv'
  BY FollowStep
<1> QED BY <1>1, <1>2, <1>3, <1>4, GateImplementsClusterConfig, GateTypeCorrect,
           AlwaysCurrent, PTL DEF GateSpec
=============================================================================
