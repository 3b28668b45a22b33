----------------------- MODULE ClusterOwnershipProofs -----------------------
(***************************************************************************)
(* Theorems about ClusterOwnership, for any number of clusters and nodes:  *)
(* types, that nothing but a user's request deletes a node, and that       *)
(* neither controller misses a change that concerns it.                    *)
(***************************************************************************)
EXTENDS ClusterOwnership, FiniteSetTheorems, TLAPS

(* Types. *)

LEMMA ChildrenCounted ==
    ASSUME NEW S \in SUBSET Nodes
    PROVE  IsFiniteSet(S) /\ Cardinality(S) \in Nat
BY OwnershipAssumption, FS_Subset, FS_CardinalityType

\* A node written with a value of the right type, and a deleted one.
LEMMA NodeWritten ==
    ASSUME node \in OptNodes, NEW n \in Nodes, NEW new \in NodeObjects \cup {None}
    PROVE  [node EXCEPT ![n] = new] \in OptNodes
BY DEF OptNodes

LEMMA NodeDeleted ==
    ASSUME node \in OptNodes, NEW n \in Nodes, node[n] # None, NodeDelete(n)
    PROVE  node' \in OptNodes
<1>1. node[n] \in NodeObjects
  BY DEF OptNodes
<1>2. [node[n] EXCEPT !.deleting = TRUE] \in NodeObjects
  BY <1>1 DEF NodeObjects
<1> QED BY <1>2 DEF NodeDelete, OptNodes

LEMMA OutdatesTyped ==
    ASSUME nrc \in NodeReconciles \cup {None}, NEW n \in Nodes, Outdates(n)
    PROVE  nrc' \in NodeReconciles \cup {None}
BY DEF Outdates, NodeReconciles

LEMMA ClusterUpdateTyped ==
    ASSUME TypeOK, crc # None, NEW new \in ClusterObjects \cup {None}, NEW r \in BOOLEAN,
           ClusterUpdate(new, r)
    PROVE  cluster' \in OptClusters /\ qC' \subseteq Clusters
<1>1. crc.key \in Clusters
  BY DEF TypeOK, ClusterReconciles
<1> QED BY <1>1 DEF ClusterUpdate, TypeOK, OptClusters

LEMMA ClusterTyped ==
    ASSUME TypeOK, (\E c \in Clusters : ClusterReads(c)) \/ ClusterWrites
    PROVE  TypeOK'
<1>1. ASSUME NEW c \in Clusters, ClusterReads(c) PROVE TypeOK'
  <2>1. cC[c] \in ClusterObjects \cup {None}
    BY DEF TypeOK, OptClusters
  <2>2. Cardinality(listChildNodes(cN, c, cC[c].uid)) \in Nat
    BY ChildrenCounted DEF listChildNodes
  <2>3. crc' \in ClusterReconciles \cup {None}
    BY <1>1, <2>1, <2>2 DEF ClusterReads, ClusterReconciles
  <2> QED BY <1>1, <2>3 DEF ClusterReads, TypeOK, api, caches, history
<1>2. CASE ClusterWrites
  <2>1. crc # None /\ crc \in ClusterReconciles
    BY <1>2 DEF ClusterWrites, BlockDeletion, RemoveFinalizer, AddFinalizer, CountNodes, Deleted,
                TypeOK
  <2>2. crc.key \in Clusters /\ crc.obj \in ClusterObjects /\ crc.kids \in Nat
    BY <2>1 DEF ClusterReconciles
  <2>3. [crc.obj EXCEPT !.fin = TRUE] \in ClusterObjects
        /\ [crc.obj EXCEPT !.count = crc.kids] \in ClusterObjects
    BY <2>2 DEF ClusterObjects
  <2>4. cluster' \in OptClusters /\ qC' \subseteq Clusters
    <3>1. CASE BlockDeletion
      BY <2>2, <3>1 DEF BlockDeletion, TypeOK
    <3>2. CASE RemoveFinalizer
      BY <2>1, <3>2, ClusterUpdateTyped DEF RemoveFinalizer
    <3>3. CASE AddFinalizer
      BY <2>1, <2>3, <3>3, ClusterUpdateTyped DEF AddFinalizer
    <3>4. CASE CountNodes
      BY <2>1, <2>3, <3>4, ClusterUpdateTyped DEF CountNodes
    <3> QED BY <1>2, <3>1, <3>2, <3>3, <3>4 DEF ClusterWrites
  <2>5. ClusterEnds
    BY <1>2 DEF ClusterWrites, BlockDeletion, RemoveFinalizer, AddFinalizer, CountNodes
  <2> QED BY <2>4, <2>5 DEF ClusterEnds, TypeOK, caches, history
<1> QED BY <1>1, <1>2

LEMMA NodeBeginsTyped ==
    ASSUME TypeOK, NEW n \in Nodes, NodeBegins(n)
    PROVE  TypeOK'
<1>0. cN[n] \in NodeObjects \cup {None} /\ node \in OptNodes
  BY DEF TypeOK, OptNodes
<1>1. CASE ForgetNode(n)
  BY <1>1 DEF ForgetNode, TypeOK, api, caches, history
<1>2. CASE ReleaseNode(n)
  <2>1. node' \in OptNodes
    BY <1>0, <1>2, NodeWritten DEF ReleaseNode, NodePatch
  <2> QED BY <1>2, <2>1 DEF ReleaseNode, TypeOK, caches, history
<1>3. CASE LabelNode(n)
  <2>1. [cN[n] EXCEPT !.fin = TRUE, !.label = cN[n].spec] \in NodeObjects
    BY <1>0, <1>3 DEF LabelNode, NodeObjects
  <2>2. node' \in OptNodes
    BY <1>0, <1>3, <2>1, NodeWritten DEF LabelNode, NodePatch
  <2> QED BY <1>3, <2>2 DEF LabelNode, TypeOK, caches, queues, history
<1>4. CASE CleanUp(n)
  <2>1. nrc' \in NodeReconciles
    BY <1>0, <1>4 DEF CleanUp, NodeReconciles, NodeObjects
  <2> QED BY <1>4, <2>1 DEF CleanUp, cleanupOrphanChildren, TypeOK, caches, history
<1> QED BY <1>1, <1>2, <1>3, <1>4 DEF NodeBegins

LEMMA NodeContinuesTyped ==
    ASSUME TypeOK, NodeContinues
    PROVE  TypeOK'
<1>0. nrc # None /\ nrc \in NodeReconciles
  BY DEF NodeContinues, ReportNotFound, ensureClusterOwnerRef, Validate, Deploy, WriteStatus,
         AtStep, TypeOK
<1>1. nrc.key \in Nodes /\ nrc.obj \in NodeObjects /\ nrc.cond \in Conds /\ Ref \in Clusters
  BY <1>0 DEF NodeReconciles, NodeObjects, Ref
<1>2. ASSUME NEW c \in Conds, ToStatus(c) PROVE nrc' \in NodeReconciles
  BY <1>0, <1>2 DEF ToStatus, NodeReconciles
<1>3. CASE ReportNotFound
  BY <1>2, <1>3 DEF ReportNotFound, Conds, TypeOK, api, caches, queues, history
<1>4. CASE ensureClusterOwnerRef
  <2>1. cC[Ref] \in ClusterObjects
    BY <1>1, <1>4 DEF ensureClusterOwnerRef, TypeOK, OptClusters
  <2>2. Owner \in Owners
    BY <1>1, <2>1 DEF Owner, Owners, ClusterObjects
  <2>3. [nrc.obj EXCEPT !.owner = Owner] \in NodeObjects
    BY <1>1, <2>2 DEF NodeObjects
  <2>4. node' \in OptNodes
    BY <1>1, <1>4, <2>3, NodeWritten DEF ensureClusterOwnerRef, NodePatch, TypeOK
  <2> QED BY <1>1, <1>4, <2>4 DEF ensureClusterOwnerRef, TypeOK, caches, history
<1>5. CASE Validate
  <2>1. nrc' \in NodeReconciles
    BY <1>0, <1>2, <1>5 DEF Validate, Conds, NodeReconciles
  <2> QED BY <1>5, <2>1 DEF Validate, TypeOK, api, caches, queues, history
<1>6. CASE Deploy
  <2>1. <<Ref, nrc.key>> \in Deployments
    BY <1>1 DEF Deployments
  <2> QED BY <1>1, <1>2, <1>6, <2>1 DEF Deploy, Conds, TypeOK, caches, history
<1>7. CASE WriteStatus
  <2>1. [nrc.obj EXCEPT !.cond = nrc.cond] \in NodeObjects
    BY <1>1 DEF NodeObjects
  <2>2. node' \in OptNodes
    BY <1>1, <1>7, <2>1, NodeWritten DEF WriteStatus, NodePatch, TypeOK
  <2> QED BY <1>1, <1>7, <2>2 DEF WriteStatus, TypeOK, caches, history
<1> QED BY <1>3, <1>4, <1>5, <1>6, <1>7 DEF NodeContinues

LEMMA SyncTyped ==
    ASSUME TypeOK, SyncNodes \/ SyncClusters \/ SyncDeployments
    PROVE  TypeOK'
<1>1. CASE SyncNodes
  <2>1. ASSUME NEW n \in Nodes PROVE unionScope(cN[n], node[n]) \subseteq Clusters
    BY DEF unionScope, findClusterForNode, TypeOK, OptNodes, NodeObjects, Owners
  <2>2. qC' \subseteq Clusters
    BY <1>1, <2>1 DEF SyncNodes, TypeOK
  <2> QED BY <1>1, <2>2 DEF SyncNodes, TypeOK, api, history
<1>2. CASE SyncClusters
  BY <1>2 DEF SyncClusters, findNodesForCluster, TypeOK, api, history
<1>3. CASE SyncDeployments
  BY <1>3 DEF SyncDeployments, Deployments, TypeOK, api, history
<1> QED BY <1>1, <1>2, <1>3

LEMMA CollectTyped ==
    ASSUME TypeOK, NEW n \in Nodes, CollectNode(n) \/ CollectDeployment(n) \/ DeleteNode(n)
    PROVE  TypeOK'
<1>1. CASE CollectNode(n) \/ DeleteNode(n)
  <2>1. node' \in OptNodes
    BY <1>1, NodeDeleted DEF CollectNode, DeleteNode, Living, TypeOK
  <2>2. nrc' \in NodeReconciles \cup {None}
    BY <1>1, OutdatesTyped DEF CollectNode, DeleteNode, TypeOK
  <2> QED BY <1>1, <2>1, <2>2 DEF CollectNode, DeleteNode, Disturb, TypeOK, caches, queues, history
<1>2. CASE CollectDeployment(n)
  BY <1>2 DEF CollectDeployment, TypeOK, caches, queues, history
<1> QED BY <1>1, <1>2

LEMMA UsersTyped ==
    ASSUME TypeOK, NEW c \in Clusters,
           \/ CreateCluster(c) \/ DeleteCluster(c)
           \/ \E n \in Nodes : CreateNode(n, c) \/ MoveNode(n, c)
    PROVE  TypeOK'
<1>1. CASE CreateCluster(c)
  <2>1. born[c] + 1 \in Nat \ {0}
    BY DEF TypeOK
  <2>2. [uid |-> born[c] + 1, fin |-> FALSE, deleting |-> FALSE, count |-> 0] \in ClusterObjects
    BY <2>1 DEF ClusterObjects
  <2>3. cluster' \in OptClusters /\ born' \in [Clusters -> Nat]
    BY <1>1, <2>1, <2>2 DEF CreateCluster, TypeOK, OptClusters
  <2> QED BY <1>1, <2>3 DEF CreateCluster, Disturb, TypeOK, caches, queues
<1>2. CASE DeleteCluster(c)
  <2>1. cluster[c] \in ClusterObjects
    BY <1>2 DEF DeleteCluster, TypeOK, OptClusters
  <2>2. [cluster[c] EXCEPT !.deleting = TRUE] \in ClusterObjects
    BY <2>1 DEF ClusterObjects
  <2>3. cluster' \in OptClusters
    BY <1>2, <2>2 DEF DeleteCluster, TypeOK, OptClusters
  <2> QED BY <1>2, <2>3 DEF DeleteCluster, Disturb, TypeOK, caches, queues, history
<1>3. ASSUME NEW n \in Nodes, CreateNode(n, c) PROVE TypeOK'
  <2>1. [spec |-> c, label |-> None, owner |-> None, fin |-> FALSE,
         deleting |-> FALSE, cond |-> "New"] \in NodeObjects
    BY DEF NodeObjects, Conds
  <2>2. node' \in OptNodes
    BY <1>3, <2>1, NodeWritten DEF CreateNode, TypeOK
  <2> QED BY <1>3, <2>2 DEF CreateNode, Disturb, TypeOK, caches, queues, history
<1>4. ASSUME NEW n \in Nodes, MoveNode(n, c) PROVE TypeOK'
  <2>1. node[n] \in NodeObjects
    BY <1>4 DEF MoveNode, Living, TypeOK, OptNodes
  <2>2. [node[n] EXCEPT !.spec = c] \in NodeObjects
    BY <2>1 DEF NodeObjects
  <2>3. node' \in OptNodes
    BY <1>4, <2>2 DEF MoveNode, TypeOK, OptNodes
  <2>4. nrc' \in NodeReconciles \cup {None}
    BY <1>4, OutdatesTyped DEF MoveNode, TypeOK
  <2> QED BY <1>4, <2>3, <2>4 DEF MoveNode, Disturb, TypeOK, caches, queues, history
<1> QED BY <1>1, <1>2, <1>3, <1>4

LEMMA InitTyped == Init => TypeOK
<1> SUFFICES ASSUME Init PROVE TypeOK
  OBVIOUS
<1>1. cluster \in OptClusters
  <2>1. \A c \in Clusters : Cardinality({n \in Nodes : Home[n] = c}) \in Nat
    BY ChildrenCounted
  <2> QED BY <2>1 DEF Init, OptClusters, ClusterObjects
<1>2. ASSUME NEW n \in Nodes, Home[n] # None PROVE Settled(n) \in NodeObjects
  BY <1>2, OwnershipAssumption DEF Settled, NodeObjects, Owners, Conds
<1>3. node \in OptNodes
  BY <1>2 DEF Init, OptNodes
<1>4. dep \subseteq Deployments
  BY OwnershipAssumption DEF Init, Deployments
<1> QED BY <1>1, <1>3, <1>4 DEF Init, TypeOK

\* Every state of clusters, nodes and controllers is well typed.
THEOREM TypeCorrect == Spec => []TypeOK
<1>1. TypeOK /\ [Next]_vars => TypeOK'
  <2> SUFFICES ASSUME TypeOK, [Next]_vars PROVE TypeOK'
    OBVIOUS
  <2>1. CASE UNCHANGED vars
    BY <2>1 DEF vars, api, caches, queues, history, TypeOK
  <2>2. CASE Crash
    BY <2>2 DEF Crash, Disturb, TypeOK, api, history
  <2> QED BY <2>1, <2>2, ClusterTyped, NodeBeginsTyped, NodeContinuesTyped, SyncTyped,
             CollectTyped, UsersTyped DEF Next
<1> QED BY <1>1, InitTyped, PTL DEF Spec

-----------------------------------------------------------------------------
(* Only users delete nodes. *)

\* A deletion is final: an incarnation that some copy shows as being deleted
\* is being deleted, or gone for good.
DeletionInv ==
    \A c \in Clusters :
        /\ cluster[c] # None => cluster[c].uid <= born[c]
        /\ cC[c] # None =>
             /\ cC[c].uid <= born[c]
             /\ cC[c].deleting /\ cluster[c] # None /\ cluster[c].uid = cC[c].uid
                  => cluster[c].deleting

\* What the two reconciles in progress hold: of the cluster, the same; the copy
\* of the node, unless outdated, is what API server and cache have.
HeldInv ==
    /\ crc # None =>
         /\ crc.obj.uid <= born[crc.key]
         /\ crc.obj.deleting /\ cluster[crc.key] # None /\ cluster[crc.key].uid = crc.obj.uid
              => cluster[crc.key].deleting
    /\ nrc # None /\ ~nrc.stale => node[nrc.key] = nrc.obj /\ cN[nrc.key] = nrc.obj

\* An owner is seen, as such or as the cluster named in the spec; and so is
\* every cluster named in a spec that is being deleted.
SeenInv ==
    \A n \in Nodes, c \in Clusters : node[n] # None =>
        /\ node[n].owner # None /\ node[n].owner[1] = c =>
             cN[n] # None /\ (cN[n].spec = c \/ cN[n].owner = node[n].owner)
        /\ node[n].spec = c /\ cluster[c] # None /\ cluster[c].deleting =>
             cN[n] # None /\ cN[n].spec = c

NoKids(c, uid) ==
    \A n \in Nodes : node[n] # None => node[n].spec # c /\ node[n].owner # <<c, uid>>

\* A finalizer is about to be removed only from a cluster without children.
LastChildGone ==
    crc # None /\ crc.obj.deleting /\ crc.kids = 0 /\ cluster[crc.key] = crc.obj
      => NoKids(crc.key, crc.obj.uid)

\* Owners exist, and so will the owner the controller takes from its cache.
OwnersExist ==
    \A n \in Nodes : node[n] # None =>
        /\ node[n].owner # None => Exists(node[n].owner)
        /\ cC[node[n].spec] # None => Exists(<<node[n].spec, cC[node[n].spec].uid>>)

OwnedInv == DeletionInv /\ HeldInv /\ SeenInv /\ LastChildGone /\ OwnersExist

\* A value that may be written to node n: the owner stays, or becomes the
\* existing cluster that the node names and is seen to name; so does the
\* reference, unless the cluster is one users may join.
Harmless(n, new) ==
    new # None =>
        /\ new.owner # None =>
             \/ node[n] # None /\ new.owner = node[n].owner
             \/ /\ node[n] # None /\ node[n].spec = new.owner[1]
                /\ cN[n] # None /\ cN[n].spec = new.owner[1]
                /\ Exists(new.owner)
        /\ \/ node[n] # None /\ new.spec = node[n].spec
           \/ Joinable(new.spec)

LEMMA HarmlessWrite ==
    ASSUME TypeOK, OwnedInv, NEW n \in Nodes, NEW new \in NodeObjects \cup {None}, Harmless(n, new),
           node' = [node EXCEPT ![n] = new], UNCHANGED <<cluster, cC, cN, crc, born>>,
           nrc' = None \/ nrc'.stale \/ (nrc' = nrc /\ nrc.key # n)
    PROVE  OwnedInv'
<1>1. /\ \A m \in Nodes \ {n} : node'[m] = node[m]
      /\ node'[n] = new
  BY DEF TypeOK, OptNodes
<1>2. DeletionInv'
  BY DEF OwnedInv, DeletionInv
<1>3. HeldInv'
  <2>1. nrc' # None /\ ~nrc'.stale => node'[nrc.key] = node[nrc.key] /\ nrc' = nrc
    BY <1>1 DEF TypeOK, NodeReconciles
  <2> QED BY <2>1 DEF OwnedInv, HeldInv
<1>4. SeenInv'
  BY <1>1 DEF OwnedInv, SeenInv, Harmless, Joinable
<1>5. LastChildGone'
  <2> SUFFICES ASSUME crc # None, crc.obj.deleting, crc.kids = 0, cluster[crc.key] = crc.obj
               PROVE  new # None => new.spec # crc.key /\ new.owner # <<crc.key, crc.obj.uid>>
    BY <1>1 DEF OwnedInv, LastChildGone, NoKids
  <2>1. crc.key \in Clusters /\ crc.obj # None
    BY AbsentIsNoObject DEF TypeOK, ClusterReconciles
  <2>2. NoKids(crc.key, crc.obj.uid)
    BY DEF OwnedInv, LastChildGone
  <2>3. ~Joinable(crc.key)
    BY <2>1 DEF Joinable
  <2>4. new # None => new.spec # crc.key
    BY <2>2, <2>3 DEF Harmless, NoKids
  <2>5. <<crc.key, crc.obj.uid>> # None
    <3>1. crc.obj \in ClusterObjects
      BY DEF TypeOK, ClusterReconciles
    <3>2. <<crc.key, crc.obj.uid>> \in Owners
      BY <2>1, <3>1 DEF ClusterObjects, Owners
    <3> QED BY <3>2, AbsentIsNoObject
  <2>6. new # None => new.owner # <<crc.key, crc.obj.uid>>
    <3> SUFFICES ASSUME new # None, new.owner = <<crc.key, crc.obj.uid>> PROVE FALSE
      OBVIOUS
    <3>1. new.owner # None /\ new.owner[1] = crc.key
      BY <2>5
    <3>2. node[n] # None /\ (node[n].owner = <<crc.key, crc.obj.uid>> \/ node[n].spec = crc.key)
      BY <3>1 DEF Harmless
    <3> QED BY <2>2, <3>2 DEF NoKids
  <2> QED BY <2>4, <2>6
<1>6. OwnersExist'
  <2>1. \A o : Exists(o)' = Exists(o)
    BY DEF Exists
  <2> QED BY <1>1, <2>1 DEF OwnedInv, OwnersExist, Harmless, Joinable, Exists
<1> QED BY <1>2, <1>3, <1>4, <1>5, <1>6 DEF OwnedInv

\* Nobody's reconcile goes by a node that has just been written.
LEMMA OutdatesHeld ==
    ASSUME TypeOK, NEW n \in Nodes, Outdates(n)
    PROVE  nrc' = None \/ nrc'.stale \/ (nrc' = nrc /\ nrc.key # n)
<1>1. CASE nrc # None /\ nrc.key = n
  <2>1. nrc \in NodeReconciles /\ nrc' = [nrc EXCEPT !.stale = TRUE]
    BY <1>1 DEF Outdates, TypeOK
  <2> QED BY <2>1 DEF NodeReconciles
<1>2. CASE nrc = None
  BY <1>2 DEF Outdates
<1>3. CASE nrc # None /\ nrc.key # n
  BY <1>3 DEF Outdates
<1> QED BY <1>1, <1>2, <1>3

\* A delete call, by a user or by the garbage collector.
LEMMA DeleteIsHarmless ==
    ASSUME TypeOK, NEW n \in Nodes, node[n] # None, NodeDelete(n)
    PROVE  \E new \in NodeObjects \cup {None} :
             Harmless(n, new) /\ node' = [node EXCEPT ![n] = new]
<1> DEFINE new == IF node[n].fin THEN [node[n] EXCEPT !.deleting = TRUE] ELSE None
<1>1. node[n] \in NodeObjects
  BY DEF TypeOK, OptNodes
<1>2. new \in NodeObjects \cup {None}
  BY <1>1 DEF NodeObjects
<1>3. new # None => new.owner = node[n].owner /\ new.spec = node[n].spec
  BY <1>1 DEF NodeObjects
<1>4. node' = [node EXCEPT ![n] = new]
  BY DEF NodeDelete
<1> HIDE DEF new
<1> QED BY <1>2, <1>3, <1>4 DEF Harmless

\* The node controller's writes.
LEMMA NodePatchOwned ==
    ASSUME TypeOK, OwnedInv, NEW n \in Nodes, NEW new \in NodeObjects \cup {None},
           NEW latest \in BOOLEAN, latest => Harmless(n, new), NodePatch(n, latest, new),
           UNCHANGED <<cluster, cC, cN, crc, born>>, nrc' = None
    PROVE  OwnedInv'
<1>1. CASE latest
  BY <1>1, HarmlessWrite DEF NodePatch
<1>2. CASE ~latest
  <2>1. UNCHANGED node
    BY <1>2 DEF NodePatch
  <2> QED BY <2>1 DEF OwnedInv, DeletionInv, HeldInv, SeenInv, LastChildGone, NoKids, OwnersExist,
                      Exists
<1> QED BY <1>1, <1>2

LEMMA NodeBeginsOwned ==
    ASSUME TypeOK, OwnedInv, NEW n \in Nodes, NodeBegins(n)
    PROVE  OwnedInv'
<1>0. cN[n] \in NodeObjects \cup {None}
  BY DEF TypeOK, OptNodes
<1>1. CASE ForgetNode(n)
  BY <1>1 DEF ForgetNode, api, caches, history, OwnedInv, DeletionInv, HeldInv, SeenInv,
              LastChildGone, NoKids, OwnersExist, Exists
<1>2. CASE ReleaseNode(n)
  <2>1. Harmless(n, None)
    BY DEF Harmless
  <2> QED BY <1>2, <2>1, NodePatchOwned DEF ReleaseNode, NodeStart, caches, history
<1>3. CASE LabelNode(n)
  <2> DEFINE new == [cN[n] EXCEPT !.fin = TRUE, !.label = cN[n].spec]
  <2>1. new \in NodeObjects /\ new.owner = cN[n].owner /\ new.spec = cN[n].spec
    BY <1>0, <1>3 DEF LabelNode, NodeObjects
  <2>2. NodePatch(n, node[n] = cN[n], new) /\ cN[n] # None
    BY <1>3 DEF LabelNode
  <2> HIDE DEF new
  <2>3. node[n] = cN[n] => Harmless(n, new)
    BY <2>1, <2>2 DEF Harmless
  <2> QED BY <1>3, <2>1, <2>2, <2>3, NodePatchOwned DEF LabelNode, NodeStart, caches, history
<1>4. CASE CleanUp(n)
  <2>1. nrc'.key = n /\ nrc'.obj = cN[n] /\ nrc'.stale = (node[n] # cN[n])
    BY <1>4 DEF CleanUp
  <2>2. HeldInv'
    BY <1>4, <2>1 DEF CleanUp, caches, history, OwnedInv, HeldInv
  <2> QED BY <1>4, <2>2 DEF CleanUp, caches, history, OwnedInv, DeletionInv, SeenInv,
                            LastChildGone, NoKids, OwnersExist, Exists
<1> QED BY <1>1, <1>2, <1>3, <1>4 DEF NodeBegins

LEMMA NodeContinuesOwned ==
    ASSUME TypeOK, OwnedInv, NodeContinues
    PROVE  OwnedInv'
<1>0. nrc # None /\ nrc \in NodeReconciles
  BY DEF NodeContinues, ReportNotFound, ensureClusterOwnerRef, Validate, Deploy, WriteStatus,
         AtStep, TypeOK
<1>1. nrc.key \in Nodes /\ nrc.obj \in NodeObjects /\ Ref \in Clusters /\ nrc.stale \in BOOLEAN
      /\ nrc.cond \in Conds
  BY <1>0 DEF NodeReconciles, NodeObjects, Ref
<1>2. ~nrc.stale => node[nrc.key] = nrc.obj /\ cN[nrc.key] = nrc.obj /\ nrc.obj # None
  BY <1>0, <1>1, AbsentIsNoObject DEF OwnedInv, HeldInv
<1>3. CASE ReportNotFound \/ Validate \/ Deploy
  <2>1. UNCHANGED <<cluster, node, cC, cN, crc, born>>
    BY <1>3 DEF ReportNotFound, Validate, Deploy, api, caches, history
  <2>2. nrc' = None \/ (nrc'.key = nrc.key /\ nrc'.obj = nrc.obj /\ nrc'.stale = nrc.stale)
    BY <1>0, <1>3 DEF ReportNotFound, Validate, Deploy, ToStatus, NodeReconciles
  <2>3. HeldInv'
    BY <1>0, <2>1, <2>2 DEF OwnedInv, HeldInv
  <2> QED BY <2>1, <2>3 DEF OwnedInv, DeletionInv, SeenInv, LastChildGone, NoKids, OwnersExist,
                            Exists
<1>4. CASE ensureClusterOwnerRef
  <2> DEFINE new == [nrc.obj EXCEPT !.owner = Owner]
  <2>1. cC[Ref] \in ClusterObjects
    BY <1>1, <1>4 DEF ensureClusterOwnerRef, TypeOK, OptClusters
  <2>2. Owner \in Owners /\ Owner[1] = Ref
    BY <1>1, <2>1 DEF Owner, Owners, ClusterObjects
  <2>3. new \in NodeObjects /\ new.owner = Owner /\ new.spec = Ref
    BY <1>1, <2>2 DEF NodeObjects, Ref
  <2>4. ~nrc.stale => Exists(Owner)
    BY <1>1, <1>2, <1>4 DEF ensureClusterOwnerRef, OwnedInv, OwnersExist, Owner, Ref
  <2>5. NodePatch(nrc.key, ~nrc.stale, new) /\ nrc' = None
    BY <1>4 DEF ensureClusterOwnerRef
  <2> HIDE DEF new
  <2>6. ~nrc.stale => Harmless(nrc.key, new)
    BY <1>2, <2>2, <2>3, <2>4 DEF Harmless, Ref
  <2> QED BY <1>1, <1>4, <2>3, <2>5, <2>6, NodePatchOwned
          DEF ensureClusterOwnerRef, caches, history
<1>5. CASE WriteStatus
  <2> DEFINE new == [nrc.obj EXCEPT !.cond = nrc.cond]
  <2>1. new \in NodeObjects /\ new.owner = nrc.obj.owner /\ new.spec = nrc.obj.spec
    BY <1>1 DEF NodeObjects
  <2>2. NodePatch(nrc.key, ~nrc.stale, new) /\ nrc' = None
    BY <1>5 DEF WriteStatus
  <2> HIDE DEF new
  <2>3. ~nrc.stale => Harmless(nrc.key, new)
    BY <1>2, <2>1 DEF Harmless
  <2> QED BY <1>1, <1>5, <2>1, <2>2, <2>3, NodePatchOwned DEF WriteStatus, caches, history
<1> QED BY <1>3, <1>4, <1>5 DEF NodeContinues

\* A cluster whose cached copy shows its deletion and no child has none.
LEMMA ClusterReadsOwned ==
    ASSUME TypeOK, OwnedInv, NEW c \in Clusters, ClusterReads(c)
    PROVE  OwnedInv'
<1>0. UNCHANGED <<cluster, node, cC, cN, nrc, born>>
  BY DEF ClusterReads, api, caches, history
<1>1. CASE cC[c] = None
  BY <1>0, <1>1 DEF ClusterReads, OwnedInv, DeletionInv, HeldInv, SeenInv, LastChildGone,
                    OwnersExist, Exists
<1>2. CASE cC[c] # None
  <2>1. crc' = [key |-> c, obj |-> cC[c], kids |-> Cardinality(listChildNodes(cN, c, cC[c].uid))]
    BY <1>2 DEF ClusterReads
  <2>2. HeldInv'
    BY <1>0, <1>2, <2>1 DEF OwnedInv, DeletionInv, HeldInv
  <2>3. LastChildGone'
    <3> SUFFICES ASSUME cC[c].deleting, Cardinality(listChildNodes(cN, c, cC[c].uid)) = 0,
                        cluster[c] = cC[c]
                 PROVE  NoKids(c, cC[c].uid)
      BY <1>0, <2>1 DEF LastChildGone, NoKids
    <3>1. listChildNodes(cN, c, cC[c].uid) = {}
      BY ChildrenCounted, FS_EmptySet DEF listChildNodes
    <3>2. ASSUME NEW n \in Nodes, cN[n] # None
          PROVE  cN[n].spec # c /\ cN[n].owner # <<c, cC[c].uid>>
      BY <3>1, <3>2 DEF listChildNodes
    <3>3. ASSUME NEW n \in Nodes, node[n] # None, node[n].spec = c PROVE FALSE
      BY <1>2, <3>2, <3>3 DEF OwnedInv, SeenInv
    <3>4. ASSUME NEW n \in Nodes, node[n] # None, node[n].owner = <<c, cC[c].uid>> PROVE FALSE
      <4>1. cC[c] \in ClusterObjects
        BY <1>2 DEF TypeOK, OptClusters
      <4>2. <<c, cC[c].uid>> \in Owners
        BY <4>1 DEF ClusterObjects, Owners
      <4>3. node[n].owner # None /\ node[n].owner[1] = c
        BY <3>4, <4>2, AbsentIsNoObject
      <4>4. cN[n] # None /\ (cN[n].spec = c \/ cN[n].owner = node[n].owner)
        BY <3>4, <4>3 DEF OwnedInv, SeenInv
      <4> QED BY <3>2, <3>4, <4>4
    <3> QED BY <3>3, <3>4 DEF NoKids
  <2> QED BY <1>0, <2>2, <2>3 DEF OwnedInv, DeletionInv, SeenInv, OwnersExist, Exists
<1> QED BY <1>1, <1>2

LEMMA ClusterWritesOwned ==
    ASSUME TypeOK, OwnedInv, ClusterWrites
    PROVE  OwnedInv'
<1>0. /\ crc # None /\ crc \in ClusterReconciles /\ crc' = None
      /\ UNCHANGED <<node, cC, cN, nrc, born>>
  BY DEF ClusterWrites, BlockDeletion, RemoveFinalizer, AddFinalizer, CountNodes, Deleted, TypeOK,
         ClusterEnds, caches, history
<1>1. crc.key \in Clusters /\ crc.obj \in ClusterObjects /\ crc.obj # None
  BY <1>0, AbsentIsNoObject DEF ClusterReconciles
<1>2. CASE UNCHANGED cluster
  BY <1>0, <1>2 DEF OwnedInv, DeletionInv, HeldInv, SeenInv, LastChildGone, OwnersExist, Exists
<1>3. ASSUME NEW new \in ClusterObjects, new.uid = crc.obj.uid, new.deleting = crc.obj.deleting,
             cluster[crc.key] = crc.obj, cluster' = [cluster EXCEPT ![crc.key] = new]
      PROVE  OwnedInv'
  <2>1. /\ \A c \in Clusters \ {crc.key} : cluster'[c] = cluster[c]
        /\ cluster'[crc.key] = new /\ new # None
    BY <1>1, <1>3, AbsentIsNoObject DEF TypeOK, OptClusters
  <2>2. \A c \in Clusters : /\ cluster'[c] # None <=> cluster[c] # None
                            /\ cluster[c] # None => /\ cluster'[c].uid = cluster[c].uid
                                                    /\ cluster'[c].deleting = cluster[c].deleting
    BY <1>1, <1>3, <2>1
  <2>3. OwnersExist'
    <3>1. ASSUME NEW n \in Nodes, node[n] # None
          PROVE  node[n].spec \in Clusters /\ (node[n].owner # None => node[n].owner[1] \in Clusters)
      BY <3>1 DEF TypeOK, OptNodes, NodeObjects, Owners
    <3> QED BY <1>0, <2>2, <3>1 DEF OwnedInv, OwnersExist, Exists
  <2> QED BY <1>0, <2>2, <2>3 DEF OwnedInv, DeletionInv, HeldInv, SeenInv, LastChildGone
<1>4. CASE RemoveFinalizer /\ cluster[crc.key] = crc.obj
  <2>1. cluster' = [cluster EXCEPT ![crc.key] = None]
    BY <1>4 DEF RemoveFinalizer, ClusterUpdate
  <2>2. /\ \A c \in Clusters \ {crc.key} : cluster'[c] = cluster[c]
        /\ cluster'[crc.key] = None
    BY <1>1, <2>1 DEF TypeOK, OptClusters
  <2>3. NoKids(crc.key, crc.obj.uid)
    BY <1>0, <1>4 DEF RemoveFinalizer, Deleted, OwnedInv, LastChildGone
  <2>4. OwnersExist'
    <3> SUFFICES ASSUME NEW n \in Nodes, node[n] # None
                 PROVE  /\ node[n].owner # None => Exists(node[n].owner)'
                        /\ cC[node[n].spec] # None => Exists(<<node[n].spec, cC[node[n].spec].uid>>)'
      BY <1>0 DEF OwnersExist, Exists
    <3>1. node[n].spec \in Clusters /\ (node[n].owner # None => node[n].owner \in Owners)
      BY DEF TypeOK, OptNodes, NodeObjects
    <3>2. node[n].spec # crc.key
      BY <2>3 DEF NoKids
    <3>3. node[n].owner # None => node[n].owner[1] # crc.key
      <4> SUFFICES ASSUME node[n].owner # None, node[n].owner[1] = crc.key PROVE FALSE
        OBVIOUS
      <4>1. node[n].owner[2] = crc.obj.uid
        BY <1>4 DEF OwnedInv, OwnersExist, Exists
      <4>2. node[n].owner = <<crc.key, crc.obj.uid>>
        BY <3>1, <4>1 DEF Owners
      <4> QED BY <2>3, <4>2 DEF NoKids
    <3>4. node[n].owner # None => node[n].owner[1] \in Clusters
      BY <3>1 DEF Owners
    <3>5. node[n].owner # None => Exists(node[n].owner)'
      BY <1>0, <2>2, <3>3, <3>4 DEF OwnedInv, OwnersExist, Exists
    <3>6. cC[node[n].spec] # None => Exists(<<node[n].spec, cC[node[n].spec].uid>>)'
      BY <1>0, <2>2, <3>1, <3>2 DEF OwnedInv, OwnersExist, Exists
    <3> QED BY <3>5, <3>6
  <2> QED BY <1>0, <2>2, <2>4 DEF OwnedInv, DeletionInv, HeldInv, SeenInv, LastChildGone
<1>5. CASE (AddFinalizer \/ CountNodes) /\ cluster[crc.key] = crc.obj
  <2>1. PICK new \in {[crc.obj EXCEPT !.fin = TRUE], [crc.obj EXCEPT !.count = crc.kids]} :
          cluster' = [cluster EXCEPT ![crc.key] = new]
    BY <1>5 DEF AddFinalizer, CountNodes, ClusterUpdate
  <2>2. new \in ClusterObjects /\ new.uid = crc.obj.uid /\ new.deleting = crc.obj.deleting
    BY <1>0, <1>1 DEF ClusterObjects, ClusterReconciles
  <2> QED BY <1>3, <1>5, <2>1, <2>2
<1>6. BlockDeletion \/ cluster[crc.key] # crc.obj => UNCHANGED cluster
  BY DEF ClusterWrites, BlockDeletion, RemoveFinalizer, AddFinalizer, CountNodes, ClusterUpdate
<1> QED BY <1>2, <1>4, <1>5, <1>6 DEF ClusterWrites

\* Watches, crashes and the collector of Deployments leave the API server alone.
LEMMA SyncOwned ==
    ASSUME TypeOK, OwnedInv,
           \/ SyncNodes \/ SyncClusters \/ SyncDeployments \/ Crash
           \/ \E n \in Nodes : CollectDeployment(n)
    PROVE  OwnedInv'
<1>1. CASE SyncNodes
  <2>1. cN' = node /\ UNCHANGED <<cluster, node, cC, crc, nrc, born>>
    BY <1>1 DEF SyncNodes, api, history
  <2>2. HeldInv' /\ SeenInv'
    BY <2>1 DEF OwnedInv, HeldInv, SeenInv
  <2> QED BY <2>1, <2>2 DEF OwnedInv, DeletionInv, LastChildGone, NoKids, OwnersExist, Exists
<1>2. CASE SyncClusters
  <2>1. cC' = cluster /\ UNCHANGED <<cluster, node, cN, crc, nrc, born>>
    BY <1>2 DEF SyncClusters, api, history
  <2>2. DeletionInv'
    BY <2>1 DEF OwnedInv, DeletionInv
  <2>3. OwnersExist'
    BY <2>1 DEF OwnedInv, OwnersExist, Exists
  <2> QED BY <2>1, <2>2, <2>3 DEF OwnedInv, HeldInv, SeenInv, LastChildGone, NoKids
<1>3. CASE SyncDeployments \/ \E n \in Nodes : CollectDeployment(n)
  BY <1>3 DEF SyncDeployments, CollectDeployment, api, caches, queues, history, OwnedInv,
              DeletionInv, HeldInv, SeenInv, LastChildGone, NoKids, OwnersExist, Exists
<1>4. CASE Crash
  <2>1. /\ cC' = cluster /\ cN' = node /\ crc' = None /\ nrc' = None
        /\ UNCHANGED <<cluster, node, born>>
    BY <1>4 DEF Crash, api, history
  <2>2. DeletionInv' /\ HeldInv' /\ SeenInv' /\ LastChildGone'
    BY <2>1 DEF OwnedInv, DeletionInv, HeldInv, SeenInv, LastChildGone
  <2>3. OwnersExist'
    BY <2>1 DEF OwnedInv, OwnersExist, Exists
  <2> QED BY <2>2, <2>3 DEF OwnedInv
<1> QED BY <1>1, <1>2, <1>3, <1>4

\* A cluster that is created again has a new uid, so no copy of its
\* predecessor is taken for it.
LEMMA CreateClusterOwned ==
    ASSUME TypeOK, OwnedInv, NEW c \in Clusters, CreateCluster(c)
    PROVE  OwnedInv'
<1>1. /\ cluster[c] = None
      /\ born' = [born EXCEPT ![c] = @ + 1]
      /\ cluster' = [cluster EXCEPT ![c] =
                       [uid |-> born[c] + 1, fin |-> FALSE, deleting |-> FALSE, count |-> 0]]
      /\ UNCHANGED <<node, cC, cN, crc, nrc>>
  BY DEF CreateCluster, caches
<1>2. /\ \A d \in Clusters \ {c} : cluster'[d] = cluster[d] /\ born'[d] = born[d]
      /\ cluster'[c].uid = born[c] + 1 /\ ~cluster'[c].deleting
      /\ born'[c] = born[c] + 1
      /\ born[c] \in Nat
  BY <1>1 DEF TypeOK, OptClusters
<1>3. cC[c] # None => cC[c].uid \in Nat /\ cC[c].uid <= born[c]
  BY DEF TypeOK, OptClusters, ClusterObjects, OwnedInv, DeletionInv
<1>4. crc # None => crc.key \in Clusters /\ crc.obj.uid \in Nat /\ crc.obj.uid <= born[crc.key]
  BY DEF TypeOK, ClusterReconciles, ClusterObjects, OwnedInv, HeldInv
<1>5. DeletionInv'
  <2> SUFFICES ASSUME NEW d \in Clusters
               PROVE  /\ cluster'[d] # None => cluster'[d].uid <= born'[d]
                      /\ cC[d] # None =>
                           /\ cC[d].uid <= born'[d]
                           /\ cC[d].deleting /\ cluster'[d] # None /\ cluster'[d].uid = cC[d].uid
                                => cluster'[d].deleting
    BY <1>1 DEF DeletionInv
  <2>1. CASE d = c
    BY <2>1, <1>2, <1>3
  <2>2. CASE d # c
    BY <2>2, <1>2 DEF OwnedInv, DeletionInv
  <2> QED BY <2>1, <2>2
<1>6. HeldInv'
  <2>1. CASE crc # None /\ crc.key = c
    BY <2>1, <1>1, <1>2, <1>4 DEF OwnedInv, HeldInv
  <2>2. CASE crc = None \/ crc.key # c
    BY <2>2, <1>1, <1>2, <1>4 DEF OwnedInv, HeldInv
  <2> QED BY <2>1, <2>2
<1>7. SeenInv'
  BY <1>1, <1>2 DEF OwnedInv, SeenInv
<1>8. LastChildGone'
  <2>1. crc # None /\ cluster'[crc.key] = crc.obj => crc.key # c
    BY <1>2, <1>4
  <2> QED BY <1>1, <1>2, <1>4, <2>1 DEF OwnedInv, LastChildGone, NoKids
<1>9. OwnersExist'
  <2> SUFFICES ASSUME NEW n \in Nodes, node[n] # None
               PROVE  /\ node[n].owner # None => Exists(node[n].owner)'
                      /\ cC[node[n].spec] # None => Exists(<<node[n].spec, cC[node[n].spec].uid>>)'
    BY <1>1 DEF OwnersExist, Exists
  <2>1. node[n].spec \in Clusters /\ (node[n].owner # None => node[n].owner[1] \in Clusters)
    BY DEF TypeOK, OptNodes, NodeObjects, Owners
  <2>2. \A o : o[1] \in Clusters /\ Exists(o) => Exists(o)'
    BY <1>1, <1>2 DEF Exists
  <2> QED BY <1>1, <2>1, <2>2 DEF OwnedInv, OwnersExist, Exists
<1> QED BY <1>5, <1>6, <1>7, <1>8, <1>9 DEF OwnedInv

\* Users who are patient delete a cluster once its children have been seen.
LEMMA DeleteClusterOwned ==
    ASSUME Patient, TypeOK, OwnedInv, NEW c \in Clusters, DeleteCluster(c)
    PROVE  OwnedInv'
<1>1. /\ cluster[c] # None /\ ~cluster[c].deleting /\ Noticed(c) /\ cluster[c].fin
      /\ cluster[c] \in ClusterObjects
      /\ UNCHANGED <<node, cC, cN, crc, nrc, born>>
  BY DEF DeleteCluster, Noticed, caches, history, TypeOK, OptClusters
<1>2. /\ \A d \in Clusters \ {c} : cluster'[d] = cluster[d]
      /\ cluster'[c] = [cluster[c] EXCEPT !.deleting = TRUE]
  BY <1>1 DEF DeleteCluster, TypeOK, OptClusters
<1>3. cluster'[c].uid = cluster[c].uid /\ cluster'[c].deleting /\ cluster'[c] \in ClusterObjects
  BY <1>1, <1>2 DEF ClusterObjects
<1>4. DeletionInv'
  BY <1>1, <1>2, <1>3 DEF OwnedInv, DeletionInv
<1>5. crc # None => crc.key \in Clusters
  BY DEF TypeOK, ClusterReconciles
<1>6. HeldInv'
  BY <1>1, <1>2, <1>3, <1>5 DEF OwnedInv, HeldInv
<1>7. SeenInv'
  BY <1>1, <1>2 DEF OwnedInv, SeenInv, Noticed
<1>8. LastChildGone'
  <2>1. crc # None /\ crc.obj.deleting /\ cluster'[crc.key] = crc.obj => crc.key # c
    BY <1>1, <1>3 DEF OwnedInv, HeldInv
  <2> QED BY <1>1, <1>2, <1>5, <2>1 DEF OwnedInv, LastChildGone, NoKids
<1>9. OwnersExist'
  <2> SUFFICES ASSUME NEW n \in Nodes, node[n] # None
               PROVE  /\ node[n].owner # None => Exists(node[n].owner)'
                      /\ cC[node[n].spec] # None => Exists(<<node[n].spec, cC[node[n].spec].uid>>)'
    BY <1>1 DEF OwnersExist, Exists
  <2>1. node[n].spec \in Clusters /\ (node[n].owner # None => node[n].owner[1] \in Clusters)
    BY DEF TypeOK, OptNodes, NodeObjects, Owners
  <2>2. cluster'[c] # None
    BY <1>3, AbsentIsNoObject
  <2>3. \A o : o[1] \in Clusters /\ Exists(o) => Exists(o)'
    BY <1>2, <1>3, <2>2 DEF Exists
  <2> QED BY <1>1, <2>1, <2>3 DEF OwnedInv, OwnersExist, Exists
<1> QED BY <1>4, <1>6, <1>7, <1>8, <1>9 DEF OwnedInv

LEMMA UsersOwned ==
    ASSUME Patient, TypeOK, OwnedInv, NEW n \in Nodes,
           \/ DeleteNode(n) \/ CollectNode(n)
           \/ \E c \in Clusters : CreateNode(n, c) \/ MoveNode(n, c)
    PROVE  OwnedInv'
<1>1. CASE DeleteNode(n) \/ CollectNode(n)
  <2>1. node[n] # None /\ NodeDelete(n) /\ Outdates(n) /\ UNCHANGED <<cluster, cC, cN, crc, born>>
    BY <1>1 DEF DeleteNode, CollectNode, Living, caches, history
  <2>2. PICK new \in NodeObjects \cup {None} :
          Harmless(n, new) /\ node' = [node EXCEPT ![n] = new]
    BY <2>1, DeleteIsHarmless
  <2> QED BY <2>1, <2>2, OutdatesHeld, HarmlessWrite
<1>2. ASSUME NEW c \in Clusters, CreateNode(n, c) PROVE OwnedInv'
  <2> DEFINE new == [spec |-> c, label |-> None, owner |-> None, fin |-> FALSE,
                     deleting |-> FALSE, cond |-> "New"]
  <2>1. /\ node[n] = None /\ Joinable(c) /\ node' = [node EXCEPT ![n] = new]
        /\ UNCHANGED <<cluster, cC, cN, crc, nrc, born>>
    BY <1>2 DEF CreateNode, caches, history
  <2>2. new \in NodeObjects /\ new.owner = None /\ new.spec = c
    BY DEF NodeObjects, Conds
  <2> HIDE DEF new
  <2>3. Harmless(n, new)
    BY <2>1, <2>2 DEF Harmless
  <2>4. nrc = None \/ nrc.stale \/ nrc.key # n
    <3>1. nrc # None => nrc.obj # None
      BY AbsentIsNoObject DEF TypeOK, NodeReconciles
    <3> QED BY <2>1, <3>1 DEF OwnedInv, HeldInv
  <2> QED BY <2>1, <2>2, <2>3, <2>4, HarmlessWrite
<1>3. ASSUME NEW c \in Clusters, MoveNode(n, c) PROVE OwnedInv'
  <2> DEFINE new == [node[n] EXCEPT !.spec = c]
  <2>1. node[n] # None /\ node[n] \in NodeObjects
    BY <1>3 DEF MoveNode, Living, TypeOK, OptNodes
  <2>2. /\ Joinable(c) /\ node' = [node EXCEPT ![n] = new] /\ Outdates(n)
        /\ UNCHANGED <<cluster, cC, cN, crc, born>>
    BY <1>3 DEF MoveNode, caches, history
  <2>3. new \in NodeObjects /\ new.owner = node[n].owner /\ new.spec = c
    BY <2>1 DEF NodeObjects
  <2> HIDE DEF new
  <2>4. Harmless(n, new)
    BY <2>1, <2>2, <2>3 DEF Harmless
  <2> QED BY <2>2, <2>3, <2>4, OutdatesHeld, HarmlessWrite
<1> QED BY <1>1, <1>2, <1>3

LEMMA InitOwned == Init => OwnedInv
<1> SUFFICES ASSUME Init PROVE OwnedInv
  OBVIOUS
<1>1. \A c \in Clusters : cluster[c].uid = 1 /\ ~cluster[c].deleting /\ born[c] = 1
  BY DEF Init
<1>2. ASSUME NEW n \in Nodes, node[n] # None
      PROVE  node[n].spec \in Clusters /\ node[n].owner = <<node[n].spec, 1>>
  BY <1>2, OwnershipAssumption DEF Init, Settled
<1>3. \A c \in Clusters : cluster[c] # None
  <2>1. \A c \in Clusters : cluster[c] \in ClusterObjects
    BY ChildrenCounted DEF Init, ClusterObjects
  <2> QED BY <2>1, AbsentIsNoObject
<1>4. cC = cluster /\ cN = node /\ crc = None /\ nrc = None
  BY DEF Init
<1>5. DeletionInv
  BY <1>1, <1>4 DEF DeletionInv
<1>6. SeenInv
  BY <1>1, <1>4 DEF SeenInv
<1>7. OwnersExist
  BY <1>1, <1>2, <1>3, <1>4 DEF OwnersExist, Exists
<1> QED BY <1>4, <1>5, <1>6, <1>7 DEF OwnedInv, HeldInv, LastChildGone

LEMMA AlwaysOwned == Patient => (Spec => []OwnedInv)
<1> SUFFICES ASSUME Patient PROVE Spec => []OwnedInv
  OBVIOUS
<1>1. TypeOK /\ OwnedInv /\ [Next]_vars => OwnedInv'
  <2> SUFFICES ASSUME TypeOK, OwnedInv, [Next]_vars PROVE OwnedInv'
    OBVIOUS
  <2>1. CASE UNCHANGED vars
    BY <2>1 DEF vars, api, caches, history, OwnedInv, DeletionInv, HeldInv, SeenInv, LastChildGone,
                NoKids, OwnersExist, Exists
  <2> QED BY <2>1, ClusterReadsOwned, ClusterWritesOwned, NodeBeginsOwned, NodeContinuesOwned,
             SyncOwned, CreateClusterOwned, DeleteClusterOwned, UsersOwned DEF Next
<1> QED BY <1>1, InitOwned, TypeCorrect, PTL DEF Spec

\* A node that stops living is one that a user deletes: what the controller
\* writes is as deleted as what was there, and nothing is collected.
LEMMA OnlyUsersStep ==
    ASSUME TypeOK, OwnedInv, [Next]_vars, NEW n \in Nodes, Living(n), ~Living(n)'
    PROVE  n \in asked'
<1>1. node[n] # None /\ ~node[n].deleting /\ node[n] \in NodeObjects
  BY DEF Living, TypeOK, OptNodes
<1>2. UNCHANGED node => FALSE
  BY DEF Living
<1>3. ASSUME NEW m \in Nodes, NEW latest \in BOOLEAN, NEW new, NodePatch(m, latest, new),
             latest => new \in NodeObjects /\ new.deleting = node[m].deleting
      PROVE  FALSE
  <2>1. latest /\ node' = [node EXCEPT ![m] = new]
    BY <1>2, <1>3 DEF NodePatch
  <2>2. node'[n] = node[n] \/ (m = n /\ node'[n] = new)
    BY <2>1 DEF TypeOK, OptNodes
  <2>3. node'[n] # None /\ ~node'[n].deleting
    BY <1>1, <1>3, <2>1, <2>2, AbsentIsNoObject
  <2> QED BY <2>3 DEF Living
<1>4. ASSUME NEW m \in Nodes, NodeBegins(m) PROVE FALSE
  <2>1. cN[m] \in NodeObjects \cup {None}
    BY DEF TypeOK, OptNodes
  <2>2. CASE ForgetNode(m) \/ CleanUp(m)
    BY <1>2, <2>2 DEF ForgetNode, CleanUp, api
  <2>3. CASE ReleaseNode(m)
    <3>1. node' = IF node[m] = cN[m] THEN [node EXCEPT ![m] = None] ELSE node
      BY <2>3 DEF ReleaseNode, NodePatch
    <3>2. node[m] = cN[m] => m # n
      BY <1>1, <2>3 DEF ReleaseNode
    <3>3. node'[n] = node[n]
      BY <3>1, <3>2
    <3> QED BY <3>3 DEF Living
  <2>4. CASE LabelNode(m)
    <3> DEFINE new == [cN[m] EXCEPT !.fin = TRUE, !.label = cN[m].spec]
    <3>1. NodePatch(m, node[m] = cN[m], new) /\ cN[m] # None
      BY <2>4 DEF LabelNode
    <3>2. new \in NodeObjects /\ new.deleting = cN[m].deleting
      BY <2>1, <3>1 DEF NodeObjects
    <3> HIDE DEF new
    <3> QED BY <1>3, <3>1, <3>2
  <2> QED BY <1>4, <2>2, <2>3, <2>4 DEF NodeBegins
<1>5. CASE NodeContinues
  <2>1. nrc # None /\ nrc \in NodeReconciles
    BY <1>5 DEF NodeContinues, ReportNotFound, ensureClusterOwnerRef, Validate, Deploy, WriteStatus,
                AtStep, TypeOK
  <2>2. /\ nrc.key \in Nodes /\ nrc.obj \in NodeObjects /\ nrc.stale \in BOOLEAN
        /\ nrc.cond \in Conds /\ Ref \in Clusters
        /\ (~nrc.stale => node[nrc.key] = nrc.obj)
    BY <2>1 DEF NodeReconciles, NodeObjects, Ref, OwnedInv, HeldInv
  <2>3. CASE ReportNotFound \/ Validate \/ Deploy
    BY <1>2, <2>3 DEF ReportNotFound, Validate, Deploy, api
  <2>4. CASE ensureClusterOwnerRef
    <3> DEFINE new == [nrc.obj EXCEPT !.owner = Owner]
    <3>1. NodePatch(nrc.key, ~nrc.stale, new) /\ cC[Ref] # None
      BY <2>4 DEF ensureClusterOwnerRef
    <3>2. Owner \in Owners
      BY <2>2, <3>1 DEF Owner, Owners, TypeOK, OptClusters, ClusterObjects
    <3>3. new \in NodeObjects /\ new.deleting = nrc.obj.deleting
      BY <2>2, <3>2 DEF NodeObjects
    <3> HIDE DEF new
    <3> QED BY <1>3, <2>2, <3>1, <3>3
  <2>5. CASE WriteStatus
    <3> DEFINE new == [nrc.obj EXCEPT !.cond = nrc.cond]
    <3>1. NodePatch(nrc.key, ~nrc.stale, new)
      BY <2>5 DEF WriteStatus
    <3>2. new \in NodeObjects /\ new.deleting = nrc.obj.deleting
      BY <2>2 DEF NodeObjects
    <3> HIDE DEF new
    <3> QED BY <1>3, <2>2, <3>1, <3>2
  <2> QED BY <1>5, <2>3, <2>4, <2>5 DEF NodeContinues
<1>6. ASSUME NEW m \in Nodes, CollectNode(m) PROVE FALSE
  BY <1>6 DEF CollectNode, Living, OwnedInv, OwnersExist
<1>7. ASSUME NEW m \in Nodes, DeleteNode(m) PROVE n \in asked'
  <2>1. m # n => node'[n] = node[n]
    BY <1>7 DEF DeleteNode, NodeDelete
  <2> QED BY <1>7, <2>1 DEF DeleteNode, Living
<1>8. ASSUME NEW m \in Nodes, NEW c \in Clusters, CreateNode(m, c) PROVE FALSE
  <2>1. m # n
    BY <1>1, <1>8 DEF CreateNode
  <2>2. node'[n] = node[n]
    BY <1>8, <2>1 DEF CreateNode
  <2> QED BY <2>2 DEF Living
<1>9. ASSUME NEW m \in Nodes, NEW c \in Clusters, MoveNode(m, c) PROVE FALSE
  <2>1. node[m] \in NodeObjects
    BY <1>9 DEF MoveNode, Living, TypeOK, OptNodes
  <2> DEFINE new == [node[m] EXCEPT !.spec = c]
  <2>2. new \in NodeObjects /\ new.deleting = node[m].deleting
    BY <2>1 DEF NodeObjects
  <2>3. NodePatch(m, TRUE, new)
    BY <1>9 DEF MoveNode, NodePatch
  <2> HIDE DEF new
  <2> QED BY <1>3, <2>2, <2>3
<1>10. CASE \/ UNCHANGED vars \/ ClusterWrites \/ SyncNodes \/ SyncClusters \/ SyncDeployments
            \/ Crash
            \/ \E c \in Clusters : ClusterReads(c) \/ CreateCluster(c) \/ DeleteCluster(c)
            \/ \E m \in Nodes : CollectDeployment(m)
  BY <1>2, <1>10 DEF vars, api, ClusterWrites, BlockDeletion, RemoveFinalizer, AddFinalizer,
     CountNodes, ClusterEnds, SyncNodes, SyncClusters, SyncDeployments, Crash, ClusterReads,
     CreateCluster, DeleteCluster, CollectDeployment
<1> QED BY <1>4, <1>5, <1>6, <1>7, <1>8, <1>9, <1>10 DEF Next

\* However often nodes are moved and clusters deleted and created again, a
\* node is deleted only when a user deletes it, as long as users let the
\* operator see a node before they delete its cluster (listChildNodes, the
\* finalizer in Reconcile, ensureClusterOwnerRef).
THEOREM NodesOutliveClusters == Patient => (Spec => OnlyUsersDelete)
<1> SUFFICES ASSUME Patient PROVE Spec => OnlyUsersDelete
  OBVIOUS
<1>1. TypeOK /\ OwnedInv /\ [Next]_vars
        => [\A n \in Nodes : Living(n) /\ ~Living(n)' => n \in asked']_vars
  BY OnlyUsersStep
<1> QED BY <1>1, TypeCorrect, AlwaysOwned, PTL DEF Spec, OnlyUsersDelete

-----------------------------------------------------------------------------
(* No lost wake-up of the cluster controller.  Users need not be patient. *)

\* A uid is given once, so what a cache shows is not a later incarnation.
UidInv ==
    \A c \in Clusters :
        /\ cluster[c] # None => cluster[c].uid <= born[c]
        /\ cC[c] # None => cC[c].uid <= born[c]

\* What the controller counts: the children in its cache.
Children(c) == Cardinality(listChildNodes(cN, c, cluster[c].uid))

\* A look at c is queued, or comes with an event.
WillLook(c) == c \in qC \/ NewObject(cC[c], cluster[c])

\* The children of c are counted as the cache shows them; the reconcile in
\* progress, if there is one, will count them so or be repeated.
Counted(c) ==
    IF crc # None /\ crc.key = c
    THEN crc.obj = cluster[c] /\ crc.obj.fin => crc.kids = Children(c)
    ELSE cluster[c].fin /\ cluster[c].count = Children(c)

CountInv ==
    \A c \in Clusters :
        cluster[c] # None /\ ~cluster[c].deleting => WillLook(c) \/ Counted(c)

\* A node that joins or leaves wakes the cluster: who is not woken keeps its
\* children (unionScope, nodeStatusConditionsChanged).
LEMMA ChildrenStay ==
    ASSUME TypeOK, SyncNodes, NEW c \in Clusters, c \notin qC', NEW u \in Nat \ {0}
    PROVE  listChildNodes(cN', c, u) = listChildNodes(cN, c, u)
<1> DEFINE child(o) == o # None /\ (o.spec = c \/ o.owner = <<c, u>>)
<1>1. ASSUME NEW o \in NodeObjects \cup {None}, child(o) PROVE c \in findClusterForNode(o)
  <2>1. <<c, u>> # None
    BY AbsentIsNoObject DEF Owners
  <2> QED BY <1>1, <2>1 DEF findClusterForNode
<1>2. ASSUME NEW n \in Nodes PROVE child(node[n]) <=> child(cN[n])
  <2>1. cN[n] \in NodeObjects \cup {None} /\ node[n] \in NodeObjects \cup {None}
    BY DEF TypeOK, OptNodes
  <2>2. CASE nodeStatusConditionsChanged(cN[n], node[n])
    <3>1. c \notin unionScope(cN[n], node[n])
      BY <2>2 DEF SyncNodes
    <3> QED BY <1>1, <2>1, <3>1 DEF unionScope
  <2>3. CASE ~nodeStatusConditionsChanged(cN[n], node[n])
    BY <2>3 DEF nodeStatusConditionsChanged, BothThere, GenerationChanged, controllerOwnerRefChanged
  <2> QED BY <2>2, <2>3
<1>3. cN' = node
  BY DEF SyncNodes
<1> QED BY <1>2, <1>3 DEF listChildNodes

LEMMA ClusterReadsCounted ==
    ASSUME TypeOK, CountInv, NEW k \in Clusters, ClusterReads(k)
    PROVE  CountInv'
<1>1. /\ crc = None /\ qC' = qC \ {k} /\ UNCHANGED <<cluster, cC, cN>>
      /\ crc' = IF cC[k] = None THEN None
                ELSE [key |-> k, obj |-> cC[k],
                      kids |-> Cardinality(listChildNodes(cN, k, cC[k].uid))]
  BY DEF ClusterReads, api, caches
<1> SUFFICES ASSUME NEW c \in Clusters, cluster[c] # None, ~cluster[c].deleting
             PROVE  WillLook(c)' \/ Counted(c)'
  BY <1>1 DEF CountInv
<1>2. CASE c # k
  BY <1>1, <1>2 DEF CountInv, WillLook, Counted, Children
<1>3. CASE c = k /\ cC[k] = None
  BY <1>1, <1>3 DEF WillLook, NewObject, BothThere
<1>4. CASE c = k /\ cC[k] # None
  <2>1. /\ crc'.key = k /\ crc'.obj = cC[k]
        /\ crc'.kids = Cardinality(listChildNodes(cN, k, cC[k].uid))
    BY <1>1, <1>4
  <2>2. crc' # None
    <3>1. crc' \in ClusterReconciles \cup {None} /\ cC[k] \in ClusterObjects
      BY <1>4, ClusterTyped DEF TypeOK, OptClusters
    <3>2. Cardinality(listChildNodes(cN, k, cC[k].uid)) \in Nat
      BY ChildrenCounted DEF listChildNodes
    <3>3. crc' \in ClusterReconciles
      BY <1>1, <1>4, <3>1, <3>2 DEF ClusterReconciles
    <3> QED BY <3>3, AbsentIsNoObject
  <2> QED BY <1>1, <1>4, <2>1, <2>2 DEF Counted, Children
<1> QED BY <1>2, <1>3, <1>4

LEMMA ClusterWritesCounted ==
    ASSUME TypeOK, CountInv, ClusterWrites
    PROVE  CountInv'
<1>1. crc # None /\ crc \in ClusterReconciles /\ crc.key \in Clusters /\ crc.obj \in ClusterObjects
  BY DEF ClusterWrites, BlockDeletion, RemoveFinalizer, AddFinalizer, CountNodes, Deleted, TypeOK,
         ClusterReconciles
<1>2. crc' = None /\ UNCHANGED <<cC, cN>>
  BY DEF ClusterWrites, BlockDeletion, RemoveFinalizer, AddFinalizer, CountNodes, ClusterEnds,
         caches
<1>3. /\ qC \subseteq qC'
      /\ \A c \in Clusters \ {crc.key} : cluster'[c] = cluster[c]
  BY <1>1 DEF ClusterWrites, BlockDeletion, RemoveFinalizer, AddFinalizer, CountNodes,
              ClusterUpdate, TypeOK, OptClusters
<1>4. crc.key \in qC' \/ cluster'[crc.key] = None
        \/ /\ crc.obj = cluster[crc.key] /\ crc.obj.fin
           /\ cluster'[crc.key] = [crc.obj EXCEPT !.count = crc.kids]
  <2>1. CASE BlockDeletion
    BY <2>1 DEF BlockDeletion
  <2>2. CASE RemoveFinalizer
    BY <1>1, <2>2 DEF RemoveFinalizer, ClusterUpdate, TypeOK, OptClusters
  <2>3. CASE AddFinalizer
    BY <2>3 DEF AddFinalizer, ClusterUpdate
  <2>4. CASE CountNodes
    BY <1>1, <2>4 DEF CountNodes, ClusterUpdate, TypeOK, OptClusters
  <2> QED BY <2>1, <2>2, <2>3, <2>4 DEF ClusterWrites
<1> SUFFICES ASSUME NEW c \in Clusters, cluster'[c] # None, ~cluster'[c].deleting
             PROVE  WillLook(c)' \/ Counted(c)'
  BY DEF CountInv
<1>5. CASE c # crc.key
  BY <1>2, <1>3, <1>5 DEF CountInv, WillLook, Counted, Children
<1>6. CASE c = crc.key /\ c \in qC'
  BY <1>6 DEF WillLook
<1>7. CASE c = crc.key /\ c \notin qC'
  <2>1. /\ crc.obj = cluster[c] /\ crc.obj.fin
        /\ cluster'[c] = [crc.obj EXCEPT !.count = crc.kids]
    BY <1>4, <1>7
  <2>2. /\ cluster'[c].fin = cluster[c].fin /\ cluster'[c].uid = cluster[c].uid
        /\ cluster'[c].deleting = cluster[c].deleting /\ cluster'[c].count = crc.kids
        /\ cluster[c] # None
    BY <1>1, <2>1, AbsentIsNoObject DEF ClusterObjects
  <2>3. WillLook(c) => WillLook(c)'
    BY <1>2, <1>3, <2>2 DEF WillLook, NewObject, BothThere
  <2>4. Children(c)' = Children(c)
    BY <1>2, <2>2 DEF Children
  <2>5. Counted(c) => Counted(c)'
    BY <1>1, <1>2, <1>7, <2>1, <2>2, <2>4 DEF Counted
  <2> QED BY <1>7, <2>2, <2>3, <2>5 DEF CountInv
<1> QED BY <1>5, <1>6, <1>7

LEMMA SyncCounted ==
    ASSUME TypeOK, CountInv, SyncNodes \/ SyncClusters
    PROVE  CountInv'
<1> SUFFICES ASSUME NEW c \in Clusters, cluster'[c] # None, ~cluster'[c].deleting
             PROVE  WillLook(c)' \/ Counted(c)'
  BY DEF CountInv
<1>1. UNCHANGED <<cluster, crc>> /\ qC \subseteq qC'
  BY DEF SyncNodes, SyncClusters, api
<1>2. CASE SyncNodes /\ c \notin qC'
  <2>1. cluster[c].uid \in Nat \ {0}
    BY <1>1 DEF TypeOK, OptClusters, ClusterObjects
  <2>2. Children(c)' = Children(c)
    BY <1>1, <1>2, <2>1, ChildrenStay DEF Children
  <2>3. WillLook(c)' = WillLook(c)
    BY <1>1, <1>2 DEF SyncNodes, WillLook
  <2> QED BY <1>1, <2>2, <2>3 DEF CountInv, Counted
<1>3. CASE SyncClusters /\ c \notin qC'
  <2>1. ~WillLook(c)
    <3>1. cC[c] = cluster[c] => ~NewObject(cC[c], cluster[c])
      BY <1>1 DEF NewObject, BothThere
    <3> QED BY <1>1, <1>3, <3>1 DEF SyncClusters, WillLook
  <2>2. Children(c)' = Children(c)
    BY <1>1, <1>3 DEF SyncClusters, Children
  <2> QED BY <1>1, <2>1, <2>2 DEF CountInv, Counted
<1>4. CASE c \in qC'
  BY <1>4 DEF WillLook
<1> QED BY <1>2, <1>3, <1>4

LEMMA UsersCounted ==
    ASSUME TypeOK, UidInv, CountInv, NEW k \in Clusters, CreateCluster(k) \/ DeleteCluster(k)
    PROVE  UidInv' /\ CountInv'
<1>1. /\ UNCHANGED <<cC, cN, qC, crc>>
      /\ \A c \in Clusters \ {k} : cluster'[c] = cluster[c] /\ born'[c] = born[c]
      /\ cC[k] # None => cC[k].uid \in Nat
      /\ born[k] \in Nat
  BY DEF CreateCluster, DeleteCluster, caches, queues, history, TypeOK, OptClusters, ClusterObjects
<1>2. CASE CreateCluster(k)
  <2>1. /\ cluster'[k].uid = born[k] + 1 /\ born'[k] = born[k] + 1
    BY <1>2 DEF CreateCluster, TypeOK, OptClusters
  <2>2. WillLook(k)'
    BY <1>1, <2>1 DEF UidInv, WillLook, NewObject, BothThere
  <2> QED BY <1>1, <2>1, <2>2 DEF UidInv, CountInv, WillLook, Counted, Children
<1>3. CASE DeleteCluster(k)
  <2>1. cluster[k] \in ClusterObjects
    BY <1>3 DEF DeleteCluster, TypeOK, OptClusters
  <2>2. [cluster[k] EXCEPT !.deleting = TRUE].uid = cluster[k].uid
        /\ [cluster[k] EXCEPT !.deleting = TRUE].deleting
    BY <2>1 DEF ClusterObjects
  <2>3. born' = born /\ (cluster'[k] # None => cluster'[k].uid = cluster[k].uid /\ cluster'[k].deleting)
    BY <1>3, <2>2 DEF DeleteCluster, TypeOK, OptClusters, history
  <2>4. cluster[k] # None
    BY <1>3 DEF DeleteCluster
  <2> QED BY <1>1, <2>3, <2>4 DEF UidInv, CountInv, WillLook, Counted, Children
<1> QED BY <1>2, <1>3

\* A write of a cluster keeps its uid.
LEMMA UidsStay ==
    ASSUME TypeOK, UidInv, ClusterWrites \/ SyncClusters \/ Crash
    PROVE  UidInv'
<1>1. CASE ClusterWrites
  <2>1. crc # None /\ crc \in ClusterReconciles /\ crc.obj \in ClusterObjects
    BY <1>1 DEF ClusterWrites, BlockDeletion, RemoveFinalizer, AddFinalizer, CountNodes, Deleted,
                TypeOK, ClusterReconciles
  <2>2. \A c \in Clusters : cluster'[c] = cluster[c] \/ cluster'[c] = None
          \/ /\ cluster[c] = crc.obj
             /\ \/ cluster'[c] = [crc.obj EXCEPT !.fin = TRUE]
                \/ cluster'[c] = [crc.obj EXCEPT !.count = crc.kids]
    BY <1>1, <2>1 DEF ClusterWrites, BlockDeletion, RemoveFinalizer, AddFinalizer, CountNodes,
                      ClusterUpdate, TypeOK, OptClusters
  <2>3. [crc.obj EXCEPT !.fin = TRUE].uid = crc.obj.uid
        /\ [crc.obj EXCEPT !.count = crc.kids].uid = crc.obj.uid /\ crc.obj # None
    BY <2>1, AbsentIsNoObject DEF ClusterObjects
  <2>4. cC' = cC /\ born' = born
    BY <1>1 DEF ClusterWrites, BlockDeletion, RemoveFinalizer, AddFinalizer, CountNodes,
                ClusterEnds, caches, history
  <2> QED BY <2>2, <2>3, <2>4 DEF UidInv
<1>2. CASE SyncClusters \/ Crash
  BY <1>2 DEF SyncClusters, Crash, api, history, UidInv
<1> QED BY <1>1, <1>2

LEMMA InitCounted == Init => UidInv /\ CountInv
<1> SUFFICES ASSUME Init PROVE UidInv /\ CountInv
  OBVIOUS
<1>1. /\ cC = cluster /\ cN = node /\ crc = None
      /\ \A c \in Clusters : /\ cluster[c].uid = 1 /\ born[c] = 1 /\ cluster[c].fin
                             /\ cluster[c].count = Cardinality({n \in Nodes : Home[n] = c})
  BY DEF Init
<1>2. ASSUME NEW c \in Clusters
      PROVE  listChildNodes(cN, c, 1) = {n \in Nodes : Home[n] = c}
  <2>1. ASSUME NEW n \in Nodes, Home[n] # None
        PROVE  cN[n] # None /\ cN[n].spec = Home[n] /\ cN[n].owner = <<Home[n], 1>>
    <3>1. cN[n] = Settled(n)
      BY <1>1, <2>1 DEF Init
    <3>2. Settled(n) \in NodeObjects
      BY <2>1, OwnershipAssumption DEF Settled, NodeObjects, Owners, Conds
    <3>3. Settled(n) # None
      BY <3>2, AbsentIsNoObject
    <3>4. Settled(n).spec = Home[n] /\ Settled(n).owner = <<Home[n], 1>>
      BY DEF Settled
    <3> QED BY <3>1, <3>3, <3>4
  <2>2. ASSUME NEW n \in Nodes, Home[n] = None PROVE cN[n] = None
    BY <1>1, <2>2 DEF Init
  <2> QED BY <2>1, <2>2, OwnershipAssumption DEF listChildNodes
<1> QED BY <1>1, <1>2 DEF UidInv, CountInv, Counted, Children

LEMMA AlwaysCounted == Spec => [](UidInv /\ CountInv)
<1>1. TypeOK /\ (UidInv /\ CountInv) /\ [Next]_vars => (UidInv /\ CountInv)'
  <2> SUFFICES ASSUME TypeOK, UidInv, CountInv, [Next]_vars PROVE UidInv' /\ CountInv'
    OBVIOUS
  <2>1. CASE \/ UNCHANGED vars \/ SyncDeployments \/ NodeContinues
             \/ \E n \in Nodes : NodeBegins(n) \/ CollectNode(n) \/ CollectDeployment(n)
                                 \/ DeleteNode(n)
             \/ \E n \in Nodes, c \in Clusters : CreateNode(n, c) \/ MoveNode(n, c)
    <3>1. UNCHANGED <<cluster, cC, cN, qC, crc, born>>
      BY <2>1 DEF vars, api, caches, queues, history, SyncDeployments, NodeContinues, NodeBegins,
         CollectNode, CollectDeployment, DeleteNode, CreateNode, MoveNode, ForgetNode, ReleaseNode,
         LabelNode, CleanUp, ReportNotFound, ensureClusterOwnerRef, Validate, Deploy, WriteStatus
    <3> QED BY <3>1 DEF UidInv, CountInv, WillLook, Counted, Children
  <2>2. CASE ClusterWrites
    BY <2>2, ClusterWritesCounted, UidsStay
  <2>3. CASE SyncNodes
    BY <2>3, SyncCounted DEF SyncNodes, api, history, UidInv
  <2>4. CASE SyncClusters
    BY <2>4, SyncCounted, UidsStay
  <2>5. CASE Crash
    BY <2>5, UidsStay DEF Crash, api, CountInv, WillLook
  <2>6. ASSUME NEW c \in Clusters, ClusterReads(c) PROVE UidInv' /\ CountInv'
    BY <2>6, ClusterReadsCounted DEF ClusterReads, api, caches, history, UidInv
  <2> QED BY <2>1, <2>2, <2>3, <2>4, <2>5, <2>6, UsersCounted DEF Next
<1> QED BY <1>1, InitCounted, TypeCorrect, PTL DEF Spec

\* The cluster controller misses nothing that concerns its finalizer or its
\* count: neither a node that comes, leaves, or changes owner, nor a conflict,
\* a crash or a successor of the same name (unionScope, Status().Update).
THEOREM NoChildIsMissed == Spec => []RestingCountIsRight
<1>1. TypeOK /\ CountInv => RestingCountIsRight
  <2> SUFFICES ASSUME TypeOK, CountInv, NEW c \in Clusters,
                      c \notin qC, crc # None => crc.key # c, cC[c] = cluster[c], cN = node,
                      cluster[c] # None, ~cluster[c].deleting
               PROVE  /\ cluster[c].fin
                      /\ cluster[c].count = Cardinality(listChildNodes(node, c, cluster[c].uid))
    BY DEF RestingCountIsRight
  <2>1. ~WillLook(c)
    BY DEF WillLook, NewObject, BothThere
  <2> QED BY <2>1 DEF CountInv, Counted, Children
<1> QED BY <1>1, AlwaysCounted, TypeCorrect, PTL

-----------------------------------------------------------------------------
(* No lost wake-up of the node controller. *)

Handling(n) == nrc # None /\ nrc.key = n

\* n's key waits for nothing but an event, and nothing has been noticed.
Done(n) == n \notin qN /\ ~Handling(n) /\ node[n] # None /\ cN[n] # None /\ cN[n].deleting = FALSE

\* Of the Deployments of n that the cache shows, only the one for c is left.
OnlyShown(n, c) == \A d \in dep \cap cDep : d[2] = n => d = <<c, n>>

OwnedBy(o, c) == cC[c] # None /\ o.owner = <<c, cC[c].uid>>

\* Step 5 of Reconcile has been passed.
Accepted == nrc.step = "Deploy" \/ (nrc.step = "Status" /\ nrc.cond = "Valid")

Clashing(n, m) == n # m /\ (<<n, m>> \in Clash \/ <<m, n>> \in Clash)

\* The reconcile in progress, as long as its node has not been queued again,
\* goes by a copy that the cache still agrees with.
FlightInv ==
    nrc # None =>
        /\ nrc.stale = FALSE => node[nrc.key] = nrc.obj
        /\ nrc.key \notin qN =>
             /\ nrc.obj.label = Ref
             /\ cN[nrc.key] # None /\ cN[nrc.key].deleting = FALSE
             /\ cN[nrc.key].spec = Ref /\ cN[nrc.key].label = Ref
             /\ OnlyShown(nrc.key, Ref)
             /\ Accepted => /\ OwnedBy(nrc.obj, Ref)
                            /\ \A m \in Nodes : Clashing(nrc.key, m) /\ Done(m) => cN[m].label # Ref
             /\ nrc.step = "Status" /\ nrc.cond = "Valid" /\ nrc.stale = FALSE
                  => <<Ref, nrc.key>> \in dep
             /\ nrc.step = "Status" => nrc.cond = "Valid" \/ Polls(nrc.cond)

\* What a reconcile leaves behind, in terms of the cached copy: the object in
\* the API server may have been moved away since, and back.
Settles(n) ==
    LET c == cN[n].spec
    IN /\ cN[n].label = c /\ node[n].label = c
       /\ node[n].cond = "Valid" /\ OwnedBy(node[n], c)
       /\ OnlyShown(n, c) /\ <<c, n>> \in dep

SettledInv ==
    /\ \A n \in Nodes : Done(n) => Settles(n)
    /\ \A n, m \in Nodes : Clashing(n, m) /\ Done(n) /\ Done(m) => cN[n].spec # cN[m].spec

WakeInv == FlightInv /\ SettledInv

\* Node n is written by somebody else, and no reconcile goes by it.
LEMMA OthersWrite ==
    ASSUME TypeOK, WakeInv, NEW n \in Nodes, NEW new \in NodeObjects \cup {None},
           node' = [node EXCEPT ![n] = new], UNCHANGED <<cN, cC, dep, cDep, qN>>,
           new # None /\ cN[n] # None =>
               /\ node[n] # None
               /\ new.label = node[n].label /\ new.owner = node[n].owner /\ new.cond = node[n].cond,
           \/ nrc' = nrc /\ (nrc # None => nrc.key # n \/ nrc.stale = TRUE)
           \/ nrc # None /\ nrc.key = n /\ nrc' = [nrc EXCEPT !.stale = TRUE]
    PROVE  WakeInv'
<1>1. /\ \A m \in Nodes \ {n} : node'[m] = node[m]
      /\ node'[n] = new
  BY DEF TypeOK, OptNodes
<1>2. /\ (nrc' = None) = (nrc = None)
      /\ nrc # None =>
           /\ nrc'.key = nrc.key /\ nrc'.obj = nrc.obj /\ nrc'.step = nrc.step /\ nrc'.cond = nrc.cond
           /\ nrc'.stale = FALSE => nrc.stale = FALSE /\ nrc.key # n
           /\ nrc.key \in Nodes
  <2>1. CASE nrc' = nrc /\ (nrc # None => nrc.key # n \/ nrc.stale = TRUE)
    BY <2>1 DEF TypeOK, NodeReconciles
  <2>2. CASE nrc # None /\ nrc.key = n /\ nrc' = [nrc EXCEPT !.stale = TRUE]
    <3>1. nrc \in NodeReconciles /\ nrc' \in NodeReconciles
      BY <2>2 DEF TypeOK, NodeReconciles
    <3> QED BY <2>2, <3>1, AbsentIsNoObject DEF NodeReconciles
  <2> QED BY <2>1, <2>2
<1>3. ASSUME NEW m \in Nodes PROVE Done(m)' => Done(m)
  BY <1>1, <1>2 DEF Done, Handling
<1>4. \A o, c : OwnedBy(o, c)' = OwnedBy(o, c)
  BY DEF OwnedBy
<1>5. \A m, c : OnlyShown(m, c)' = OnlyShown(m, c)
  BY DEF OnlyShown
<1>6. FlightInv'
  <2> SUFFICES ASSUME nrc # None PROVE FlightInv'
    BY <1>2 DEF FlightInv
  <2>1. nrc'.stale = FALSE => node'[nrc.key] = nrc.obj
    BY <1>1, <1>2 DEF WakeInv, FlightInv
  <2>2. Accepted' = Accepted /\ Ref' = Ref
    BY <1>2 DEF Accepted, Ref
  <2> QED BY <1>2, <1>3, <1>4, <1>5, <2>1, <2>2 DEF WakeInv, FlightInv
<1>7. SettledInv'
  <2>1. ASSUME NEW m \in Nodes, Done(m)' PROVE Settles(m)'
    <3>1. Done(m) /\ Settles(m)
      BY <1>3, <2>1 DEF WakeInv, SettledInv
    <3>2. /\ node'[m].label = node[m].label /\ node'[m].owner = node[m].owner
          /\ node'[m].cond = node[m].cond
      BY <1>1, <2>1 DEF Done
    <3> QED BY <3>1, <3>2 DEF Settles, OwnedBy, OnlyShown
  <2> QED BY <1>3, <2>1 DEF WakeInv, SettledInv
<1> QED BY <1>6, <1>7 DEF WakeInv

\* Users, and the garbage collector, do not touch what the node controller
\* has written.
LEMMA UsersWake ==
    ASSUME TypeOK, WakeInv, NEW n \in Nodes,
           \/ DeleteNode(n) \/ CollectNode(n)
           \/ \E c \in Clusters : CreateNode(n, c) \/ MoveNode(n, c)
    PROVE  WakeInv'
<1>0. Outdates(n) => \/ nrc' = nrc /\ (nrc # None => nrc.key # n \/ nrc.stale = TRUE)
                     \/ nrc # None /\ nrc.key = n /\ nrc' = [nrc EXCEPT !.stale = TRUE]
  BY DEF Outdates
<1>1. CASE DeleteNode(n) \/ CollectNode(n)
  <2> DEFINE new == IF node[n].fin THEN [node[n] EXCEPT !.deleting = TRUE] ELSE None
  <2>1. node[n] # None /\ node[n] \in NodeObjects /\ Outdates(n)
        /\ UNCHANGED <<cN, cC, dep, cDep, qN>>
    BY <1>1 DEF DeleteNode, CollectNode, Living, TypeOK, OptNodes, caches, queues
  <2>2. new \in NodeObjects \cup {None}
    BY <2>1 DEF NodeObjects
  <2>3. new # None => /\ new.label = node[n].label /\ new.owner = node[n].owner
                      /\ new.cond = node[n].cond
    BY <2>1 DEF NodeObjects
  <2>4. node' = [node EXCEPT ![n] = new]
    BY <1>1 DEF DeleteNode, CollectNode, NodeDelete
  <2> HIDE DEF new
  <2> QED BY <1>0, <2>1, <2>2, <2>3, <2>4, OthersWrite
<1>2. ASSUME NEW c \in Clusters, CreateNode(n, c) PROVE WakeInv'
  <2> DEFINE new == [spec |-> c, label |-> None, owner |-> None, fin |-> FALSE,
                     deleting |-> FALSE, cond |-> "New"]
  <2>1. /\ node[n] = None /\ cN[n] = None /\ node' = [node EXCEPT ![n] = new]
        /\ UNCHANGED <<cN, cC, dep, cDep, qN, nrc>>
    BY <1>2 DEF CreateNode, caches, queues
  <2>2. new \in NodeObjects
    BY DEF NodeObjects, Conds
  <2> HIDE DEF new
  <2>3. nrc # None => nrc.key # n \/ nrc.stale = TRUE
    <3>1. nrc # None => nrc.obj # None /\ nrc.stale \in BOOLEAN
      BY AbsentIsNoObject DEF TypeOK, NodeReconciles
    <3> QED BY <2>1, <3>1 DEF WakeInv, FlightInv
  <2> QED BY <2>1, <2>2, <2>3, OthersWrite
<1>3. ASSUME NEW c \in Clusters, MoveNode(n, c) PROVE WakeInv'
  <2> DEFINE new == [node[n] EXCEPT !.spec = c]
  <2>1. node[n] # None /\ node[n] \in NodeObjects
    BY <1>3 DEF MoveNode, Living, TypeOK, OptNodes
  <2>2. /\ node' = [node EXCEPT ![n] = new] /\ Outdates(n)
        /\ UNCHANGED <<cN, cC, dep, cDep, qN>>
    BY <1>3 DEF MoveNode, caches, queues
  <2>3. new \in NodeObjects /\ new.owner = node[n].owner /\ new.label = node[n].label
        /\ new.cond = node[n].cond
    BY <2>1 DEF NodeObjects
  <2> HIDE DEF new
  <2> QED BY <1>0, <2>1, <2>2, <2>3, OthersWrite
<1> QED BY <1>1, <1>2, <1>3

\* A reconcile begins with nothing accepted; the others are left alone.
LEMMA NodeBeginsWake ==
    ASSUME TypeOK, WakeInv, NEW k \in Nodes, NodeBegins(k)
    PROVE  WakeInv'
<1>0. /\ nrc = None /\ k \in qN /\ qN \ {k} \subseteq qN' /\ qN' \subseteq qN
      /\ UNCHANGED <<cN, cC, cDep>>
      /\ \A n \in Nodes \ {k} : node'[n] = node[n]
  BY DEF NodeBegins, ForgetNode, ReleaseNode, LabelNode, CleanUp, NodeStart, NodePatch, api, caches,
         queues, TypeOK, OptNodes
<1>1. dep' \subseteq dep /\ \A d \in dep : d[2] # k => d \in dep'
  BY DEF NodeBegins, ForgetNode, ReleaseNode, LabelNode, CleanUp, cleanupOrphanChildren, api
<1>2. ~Done(k)'
  <2>1. CASE ForgetNode(k)
    BY <1>0, <2>1 DEF ForgetNode, Done
  <2>2. CASE ReleaseNode(k)
    BY <1>0, <2>2 DEF ReleaseNode, Done
  <2>3. CASE LabelNode(k)
    BY <1>0, <2>3 DEF LabelNode, queues, Done
  <2>4. CASE CleanUp(k)
    <3>1. nrc' \in NodeReconciles /\ nrc'.key = k
      <4>1. cN[k] \in NodeObjects
        BY <2>4 DEF CleanUp, TypeOK, OptNodes
      <4> QED BY <2>4, <4>1 DEF CleanUp, NodeReconciles, NodeObjects
    <3> QED BY <3>1, AbsentIsNoObject DEF Done, Handling
  <2> QED BY <2>1, <2>2, <2>3, <2>4 DEF NodeBegins
<1>3. ASSUME NEW n \in Nodes, Done(n)' PROVE n # k /\ Done(n)
  BY <1>0, <1>2, <1>3 DEF Done, Handling
<1>4. SettledInv'
  <2>1. ASSUME NEW n \in Nodes, Done(n)' PROVE Settles(n)'
    <3>1. n # k /\ Settles(n)
      BY <1>3, <2>1 DEF WakeInv, SettledInv
    <3>2. cN[n].spec \in Clusters
      BY <1>3, <2>1 DEF Done, TypeOK, OptNodes, NodeObjects
    <3>3. <<cN[n].spec, n>> \in dep'
      BY <1>1, <3>1 DEF Settles
    <3> QED BY <1>0, <1>1, <3>1, <3>3 DEF Settles, OwnedBy, OnlyShown
  <2> QED BY <1>0, <1>3, <2>1 DEF WakeInv, SettledInv
<1>5. FlightInv'
  <2>1. CASE ForgetNode(k) \/ ReleaseNode(k) \/ LabelNode(k)
    BY <1>0, <2>1 DEF ForgetNode, ReleaseNode, LabelNode, FlightInv
  <2>2. CASE CleanUp(k)
    <3>1. /\ nrc'.key = k /\ nrc'.obj = cN[k] /\ nrc'.step = "Fetch"
          /\ nrc'.stale = (node[k] # cN[k])
          /\ node' = node /\ dep' = cleanupOrphanChildren(k)
          /\ cN[k] # None /\ cN[k].label = cN[k].spec /\ ~cN[k].deleting
          /\ cN[k] \in NodeObjects
      BY <2>2 DEF CleanUp, NeedsUpdate, TypeOK, OptNodes
    <3>2. cN[k].deleting = FALSE
      BY <3>1 DEF NodeObjects
    <3>3. OnlyShown(k, cN[k].spec)'
      <4>1. ASSUME NEW d \in dep', d \in cDep, d[2] = k PROVE d = <<cN[k].spec, k>>
        <5>1. d[1] = cN[k].spec
          BY <3>1, <4>1 DEF cleanupOrphanChildren
        <5>2. d \in Deployments
          BY <4>1 DEF TypeOK
        <5> QED BY <4>1, <5>1, <5>2 DEF Deployments
      <4> QED BY <1>0, <4>1 DEF OnlyShown
    <3>4. ~Accepted' /\ Ref' = cN[k].spec
      BY <3>1 DEF Accepted, Ref
    <3> QED BY <1>0, <3>1, <3>2, <3>3, <3>4 DEF FlightInv
  <2> QED BY <2>1, <2>2 DEF NodeBegins
<1> QED BY <1>4, <1>5 DEF WakeInv

\* The end of a reconcile whose key is queued again, or that leaves its node
\* settled and without an accepted rival.
LEMMA ReconcileEnds ==
    ASSUME TypeOK, WakeInv, NEW k \in Nodes, nrc # None, nrc.key = k, nrc' = None,
           UNCHANGED <<cN, cC, dep, cDep>>, qN \subseteq qN',
           \A n \in Nodes \ {k} : node'[n] = node[n],
           \/ k \in qN'
           \/ /\ Settles(k)'
              /\ \A m \in Nodes : Clashing(k, m) /\ Done(m) => cN[m].spec # cN[k].spec
    PROVE  WakeInv'
<1>1. FlightInv'
  BY DEF FlightInv
<1>2. ASSUME NEW n \in Nodes, Done(n)', n # k PROVE Done(n) /\ Settles(n)'
  <2>1. Done(n)
    BY <1>2 DEF Done, Handling
  <2> QED BY <1>2, <2>1 DEF WakeInv, SettledInv, Settles, OwnedBy, OnlyShown
<1>3. k \in qN' => ~Done(k)'
  BY DEF Done
<1>4. \A n \in Nodes : Clashing(n, k) => Clashing(k, n)
  BY DEF Clashing
<1>5. SettledInv'
  <2>1. ASSUME NEW n \in Nodes, NEW m \in Nodes, Clashing(n, m), Done(n)', Done(m)'
        PROVE  cN[n].spec # cN[m].spec
    <3>1. CASE n # k /\ m # k
      BY <1>2, <2>1, <3>1 DEF WakeInv, SettledInv
    <3>2. CASE n = k
      <4>1. m # n
        BY <2>1 DEF Clashing
      <4> QED BY <1>2, <1>3, <2>1, <3>2, <4>1
    <3>3. CASE m = k
      <4>1. m # n
        BY <2>1 DEF Clashing
      <4> QED BY <1>2, <1>3, <1>4, <2>1, <3>3, <4>1
    <3> QED BY <3>1, <3>2, <3>3
  <2>2. ASSUME NEW n \in Nodes, Done(n)' PROVE Settles(n)'
    BY <1>2, <1>3, <2>2
  <2>3. \A n, m \in Nodes : Clashing(n, m)' = Clashing(n, m)
    BY DEF Clashing
  <2> QED BY <2>1, <2>2, <2>3 DEF SettledInv
<1> QED BY <1>1, <1>5 DEF WakeInv

\* A reconcile that goes on: node, cache and queue stay.
LEMMA ReconcileGoesOn ==
    ASSUME TypeOK, WakeInv, nrc # None, nrc' # None, UNCHANGED <<node, cN, cC, cDep, qN>>,
           nrc'.key = nrc.key, nrc'.obj = nrc.obj, nrc'.stale = nrc.stale,
           dep \subseteq dep', dep' \subseteq dep \cup {<<Ref, nrc.key>>},
           Accepted' /\ nrc.key \notin qN =>
              /\ OwnedBy(nrc.obj, Ref)
              /\ \A m \in Nodes : Clashing(nrc.key, m) /\ Done(m) => cN[m].label # Ref,
           nrc'.step = "Status" => \/ nrc'.cond = "Valid" /\ <<Ref, nrc.key>> \in dep'
                                   \/ nrc'.cond # "Valid" /\ Polls(nrc'.cond)
    PROVE  WakeInv'
<1>1. ASSUME NEW n \in Nodes PROVE Done(n)' = Done(n)
  BY DEF Done, Handling
<1>2. SettledInv'
  <2>1. ASSUME NEW n \in Nodes, Done(n) PROVE Settles(n)'
    <3>1. Settles(n) /\ n # nrc.key
      BY <2>1 DEF WakeInv, SettledInv, Done, Handling
    <3> QED BY <3>1 DEF Settles, OwnedBy, OnlyShown
  <2> QED BY <1>1, <2>1 DEF WakeInv, SettledInv, Clashing
<1>3. FlightInv'
  <2>1. Ref' = Ref
    BY DEF Ref
  <2>2. OnlyShown(nrc.key, Ref) => OnlyShown(nrc.key, Ref)'
    BY <2>1 DEF OnlyShown
  <2>3. OwnedBy(nrc.obj, Ref) => OwnedBy(nrc.obj, Ref)'
    BY <2>1 DEF OwnedBy
  <2> QED BY <1>1, <2>1, <2>2, <2>3 DEF WakeInv, FlightInv, Clashing, Polls
<1> QED BY <1>2, <1>3 DEF WakeInv

LEMMA NodeContinuesWake ==
    ASSUME TypeOK, WakeInv, NodeContinues
    PROVE  WakeInv'
<1>0. nrc # None /\ nrc \in NodeReconciles
  BY DEF NodeContinues, ReportNotFound, ensureClusterOwnerRef, Validate, Deploy, WriteStatus,
         AtStep, TypeOK
<1> DEFINE k == nrc.key
<1>1. /\ k \in Nodes /\ nrc.obj \in NodeObjects /\ nrc.cond \in Conds /\ Ref \in Clusters
      /\ nrc.stale \in BOOLEAN /\ node \in OptNodes
  BY <1>0 DEF NodeReconciles, NodeObjects, Ref, TypeOK
<1>2. ASSUME NEW c \in Conds, ToStatus(c)
      PROVE  /\ nrc' # None /\ nrc'.key = k /\ nrc'.obj = nrc.obj /\ nrc'.stale = nrc.stale
             /\ nrc'.step = "Status" /\ nrc'.cond = c
  <2>1. nrc' \in NodeReconciles
    BY <1>0, <1>2 DEF ToStatus, NodeReconciles
  <2> QED BY <1>0, <1>2, <2>1, AbsentIsNoObject DEF ToStatus, NodeReconciles
<1>3. CASE ReportNotFound
  <2>1. "ClusterNotFound" \in Conds /\ ToStatus("ClusterNotFound")
        /\ UNCHANGED <<node, cN, cC, dep, cDep, qN>>
    BY <1>3 DEF ReportNotFound, Conds, api, caches, queues
  <2>2. ~Accepted'
    BY <1>2, <2>1 DEF Accepted
  <2>3. Polls("ClusterNotFound")
    BY DEF Polls
  <2> HIDE DEF k
  <2> QED BY <1>0, <1>2, <2>1, <2>2, <2>3, ReconcileGoesOn DEF k
<1>4. CASE ensureClusterOwnerRef
  <2>1. /\ nrc' = None /\ UNCHANGED <<cN, cC, dep, cDep>> /\ qN' = qN \cup {k}
        /\ \A n \in Nodes \ {k} : node'[n] = node[n]
    BY <1>1, <1>4 DEF ensureClusterOwnerRef, NodePatch, OptNodes, caches
  <2> QED BY <1>0, <1>1, <2>1, ReconcileEnds
<1>5. CASE Validate
  <2>1. /\ AtStep("Fetch") /\ cC[Ref] # None /\ nrc.obj.owner = <<Ref, cC[Ref].uid>>
        /\ UNCHANGED <<node, cN, cC, dep, cDep, qN>>
    BY <1>5 DEF Validate, ownerRefMatches, Owner, api, caches, queues
  <2>2. CASE HasDuplicate /\ ToStatus("Duplicate")
    <3>1. "Duplicate" \in Conds /\ Polls("Duplicate")
      BY DEF Conds, Polls
    <3>2. ~Accepted'
      BY <1>2, <2>2, <3>1 DEF Accepted
    <3> HIDE DEF k
    <3> QED BY <1>0, <1>2, <2>1, <2>2, <3>1, <3>2, ReconcileGoesOn DEF k
  <2>3. CASE ~HasDuplicate /\ nrc' = [nrc EXCEPT !.step = "Deploy"]
    <3>1. /\ nrc' # None /\ nrc'.key = k /\ nrc'.obj = nrc.obj /\ nrc'.stale = nrc.stale
          /\ nrc'.step = "Deploy"
      <4>1. nrc' \in NodeReconciles
        BY <1>0, <2>3 DEF NodeReconciles
      <4> QED BY <1>0, <2>3, <4>1, AbsentIsNoObject DEF NodeReconciles
    <3>2. OwnedBy(nrc.obj, Ref)
      BY <2>1 DEF OwnedBy
    <3>3. \A m \in Nodes : Clashing(k, m) /\ Done(m) => cN[m].label # Ref
      BY <2>3 DEF HasDuplicate, Clashing, Done
    <3> HIDE DEF k
    <3> QED BY <1>0, <2>1, <3>1, <3>2, <3>3, ReconcileGoesOn DEF k
  <2> QED BY <1>5, <2>2, <2>3 DEF Validate
<1>6. CASE Deploy
  <2>1. nrc.step = "Deploy" /\ UNCHANGED <<node, cN, cC, cDep>>
    BY <1>6 DEF Deploy, AtStep, caches
  <2>2. CASE /\ dep' = dep \cup {<<Ref, k>>} /\ ToStatus("Valid") /\ UNCHANGED qN
    <3>1. "Valid" \in Conds
      BY DEF Conds
    <3>2. k \notin qN => /\ OwnedBy(nrc.obj, Ref)
                         /\ \A m \in Nodes : Clashing(k, m) /\ Done(m) => cN[m].label # Ref
      BY <1>0, <2>1 DEF WakeInv, FlightInv, Accepted
    <3> HIDE DEF k
    <3> QED BY <1>0, <1>2, <2>1, <2>2, <3>1, <3>2, ReconcileGoesOn DEF k
  <2>3. CASE nrc' = None /\ qN' = qN \cup {k} /\ UNCHANGED dep
    BY <1>0, <1>1, <2>1, <2>3, ReconcileEnds
  <2> QED BY <1>6, <2>2, <2>3 DEF Deploy
<1>7. CASE WriteStatus
  <2> DEFINE new == [nrc.obj EXCEPT !.cond = nrc.cond]
  <2>1. /\ nrc.step = "Status" /\ nrc' = None /\ UNCHANGED <<cN, cC, dep, cDep>> /\ qN \subseteq qN'
        /\ \A n \in Nodes \ {k} : node'[n] = node[n]
    BY <1>1, <1>7 DEF WriteStatus, AtStep, NodePatch, OptNodes, caches
  <2>2. CASE k \in qN'
    BY <1>0, <1>1, <2>1, <2>2, ReconcileEnds
  <2>3. CASE k \notin qN'
    <3>1. k \notin qN /\ nrc.stale = FALSE /\ nrc.cond = "Valid"
      BY <1>0, <1>1, <1>7, <2>1, <2>3 DEF WriteStatus, WakeInv, FlightInv
    <3>2. node' = [node EXCEPT ![k] = new]
      BY <1>7, <3>1 DEF WriteStatus, NodePatch
    <3>3. node'[k] = new
      BY <1>1, <3>2 DEF OptNodes
    <3>4. new.label = nrc.obj.label /\ new.owner = nrc.obj.owner /\ new.cond = "Valid"
      BY <1>1, <3>1 DEF NodeObjects
    <3>5. /\ nrc.obj.label = Ref /\ cN[k].spec = Ref /\ cN[k].label = Ref
          /\ OnlyShown(k, Ref) /\ <<Ref, k>> \in dep /\ OwnedBy(nrc.obj, Ref)
          /\ \A m \in Nodes : Clashing(k, m) /\ Done(m) => cN[m].label # Ref
      BY <1>0, <2>1, <3>1 DEF WakeInv, FlightInv, Accepted
    <3> HIDE DEF new
    <3>6. \A m \in Nodes : Clashing(k, m) /\ Done(m) => cN[m].spec # cN[k].spec
      BY <3>5 DEF WakeInv, SettledInv, Settles
    <3>7. ASSUME NEW n \in Nodes, n = k PROVE Settles(n)'
      BY <2>1, <3>3, <3>4, <3>5, <3>7 DEF Settles, OwnedBy, OnlyShown
    <3> HIDE DEF k
    <3>8. PICK n \in Nodes : n = k
      BY <1>1
    <3> QED BY <1>0, <2>1, <3>6, <3>7, <3>8, ReconcileEnds DEF k
  <2> QED BY <2>2, <2>3
<1> QED BY <1>3, <1>4, <1>5, <1>6, <1>7 DEF NodeContinues

\* What the watches deliver leaves a node settled, or queues it.
LEMMA SyncWake ==
    ASSUME TypeOK, WakeInv, SyncNodes \/ SyncClusters \/ SyncDeployments
    PROVE  WakeInv'
<1>0. UNCHANGED <<node, dep, nrc>> /\ qN \subseteq qN'
  BY DEF SyncNodes, SyncClusters, SyncDeployments, api
<1>1. Ref' = Ref /\ Accepted' = Accepted
      /\ (nrc # None => nrc.key \in Nodes /\ Ref \in Clusters)
  BY <1>0 DEF Ref, Accepted, TypeOK, NodeReconciles, NodeObjects
<1> SUFFICES
      /\ \A n \in Nodes : n \notin qN' /\ cN'[n] # None =>
           /\ cN[n] # None
           /\ cN'[n].spec = cN[n].spec /\ cN'[n].label = cN[n].label
           /\ cN'[n].deleting = cN[n].deleting
      /\ \A n \in Nodes : n \notin qN' /\ cN[n] # None => cN'[n] # None
      /\ \A n \in Nodes, c \in Clusters : n \notin qN' /\ cN[n] # None /\ cN[n].label = c =>
           \A o : OwnedBy(o, c) => OwnedBy(o, c)'
      /\ \A n \in Nodes, c \in Clusters : n \notin qN' /\ OnlyShown(n, c) => OnlyShown(n, c)'
  <2>1. ASSUME NEW n \in Nodes, Done(n)' PROVE Done(n)
    BY <1>0, <2>1 DEF Done, Handling
  <2>2. SettledInv'
    <3>1. ASSUME NEW n \in Nodes, Done(n)' PROVE Settles(n)'
      <4>1. /\ Settles(n) /\ n \notin qN' /\ cN[n] # None
            /\ cN'[n].spec = cN[n].spec /\ cN'[n].label = cN[n].label
        BY <2>1, <3>1 DEF WakeInv, SettledInv, Done
      <4>2. cN[n].spec \in Clusters
        BY <4>1 DEF TypeOK, OptNodes, NodeObjects
      <4> QED BY <1>0, <4>1, <4>2 DEF Settles
    <3>2. ASSUME NEW n \in Nodes, NEW m \in Nodes, Clashing(n, m), Done(n)', Done(m)'
          PROVE  cN'[n].spec # cN'[m].spec
      <4>1. cN'[n].spec = cN[n].spec /\ cN'[m].spec = cN[m].spec
        BY <3>2 DEF Done
      <4> QED BY <2>1, <3>2, <4>1 DEF WakeInv, SettledInv
    <3>3. \A n, m \in Nodes : Clashing(n, m)' = Clashing(n, m)
      BY DEF Clashing
    <3> QED BY <3>1, <3>2, <3>3 DEF SettledInv
  <2>3. FlightInv'
    BY <1>0, <1>1, <2>1 DEF WakeInv, FlightInv, Clashing, Done, Polls
  <2> QED BY <2>2, <2>3 DEF WakeInv
<1>2. CASE SyncNodes
  <2>1. cN' = node /\ UNCHANGED <<cC, cDep>>
    BY <1>2 DEF SyncNodes
  <2>2. ASSUME NEW n \in Nodes, n \notin qN'
        PROVE  \/ cN[n] = node[n]
               \/ /\ cN[n] # None /\ node[n] # None
                  /\ node[n].spec = cN[n].spec /\ node[n].label = cN[n].label
                  /\ node[n].deleting = cN[n].deleting
    BY <1>2, <2>2 DEF SyncNodes, WakesNode, BothThere, GenerationChanged
  <2> QED BY <1>0, <2>1, <2>2 DEF OwnedBy, OnlyShown
<1>3. CASE SyncClusters
  <2>1. cC' = cluster /\ UNCHANGED <<cN, cDep>>
    BY <1>3 DEF SyncClusters
  <2>2. ASSUME NEW n \in Nodes, NEW c \in Clusters, n \notin qN', cN[n] # None, cN[n].label = c,
               NEW o, OwnedBy(o, c)
        PROVE  OwnedBy(o, c)'
    <3>1. ~WakesNodes(cC[c], cluster[c])
      BY <1>3, <2>2 DEF SyncClusters, findNodesForCluster
    <3> QED BY <2>1, <2>2, <3>1 DEF WakesNodes, NewObject, BothThere, OwnedBy
  <2> QED BY <1>0, <2>1, <2>2 DEF OnlyShown
<1>4. CASE SyncDeployments
  <2>1. cDep' = dep /\ UNCHANGED <<cN, cC>>
    BY <1>4 DEF SyncDeployments
  <2>2. ASSUME NEW n \in Nodes, n \notin qN', NEW d \in dep, d[2] = n PROVE d \in cDep
    BY <1>4, <2>2 DEF SyncDeployments
  <2> QED BY <1>0, <2>1, <2>2 DEF OwnedBy, OnlyShown
<1> QED BY <1>2, <1>3, <1>4

LEMMA InitWake == Init => WakeInv
<1> SUFFICES ASSUME Init PROVE WakeInv
  OBVIOUS
<1>1. nrc = None /\ cN = node /\ cC = cluster /\ cDep = dep
  BY DEF Init
<1>2. \A c \in Clusters : cluster[c] # None /\ cluster[c].uid = 1
  <2>1. \A c \in Clusters : cluster[c] \in ClusterObjects
    BY ChildrenCounted DEF Init, ClusterObjects
  <2> QED BY <2>1, AbsentIsNoObject DEF Init
<1>3. ASSUME NEW n \in Nodes, Done(n)
      PROVE  Home[n] \in Clusters /\ node[n] = Settled(n) /\ <<Home[n], n>> \in dep
  <2>1. node[n] # None
    BY <1>3 DEF Done
  <2>2. Home[n] # None /\ node[n] = Settled(n)
    BY <2>1 DEF Init
  <2>3. <<Home[n], n>> \in dep
    BY <2>2 DEF Init
  <2> QED BY <2>2, <2>3, OwnershipAssumption
<1>4. ASSUME NEW n \in Nodes, Done(n) PROVE Settles(n)
  <2>1. /\ node[n].spec = Home[n] /\ node[n].label = Home[n] /\ node[n].owner = <<Home[n], 1>>
        /\ node[n].cond = "Valid"
    <3>1. node[n] = Settled(n)
      BY <1>3, <1>4
    <3> QED BY <3>1 DEF Settled
  <2>2. ASSUME NEW d \in dep, d[2] = n PROVE d = <<Home[n], n>>
    <3>1. PICK m \in Nodes : d = <<Home[m], m>>
      BY DEF Init
    <3> QED BY <2>2, <3>1
  <2>3. OnlyShown(n, Home[n])
    BY <2>2 DEF OnlyShown
  <2>4. OwnedBy(node[n], Home[n])
    BY <1>1, <1>2, <1>3, <1>4, <2>1 DEF OwnedBy
  <2>5. cN[n].spec = Home[n] /\ cN[n].label = Home[n] /\ <<Home[n], n>> \in dep
    BY <1>1, <1>3, <1>4, <2>1
  <2> QED BY <2>1, <2>3, <2>4, <2>5 DEF Settles
<1>5. ASSUME NEW n \in Nodes, NEW m \in Nodes, Clashing(n, m), Done(n), Done(m)
      PROVE  cN[n].spec # cN[m].spec
  <2>1. cN[n].spec = Home[n] /\ cN[m].spec = Home[m] /\ Home[n] # None /\ Home[m] # None
    <3>1. /\ cN[n] = Settled(n) /\ cN[m] = Settled(m)
          /\ Home[n] \in Clusters /\ Home[m] \in Clusters
      BY <1>1, <1>3, <1>5
    <3>2. Settled(n).spec = Home[n] /\ Settled(m).spec = Home[m]
      BY DEF Settled
    <3> QED BY <3>1, <3>2, OwnershipAssumption
  <2>2. Home[n] # Home[m]
    BY <1>5, <2>1, OwnershipAssumption DEF Clashing
  <2> QED BY <2>1, <2>2
<1> QED BY <1>1, <1>4, <1>5 DEF WakeInv, FlightInv, SettledInv

LEMMA AlwaysWakes == Spec => []WakeInv
<1>1. TypeOK /\ WakeInv /\ [Next]_vars => WakeInv'
  <2> SUFFICES ASSUME TypeOK, WakeInv, [Next]_vars PROVE WakeInv'
    OBVIOUS
  <2>1. CASE \/ UNCHANGED vars \/ ClusterWrites
             \/ \E c \in Clusters : ClusterReads(c) \/ CreateCluster(c) \/ DeleteCluster(c)
    <3>1. UNCHANGED <<node, cN, cC, dep, cDep, qN, nrc>>
      BY <2>1 DEF vars, api, caches, queues, ClusterWrites, BlockDeletion, RemoveFinalizer,
         AddFinalizer, CountNodes, ClusterEnds, ClusterReads, CreateCluster, DeleteCluster
    <3> QED BY <3>1 DEF WakeInv, FlightInv, SettledInv, Settles, Done, Handling, OwnedBy, OnlyShown,
                        Accepted, Ref, Clashing, Polls
  <2>2. ASSUME NEW n \in Nodes, CollectDeployment(n) PROVE WakeInv'
    <3>1. /\ node[n] = None /\ dep' = {d \in dep : d[2] # n}
          /\ UNCHANGED <<node, cN, cC, cDep, qN, nrc>>
      BY <2>2 DEF CollectDeployment, caches, queues
    <3>2. nrc # None => /\ nrc.key = n => nrc.stale # FALSE
                        /\ Ref \in Clusters /\ nrc.key \in Nodes
      BY <3>1, AbsentIsNoObject DEF WakeInv, FlightInv, TypeOK, NodeReconciles, NodeObjects, Ref
    <3>3. FlightInv'
      BY <3>1, <3>2 DEF WakeInv, FlightInv, Done, Handling, OwnedBy, OnlyShown, Accepted, Ref,
                        Clashing, Polls
    <3>4. \A m \in Nodes : Done(m) => m # n /\ Done(m)' /\ Settles(m)'
      BY <3>1 DEF WakeInv, SettledInv, Settles, Done, Handling, OwnedBy, OnlyShown
    <3>5. \A m \in Nodes : Done(m)' => Done(m)
      BY <3>1 DEF Done, Handling
    <3> QED BY <3>1, <3>3, <3>4, <3>5 DEF WakeInv, SettledInv, Clashing
  <2>3. CASE Crash
    <3>1. nrc' = None /\ \A n \in Nodes : ~Done(n)'
      BY <2>3 DEF Crash, Done, api
    <3> QED BY <3>1 DEF WakeInv, FlightInv, SettledInv
  <2> QED BY <2>1, <2>2, <2>3, NodeBeginsWake, NodeContinuesWake, SyncWake, UsersWake DEF Next
<1> QED BY <1>1, InitWake, TypeCorrect, PTL DEF Spec

LEMMA RestingIsDone ==
    ASSUME TypeOK, cN = node, NEW n \in Nodes, NodeRests(n)
    PROVE  Done(n)
BY DEF NodeRests, Living, Done, Handling, TypeOK, OptNodes, NodeObjects

\* The node controller misses nothing that concerns the label, the owner or the
\* Deployment of a node: neither a move, a move back, nor an orphan that its
\* cache did not show, a conflict, or a successor of its cluster
\* (cleanupOrphanChildren, ensureClusterOwnerRef, the Requeues of Reconcile).
THEOREM NoMoveIsMissed == Spec => []RestingNodeIsSettled
<1>1. TypeOK /\ WakeInv => RestingNodeIsSettled
  <2> SUFFICES ASSUME TypeOK, WakeInv, cC = cluster, cN = node, cDep = dep,
                      NEW n \in Nodes, NodeRests(n)
               PROVE  LET c == node[n].spec
                      IN /\ node[n].cond = "Valid" /\ node[n].label = c
                         /\ cluster[c] # None /\ node[n].owner = <<c, cluster[c].uid>>
                         /\ {d \in dep : d[2] = n} = {<<c, n>>}
    BY DEF RestingNodeIsSettled
  <2>1. Settles(n)
    BY RestingIsDone DEF WakeInv, SettledInv
  <2>2. {d \in dep : d[2] = n} = {<<node[n].spec, n>>}
    BY <2>1 DEF Settles, OnlyShown
  <2> QED BY <2>1, <2>2 DEF Settles, OwnedBy
<1> QED BY <1>1, AlwaysWakes, TypeCorrect, PTL

\* Each of two rivals is checked against a list that may not show the other,
\* and yet one of them is told: a node is checked only after the cache shows
\* its own label, so the one that is checked last finds the other (the label
\* patch before the validation in Reconcile).
THEOREM RivalsAreTold == Spec => []RestingNodesDoNotClash
<1>1. TypeOK /\ WakeInv => RestingNodesDoNotClash
  <2> SUFFICES ASSUME TypeOK, WakeInv, cN = node, NEW n \in Nodes, NEW m \in Nodes,
                      n # m, <<n, m>> \in Clash, NodeRests(n), NodeRests(m)
               PROVE  node[n].spec # node[m].spec
    BY DEF RestingNodesDoNotClash
  <2>1. Done(n) /\ Done(m) /\ Clashing(n, m)
    BY RestingIsDone DEF Clashing
  <2> QED BY <2>1 DEF WakeInv, SettledInv
<1> QED BY <1>1, AlwaysWakes, TypeCorrect, PTL
=============================================================================
