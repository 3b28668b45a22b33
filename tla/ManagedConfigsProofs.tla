------------------------ MODULE ManagedConfigsProofs ------------------------
(***************************************************************************)
(* Theorems about ManagedConfigs, for any resources, nodes, keystores and  *)
(* edits: when the controllers rest, what is reported and what is mounted  *)
(* is about the resources as they are, and keystores that are reported as  *)
(* ready are published, made from the certificates as they are.            *)
(***************************************************************************)
EXTENDS ManagedConfigs, ConfigDiscoveryProofs

(* What the variables look like, as far as the proofs look at them. *)

Types == [Nodes -> {"admin", "runtime"}]

Shape ==
    /\ cache = [objs |-> cache.objs, typ |-> cache.typ, src |-> cache.src, items |-> cache.items]
    /\ DOMAIN objs = Resources /\ DOMAIN cache.objs = Resources
    /\ typ \in Types /\ cache.typ \in Types
    /\ confFor \in Nodes \cup {None}
    /\ DOMAIN dep = Nodes /\ DOMAIN applied = Nodes /\ adminless \subseteq Nodes
    /\ clusterQueued \in BOOLEAN /\ nodesQueued \subseteq Nodes
    /\ crc.keystore # None =>
         crc = [keystore |-> crc.keystore, stale |-> crc.stale, issues |-> crc.issues]
    /\ nrc.n # None =>
         /\ nrc.n \in Nodes
         /\ nrc = [n |-> nrc.n, admin |-> nrc.admin, items |-> nrc.items, mounts |-> nrc.mounts,
                   stale |-> nrc.stale]

LEMMA AdminFound ==
    ASSUME NEW T \in Types
    PROVE  /\ AdminOf(T) \in Nodes \cup {None}
           /\ AdminOf(T) # None => T[AdminOf(T)] = "admin"
           /\ AdminOf(T) = None => \A n \in Nodes : T[n] # "admin"
BY ManagedConfigsAssumption DEF AdminOf, Types

LEMMA AllListed == Complete(Listings)
BY ManagedConfigsAssumption DEF Complete, IsInjective

\* What an object becomes is not seen if it is in scope neither before nor after.
LEMMA NotSeen ==
    ASSUME NEW os, NEW new, NEW r \in Resources,
           \A q \in Resources : new[q] = IF q = r THEN new[r] ELSE os[q],
           ~Managed(os[r], Cluster), ~Managed(new[r], Cluster)
    PROVE  Found(new) = Found(os) /\ skippedResources(new, Cluster) = skippedResources(os, Cluster)
BY AllListed, OutOfScope DEF Found

\* Something is found, with the configs in scope.
LEMMA Finding ==
    ASSUME NEW os
    PROVE  /\ Found(os) # {} /\ Found(os) = discoverManagedResources(os, Cluster, Listings)
           /\ \A found \in Found(os) : Range(found) = Scoped(os, Cluster)
BY AllListed, FoundSomething, FoundIs DEF Found

Reported(os) == managedResourceIssues(Scoped(os, Cluster), skippedResources(os, Cluster))

\* What is reported does not depend on the cache's order ...
LEMMA OneReport ==
    ASSUME NEW os
    PROVE  Issues(os) = {Reported(os)}
BY Finding DEF Issues, Reported

\* ... nor which configs are mounted, nor in which order if that is fixed.
LEMMA OneMount ==
    ASSUME NEW os, NEW type, NEW adminExists, NEW mounts \in Mounts(os, type, adminExists)
    PROVE  /\ OneOrder(os, Cluster) => Mounts(os, type, adminExists) = {mounts}
           /\ Range(mounts) = {<<cfg.res, cfg.type, cfg.data>> :
                cfg \in {a \in Accepted(os, Cluster) : shouldMountConfig(type, adminExists, a.type)}}
<1>1. PICK found \in Found(os) : mounts = mountedConfigs(found, type, adminExists)
  BY DEF Mounts
<1>2. found \in discoverManagedResources(os, Cluster, Listings)
  BY <1>1, Finding
<1>3. ASSUME OneOrder(os, Cluster) PROVE Mounts(os, type, adminExists) = {mounts}
  <2>1. Found(os) = {found}
    BY <1>2, <1>3, AllListed, FoundOnce, Finding
  <2> QED BY <1>1, <2>1 DEF Mounts
<1> QED BY <1>1, <1>2, <1>3, AllListed, MountedIs

LEMMA InitShaped == Init => Shape
<1> SUFFICES ASSUME Init PROVE Shape
  OBVIOUS
<1>1. PICK i \in InitInputs : objs = i.objs /\ typ = i.typ /\ src = i.src /\ items = i.items
  BY DEF Init
<1>2. DOMAIN objs = Resources /\ typ \in Types
  BY <1>1, ManagedConfigsAssumption DEF Types
<1> QED BY <1>2 DEF Init, Truth, Shape, IdleCluster, IdleNode

LEMMA ConvertShaped ==
    ASSUME Shape, ensureConvertedKeystores
    PROVE  Shape'
<1>1. /\ UNCHANGED <<typ, cache, confFor, dep, applied, adminless, nodesQueued, nrc>>
      /\ \E reason \in KeystoreReasons : Conclude(reason)
  BY DEF ensureConvertedKeystores, KeystoreUnneeded, KeystoreCleared, KeystoreWaits, KeystoreFails,
         KeystoreKept, KeystoreWritten, Outcome, KeystoreReasons, ConvertFrame, outputs, lags
<1>2. DOMAIN objs' = Resources
  BY DEF Shape, ensureConvertedKeystores, KeystoreUnneeded, KeystoreCleared, KeystoreWaits,
         KeystoreFails, KeystoreKept, KeystoreWritten
<1> QED BY <1>1, <1>2 DEF Shape, Conclude

LEMMA ReconcileShaped ==
    ASSUME Shape, ClusterWritesStatus \/ ConfigFollows \/ (\E n \in Nodes : NodeDiscovers(n)) \/ NodeStep
    PROVE  Shape'
<1>1. CASE ClusterWritesStatus
  BY <1>1 DEF ClusterWritesStatus, Shape, inputs, IdleCluster
<1>2. CASE ConfigFollows
  BY <1>2, AdminFound DEF ConfigFollows, ConfigTurns, ConfigIsRewritten, Shape, inputs, lags
<1>3. ASSUME NEW n \in Nodes, NodeDiscovers(n) PROVE Shape'
  BY <1>3 DEF NodeDiscovers, Shape, inputs, outputs, lags
<1>4. CASE NodeStep
  <2>1. nrc.n \in Nodes
    BY <1>4 DEF NodeStep, NodeDefers, NodeDeploys, Shape
  <2> QED BY <1>4, <2>1
          DEF NodeStep, NodeDefers, NodeDeploys, NodeFrame, WriteStatus, Shape, inputs, lags, IdleNode
<1> QED BY <1>1, <1>2, <1>3, <1>4

LEMMA SyncShaped ==
    ASSUME Shape, Sync
    PROVE  Shape'
<1> USE DEF SyncFrame, inputs, outputs, Shape
<1>1. ASSUME NEW r \in Resources, SyncResource(r) PROVE Shape'
  BY <1>1 DEF SyncResource
<1>2. ASSUME NEW s \in Sources, SyncSource(s) PROVE Shape'
  BY <1>2 DEF SyncSource
<1>3. CASE SyncCluster
  BY <1>3 DEF SyncCluster
<1>4. ASSUME NEW n \in Nodes, SyncNode(n) PROVE Shape'
  BY <1>4 DEF SyncNode, Types
<1> QED BY <1>1, <1>2, <1>3, <1>4 DEF Sync

LEMMA DisturbanceShaped ==
    ASSUME Shape, Disturbance
    PROVE  Shape'
<1> USE DEF EditFrame, outputs, lags, queues, Shape
<1>1. ASSUME NEW r \in Resources, EditResource(r) PROVE Shape'
  BY <1>1 DEF EditResource
<1>2. ASSUME NEW s \in Sources, EditSource(s) PROVE Shape'
  BY <1>2 DEF EditSource
<1>3. ASSUME NEW n \in Nodes, EditType(n) PROVE Shape'
  <2>1. n # None /\ typ' \in Types
    BY <1>3, ManagedConfigsAssumption DEF EditType, Types
  <2>2. nrc'.n # None => /\ nrc'.n \in Nodes
                         /\ nrc' = [n |-> nrc'.n, admin |-> nrc'.admin, items |-> nrc'.items,
                                    mounts |-> nrc'.mounts, stale |-> nrc'.stale]
    BY <1>3, <2>1 DEF EditType
  <2> QED BY <1>3, <2>1, <2>2 DEF EditType
<1>4. CASE Tamper
  <2>1. DOMAIN objs' = Resources
    BY <1>4 DEF Tamper
  <2> QED BY <1>4, <2>1 DEF Tamper
<1>5. CASE EditItems
  BY <1>5 DEF EditItems
<1>6. CASE Crash
  BY <1>6 DEF Crash, Truth, IdleCluster, IdleNode, inputs
<1>7. CASE Relabel
  <2>1. DOMAIN objs' = Resources
    BY <1>7 DEF Relabel
  <2> QED BY <1>7, <2>1 DEF Relabel
<1> QED BY <1>1, <1>2, <1>3, <1>4, <1>5, <1>6, <1>7 DEF Disturbance

LEMMA NextShaped == Shape /\ [Next]_vars => Shape'
<1>1. Shape /\ UNCHANGED vars => Shape'
  BY DEF vars, inputs, outputs, lags, queues, Shape
<1> QED BY <1>1, ConvertShaped, ReconcileShaped, SyncShaped, DisturbanceShaped DEF Next, ClusterStep

LEMMA AlwaysShaped == Spec => []Shape
BY InitShaped, NextShaped, PTL DEF Spec

-----------------------------------------------------------------------------
(* The cluster's report.  When no reconcile is due, the status or, in the  *)
(* one in flight, what is about to be written is about the cache.          *)

ReportInv ==
    ~clusterQueued =>
        IF crc.keystore = None THEN cstatus.issues \in Issues(cache.objs)
        ELSE ~crc.stale => crc.issues \in Issues(cache.objs)

LEMMA ConvertReports ==
    ASSUME Shape, ensureConvertedKeystores
    PROVE  ReportInv'
<1>1. /\ UNCHANGED cache
      /\ \E reason \in KeystoreReasons : Conclude(reason)
  BY DEF ensureConvertedKeystores, KeystoreUnneeded, KeystoreCleared, KeystoreWaits, KeystoreFails,
         KeystoreKept, KeystoreWritten, Outcome, KeystoreReasons, ConvertFrame, lags
<1>2. PICK reason \in KeystoreReasons : Conclude(reason)
  BY <1>1
<1>3. PICK issues \in Issues(cache.objs) :
        crc' = [keystore |-> reason, stale |-> clusterLag # {}, issues |-> issues]
  BY <1>2 DEF Conclude
<1>4. crc'.issues \in Issues(cache.objs)
  BY <1>3
<1>5. crc'.keystore # None
  BY <1>3, ManagedConfigsAssumption
<1> QED BY <1>1, <1>4, <1>5 DEF ReportInv

LEMMA SyncReports ==
    ASSUME Shape, ReportInv, Sync
    PROVE  ReportInv'
<1>1. UNCHANGED <<cstatus, crc>>
  BY DEF Sync, SyncResource, SyncSource, SyncCluster, SyncNode, SyncFrame, outputs
<1>2. clusterQueued => clusterQueued'
  BY DEF Sync, SyncResource, SyncSource, SyncCluster, SyncNode
<1>3. ASSUME NEW r \in Resources, SyncResource(r), ~clusterQueued'
      PROVE  Issues(cache'.objs) = Issues(cache.objs)
  <2>1. ~Managed(cache.objs[r], Cluster) /\ ~Managed(objs[r], Cluster)
    BY <1>3 DEF SyncResource, WakesCluster, ReachesCluster, Managed
  <2>2. /\ \A q \in Resources : cache'.objs[q] = IF q = r THEN cache'.objs[r] ELSE cache.objs[q]
        /\ cache'.objs[r] = objs[r]
    BY <1>3 DEF SyncResource, Shape
  <2>3. /\ Found(cache'.objs) = Found(cache.objs)
        /\ skippedResources(cache'.objs, Cluster) = skippedResources(cache.objs, Cluster)
    BY <2>1, <2>2, NotSeen
  <2> QED BY <2>3 DEF Issues
<1>4. CASE \E r \in Resources : SyncResource(r)
  BY <1>1, <1>2, <1>3, <1>4 DEF ReportInv
<1>5. CASE ~\E r \in Resources : SyncResource(r)
  <2>1. cache'.objs = cache.objs
    BY <1>5 DEF Sync, SyncSource, SyncCluster, SyncNode, Shape
  <2> QED BY <1>1, <1>2, <2>1 DEF ReportInv
<1> QED BY <1>4, <1>5

LEMMA DisturbanceReports ==
    ASSUME Shape, ReportInv, Disturbance
    PROVE  ReportInv'
<1>1. CASE EditItems
  <2>1. /\ UNCHANGED <<cstatus, cache, clusterQueued>>
        /\ crc' = IF crc.keystore = None THEN crc ELSE [crc EXCEPT !.stale = TRUE]
    BY <1>1 DEF EditItems, EditFrame, outputs, queues
  <2>2. crc.keystore # None => crc'.keystore = crc.keystore /\ crc'.stale
    BY <2>1 DEF Shape
  <2> QED BY <2>1, <2>2 DEF ReportInv
<1>2. CASE Crash
  BY <1>2 DEF Crash, ReportInv
<1>3. CASE Disturbance /\ ~EditItems /\ ~Crash
  <2>1. UNCHANGED <<cstatus, cache, clusterQueued, crc>>
    BY <1>3 DEF Disturbance, EditResource, EditSource, EditType, Tamper, Relabel, EditFrame, outputs, queues, lags
  <2> QED BY <2>1 DEF ReportInv
<1> QED BY <1>1, <1>2, <1>3

LEMMA NextReports == Shape /\ ReportInv /\ [Next]_vars => ReportInv'
<1> SUFFICES ASSUME Shape, ReportInv, [Next]_vars PROVE ReportInv'
  OBVIOUS
<1>1. CASE ClusterWritesStatus
  <2>1. crc'.keystore = None /\ UNCHANGED cache
    BY <1>1 DEF ClusterWritesStatus, IdleCluster
  <2>2. crc.stale => clusterQueued'
    BY <1>1 DEF ClusterWritesStatus
  <2>3. ~crc.stale => cstatus'.issues = crc.issues /\ clusterQueued' = clusterQueued
    BY <1>1 DEF ClusterWritesStatus, Shape
  <2> QED BY <1>1, <2>1, <2>2, <2>3 DEF ClusterWritesStatus, ReportInv
<1>2. CASE ConfigFollows \/ (\E n \in Nodes : NodeDiscovers(n)) \/ NodeStep \/ UNCHANGED vars
  <2>1. UNCHANGED <<cstatus, cache, clusterQueued, crc>>
    BY <1>2 DEF ConfigFollows, NodeDiscovers, NodeStep, NodeDefers, NodeDeploys, NodeFrame, vars,
                inputs, outputs, lags, queues
  <2> QED BY <2>1 DEF ReportInv
<1> QED BY <1>1, <1>2, ConvertReports, SyncReports, DisturbanceReports DEF Next, ClusterStep

-----------------------------------------------------------------------------
(* The nodes' mounts.  They depend on whether the cluster has an admin, of *)
(* which a node hears through cluster.xml.                                 *)

\* What n made of it.
Told(n) == confFor # None /\ n \notin adminless

\* A reconcile that will not be repeated mounts what the cache calls for ...
FlightInv ==
    nrc.n \in Nodes \ nodesQueued =>
        /\ nrc.mounts \in Mounts(cache.objs, cache.typ[nrc.n], nrc.admin # None)
        /\ IF nrc.admin = None THEN ~Told(nrc.n) ELSE nrc.n \notin adminless

\* ... and so does a node for which none is due.
SettledInv ==
    \A n \in Nodes \ nodesQueued : nrc.n # n =>
        /\ applied[n] = buildAppliedManagedResources(dep[n])
        /\ dep[n] \in Mounts(cache.objs, cache.typ[n], Told(n))

NodesInv == FlightInv /\ SettledInv

\* Nothing of a step concerns nodes that are reconciled again anyway.
LEMMA AllQueued ==
    ASSUME nodesQueued' = Nodes
    PROVE  NodesInv'
BY DEF NodesInv, FlightInv, SettledInv

\* A step that keeps the caches' view, what was heard and the nodes' work.
LEMMA NothingHeard ==
    ASSUME NodesInv, UNCHANGED <<dep, applied, adminless>>,
           confFor' # None <=> confFor # None,
           nodesQueued \subseteq nodesQueued', nrc'.n = nrc.n,
           nrc.n # None => nrc'.mounts = nrc.mounts /\ nrc'.admin = nrc.admin,
           \A n \in Nodes \ nodesQueued' : cache'.typ[n] = cache.typ[n],
           nodesQueued' # Nodes => \A t, a : Mounts(cache'.objs, t, a) = Mounts(cache.objs, t, a),
           nodesQueued' \subseteq Nodes, None \notin Nodes
    PROVE  NodesInv'
<1>1. CASE nodesQueued' = Nodes
  BY <1>1, AllQueued
<1>2. CASE nodesQueued' # Nodes
  <2>1. FlightInv'
    <3>1. SUFFICES ASSUME nrc'.n \in Nodes \ nodesQueued'
          PROVE  /\ nrc'.mounts \in Mounts(cache'.objs, cache'.typ[nrc'.n], nrc'.admin # None)
                 /\ IF nrc'.admin = None THEN ~Told(nrc.n)' ELSE nrc'.n \notin adminless'
      BY DEF FlightInv
    <3>2. /\ nrc.mounts \in Mounts(cache.objs, cache.typ[nrc.n], nrc.admin # None)
          /\ IF nrc.admin = None THEN ~Told(nrc.n) ELSE nrc.n \notin adminless
      BY <3>1 DEF NodesInv, FlightInv
    <3>3. Mounts(cache'.objs, cache'.typ[nrc'.n], nrc'.admin # None)
            = Mounts(cache.objs, cache.typ[nrc.n], nrc.admin # None)
      BY <1>2, <3>1
    <3> QED BY <3>1, <3>2, <3>3 DEF Told
  <2>2. SettledInv'
    <3>1. SUFFICES ASSUME NEW n \in Nodes, n \notin nodesQueued', nrc'.n # n
          PROVE  /\ applied'[n] = buildAppliedManagedResources(dep'[n])
                 /\ dep'[n] \in Mounts(cache'.objs, cache'.typ[n], confFor' # None /\ n \notin adminless')
      BY DEF SettledInv, Told
    <3>2. /\ applied[n] = buildAppliedManagedResources(dep[n])
          /\ dep[n] \in Mounts(cache.objs, cache.typ[n], Told(n))
      BY <3>1 DEF NodesInv, SettledInv
    <3>3. (confFor' # None /\ n \notin adminless') = Told(n)
      BY DEF Told
    <3>4. Mounts(cache'.objs, cache'.typ[n], Told(n)) = Mounts(cache.objs, cache.typ[n], Told(n))
      BY <1>2, <3>1
    <3> QED BY <3>2, <3>3, <3>4
  <2> QED BY <2>1, <2>2 DEF NodesInv
<1> QED BY <1>1, <1>2

LEMMA DiscoverMounts ==
    ASSUME Shape, NodesInv, NEW n \in Nodes, NodeDiscovers(n)
    PROVE  NodesInv'
<1>1. /\ UNCHANGED <<cache, confFor, dep, applied>>
      /\ nodesQueued' = nodesQueued \ {n} /\ nrc.n = None /\ n # None
      /\ nrc'.n = n /\ nrc'.admin = AdminOf(cache.typ)
      /\ nrc'.mounts \in Mounts(cache.objs, cache.typ[n], AdminOf(cache.typ) # None)
      /\ adminless' = IF AdminOf(cache.typ) = None /\ confFor # None THEN adminless \cup {n}
                      ELSE adminless \ {n}
  BY ManagedConfigsAssumption DEF NodeDiscovers, inputs, lags
<1>2. nrc'.mounts \in Mounts(cache.objs, cache.typ[n], nrc'.admin # None)
  BY <1>1
<1>3. IF nrc'.admin = None THEN ~(confFor' # None /\ n \notin adminless') ELSE n \notin adminless'
  BY <1>1
<1>4. FlightInv'
  BY <1>1, <1>2, <1>3 DEF FlightInv, Told
<1>5. \A m \in Nodes \ nodesQueued' : nrc'.n # m => m \in Nodes \ nodesQueued /\ nrc.n # m /\ m # n
  BY <1>1, ManagedConfigsAssumption
<1>6. ASSUME NEW m \in Nodes \ nodesQueued', nrc'.n # m
      PROVE  /\ applied'[m] = buildAppliedManagedResources(dep'[m])
             /\ dep'[m] \in Mounts(cache'.objs, cache'.typ[m], confFor' # None /\ m \notin adminless')
  <2>1. /\ applied[m] = buildAppliedManagedResources(dep[m])
        /\ dep[m] \in Mounts(cache.objs, cache.typ[m], Told(m))
    BY <1>5, <1>6 DEF NodesInv, SettledInv
  <2>2. (confFor' # None /\ m \notin adminless') = Told(m)
    BY <1>1, <1>5, <1>6 DEF Told
  <2> QED BY <1>1, <2>1, <2>2
<1>7. SettledInv'
  BY <1>6 DEF SettledInv, Told
<1> QED BY <1>4, <1>7 DEF NodesInv

LEMMA DeployMounts ==
    ASSUME Shape, NodesInv, NodeStep
    PROVE  NodesInv'
<1>1. /\ UNCHANGED <<cache, confFor, adminless>> /\ nrc.n \in Nodes /\ nrc'.n = None
      /\ nodesQueued \subseteq nodesQueued'
  BY DEF NodeStep, NodeDefers, NodeDeploys, NodeFrame, WriteStatus, lags, Shape, IdleNode
<1>2. FlightInv'
  BY <1>1, ManagedConfigsAssumption DEF FlightInv
<1>3. \A n \in Nodes \ {nrc.n} : dep'[n] = dep[n] /\ applied'[n] = applied[n]
  BY DEF NodeStep, NodeDefers, NodeDeploys, WriteStatus, Shape
<1>4. \A n : Told(n)' = Told(n)
  BY <1>1 DEF Told
<1>5. ASSUME nrc.n \notin nodesQueued'
      PROVE  /\ applied'[nrc.n] = buildAppliedManagedResources(dep'[nrc.n])
             /\ dep'[nrc.n] \in Mounts(cache.objs, cache.typ[nrc.n], Told(nrc.n))
  <2>1. NodeDeploys /\ ~nrc.stale
    BY <1>1, <1>5 DEF NodeStep, NodeDefers, NodeDeploys, WriteStatus
  <2>2. dep'[nrc.n] = nrc.mounts /\ applied'[nrc.n] = buildAppliedManagedResources(nrc.mounts)
    BY <1>1, <2>1 DEF NodeDeploys, WriteStatus, Shape
  <2>3. nrc.admin # None => confFor # None
    BY <2>1 DEF NodeDeploys, ConfigReady
  <2>4. nrc.n \in Nodes \ nodesQueued
    BY <1>1, <1>5
  <2>5. (nrc.admin # None) = Told(nrc.n)
    BY <2>3, <2>4 DEF NodesInv, FlightInv, Told
  <2> QED BY <2>2, <2>4, <2>5 DEF NodesInv, FlightInv
<1>6. SettledInv'
  <2>1. SUFFICES ASSUME NEW n \in Nodes \ nodesQueued'
        PROVE  /\ applied'[n] = buildAppliedManagedResources(dep'[n])
               /\ dep'[n] \in Mounts(cache.objs, cache.typ[n], Told(n))
    BY <1>1 DEF SettledInv, Told
  <2>2. CASE n = nrc.n
    BY <1>5, <2>1, <2>2
  <2>3. CASE n # nrc.n
    <3>1. /\ applied[n] = buildAppliedManagedResources(dep[n])
          /\ dep[n] \in Mounts(cache.objs, cache.typ[n], Told(n))
      BY <1>1, <2>1, <2>3 DEF NodesInv, SettledInv
    <3> QED BY <1>3, <2>1, <2>3, <3>1
  <2> QED BY <2>2, <2>3
<1> QED BY <1>2, <1>6 DEF NodesInv

LEMMA SyncMounts ==
    ASSUME Shape, NodesInv, Sync
    PROVE  NodesInv'
<1>1. /\ UNCHANGED <<confFor, dep, applied, adminless, nrc>>
      /\ nodesQueued \subseteq nodesQueued' /\ nodesQueued' \subseteq Nodes /\ None \notin Nodes
  BY ManagedConfigsAssumption
     DEF Sync, SyncResource, SyncSource, SyncCluster, SyncNode, SyncFrame, outputs, Shape
<1>2. \A n \in Nodes \ nodesQueued' : cache'.typ[n] = cache.typ[n]
  <2>1. ASSUME NEW m \in Nodes, SyncNode(m)
        PROVE  \A n \in Nodes \ nodesQueued' : cache'.typ[n] = cache.typ[n]
    BY <2>1 DEF SyncNode, Shape, Types
  <2>2. CASE ~\E m \in Nodes : SyncNode(m)
    BY <2>2 DEF Sync, SyncResource, SyncSource, SyncCluster, Shape
  <2> QED BY <2>1, <2>2
<1>3. ASSUME nodesQueued' # Nodes, NEW t, NEW a
      PROVE  Mounts(cache'.objs, t, a) = Mounts(cache.objs, t, a)
  <2>1. ASSUME NEW r \in Resources, SyncResource(r)
        PROVE  Found(cache'.objs) = Found(cache.objs)
    <3>1. ~Managed(cache.objs[r], Cluster) /\ ~Managed(objs[r], Cluster)
      BY <1>3, <2>1 DEF SyncResource, WakesNodes, ReachesNodes
    <3>2. /\ \A q \in Resources : cache'.objs[q] = IF q = r THEN cache'.objs[r] ELSE cache.objs[q]
          /\ cache'.objs[r] = objs[r]
      BY <2>1 DEF SyncResource, Shape
    <3> QED BY <3>1, <3>2, NotSeen
  <2>2. CASE ~\E r \in Resources : SyncResource(r)
    <3>1. cache'.objs = cache.objs
      BY <2>2 DEF Sync, SyncSource, SyncCluster, SyncNode, Shape
    <3> QED BY <3>1
  <2>3. CASE \E r \in Resources : SyncResource(r)
    BY <2>1, <2>3 DEF Mounts
  <2> QED BY <2>2, <2>3
<1> QED BY <1>1, <1>2, <1>3, NothingHeard

LEMMA DisturbanceMounts ==
    ASSUME Shape, NodesInv, Disturbance
    PROVE  NodesInv'
<1>1. CASE Crash
  BY <1>1, AllQueued DEF Crash
<1>2. CASE ~Crash
  <2>1. /\ UNCHANGED <<cache, confFor, dep, applied, adminless, nodesQueued>>
        /\ None \notin Nodes /\ nodesQueued \subseteq Nodes
    BY <1>2, ManagedConfigsAssumption
       DEF Disturbance, EditResource, EditSource, EditType, EditItems, Tamper, Relabel, EditFrame,
           outputs, lags, queues, Shape
  <2>2. nrc'.n = nrc.n /\ (nrc.n # None => nrc'.mounts = nrc.mounts /\ nrc'.admin = nrc.admin)
    <3>1. ASSUME NEW n \in Nodes, EditType(n)
          PROVE  nrc'.n = nrc.n /\ (nrc.n # None => nrc'.mounts = nrc.mounts /\ nrc'.admin = nrc.admin)
      BY <3>1, <2>1 DEF EditType, Shape
    <3>2. CASE ~\E n \in Nodes : EditType(n)
      BY <1>2, <3>2 DEF Disturbance, EditResource, EditSource, EditItems, Tamper, Relabel
    <3> QED BY <3>1, <3>2
  <2> QED BY <2>1, <2>2, NothingHeard
<1> QED BY <1>1, <1>2

LEMMA NextMounts == Shape /\ NodesInv /\ [Next]_vars => NodesInv'
<1> SUFFICES ASSUME Shape, NodesInv, [Next]_vars PROVE NodesInv'
  OBVIOUS
<1>1. CASE ConfigFollows /\ ConfigTurns
  BY <1>1, AllQueued DEF ConfigTurns
<1>2. CASE (ConfigFollows /\ ConfigIsRewritten) \/ ClusterStep \/ UNCHANGED vars
  <2>1. /\ UNCHANGED <<cache, dep, applied, adminless, nodesQueued, nrc>>
        /\ confFor' # None <=> confFor # None
    BY <1>2 DEF ConfigFollows, ConfigIsRewritten, ClusterStep, ClusterWritesStatus,
                ensureConvertedKeystores, KeystoreUnneeded, KeystoreCleared, KeystoreWaits,
                KeystoreFails, KeystoreKept, KeystoreWritten,
                ConvertFrame, vars, inputs, outputs, lags, queues
  <2>2. nodesQueued' \subseteq Nodes /\ None \notin Nodes
    BY <2>1, ManagedConfigsAssumption DEF Shape
  <2> QED BY <2>1, <2>2, NothingHeard
<1>3. CASE ConfigFollows
  BY <1>1, <1>2, <1>3 DEF ConfigFollows
<1> QED BY <1>2, <1>3, DiscoverMounts, DeployMounts, SyncMounts, DisturbanceMounts DEF Next

-----------------------------------------------------------------------------
\* When the controllers have nothing left to do or to learn, the cluster
\* reports the issues of the resources as they are, and each node mounts and
\* lists what they call for, whichever way the cache lists them if names or
\* number fix the order: no edit, however it falls between the reads and writes
\* of the two controllers, goes unnoticed (newUnionScopeHandler,
\* findNodesForManagedConfig, findClustersForManagedConfig).  Only an admin may,
\* to a node that looked in between while cluster.xml stayed published.
THEOREM NoEditIsMissed == Spec => []RestIsCurrent
<1>1. Init => ReportInv /\ NodesInv
  BY DEF Init, ReportInv, NodesInv, FlightInv, SettledInv
<1>2. Shape /\ ReportInv /\ NodesInv => RestIsCurrent
  <2> SUFFICES ASSUME Shape, ReportInv, NodesInv, AtRest
               PROVE  /\ cstatus.issues \in Issues(objs)
                      /\ \A n \in Nodes :
                           /\ dep[n] \in Mounts(objs, typ[n], AdminOf(typ) # None /\ n \notin adminless)
                           /\ applied[n] = buildAppliedManagedResources(dep[n])
    <3>1. \A m \in Issues(objs) : Issues(objs) = {m}
      BY OneReport
    <3>2. ASSUME NEW n \in Nodes, NEW a, NEW m \in Mounts(objs, typ[n], a), OneOrder(objs, Cluster)
          PROVE  Mounts(objs, typ[n], a) = {m}
      BY <3>2, OneMount
    <3> QED BY <3>1, <3>2 DEF RestIsCurrent
  <2>1. /\ cache.objs = objs /\ cache.typ = typ /\ nodesQueued = {} /\ ~clusterQueued
        /\ crc.keystore = None /\ nrc.n = None /\ confFor = AdminOf(typ)
    BY DEF AtRest, Truth, IdleCluster, IdleNode
  <2>2. ASSUME NEW n \in Nodes
        PROVE  /\ dep[n] \in Mounts(objs, typ[n], AdminOf(typ) # None /\ n \notin adminless)
               /\ applied[n] = buildAppliedManagedResources(dep[n])
    <3>1. n \in Nodes \ nodesQueued /\ nrc.n # n
      BY <2>1, ManagedConfigsAssumption
    <3>2. Told(n) = (AdminOf(typ) # None /\ n \notin adminless)
      BY <2>1 DEF Told
    <3> QED BY <2>1, <3>1, <3>2 DEF NodesInv, SettledInv
  <2> QED BY <2>1, <2>2 DEF ReportInv
<1> QED BY <1>1, <1>2, AlwaysShaped, NextReports, NextMounts, PTL DEF Spec

\* What the admin means to a node at rest.
Admin(n) == AdminOf(typ) # None /\ n \notin adminless

\* A node mounts a resource that is accepted, if its type and the admin say so.
LEMMA MountsOfNode ==
    ASSUME RestIsCurrent, AtRest, NEW n \in Nodes, NEW r
    PROVE  /\ (\E m \in applied[n] : m[1] = r)
                <=> \E cfg \in Accepted(objs, Cluster) :
                       cfg.res = r /\ shouldMountConfig(typ[n], Admin(n), cfg.type)
           /\ \A cfg \in Accepted(objs, Cluster) :
                shouldMountConfig(typ[n], Admin(n), cfg.type)
                  => <<cfg.res, cfg.type>> \in applied[n]
<1> DEFINE S == {a \in Accepted(objs, Cluster) : shouldMountConfig(typ[n], Admin(n), a.type)}
<1>1. /\ dep[n] \in Mounts(objs, typ[n], Admin(n))
      /\ applied[n] = {<<h[1], h[2]>> : h \in Range(dep[n])}
  BY DEF RestIsCurrent, buildAppliedManagedResources, Admin
<1>2. Range(dep[n]) = {<<cfg.res, cfg.type, cfg.data>> : cfg \in S}
  BY <1>1, OneMount
<1>3. /\ \A cfg \in S : /\ cfg \in Accepted(objs, Cluster)
                        /\ shouldMountConfig(typ[n], Admin(n), cfg.type)
      /\ \A cfg \in Accepted(objs, Cluster) :
           shouldMountConfig(typ[n], Admin(n), cfg.type) => cfg \in S
  OBVIOUS
<1> HIDE DEF S
<1>4. ASSUME NEW m \in applied[n] PROVE \E cfg \in S : m[1] = cfg.res
  <2>1. PICK h \in Range(dep[n]) : m = <<h[1], h[2]>>
    BY <1>1
  <2>2. PICK cfg \in S : h = <<cfg.res, cfg.type, cfg.data>>
    BY <1>2
  <2> QED BY <2>1, <2>2
<1>5. ASSUME NEW cfg \in S PROVE <<cfg.res, cfg.type>> \in applied[n]
  <2>1. <<cfg.res, cfg.type, cfg.data>> \in Range(dep[n])
    BY <1>2
  <2> QED BY <1>1, <2>1
<1>6. \A cfg \in S : <<cfg.res, cfg.type>>[1] = cfg.res
  OBVIOUS
<1> QED BY <1>3, <1>4, <1>5, <1>6

\* Only logging resources are in competition.
LEMMA OthersAreAccepted ==
    ASSUME NEW os, NEW r \in InScope(os, Cluster), os[r].type \in ConfigTypes \ {"logging"}
    PROVE  \E cfg \in Accepted(os, Cluster) : cfg.res = r /\ cfg.type = os[r].type
<1> DEFINE cfg == Config(r, os[r])
           C == Scoped(os, Cluster)
<1>1. cfg.res = r /\ cfg.type = os[r].type
  BY DiscoveryAssumption DEF Config, resolveConfigType
<1>2. cfg \in C
  BY <1>1 DEF Scoped, Mountable, skippedResources, Config, ConfigTypes
<1>3. cfg \notin Invalid(C)
  BY <1>1 DEF Invalid
<1>4. r \notin detectDuplicateLoggingConfigs(C \ Invalid(C))
  <2>1. \A other \in C : other.res = r => other.type = os[r].type
    BY <1>1, ScopedAre DEF Config
  <2> HIDE DEF C
  <2> QED BY <2>1 DEF detectDuplicateLoggingConfigs
<1>5. Accepted(os, Cluster)
        = {a \in C \ Invalid(C) : a.res \notin detectDuplicateLoggingConfigs(C \ Invalid(C))}
  BY DEF Accepted, applyLoggingValidations
<1> HIDE DEF cfg, C
<1> QED BY <1>1, <1>2, <1>3, <1>4, <1>5

\* What is accepted some node mounts, but for a script without an admin.
LEMMA AcceptedIsMounted ==
    ASSUME Nodes # {}, typ \in Types, NEW cfg \in Accepted(objs, Cluster),
           ~(objs[cfg.res].type = "postCommitScript" /\ AdminOf(typ) = None)
    PROVE  \E n \in Nodes : shouldMountConfig(typ[n], Admin(n), cfg.type)
<1>1. cfg \in Scoped(objs, Cluster)
  BY DEF Accepted, applyLoggingValidations
<1>2. cfg.type \in ConfigTypes /\ cfg.type = resolveConfigType(objs[cfg.res])
  BY <1>1, ScopedAre
<1>3. CASE AdminOf(typ) # None
  <2>1. AdminOf(typ) \in Nodes /\ typ[AdminOf(typ)] = "admin"
    BY <1>3, AdminFound
  <2> QED BY <2>1 DEF shouldMountConfig
<1>4. CASE AdminOf(typ) = None
  <2>1. cfg.type # "postCommitScript"
    BY <1>2, <1>4, DiscoveryAssumption DEF resolveConfigType, ConfigTypes
  <2>2. \A n \in Nodes : ~Admin(n)
    BY <1>4 DEF Admin
  <2> QED BY <1>2, <2>1, <2>2 DEF shouldMountConfig, ConfigTypes
<1> QED BY <1>3, <1>4

\* A resource in scope is reported as dropped exactly if no node mounts it,
\* although different controllers report and mount, each from its own reads
\* (applyLoggingValidations, shouldMountConfig; a script awaits an admin).
THEOREM DroppedIsReported == Nodes # {} => (Spec => []StatusTellsMounts)
<1> SUFFICES ASSUME Nodes # {} PROVE Spec => []StatusTellsMounts
  OBVIOUS
<1>1. Shape /\ RestIsCurrent => StatusTellsMounts
  <2> SUFFICES ASSUME Shape, RestIsCurrent, AtRest, NEW r \in InScope(objs, Cluster)
               PROVE  r \in Dropped(cstatus.issues)
                        <=> /\ \A n \in Nodes : \A m \in applied[n] : m[1] # r
                            /\ ~(objs[r].type = "postCommitScript" /\ AdminOf(typ) = None)
    BY DEF StatusTellsMounts
  <2>1. cstatus.issues = Reported(objs)
    BY OneReport DEF RestIsCurrent
  <2>2. r \in Dropped(cstatus.issues) <=> \A cfg \in Accepted(objs, Cluster) : cfg.res # r
    BY <2>1, DroppedIs DEF Reported
  <2>3. ASSUME r \in Dropped(cstatus.issues)
        PROVE  /\ \A n \in Nodes : \A m \in applied[n] : m[1] # r
               /\ objs[r].type # "postCommitScript"
    BY <2>2, <2>3, MountsOfNode, OthersAreAccepted DEF ConfigTypes
  <2>4. ASSUME r \notin Dropped(cstatus.issues), ~(objs[r].type = "postCommitScript" /\ AdminOf(typ) = None)
        PROVE  \E n \in Nodes : \E m \in applied[n] : m[1] = r
    <3>1. PICK cfg \in Accepted(objs, Cluster) : cfg.res = r
      BY <2>2, <2>4
    <3>2. PICK n \in Nodes : shouldMountConfig(typ[n], Admin(n), cfg.type)
      BY <2>4, <3>1, AcceptedIsMounted DEF Shape
    <3> QED BY <3>1, <3>2, MountsOfNode
  <2> QED BY <2>3, <2>4
<1> QED BY <1>1, AlwaysShaped, NoEditIsMissed, PTL

-----------------------------------------------------------------------------
(* What is published under the name Out: the keystores as they were        *)
(* converted, or edited by hand, or nothing.                               *)

LEMMA WithIs ==
    ASSUME NEW data \in Environments, NEW name \in VariableNames, NEW e \in Encodings
    PROVE  With(data, name, e) \in Environments
<1>1. PICK V \in SUBSET VariableNames : data \in [V -> Encodings]
  BY DEF Environments
<1>2. With(data, name, e) \in [V \cup {name} -> Encodings]
  BY <1>1 DEF With
<1>3. V \cup {name} \in SUBSET VariableNames
  OBVIOUS
<1> QED BY <1>2, <1>3 DEF Environments

LEMMA NothingIsAnEnvironment == NoData \in Environments /\ DOMAIN NoData = {}
<1>1. NoData \in [{} -> Encodings] /\ {} \in SUBSET VariableNames
  BY DEF NoData
<1> QED BY <1>1 DEF Environments

Accs == [data : Environments, failed : BOOLEAN]

\* A conversion has what it needs.
Convertible ==
    /\ NewSalt \in 0..2
    /\ cache.items \in ItemLists /\ cache.src \in [Sources -> Contents] /\ Missing = {}

LEMMA ItemsAre ==
    ASSUME NEW list \in ItemLists
    PROVE  /\ Len(list) \in Nat /\ DOMAIN list = 1..Len(list)
           /\ \A i \in 1..Len(list) :
                /\ list[i].src \in Sources /\ list[i].key \in Variables(list[i])
                /\ Variables(list[i]) = {list[i].key} \cup ({list[i].cert} \ {None})
                /\ Variables(list[i]) \subseteq VariableNames
BY ManagedConfigsAssumption DEF Variables, VariableNames

\* What one item adds.
Adds(item, acc, next) ==
    /\ \A v \in DOMAIN next.data :
         \/ v \in DOMAIN acc.data /\ next.data[v] = acc.data[v]
         \/ /\ v \in Variables(item) /\ next.data[v].salt \in {NewSalt, None}
            /\ next.data[v].from = cache.src[item.src]
    /\ ~next.failed =>
         /\ ~acc.failed /\ Variables(item) \cap DOMAIN acc.data = {}
         /\ cache.src[item.src] \in Keypairs
         /\ \A v \in Variables(item) :
              v \in DOMAIN next.data /\ next.data[v].from = cache.src[item.src]
         /\ \A v \in DOMAIN acc.data :
              v \in DOMAIN next.data /\ next.data[v] = acc.data[v]

LEMMA ConvertIs ==
    ASSUME Convertible, NEW i \in 1..Len(cache.items), NEW acc \in Accs,
           NEW item, item = cache.items[i], NEW next, next = Convert(acc, item)
    PROVE  next \in Accs /\ Adds(item, acc, next)
<1> DEFINE pair == cache.src[item.src]
           data == acc.data
           name == item.key
           cert == item.cert
           salted == [from |-> pair, salt |-> NewSalt]
           plain == [from |-> pair, salt |-> None]
           key == With(data, name, salted)
           both == With(key, cert, plain)
<1>1. /\ name \in VariableNames /\ (cert # None => cert \in VariableNames)
      /\ Variables(item) = {name} \cup ({cert} \ {None})
  BY ItemsAre DEF Convertible
<1>2. pair \in Contents \ {"absent", "keyless"}
  BY ItemsAre DEF Convertible, Missing
<1>3. acc = [data |-> data, failed |-> acc.failed] /\ data \in Environments /\ acc.failed \in BOOLEAN
  BY DEF Accs
<1>4. next = IF pair = "broken" \/ name \in DOMAIN data THEN [data |-> data, failed |-> TRUE]
             ELSE IF cert = None THEN [data |-> key, failed |-> acc.failed]
             ELSE IF cert \in DOMAIN key THEN [data |-> key, failed |-> TRUE]
             ELSE [data |-> both, failed |-> acc.failed]
  BY DEF Convert
<1>5. salted.from = pair /\ salted.salt = NewSalt /\ plain.from = pair /\ plain.salt = None
  OBVIOUS
<1>6. pair # "broken" => pair \in Keypairs /\ salted \in Encodings /\ plain \in Encodings
  <2> HIDE DEF pair
  <2> QED BY <1>2 DEF Keypairs, Encodings, Convertible
<1> HIDE DEF data, name, cert, salted, plain
<1>7. ASSUME pair # "broken"
      PROVE  /\ key \in Environments /\ DOMAIN key = DOMAIN data \cup {name}
             /\ \A v \in DOMAIN key : key[v] = IF v = name THEN salted ELSE data[v]
  <2>1. data \in Environments /\ name \in VariableNames /\ salted \in Encodings
    BY <1>1, <1>3, <1>6, <1>7
  <2>2. key \in Environments
    BY <2>1, WithIs
  <2>3. key = [v \in DOMAIN data \cup {name} |-> IF v = name THEN salted ELSE data[v]]
    BY DEF With
  <2> HIDE DEF key
  <2> QED BY <2>2, <2>3
<1> HIDE DEF key
<1>8. ASSUME pair # "broken", cert # None
      PROVE  /\ both \in Environments /\ DOMAIN both = DOMAIN key \cup {cert}
             /\ \A v \in DOMAIN both : both[v] = IF v = cert THEN plain ELSE key[v]
  <2>1. key \in Environments /\ cert \in VariableNames /\ plain \in Encodings
    BY <1>1, <1>6, <1>7, <1>8
  <2>2. both \in Environments
    BY <2>1, WithIs
  <2>3. both = [v \in DOMAIN key \cup {cert} |-> IF v = cert THEN plain ELSE key[v]]
    BY DEF With
  <2> HIDE DEF both
  <2> QED BY <2>2, <2>3
<1> HIDE DEF both
<1>10. CASE pair = "broken" \/ name \in DOMAIN data
  BY <1>3, <1>4, <1>10 DEF Accs, Adds, data
<1>11. CASE ~(pair = "broken" \/ name \in DOMAIN data) /\ cert = None
  BY <1>1, <1>3, <1>5, <1>6, <1>7, <1>4, <1>11 DEF Accs, Adds, data
<1>12. CASE ~(pair = "broken" \/ name \in DOMAIN data) /\ cert # None /\ cert \in DOMAIN key
  BY <1>1, <1>3, <1>5, <1>6, <1>7, <1>4, <1>12 DEF Accs, Adds, data
<1>13. CASE ~(pair = "broken" \/ name \in DOMAIN data) /\ cert # None /\ cert \notin DOMAIN key
  BY <1>1, <1>3, <1>5, <1>6, <1>7, <1>8, <1>4, <1>13 DEF Accs, Adds, data
<1> QED BY <1>10, <1>11, <1>12, <1>13

\* What is true after i items.
SoFar(i, acc) ==
    /\ \A v \in DOMAIN acc.data :
         /\ acc.data[v].salt \in {NewSalt, None}
         /\ \E j \in 1..i : /\ v \in Variables(cache.items[j])
                            /\ acc.data[v].from = cache.src[cache.items[j].src]
    /\ ~acc.failed =>
         /\ \A j \in 1..i :
              /\ cache.src[cache.items[j].src] \in Keypairs
              /\ \A v \in Variables(cache.items[j]) :
                   v \in DOMAIN acc.data /\ acc.data[v].from = cache.src[cache.items[j].src]
         /\ \A j, k \in 1..i :
              j # k => Variables(cache.items[j]) \cap Variables(cache.items[k]) = {}

LEMMA ConvertNext ==
    ASSUME Convertible, NEW i \in 1..Len(cache.items), NEW acc \in Accs, SoFar(i - 1, acc),
           NEW next, next = Convert(acc, cache.items[i])
    PROVE  SoFar(i, next)
<1> DEFINE item == cache.items[i]
<1>1. /\ 1..(i - 1) \subseteq 1..i /\ i \in 1..i /\ \A j \in 1..i : j = i \/ j \in 1..(i - 1)
  OBVIOUS
<1>2. Adds(item, acc, next)
  BY ConvertIs
<1>3. ASSUME NEW v \in DOMAIN next.data
      PROVE  /\ next.data[v].salt \in {NewSalt, None}
             /\ \E j \in 1..i : /\ v \in Variables(cache.items[j])
                                /\ next.data[v].from = cache.src[cache.items[j].src]
  BY <1>1, <1>2 DEF SoFar, Adds
<1>4. ASSUME ~next.failed, NEW j \in 1..i
      PROVE  /\ cache.src[cache.items[j].src] \in Keypairs
             /\ \A v \in Variables(cache.items[j]) :
                  v \in DOMAIN next.data /\ next.data[v].from = cache.src[cache.items[j].src]
  BY <1>1, <1>2, <1>4 DEF SoFar, Adds
<1>5. ASSUME ~next.failed, NEW j \in 1..i, NEW k \in 1..i, j # k
      PROVE  Variables(cache.items[j]) \cap Variables(cache.items[k]) = {}
  <2>1. \A m \in 1..(i - 1) : Variables(cache.items[m]) \subseteq DOMAIN acc.data
    BY <1>2, <1>5 DEF SoFar, Adds
  <2> QED BY <1>1, <1>2, <1>5, <2>1 DEF SoFar, Adds
<1> QED BY <1>3, <1>4, <1>5 DEF SoFar

\* What the conversion of the whole list returns.
LEMMA ConvertedIs ==
    ASSUME Convertible
    PROVE  Converted \in Accs /\ SoFar(Len(cache.items), Converted)
<1> DEFINE n == Len(cache.items)
           none == [data |-> NoData, failed |-> FALSE]
           G == [p \in Accs \X (1..n) |-> Convert(p[1], cache.items[p[2]])]
           Eq(a) == a = [i \in 0..n |-> IF i = 0 THEN none ELSE Convert(a[i - 1], cache.items[i])]
           after == CHOOSE a : Eq(a)
<1>1. n \in Nat
  BY ItemsAre DEF Convertible
<1>2. none \in Accs /\ SoFar(0, none)
  <2>1. none.data = NoData /\ none.failed = FALSE
    OBVIOUS
  <2>2. \A j \in 1..0 : FALSE
    OBVIOUS
  <2>3. none \in Accs
    BY NothingIsAnEnvironment DEF Accs
  <2>4. SoFar(0, none)
    <3> HIDE DEF none
    <3> QED BY <2>1, <2>2, NothingIsAnEnvironment DEF SoFar
  <2> QED BY <2>3, <2>4
<1> HIDE DEF none
<1>3. \A x \in Accs : \A i \in 1..n : Convert(x, cache.items[i]) \in Accs
  BY ConvertIs
<1>4. \A x \in Accs : \A i \in 1..n : G[<<x, i>>] = Convert(x, cache.items[i])
  OBVIOUS
<1>5. PICK f : Recursive(f, n, Accs, none, G)
  <2> HIDE DEF n, G
  <2>1. \A x \in Accs : \A i \in 1..n : G[<<x, i>>] \in Accs
    BY <1>3, <1>4
  <2> QED BY <1>1, <1>2, <2>1, Recursion
<1>6. Eq(f)
  <2> HIDE DEF n, G
  <2>1. \A i \in 1..n : i - 1 \in 0..n
    BY <1>1
  <2>2. \A i \in 1..n : f[i - 1] \in Accs
    BY <1>5, <2>1 DEF Recursive
  <2>3. \A i \in 1..n : f[i] = Convert(f[i - 1], cache.items[i])
    BY <1>4, <1>5, <2>2 DEF Recursive
  <2>4. \A i \in 0..n : i = 0 \/ i \in 1..n
    BY <1>1
  <2> QED BY <1>5, <2>3, <2>4 DEF Recursive
<1>7. Eq(after)
  <2> HIDE DEF Eq
  <2> QED BY <1>6
<1>8. /\ after[0] = none /\ \A i \in 1..n : after[i] = Convert(after[i - 1], cache.items[i])
      /\ Converted = after[n]
  <2>1. Converted = after[n]
    BY DEF Converted, none
  <2> HIDE DEF after
  <2>2. 0 \in 0..n /\ \A i \in 1..n : i \in 0..n /\ i # 0
    BY <1>1
  <2> HIDE DEF n
  <2> QED BY <1>7, <2>1, <2>2
<1> HIDE DEF after, Eq, G
<1> DEFINE T == {i \in 0..n : after[i] \in Accs /\ SoFar(i, after[i])}
<1>9. 0 \in T
  <2> HIDE DEF n
  <2>1. 0 \in 0..n
    BY <1>1
  <2> QED BY <1>2, <1>8, <2>1
<1>10. ASSUME NEW i \in 1..n, i - 1 \in T PROVE i \in T
  <2>1. after[i - 1] \in Accs /\ SoFar(i - 1, after[i - 1]) /\ i \in 0..n
    BY <1>10
  <2>2. after[i] \in Accs
    BY <1>3, <1>8, <2>1
  <2>3. SoFar(i, after[i])
    BY <1>8, <2>1, ConvertNext
  <2> QED BY <2>1, <2>2, <2>3
<1>11. n \in 0..n
  BY <1>1
<1> HIDE DEF T, n
<1>12. n \in T
  BY <1>1, <1>9, <1>10, <1>11, Inductive
<1> QED BY <1>8, <1>12 DEF T, n

Named(input) == {input[1], input[2]} \ {None}

Made(inp, data) ==
    \A v \in DOMAIN data : \E i \in DOMAIN inp : v \in Named(inp[i]) /\ data[v].from = inp[i][3]

\* One write salts all; the stamp tells from which certificates they were made.
Genuine(o) ==
    o # None =>
        /\ o \in PublishedSecrets
        /\ \E x \in 0..2 : \A k \in DOMAIN o.data : o.data[k].salt \in {x, None}
        /\ o.stamp # None => Made(o.stamp.inputs, o.stamp.output)

\* Two reads of the Secret that differ in what is published.
Unlike(a, b) == a # b /\ (a = None \/ b = None \/ a.data # b.data)

SecretInv ==
    /\ Genuine(objs[Out]) /\ Genuine(cache.objs[Out])
    /\ cache.objs[Out] # None => objs[Out] # None
    /\ src \in [Sources -> Contents] /\ cache.src \in [Sources -> Contents]
    /\ items \in ItemLists /\ cache.items \in ItemLists
    /\ clusterLag \subseteq {"edit", "status"}
    /\ "edit" \notin clusterLag => cache.items = items

LEMMA SaltIsNew ==
    ASSUME SecretInv
    PROVE  /\ NewSalt \in 0..2
           /\ \A o \in {objs[Out], cache.objs[Out]} \ {None} :
                \A k \in DOMAIN o.data : o.data[k].salt # NewSalt
<1>1. ASSUME NEW o, Genuine(o)
      PROVE  \E x \in 0..2 : o # None => \A k \in DOMAIN o.data : o.data[k].salt \in {x, None}
  BY <1>1 DEF Genuine
<1>2. PICK x \in 0..2 : objs[Out] # None => \A k \in DOMAIN objs[Out].data :
                                              objs[Out].data[k].salt \in {x, None}
  BY <1>1 DEF SecretInv
<1>3. PICK y \in 0..2 : cache.objs[Out] # None => \A k \in DOMAIN cache.objs[Out].data :
                                                    cache.objs[Out].data[k].salt \in {y, None}
  BY <1>1 DEF SecretInv
<1>4. PICK z \in 0..2 : z # x /\ z # y /\ z # None
  <2>1. \E z \in 0..2 : z # x /\ z # y
    <3>1. 0 \in 0..2 /\ 1 \in 0..2 /\ 2 \in 0..2
      OBVIOUS
    <3> QED BY <3>1
  <2> QED BY <2>1, ManagedConfigsAssumption
<1>5. \A o \in {objs[Out], cache.objs[Out]} \ {None} : \A k \in DOMAIN o.data : o.data[k].salt # z
  BY <1>2, <1>3, <1>4
<1> QED BY <1>5 DEF NewSalt

LEMMA HashInputsAre ==
    ASSUME NEW list \in ItemLists, NEW sources
    PROVE  /\ DOMAIN HashInputs(list, sources) = 1..Len(list)
           /\ \A i \in 1..Len(list) :
                /\ Named(HashInputs(list, sources)[i]) = Variables(list[i])
                /\ HashInputs(list, sources)[i][3] = sources[list[i].src]
BY ItemsAre DEF HashInputs, Named, Variables

\* A write publishes keystores made from the certificates that are cached.
LEMMA WrittenIsGenuine ==
    ASSUME Shape, SecretInv, Missing = {}, KeystoreWritten(Converted)
    PROVE  Genuine(objs'[Out]) /\ objs'[Out] # None /\ objs'[Out].data = Converted.data
<1> DEFINE data == Converted.data
           o == [managed |-> TRUE, scope |-> {Cluster}, type |-> "env", label |-> TRUE, data |-> data,
                 stamp |-> [inputs |-> InputHash, output |-> data]]
<1>1. Out \in Resources /\ objs'[Out] = o
  <2>1. Out \in Resources
    BY ManagedConfigsAssumption DEF Resources
  <2> QED BY <2>1 DEF KeystoreWritten, Shape
<1>2. Convertible
  BY SaltIsNew DEF Convertible, SecretInv
<1>3. Converted \in Accs /\ SoFar(Len(cache.items), Converted)
  BY <1>2, ConvertedIs
<1>4. data \in Environments
  BY <1>3 DEF Accs
<1>5. \A v \in DOMAIN data : data[v].salt \in {NewSalt, None}
  BY <1>3 DEF SoFar
<1>6. Made(InputHash, data)
  <2>1. cache.items \in ItemLists
    BY DEF SecretInv
  <2>2. ASSUME NEW v \in DOMAIN data
        PROVE  \E i \in DOMAIN InputHash : v \in Named(InputHash[i]) /\ data[v].from = InputHash[i][3]
    <3>1. PICK i \in 1..Len(cache.items) : /\ v \in Variables(cache.items[i])
                                           /\ data[v].from = cache.src[cache.items[i].src]
      BY <1>3 DEF SoFar
    <3>2. /\ i \in DOMAIN InputHash /\ Named(InputHash[i]) = Variables(cache.items[i])
          /\ InputHash[i][3] = cache.src[cache.items[i].src]
      BY <2>1, HashInputsAre DEF InputHash
    <3> QED BY <3>1, <3>2
  <2> HIDE DEF data
  <2> QED BY <2>2 DEF Made
<1> HIDE DEF data
<1>7. [inputs |-> InputHash, output |-> data] \in Stamps
  BY <1>4 DEF Stamps, InputHash, SecretInv
<1>8. o \in PublishedSecrets
  BY <1>4, <1>7 DEF PublishedSecrets
<1>9. /\ o.data = data /\ o.stamp.inputs = InputHash /\ o.stamp.output = data
      /\ o # None /\ o.stamp # None
  BY <1>7, <1>8, AbsentIsNoSecret
<1> HIDE DEF o
<1> QED BY <1>1, <1>2, <1>5, <1>6, <1>8, <1>9 DEF Genuine, Convertible, data

\* The fields of what is published.
AsRecord(o) ==
    o = [managed |-> o.managed, scope |-> o.scope, type |-> o.type, label |-> o.label,
         data |-> o.data, stamp |-> o.stamp]

\* An edit of the data by hand leaves the stamp.
LEMMA EditedIsGenuine ==
    ASSUME SecretInv, NEW o, Genuine(o), o # None, NEW d \in Environments, NEW x \in 0..2,
           \A k \in DOMAIN d : d[k].salt \in {x, None}, NEW s \in {o.stamp, None},
           NEW new, new = [managed |-> o.managed, scope |-> o.scope, type |-> o.type,
                           label |-> o.label, data |-> d, stamp |-> s]
    PROVE  Genuine(new) /\ new \in PublishedSecrets
<1>1. new \in PublishedSecrets
  BY DEF Genuine, PublishedSecrets
<1>2. new.data = d /\ new.stamp = s
  OBVIOUS
<1> QED BY <1>1, <1>2 DEF Genuine

LEMMA ConvertKeepsSecret ==
    ASSUME Shape, SecretInv, ensureConvertedKeystores
    PROVE  SecretInv'
<1>1. UNCHANGED <<src, items, cache, clusterLag>> /\ Out \in Resources
  BY ManagedConfigsAssumption DEF ensureConvertedKeystores, ConvertFrame, lags, Resources
<1>2. CASE UNCHANGED objs
  BY <1>1, <1>2 DEF SecretInv
<1>3. CASE KeystoreCleared
  <2> DEFINE o == objs[Out]
  <2>1. objs' = [objs EXCEPT ![Out].data = NoData, ![Out].stamp = None] /\ o # None
    BY <1>3 DEF KeystoreCleared, Published
  <2>2. AsRecord(o)
    BY <2>1 DEF SecretInv, Genuine, PublishedSecrets, AsRecord
  <2>3. objs'[Out] = [managed |-> o.managed, scope |-> o.scope, type |-> o.type,
                      label |-> o.label, data |-> NoData, stamp |-> None]
    BY <1>1, <2>1, <2>2 DEF Shape, AsRecord
  <2>4. \A k \in DOMAIN NoData : NoData[k].salt \in {0, None}
    BY NothingIsAnEnvironment
  <2>5. Genuine(objs'[Out])
    <3>1. NoData \in Environments /\ 0 \in 0..2 /\ None \in {o.stamp, None} /\ Genuine(o)
      BY NothingIsAnEnvironment DEF SecretInv
    <3> HIDE DEF o
    <3> QED BY <2>1, <2>3, <2>4, <3>1, EditedIsGenuine
  <2>6. objs'[Out] # None
    <3>1. NoData \in Environments /\ 0 \in 0..2 /\ None \in {o.stamp, None} /\ Genuine(o)
      BY NothingIsAnEnvironment DEF SecretInv
    <3> HIDE DEF o
    <3> QED BY <2>1, <2>3, <2>4, <3>1, EditedIsGenuine, AbsentIsNoSecret
  <2> QED BY <1>1, <2>5, <2>6 DEF SecretInv
<1>4. CASE Missing = {} /\ KeystoreWritten(Converted)
  BY <1>1, <1>4, WrittenIsGenuine DEF SecretInv
<1>5. UNCHANGED objs \/ KeystoreCleared \/ (Missing = {} /\ KeystoreWritten(Converted))
  BY DEF ensureConvertedKeystores, KeystoreUnneeded, KeystoreWaits, KeystoreFails, KeystoreKept
<1> QED BY <1>2, <1>3, <1>4, <1>5

\* What is edited by hand differs from what the cache shows.
LEMMA TamperedIsGenuine ==
    ASSUME Shape, SecretInv, Tamper
    PROVE  /\ Genuine(objs'[Out]) /\ objs'[Out] # None
           /\ Unlike(cache.objs[Out], objs'[Out])
<1> DEFINE o == objs[Out]
           d == [k \in DOMAIN o.data |-> [from |-> "tampered", salt |-> NewSalt]]
<1>1. Out \in Resources /\ o # None /\ DOMAIN o.data # {}
  BY ManagedConfigsAssumption DEF Tamper, Published, Resources
<1>2. AsRecord(o) /\ o.data \in Environments
  BY <1>1 DEF SecretInv, Genuine, PublishedSecrets, AsRecord
<1>3. objs'[Out] = [managed |-> o.managed, scope |-> o.scope, type |-> o.type, label |-> o.label,
                    data |-> d, stamp |-> o.stamp]
  BY <1>1, <1>2 DEF Tamper, Shape, AsRecord
<1>4. [from |-> "tampered", salt |-> NewSalt] \in Encodings
  BY SaltIsNew DEF Encodings
<1>5. PICK V \in SUBSET VariableNames : o.data \in [V -> Encodings]
  BY <1>2 DEF Environments
<1>6. d \in Environments
  <2>1. d \in [V -> Encodings]
    BY <1>4, <1>5
  <2> QED BY <2>1 DEF Environments
<1>7. DOMAIN d = DOMAIN o.data /\ \A k \in DOMAIN d : d[k].salt = NewSalt
  OBVIOUS
<1>8. Genuine(o) /\ NewSalt \in 0..2
  BY SaltIsNew DEF SecretInv
<1> HIDE DEF d, o
<1>9. Genuine(objs'[Out]) /\ objs'[Out] \in PublishedSecrets
  BY <1>1, <1>3, <1>6, <1>7, <1>8, EditedIsGenuine
<1>10. ASSUME cache.objs[Out] # None, cache.objs[Out].data = d PROVE FALSE
  <2>1. PICK k \in DOMAIN d : TRUE
    BY <1>1, <1>7
  <2> QED BY <1>7, <1>10, <2>1, SaltIsNew
<1>11. objs'[Out].data = d /\ objs'[Out] # None
  BY <1>3, <1>9, AbsentIsNoSecret
<1> QED BY <1>9, <1>10, <1>11 DEF Unlike

\* Labels and annotations are not what is published.
LEMMA RelabeledIsGenuine ==
    ASSUME Shape, SecretInv, Relabel
    PROVE  /\ Genuine(objs'[Out]) /\ objs'[Out] # None
           /\ objs[Out] # None /\ objs'[Out].data = objs[Out].data
<1> DEFINE o == objs[Out]
<1>1. PICK m \in Marks :
        objs' = [objs EXCEPT ![Out] =
                   [managed |-> m.managed, scope |-> m.scope, type |-> m.type, label |-> m.label,
                    data |-> o.data, stamp |-> o.stamp]]
  BY DEF Relabel
<1>2. objs'[Out] = [managed |-> m.managed, scope |-> m.scope, type |-> m.type, label |-> m.label,
                    data |-> o.data, stamp |-> o.stamp]
  BY <1>1, ManagedConfigsAssumption DEF Shape, Resources
<1>3. Genuine(o) /\ o # None
  BY DEF SecretInv, Relabel
<1>4. objs'[Out] \in PublishedSecrets
  <2>1. /\ m.managed \in BOOLEAN /\ m.label \in BOOLEAN
        /\ m.scope \in {k.scope : k \in Marks} /\ m.type \in {k.type : k \in Marks}
    BY ManagedConfigsAssumption
  <2>2. o.data \in Environments /\ o.stamp \in Stamps \cup {None}
    BY <1>3 DEF Genuine, PublishedSecrets
  <2> HIDE DEF o
  <2> QED BY <1>2, <2>1, <2>2 DEF PublishedSecrets
<1>5. objs'[Out].data = o.data /\ objs'[Out].stamp = o.stamp /\ objs'[Out] # None
  BY <1>2, <1>4, AbsentIsNoSecret
<1> HIDE DEF o
<1> QED BY <1>3, <1>4, <1>5 DEF Genuine, o

LEMMA SyncKeepsSecret ==
    ASSUME Shape, SecretInv, Sync
    PROVE  SecretInv'
<1>1. UNCHANGED <<objs, src, items>> /\ Out \in Resources
  BY ManagedConfigsAssumption
     DEF Sync, SyncResource, SyncSource, SyncCluster, SyncNode, SyncFrame, inputs, Resources
<1>2. ASSUME NEW r \in Resources, SyncResource(r) PROVE SecretInv'
  <2>1. /\ cache'.objs[Out] = cache.objs[Out] \/ cache'.objs[Out] = objs[Out]
        /\ cache'.src = cache.src /\ cache'.items = cache.items /\ clusterLag' = clusterLag
    BY <1>1, <1>2 DEF SyncResource, Shape
  <2> QED BY <1>1, <2>1 DEF SecretInv
<1>3. ASSUME NEW s \in Sources, SyncSource(s) PROVE SecretInv'
  <2>1. /\ cache'.src = [cache.src EXCEPT ![s] = src[s]] /\ cache'.objs = cache.objs
        /\ cache'.items = cache.items /\ clusterLag' = clusterLag
    BY <1>3 DEF SyncSource, Shape
  <2>2. cache'.src \in [Sources -> Contents]
    BY <2>1 DEF SecretInv
  <2> QED BY <1>1, <2>1, <2>2 DEF SecretInv
<1>4. CASE SyncCluster
  BY <1>1, <1>4 DEF SyncCluster, Shape, SecretInv
<1>5. ASSUME NEW n \in Nodes, SyncNode(n) PROVE SecretInv'
  <2>1. /\ cache'.src = cache.src /\ cache'.objs = cache.objs
        /\ cache'.items = cache.items /\ clusterLag' = clusterLag
    BY <1>5 DEF SyncNode, Shape
  <2> QED BY <1>1, <2>1 DEF SecretInv
<1> QED BY <1>2, <1>3, <1>4, <1>5 DEF Sync

LEMMA DisturbanceKeepsSecret ==
    ASSUME Shape, SecretInv, Disturbance
    PROVE  SecretInv'
<1>1. Out \in Resources
  BY ManagedConfigsAssumption DEF Resources
<1>2. ASSUME NEW r \in Resources, EditResource(r) PROVE SecretInv'
  <2>1. UNCHANGED <<src, items, cache, clusterLag>> /\ objs'[Out] = objs[Out]
    BY <1>1, <1>2, ManagedConfigsAssumption DEF EditResource, lags, Shape
  <2> QED BY <2>1 DEF SecretInv
<1>3. ASSUME NEW s \in Sources, EditSource(s) PROVE SecretInv'
  <2>1. UNCHANGED <<objs, items, cache, clusterLag>>
    BY <1>3 DEF EditSource, lags
  <2>2. PICK e \in SourceEdits : src' = [src EXCEPT ![s] = e[2]]
    BY <1>3 DEF EditSource
  <2>3. src' \in [Sources -> Contents]
    BY <2>2, ManagedConfigsAssumption DEF SecretInv
  <2> QED BY <2>1, <2>3 DEF SecretInv
<1>4. ASSUME NEW n \in Nodes, EditType(n) PROVE SecretInv'
  BY <1>4 DEF EditType, SecretInv
<1>5. CASE Tamper
  BY <1>5, TamperedIsGenuine DEF Tamper, lags, SecretInv
<1>6. CASE EditItems
  <2>1. UNCHANGED <<objs, src, cache>> /\ clusterLag' = clusterLag \cup {"edit"}
    BY <1>6 DEF EditItems
  <2>2. items' \in ItemLists
    BY <1>6, ManagedConfigsAssumption DEF EditItems
  <2> QED BY <2>1, <2>2 DEF SecretInv
<1>7. CASE Crash
  BY <1>7 DEF Crash, Truth, inputs, SecretInv
<1>8. CASE Relabel
  BY <1>8, RelabeledIsGenuine DEF Relabel, lags, SecretInv
<1> QED BY <1>2, <1>3, <1>4, <1>5, <1>6, <1>7, <1>8 DEF Disturbance

LEMMA NextKeepsSecret == Shape /\ SecretInv /\ [Next]_vars => SecretInv'
<1> SUFFICES ASSUME Shape, SecretInv, [Next]_vars PROVE SecretInv'
  OBVIOUS
<1>1. CASE ClusterWritesStatus
  BY <1>1 DEF ClusterWritesStatus, inputs, SecretInv
<1>2. CASE ConfigFollows \/ (\E n \in Nodes : NodeDiscovers(n)) \/ NodeStep \/ UNCHANGED vars
  <2>1. UNCHANGED <<objs, src, items, cache, clusterLag>>
    BY <1>2 DEF ConfigFollows, NodeDiscovers, NodeStep, NodeDefers, NodeDeploys, NodeFrame, vars,
                inputs, lags
  <2> QED BY <2>1 DEF SecretInv
<1> QED BY <1>1, <1>2, ConvertKeepsSecret, SyncKeepsSecret, DisturbanceKeepsSecret DEF Next, ClusterStep

LEMMA InitIsSecret == Init => SecretInv
<1> SUFFICES ASSUME Init PROVE SecretInv
  OBVIOUS
<1>1. PICK i \in InitInputs : objs = i.objs /\ typ = i.typ /\ src = i.src /\ items = i.items
  BY DEF Init
<1>2. objs[Out] = None /\ src \in [Sources -> Contents] /\ items \in ItemLists
  BY <1>1, ManagedConfigsAssumption
<1>3. cache.objs = objs /\ cache.src = src /\ cache.items = items /\ clusterLag = {}
  BY DEF Init, Truth
<1> QED BY <1>2, <1>3 DEF SecretInv, Genuine

LEMMA AlwaysSecret == Spec => []SecretInv
BY InitIsSecret, NextKeepsSecret, AlwaysShaped, PTL DEF Spec

-----------------------------------------------------------------------------
(* The types of the rest. *)

MountTypes(m) == m # None => \A i \in DOMAIN m : m[i][2] \in ConfigTypes

OutputInv ==
    /\ cstatus.keystore \in KeystoreReasons /\ \A i \in cstatus.issues : i.res \in Resources
    /\ crc.keystore # None =>
         crc.keystore \in KeystoreReasons /\ \A i \in crc.issues : i.res \in Resources
    /\ \A n \in Nodes : MountTypes(dep[n])
    /\ nrc.n # None => MountTypes(nrc.mounts)
    /\ nodeLag \subseteq Nodes /\ external \in Nat

LEMMA MountsAreTyped ==
    ASSUME NEW os, NEW t, NEW a, NEW m \in Mounts(os, t, a)
    PROVE  MountTypes(m)
<1>1. Range(m) = {<<cfg.res, cfg.type, cfg.data>> :
                    cfg \in {b \in Accepted(os, Cluster) : shouldMountConfig(t, a, b.type)}}
  BY OneMount
<1>2. Accepted(os, Cluster) \subseteq Scoped(os, Cluster)
  BY DEF Accepted, applyLoggingValidations
<1>3. ASSUME NEW h \in Range(m) PROVE h[2] \in ConfigTypes
  <2>1. PICK cfg \in Accepted(os, Cluster) : h = <<cfg.res, cfg.type, cfg.data>>
    BY <1>1
  <2>2. cfg.type \in ConfigTypes
    BY <1>2, <2>1, ScopedAre
  <2> QED BY <2>1, <2>2
<1>4. \A i \in DOMAIN m : m[i] \in Range(m)
  BY DEF Range
<1> QED BY <1>3, <1>4 DEF MountTypes

LEMMA NextIsTyped == Shape /\ OutputInv /\ [Next]_vars => OutputInv'
<1> SUFFICES ASSUME Shape, OutputInv, [Next]_vars PROVE OutputInv'
  OBVIOUS
<1>1. CASE ensureConvertedKeystores
  <2>1. UNCHANGED <<outputs, nodeLag, nrc, external>> /\ \E reason \in KeystoreReasons : Conclude(reason)
    BY <1>1 DEF ensureConvertedKeystores, KeystoreUnneeded, KeystoreCleared, KeystoreWaits, KeystoreFails,
           KeystoreKept, KeystoreWritten, Outcome, KeystoreReasons, ConvertFrame, lags
  <2>2. PICK reason \in KeystoreReasons : Conclude(reason)
    BY <2>1
  <2>3. crc'.keystore = reason /\ crc'.issues \in Issues(cache.objs)
    BY <2>2 DEF Conclude
  <2>4. \A i \in crc'.issues : i.res \in Resources
    BY <2>3, OneReport, IssuesAreOfResources DEF Reported
  <2> QED BY <2>1, <2>3, <2>4 DEF OutputInv, outputs
<1>2. CASE ClusterWritesStatus
  BY <1>2 DEF ClusterWritesStatus, OutputInv, IdleCluster
<1>3. CASE ConfigFollows
  BY <1>3 DEF ConfigFollows, OutputInv, lags
<1>4. ASSUME NEW n \in Nodes, NodeDiscovers(n) PROVE OutputInv'
  <2>1. UNCHANGED <<cstatus, dep, nodeLag, crc, external>>
        /\ nrc'.mounts \in Mounts(cache.objs, cache.typ[n], AdminOf(cache.typ) # None)
    BY <1>4 DEF NodeDiscovers, lags
  <2>2. MountTypes(nrc'.mounts)
    BY <2>1, MountsAreTyped
  <2> QED BY <2>1, <2>2 DEF OutputInv
<1>5. CASE NodeStep
  <2>1. UNCHANGED <<cstatus, nodeLag, crc, external>> /\ nrc'.n = None /\ nrc.n # None
    BY <1>5 DEF NodeStep, NodeDefers, NodeDeploys, NodeFrame, lags, IdleNode
  <2>2. \A n \in Nodes : dep'[n] = dep[n] \/ dep'[n] = nrc.mounts
    BY <1>5 DEF NodeStep, NodeDefers, NodeDeploys, Shape
  <2> QED BY <2>1, <2>2 DEF OutputInv
<1>6. CASE Sync
  <2>1. UNCHANGED <<outputs, crc, nrc, external>> /\ nodeLag' \subseteq nodeLag
    BY <1>6 DEF Sync, SyncResource, SyncSource, SyncCluster, SyncNode, SyncFrame
  <2> QED BY <2>1 DEF OutputInv, outputs
<1>7. CASE Disturbance
  <2>1. UNCHANGED outputs /\ external' = external + 1
    BY <1>7 DEF Disturbance, EditResource, EditSource, EditType, EditItems, Tamper, Relabel, Crash, External,
                EditFrame
  <2>2. nodeLag' \subseteq Nodes
    BY <1>7 DEF Disturbance, EditResource, EditSource, EditType, EditItems, Tamper, Relabel, Crash, lags, OutputInv
  <2>3. crc'.keystore # None => crc.keystore # None /\ crc'.keystore = crc.keystore /\ crc'.issues = crc.issues
    BY <1>7 DEF Disturbance, EditResource, EditSource, EditType, EditItems, Tamper, Relabel, Crash, IdleCluster, Shape
  <2>4. nrc'.n # None => nrc.n # None /\ nrc'.mounts = nrc.mounts
    <3>1. ASSUME NEW n \in Nodes, EditType(n)
          PROVE  nrc'.n # None => nrc.n # None /\ nrc'.mounts = nrc.mounts
      BY <3>1, ManagedConfigsAssumption DEF EditType, Shape
    <3> QED BY <1>7, <3>1
            DEF Disturbance, EditResource, EditSource, EditItems, Tamper, Relabel, Crash, IdleNode
  <2> QED BY <2>1, <2>2, <2>3, <2>4 DEF OutputInv, outputs
<1>8. CASE UNCHANGED vars
  BY <1>8 DEF vars, outputs, lags, OutputInv
<1> QED BY <1>1, <1>2, <1>3, <1>4, <1>5, <1>6, <1>7, <1>8 DEF Next, ClusterStep

\* Every variable keeps to its type, whatever users edit and whatever the
\* controllers read: what is published is an environment of the keystores,
\* each salted by one write (ensureConvertedKeystores, resolveConfigType).
THEOREM TypeCorrect == Spec => []TypeOK
<1>1. Init => OutputInv
  BY ManagedConfigsAssumption DEF Init, OutputInv, MountTypes, IdleCluster, IdleNode, KeystoreReasons
<1>2. Shape /\ SecretInv /\ OutputInv => TypeOK
  <2> SUFFICES ASSUME Shape, SecretInv, OutputInv PROVE TypeOK
    OBVIOUS
  <2>1. objs[Out] \in PublishedSecrets \cup {None}
    BY DEF SecretInv, Genuine
  <2> QED BY <2>1 DEF SecretInv, OutputInv, MountTypes, Shape, Types, TypeOK
<1> QED BY <1>1, <1>2, NextIsTyped, AlwaysShaped, AlwaysSecret, PTL DEF Spec

-----------------------------------------------------------------------------
(* What the cluster says of the keystores.  When no reconcile is due and   *)
(* the status, or the reconcile in flight, says Ready, then the published  *)
(* Secret is right, or the cache has still to hear of a change of it.  But *)
(* not if its labels are gone: then nobody hears.                          *)

Right(o) ==
    /\ o # None
    /\ \A i \in DOMAIN cache.items :
         /\ cache.src[cache.items[i].src] \in Keypairs
         /\ \A v \in Variables(cache.items[i]) :
              v \in DOMAIN o.data /\ o.data[v].from = cache.src[cache.items[i].src]

SaysReady ==
    IF crc.keystore = None THEN cstatus.keystore = "Ready"
    ELSE ~crc.stale /\ crc.keystore = "Ready"

\* What the cache shows is nothing the cluster's watches are about.
Unwatched(o) == o # None /\ ~o.label /\ ~ReachesCluster(o, Cluster)

KeystoreInv ==
    ~clusterQueued /\ SaysReady =>
        \/ Right(cache.objs[Out]) \/ Unwatched(cache.objs[Out])
        \/ Unlike(cache.objs[Out], objs[Out])

\* What is kept was made from the same inputs, of which each variable tells one.
LEMMA KeptIsRight ==
    ASSUME SecretInv, Missing = {}, KeystoreKept(Converted), ~Converted.failed
    PROVE  Right(cache.objs[Out])
<1> DEFINE o == cache.objs[Out]
           data == Converted.data
           n == Len(cache.items)
           from(i) == cache.src[cache.items[i].src]
<1>1. Convertible
  BY SaltIsNew DEF Convertible, SecretInv
<1>2. SoFar(n, Converted) /\ ~Converted.failed
  BY <1>1, ConvertedIs
<1>3. /\ \A i \in 1..n : from(i) \in Keypairs /\ Variables(cache.items[i]) \subseteq DOMAIN data
      /\ \A i, j \in 1..n : i # j => Variables(cache.items[i]) \cap Variables(cache.items[j]) = {}
  BY <1>2 DEF SoFar
<1>4. /\ o # None /\ o.stamp # None /\ o.stamp.inputs = InputHash
      /\ DOMAIN o.data = DOMAIN data /\ o.stamp.output = o.data
  BY DEF KeystoreKept, NeedWrite
<1>5. Made(o.stamp.inputs, o.stamp.output)
  BY <1>4 DEF SecretInv, Genuine
<1>6. /\ DOMAIN cache.items = 1..n /\ DOMAIN InputHash = 1..n
      /\ \A i \in 1..n : Named(InputHash[i]) = Variables(cache.items[i]) /\ InputHash[i][3] = from(i)
  BY ItemsAre, HashInputsAre DEF InputHash, SecretInv
<1>7. \A v \in DOMAIN o.data : \E i \in DOMAIN InputHash :
        v \in Named(InputHash[i]) /\ o.data[v].from = InputHash[i][3]
  BY <1>4, <1>5 DEF Made
<1>8. \A v \in DOMAIN o.data : \E i \in 1..n :
        v \in Variables(cache.items[i]) /\ o.data[v].from = from(i)
  BY <1>6, <1>7
<1> HIDE DEF o, data, n, from
<1>9. ASSUME NEW i \in 1..n, NEW v \in Variables(cache.items[i])
      PROVE  v \in DOMAIN o.data /\ o.data[v].from = from(i)
  <2>1. v \in DOMAIN o.data
    BY <1>3, <1>4
  <2>2. PICK j \in 1..n : v \in Variables(cache.items[j]) /\ o.data[v].from = from(j)
    BY <1>8, <2>1
  <2>3. j = i
    BY <1>3, <2>2
  <2> QED BY <2>1, <2>2, <2>3
<1> QED BY <1>3, <1>4, <1>6, <1>9 DEF Right, o, from

\* So is what has been converted.
LEMMA ConvertedIsRight ==
    ASSUME SecretInv, Missing = {}, ~Converted.failed, NEW o, o # None, o.data = Converted.data
    PROVE  Right(o)
<1>1. Convertible
  BY SaltIsNew DEF Convertible, SecretInv
<1>2. SoFar(Len(cache.items), Converted)
  BY <1>1, ConvertedIs
<1>3. DOMAIN cache.items = 1..Len(cache.items)
  BY ItemsAre DEF SecretInv
<1> QED BY <1>2, <1>3 DEF SoFar, Right

LEMMA ConvertIsRight ==
    ASSUME Shape, SecretInv, ensureConvertedKeystores
    PROVE  KeystoreInv'
<1>1. UNCHANGED cache
  BY DEF ensureConvertedKeystores, ConvertFrame, lags
<1>2. SUFFICES ASSUME SaysReady', ~Right(cache.objs[Out]), ~Unlike(cache.objs[Out], objs'[Out])
               PROVE  FALSE
  BY <1>1 DEF KeystoreInv, Right
<1>3. \A reason \in KeystoreReasons : Conclude(reason) => reason = "Ready"
  <2> TAKE reason \in KeystoreReasons
  <2> HAVE Conclude(reason)
  <2>1. crc'.keystore = reason
    BY DEF Conclude
  <2> QED BY <1>2, <2>1, ManagedConfigsAssumption DEF SaysReady
<1>4. Missing = {} /\ (KeystoreKept(Converted) \/ KeystoreWritten(Converted))
  BY <1>3 DEF ensureConvertedKeystores, KeystoreUnneeded, KeystoreCleared, KeystoreWaits,
              KeystoreFails, KeystoreReasons
<1>5. ~Converted.failed
  BY <1>3, <1>4 DEF KeystoreKept, KeystoreWritten, Outcome, KeystoreReasons
<1>6. CASE KeystoreKept(Converted)
  BY <1>2, <1>4, <1>5, <1>6, KeptIsRight
<1>7. CASE KeystoreWritten(Converted)
  <2>1. objs'[Out] # None /\ objs'[Out].data = Converted.data
    BY <1>4, <1>7, WrittenIsGenuine
  <2>2. cache.objs[Out] # None /\ cache.objs[Out].data = Converted.data
    BY <1>2, <2>1 DEF Unlike
  <2> QED BY <1>2, <1>4, <1>5, <2>2, ConvertedIsRight
<1> QED BY <1>4, <1>6, <1>7

LEMMA SyncIsRight ==
    ASSUME Shape, SecretInv, KeystoreInv, Sync
    PROVE  KeystoreInv'
<1>1. UNCHANGED <<objs, src, items, cstatus, crc>> /\ (clusterQueued => clusterQueued')
  BY DEF Sync, SyncResource, SyncSource, SyncCluster, SyncNode, SyncFrame, inputs, outputs
<1>2. SUFFICES ASSUME ~clusterQueued', SaysReady
               PROVE  \/ Right(cache.objs[Out])' \/ Unwatched(cache'.objs[Out])
                      \/ Unlike(cache'.objs[Out], objs[Out])
  BY <1>1 DEF KeystoreInv, SaysReady, Unwatched
<1>3. Right(cache.objs[Out]) \/ Unwatched(cache.objs[Out]) \/ Unlike(cache.objs[Out], objs[Out])
  BY <1>1, <1>2 DEF KeystoreInv
<1>4. CASE SyncResource(Out)
  <2>1. cache'.objs[Out] = objs[Out] /\ cache.objs[Out] # objs[Out]
    BY <1>4, ManagedConfigsAssumption DEF SyncResource, Shape, Resources
  <2>2. objs[Out] # None
    BY <2>1 DEF SecretInv
  <2>3. ~Labelled(objs[Out]) /\ ~ReachesCluster(objs[Out], Cluster)
    BY <1>2, <1>4 DEF SyncResource, FindsCluster, WakesCluster
  <2>4. objs[Out].label \in BOOLEAN
    BY <2>2 DEF SecretInv, Genuine, PublishedSecrets
  <2> QED BY <2>1, <2>2, <2>3, <2>4 DEF Unwatched, Labelled
<1>5. CASE ~SyncResource(Out)
  <2>1. SUFFICES /\ cache'.objs[Out] = cache.objs[Out] /\ cache'.items = cache.items
                 /\ \A i \in DOMAIN cache.items :
                      cache'.src[cache.items[i].src] = cache.src[cache.items[i].src]
    BY <1>3 DEF Right
  <2>2. ASSUME NEW r \in Resources, SyncResource(r)
        PROVE  cache'.objs[Out] = cache.objs[Out] /\ cache'.items = cache.items /\ cache'.src = cache.src
    BY <1>5, <2>2, ManagedConfigsAssumption DEF SyncResource, Shape, Resources
  <2>3. ASSUME NEW s \in Sources, SyncSource(s)
        PROVE  /\ cache'.objs = cache.objs /\ cache'.items = cache.items
               /\ \A i \in DOMAIN cache.items :
                    cache'.src[cache.items[i].src] = cache.src[cache.items[i].src]
    <3>1. /\ cache'.objs = cache.objs /\ cache'.items = cache.items
          /\ cache'.src = [cache.src EXCEPT ![s] = src[s]]
      BY <2>3 DEF SyncSource, Shape
    <3>2. \A i \in DOMAIN cache.items : cache.items[i].src # s
      BY <1>2, <2>3 DEF SyncSource
    <3>3. \A i \in DOMAIN cache.items : cache.items[i].src \in Sources
      BY ItemsAre DEF SecretInv
    <3> QED BY <3>1, <3>2, <3>3 DEF SecretInv
  <2>4. CASE SyncCluster
    BY <1>2, <2>4 DEF SyncCluster, Shape, SecretInv
  <2>5. ASSUME NEW n \in Nodes, SyncNode(n)
        PROVE  cache'.objs = cache.objs /\ cache'.items = cache.items /\ cache'.src = cache.src
    BY <2>5 DEF SyncNode, Shape
  <2> QED BY <2>2, <2>3, <2>4, <2>5 DEF Sync
<1> QED BY <1>4, <1>5

LEMMA DisturbanceIsRight ==
    ASSUME Shape, SecretInv, KeystoreInv, Disturbance
    PROVE  KeystoreInv'
<1>1. CASE Crash
  BY <1>1 DEF Crash, KeystoreInv
<1>2. CASE ~Crash
  <2>1. UNCHANGED <<cstatus, cache, clusterQueued>>
    BY <1>2 DEF Disturbance, EditResource, EditSource, EditType, EditItems, Tamper, Relabel, EditFrame,
                outputs, lags, queues
  <2>2. SaysReady' => SaysReady
    BY <1>2, <2>1 DEF SaysReady, Disturbance, EditResource, EditSource, EditType, EditItems, Tamper, Relabel, Shape
  <2>3. Unlike(cache.objs[Out], objs[Out]) => Unlike(cache.objs[Out], objs'[Out])
    <3>1. ASSUME NEW r \in Resources, EditResource(r) PROVE objs'[Out] = objs[Out]
      BY <3>1, ManagedConfigsAssumption DEF EditResource, Shape, Resources
    <3>2. CASE Tamper
      BY <3>2, TamperedIsGenuine
    <3>3. CASE Relabel
      BY <3>3, RelabeledIsGenuine DEF Unlike
    <3> QED BY <1>2, <3>1, <3>2, <3>3 DEF Disturbance, EditSource, EditType, EditItems
  <2>4. Right(cache.objs[Out]) => Right(cache.objs[Out])'
    BY <2>1 DEF Right
  <2> QED BY <2>1, <2>2, <2>3, <2>4 DEF KeystoreInv, Unwatched
<1> QED BY <1>1, <1>2

LEMMA NextIsRight == Shape /\ SecretInv /\ KeystoreInv /\ [Next]_vars => KeystoreInv'
<1> SUFFICES ASSUME Shape, SecretInv, KeystoreInv, [Next]_vars PROVE KeystoreInv'
  OBVIOUS
<1>1. CASE ClusterWritesStatus
  <2>1. UNCHANGED <<objs, cache>> /\ crc'.keystore = None /\ crc.keystore # None
    BY <1>1 DEF ClusterWritesStatus, inputs, IdleCluster
  <2>2. clusterQueued' = (clusterQueued \/ crc.stale)
    BY <1>1 DEF ClusterWritesStatus
  <2>3. ~crc.stale => cstatus'.keystore = crc.keystore
    BY <1>1 DEF ClusterWritesStatus
  <2>4. Right(cache.objs[Out])' <=> Right(cache.objs[Out])
    BY <2>1 DEF Right
  <2> QED BY <2>1, <2>2, <2>3, <2>4 DEF KeystoreInv, SaysReady, Unwatched
<1>2. CASE ConfigFollows \/ (\E n \in Nodes : NodeDiscovers(n)) \/ NodeStep \/ UNCHANGED vars
  <2>1. UNCHANGED <<objs, cstatus, cache, clusterQueued, crc>>
    BY <1>2 DEF ConfigFollows, NodeDiscovers, NodeStep, NodeDefers, NodeDeploys, NodeFrame, vars,
                inputs, outputs, lags, queues
  <2> QED BY <2>1 DEF KeystoreInv, SaysReady, Right, Unwatched
<1> QED BY <1>1, <1>2, ConvertIsRight, SyncIsRight, DisturbanceIsRight DEF Next, ClusterStep

\* When the controllers rest and ConvertKeystoreReady is True, every variable
\* of every keystore is published, made from the certificate as it is, and
\* every node lists the Secret as mounted, if that has its labels and
\* annotations: no rotation, edit of the values by hand, new list, crash or
\* stale cache leaves the condition True for something that is gone, and none
\* does while the labels were (ensureConvertedKeystores, needWrite,
\* findClusterForSecret).
THEOREM ReadyIsEarned == Spec => []ReadyKeystoresArePublished
<1>1. Init => KeystoreInv
  BY DEF Init, KeystoreInv
<1>2. Shape /\ SecretInv /\ KeystoreInv /\ RestIsCurrent => ReadyKeystoresArePublished
  <2> SUFFICES ASSUME Shape, SecretInv, KeystoreInv, RestIsCurrent,
                      AtRest, items # <<>>, cstatus.keystore = "Ready", Intact
               PROVE  /\ objs[Out] # None
                      /\ \A i \in DOMAIN items : \A v \in Variables(items[i]) :
                            /\ v \in DOMAIN objs[Out].data
                            /\ objs[Out].data[v].from = src[items[i].src] /\ src[items[i].src] \in Keypairs
                      /\ \A n \in Nodes : <<Out, "env">> \in applied[n]
    BY DEF ReadyKeystoresArePublished
  <2>1. /\ cache.objs = objs /\ cache.src = src /\ cache.items = items
        /\ ~clusterQueued /\ crc.keystore = None
    BY DEF AtRest, Truth, IdleCluster
  <2>2. Right(objs[Out])
    BY <2>1 DEF KeystoreInv, SaysReady, Unlike, Unwatched, Intact
  <2>3. objs[Out].type = "env" /\ Out \in InScope(objs, Cluster)
    BY <2>2, ManagedConfigsAssumption DEF Right, Intact, InScope, Managed, appliesToCluster, Resources
  <2>4. ASSUME NEW n \in Nodes PROVE <<Out, "env">> \in applied[n]
    <3>1. PICK cfg \in Accepted(objs, Cluster) : cfg.res = Out /\ cfg.type = "env"
      BY <2>3, OthersAreAccepted DEF ConfigTypes
    <3> QED BY <3>1, MountsOfNode DEF shouldMountConfig
  <2> QED BY <2>1, <2>2, <2>4 DEF Right
<1> QED BY <1>1, <1>2, NextIsRight, AlwaysShaped, AlwaysSecret, NoEditIsMissed, PTL DEF Spec
=============================================================================
