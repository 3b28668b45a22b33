----------------------------- MODULE ManagedConfigs -----------------------------
(***************************************************************************)
(* Managed ConfigMaps and Secrets of one cluster, from an edit to the pods *)
(* that mount them, and the environment Secret into which the cluster      *)
(* controller converts TLS keypairs (spec.convertKeystore), which is such  *)
(* a Secret itself.                                                        *)
(*                                                                         *)
(* The cluster controller reports the resources that are not mounted and   *)
(* publishes the keystores; the node controller mounts the rest and stamps *)
(* their hash, which rolls the pods.  Both read caches that trail the API  *)
(* server; users edit resources, annotations, certificates, the list of    *)
(* keystores and the nodes' types in between.                              *)
(*                                                                         *)
(* What ClusterConfig and ConfigGate say of cluster.xml is one variable    *)
(* here.  A node's Deployment and its own status are written from caches   *)
(* that have seen the last write of them.                                  *)
(***************************************************************************)
EXTENDS ConfigDiscovery

CONSTANTS
    Nodes,       \* of the cluster
    Cluster,     \* its name
    Sources,     \* the kubernetes.io/tls Secrets
    Contents,    \* what a source may hold: "absent", "keyless", "broken" or a keypair
    Out,         \* <cluster>-convert-ks-env
    ItemLists,   \* spec.convertKeystore, by keyName: [key, cert, src], cert may be None
    Listings,    \* the orders in which the cache may list the resources
    InitInputs,  \* resources, types, sources and keystores at first: [objs, typ, src, items]
    Edits,       \* what users make of a resource: <<resource, old, new>>, None if it is not
                 \* there; of what is published, see Tamper and Relabel
    Marks,       \* the labels and annotations they may leave on what is published:
                 \* [managed, scope, type, label]
    TypeEdits,   \* what they make of a node: <<node, new type>>
    SourceEdits, \* of a source, <<old, new>>
    ItemEdits,   \* ... and of the list of keystores, <<old, new>>
    MaxExternal  \* bound: edits and crashes

\* Of ConvertKeystoreReady.
KeystoreReasons == {"absent", "Ready", "SourceSecretMissing", "SourceKeysMissing",
                    "ConversionFailed", "PartiallyReady"}

ASSUME ManagedConfigsAssumption ==
    /\ Out \in Secrets /\ Cluster \in Clusters
    /\ \A l \in ItemLists : /\ DOMAIN l = 1..Len(l) /\ Len(l) \in Nat
                           /\ \A i \in DOMAIN l : l[i].src \in Sources /\ l[i].key # None
    /\ Listings # {}
    /\ \A listing \in Listings : /\ listing \in Seq(Resources) /\ Range(listing) = Resources
                                 /\ \A i, j \in DOMAIN listing : listing[i] = listing[j] => i = j
    /\ None \notin Nodes /\ None \notin KeystoreReasons /\ None \notin Nat
    /\ \A i \in InitInputs : /\ DOMAIN i.objs = Resources
                             /\ i.objs[Out] = None
                             /\ i.typ \in [Nodes -> {"admin", "runtime"}]
                             /\ i.src \in [Sources -> Contents] /\ i.items \in ItemLists
    /\ SourceEdits \subseteq Contents \X Contents /\ ItemEdits \subseteq ItemLists \X ItemLists
    /\ \A e \in Edits : e[1] # Out
    /\ \A m \in Marks : m.managed \in BOOLEAN /\ m.label \in BOOLEAN
    /\ MaxExternal \in Nat

VARIABLES
    objs,      \* the managed resources, None for one that does not exist
    typ,       \* spec.type of the nodes
    src,       \* the TLS Secrets
    items,     \* spec.convertKeystore
    cstatus,   \* of the cluster: managedResourceIssues, ConvertKeystoreReady
    confFor,   \* the admin the published cluster.xml is for, or None
    dep,       \* per node: what its Deployment mounts (its hash), or None
    applied,   \* per node: status.appliedManagedResources
    cache,     \* what the caches show of objs, typ, src and items
    clusterLag, nodeLag, \* whose events the caches have not received
    clusterQueued, nodesQueued, \* work queues and timers
    crc, nrc,  \* the reconciles in flight, or idle
    external,  \* events so far of those MaxExternal bounds
    adminless  \* history: the nodes that last found no admin although the published
               \* cluster.xml was for one, and that nothing about it has woken since

inputs == <<objs, typ, src, items>>
outputs == <<cstatus, confFor, dep, applied, adminless>>
lags == <<cache, clusterLag, nodeLag>>
queues == <<clusterQueued, nodesQueued>>
vars == <<inputs, outputs, lags, queues, crc, nrc, external>>

-----------------------------------------------------------------------------
(* State *)

Keypairs == Contents \ {"absent", "keyless", "broken"}

NoData == [k \in {} |-> None]

\* No reconcile is past its reads.
IdleCluster == [keystore |-> None]
IdleNode == [n |-> None]

Truth == [objs |-> objs, typ |-> typ, src |-> src, items |-> items]

Published(os) == os[Out] # None /\ DOMAIN os[Out].data # {}

Variables(item) == {item.key, item.cert} \ {None}

\* What a variable may be published as.  Private keys are salted.
Encodings == [from : Keypairs \cup {"tampered"}, salt : 0..2 \cup {None}]

VariableNames == UNION {UNION {Variables(l[i]) : i \in DOMAIN l} : l \in ItemLists}

Environments == UNION {[V -> Encodings] : V \in SUBSET VariableNames}

HashInputs(list, sources) ==
    [i \in DOMAIN list |-> <<list[i].key, list[i].cert, sources[list[i].src]>>]

Stamps == [inputs : {HashInputs(l, s) : l \in ItemLists, s \in [Sources -> Contents]},
           output : Environments]

\* label says whether it is labelled with the cluster.
PublishedSecrets ==
    [managed : BOOLEAN, scope : {{Cluster}} \cup {m.scope : m \in Marks},
     type : {"env"} \cup {m.type : m \in Marks}, label : BOOLEAN,
     data : Environments, stamp : Stamps \cup {None}]

ASSUME AbsentIsNoSecret == None \notin PublishedSecrets /\ None \notin Stamps

TypeOK ==
    /\ objs[Out] \in PublishedSecrets \cup {None}
    /\ typ \in [Nodes -> {"admin", "runtime"}] /\ src \in [Sources -> Contents]
    /\ items \in ItemLists /\ confFor \in Nodes \cup {None}
    /\ cstatus.keystore \in KeystoreReasons
    /\ \A i \in cstatus.issues : i.res \in Resources
    /\ \A n \in Nodes : dep[n] # None => \A i \in DOMAIN dep[n] : dep[n][i][2] \in ConfigTypes
    /\ nodesQueued \subseteq Nodes /\ nodeLag \subseteq Nodes
    /\ clusterQueued \in BOOLEAN /\ clusterLag \subseteq {"edit", "status"}
    /\ external \in Nat /\ adminless \subseteq Nodes

Init ==
    /\ \E i \in InitInputs : objs = i.objs /\ typ = i.typ /\ src = i.src /\ items = i.items
    /\ cstatus = [issues |-> {}, keystore |-> "absent"]
    /\ confFor = None
    /\ dep = [n \in Nodes |-> None] /\ applied = [n \in Nodes |-> {}]
    /\ cache = Truth /\ clusterLag = {} /\ nodeLag = {}
    /\ clusterQueued = TRUE /\ nodesQueued = Nodes
    /\ crc = IdleCluster /\ nrc = IdleNode
    /\ external = 0 /\ adminless = {}

\* Users keep to one admin.
AdminOf(types) == IF \E n \in Nodes : types[n] = "admin" THEN CHOOSE n \in Nodes : types[n] = "admin"
                  ELSE None

\* What a reconcile may find, report and mount: the cache lists in any order.
Found(os) == discoverManagedResources(os, Cluster, Listings)

Issues(os) == {managedResourceIssues(Range(found), skippedResources(os, Cluster)) : found \in Found(os)}

Mounts(os, type, adminExists) == {mountedConfigs(found, type, adminExists) : found \in Found(os)}

-----------------------------------------------------------------------------
(* The cluster controller *)

\* A reconcile gets to step 7b, ensureConvertedKeystores; what it has read so
\* far is as the caches show it now.
Converting == clusterQueued /\ crc.keystore = None

\* It goes on to its status with this ConvertKeystoreReady and the issues of
\* step 6, ensureManagedConfigDiscovery.
Conclude(reason) ==
    /\ clusterQueued' = FALSE
    /\ \E issues \in Issues(cache.objs) :
         crc' = [keystore |-> reason, stale |-> clusterLag # {}, issues |-> issues]

ConvertFrame == UNCHANGED <<typ, src, items, outputs, lags, nodesQueued, nrc, external>>

\* The items whose source is not there, or has not both tls.crt and tls.key.
Missing == {i \in DOMAIN cache.items : cache.src[cache.items[i].src] \in {"absent", "keyless"}}

\* Every encoding is salted: its bytes are new.
NewSalt ==
    CHOOSE x \in 0..2 : \A o \in {objs[Out], cache.objs[Out]} \ {None} :
                          \A k \in DOMAIN o.data : o.data[k].salt # x

With(data, name, encoding) ==
    [v \in DOMAIN data \cup {name} |-> IF v = name THEN encoding ELSE data[v]]

\* Mutant: the keypair is not validated.
Convert_Unchecked(acc, item) ==
    [acc EXCEPT !.data = With(@, item.key, [from |-> cache.src[item.src], salt |-> NewSalt])]

\* An item that cannot be converted, or whose variable is taken, is left out.
Convert(acc, item) ==
    LET pair == cache.src[item.src]
        key  == With(acc.data, item.key, [from |-> pair, salt |-> NewSalt])
        both == With(key, item.cert, [from |-> pair, salt |-> None])
    IN  IF pair = "broken" \/ item.key \in DOMAIN acc.data THEN [data |-> acc.data, failed |-> TRUE]
        ELSE IF item.cert = None THEN [data |-> key, failed |-> acc.failed]
        ELSE IF item.cert \in DOMAIN key THEN [data |-> key, failed |-> TRUE]
        ELSE [data |-> both, failed |-> acc.failed]

\* One item after the other.
Converted ==
    LET after[i \in 0..Len(cache.items)] ==
          IF i = 0 THEN [data |-> NoData, failed |-> FALSE]
          ELSE Convert(after[i - 1], cache.items[i])
    IN  after[Len(cache.items)]

InputHash == HashInputs(cache.items, cache.src)

\* Mutant: only the names of the variables are compared.
NeedWrite_KeySetOnly(out, data) == ~(out # None /\ DOMAIN out.data = DOMAIN data)

\* Missing, other inputs, other variables, or values edited by hand; labels and
\* annotations are not looked at, and put back by the next write only.
NeedWrite(out, data) ==
    ~ /\ out # None /\ out.stamp # None
      /\ out.stamp.inputs = InputHash
      /\ DOMAIN out.data = DOMAIN data
      /\ out.stamp.output = out.data

KeystoreUnneeded ==
    /\ cache.items = <<>> /\ ~Published(cache.objs)
    /\ UNCHANGED objs
    /\ Conclude("absent")

\* The data is emptied, the Secret and its labels stay.  A write from a cached
\* Secret that is not the current one fails, and the reconcile is repeated.
KeystoreCleared ==
    /\ cache.items = <<>> /\ Published(cache.objs)
    /\ cache.objs[Out] = objs[Out]
    /\ objs' = [objs EXCEPT ![Out].data = NoData, ![Out].stamp = None]
    /\ Conclude("absent")

\* What is published stays.
KeystoreWaits ==
    /\ Missing # {}
    /\ UNCHANGED objs
    /\ \E i \in Missing :
          /\ \A j \in Missing : i <= j
          /\ Conclude(IF cache.src[cache.items[i].src] = "absent" THEN "SourceSecretMissing"
                      ELSE "SourceKeysMissing")

KeystoreFails(converted) ==
    /\ DOMAIN converted.data = {}
    /\ UNCHANGED objs
    /\ Conclude("ConversionFailed")

Outcome(converted) == IF converted.failed THEN "PartiallyReady" ELSE "Ready"

KeystoreKept(converted) ==
    /\ DOMAIN converted.data # {} /\ ~NeedWrite(cache.objs[Out], converted.data)
    /\ UNCHANGED objs
    /\ Conclude(Outcome(converted))

KeystoreWritten(converted) ==
    /\ DOMAIN converted.data # {} /\ NeedWrite(cache.objs[Out], converted.data)
    /\ cache.objs[Out] = objs[Out]
    /\ objs' = [objs EXCEPT ![Out] =
                  [managed |-> TRUE, scope |-> {Cluster}, type |-> "env", label |-> TRUE,
                   data |-> converted.data,
                   stamp |-> [inputs |-> InputHash, output |-> converted.data]]]
    /\ Conclude(Outcome(converted))

ensureConvertedKeystores ==
    /\ Converting /\ ConvertFrame
    /\ \/ KeystoreUnneeded \/ KeystoreCleared \/ KeystoreWaits
       \/ /\ cache.items # <<>> /\ Missing = {}
          /\ \E converted \in {Converted} :
                \/ KeystoreFails(converted)
                \/ KeystoreKept(converted)
                \/ KeystoreWritten(converted)

\* A conflict asks for a requeue.
ClusterWritesStatus ==
    /\ crc.keystore # None
    /\ crc' = IdleCluster
    /\ cstatus' = IF crc.stale THEN cstatus ELSE [issues |-> crc.issues, keystore |-> crc.keystore]
    /\ clusterLag' = IF cstatus' = cstatus THEN clusterLag ELSE clusterLag \cup {"status"}
    /\ clusterQueued' = (clusterQueued \/ crc.stale)
    /\ UNCHANGED <<inputs, confFor, dep, applied, cache, nodeLag, nodesQueued, nrc, external, adminless>>

\* ClusterConfigReady changes, which wakes the nodes.
ConfigTurns ==
    /\ None \in {confFor, confFor'}
    /\ nodesQueued' = Nodes /\ adminless' = {}

\* Branch B: it stays True, and wakes none.
ConfigIsRewritten ==
    /\ None \notin {confFor, confFor'}
    /\ UNCHANGED <<nodesQueued, adminless>>

\* ensureClusterConfig, in short: cluster.xml for the admin the caches show is
\* published.  It is withdrawn without an admin, and before it is generated
\* anew; when nothing but the admin differs it is rewritten in place.
ConfigFollows ==
    /\ confFor # AdminOf(cache.typ)
    /\ confFor' \in {AdminOf(cache.typ), None} \ {confFor}
    /\ ConfigTurns \/ ConfigIsRewritten
    /\ UNCHANGED <<inputs, cstatus, dep, applied, lags, clusterQueued, crc, nrc, external>>

-----------------------------------------------------------------------------
(* The node controller *)

\* Steps 4 to 5.5: the sibling nodes, the resources, the hash.
NodeDiscovers(n) ==
    /\ n \in nodesQueued /\ nrc.n = None
    /\ nodesQueued' = nodesQueued \ {n}
    /\ adminless' = IF AdminOf(cache.typ) = None /\ confFor # None THEN adminless \cup {n}
                    ELSE adminless \ {n}
    /\ UNCHANGED <<inputs, cstatus, confFor, dep, applied, lags, clusterQueued, crc, external>>
    /\ \E mounts \in Mounts(cache.objs, cache.typ[n], AdminOf(cache.typ) # None) :
         nrc' = [n |-> n, admin |-> AdminOf(cache.typ), items |-> cache.items, mounts |-> mounts,
                 stale |-> n \in nodeLag]

ConfigReady == nrc.admin # None => confFor = nrc.admin

\* Looked up again, after the discovery; a Deployment that exists is let through.
KeystoreReady == nrc.items # <<>> /\ dep[nrc.n] = None => Published(cache.objs)

\* Step 10, and the returns of 5.7 and 5.8; a conflict asks for a requeue.
WriteStatus(queued) ==
    /\ applied' = IF nrc.stale THEN applied
                  ELSE [applied EXCEPT ![nrc.n] = buildAppliedManagedResources(nrc.mounts)]
    /\ nodesQueued' = IF nrc.stale THEN queued \cup {nrc.n} ELSE queued

NodeFrame == UNCHANGED <<inputs, cstatus, confFor, lags, clusterQueued, crc, external, adminless>>

\* Steps 5.7 and 5.8: the Deployment is left alone; look again in 30 seconds.
NodeDefers ==
    /\ nrc.n # None /\ ~(ConfigReady /\ KeystoreReady)
    /\ NodeFrame /\ UNCHANGED dep /\ nrc' = IdleNode
    /\ WriteStatus(nodesQueued \cup {nrc.n})

\* Step 6 and what follows it; a Deployment that changes wakes its node.
NodeDeploys ==
    /\ nrc.n # None /\ ConfigReady /\ KeystoreReady
    /\ NodeFrame /\ nrc' = IdleNode
    /\ dep' = [dep EXCEPT ![nrc.n] = nrc.mounts]
    /\ WriteStatus(IF dep' = dep THEN nodesQueued ELSE nodesQueued \cup {nrc.n})

-----------------------------------------------------------------------------
(* The caches catch up, and wake the controllers as their watches say. *)

SyncFrame == UNCHANGED <<inputs, outputs, crc, nrc, external>>

\* Mutant: only what an object has become is mapped.
WakesNodes_NewOnly(old, new) == ReachesNodes(new, Cluster)

\* newUnionScopeHandler maps what an object was, and what it has become.
WakesNodes(old, new) == ReachesNodes(old, Cluster) \/ ReachesNodes(new, Cluster)

\* Mutant: only what an object has become is mapped.
WakesCluster_NewOnly(old, new) == ReachesCluster(new, Cluster)

WakesCluster(old, new) == ReachesCluster(old, Cluster) \/ ReachesCluster(new, Cluster)

\* The published Secret, by the cluster's label (findClusterForSecret).
Labelled(o) == o # None /\ o.label

FindsCluster(r, old, new) == r = Out /\ (Labelled(old) \/ Labelled(new))

SyncResource(r) ==
    /\ cache.objs[r] # objs[r]
    /\ cache' = [cache EXCEPT !.objs[r] = objs[r]]
    /\ nodesQueued' = IF WakesNodes(cache.objs[r], objs[r]) THEN Nodes ELSE nodesQueued
    /\ clusterQueued' = \/ clusterQueued \/ FindsCluster(r, cache.objs[r], objs[r])
                         \/ WakesCluster(cache.objs[r], objs[r])
    /\ SyncFrame /\ UNCHANGED <<clusterLag, nodeLag>>

\* The TLS Secrets the cached spec refers to.
SyncSource(s) ==
    /\ cache.src[s] # src[s]
    /\ cache' = [cache EXCEPT !.src[s] = src[s]]
    /\ clusterQueued' = (clusterQueued \/ \E i \in DOMAIN cache.items : cache.items[i].src = s)
    /\ SyncFrame /\ UNCHANGED <<clusterLag, nodeLag, nodesQueued>>

\* An edit of the spec wakes both controllers, this status write neither.
SyncCluster ==
    /\ clusterLag # {}
    /\ cache' = [cache EXCEPT !.items = items] /\ clusterLag' = {}
    /\ clusterQueued' = (clusterQueued \/ "edit" \in clusterLag)
    /\ nodesQueued' = IF "edit" \in clusterLag THEN Nodes ELSE nodesQueued
    /\ SyncFrame /\ UNCHANGED nodeLag

SyncNode(n) ==
    /\ n \in nodeLag
    /\ cache' = [cache EXCEPT !.typ[n] = typ[n]] /\ nodeLag' = nodeLag \ {n}
    /\ clusterQueued' = (clusterQueued \/ cache.typ[n] # typ[n])
    /\ nodesQueued' = IF cache.typ[n] # typ[n] THEN nodesQueued \cup {n} ELSE nodesQueued
    /\ SyncFrame /\ UNCHANGED clusterLag

Sync ==
    \/ \E r \in Resources : SyncResource(r)
    \/ \E s \in Sources : SyncSource(s)
    \/ SyncCluster
    \/ \E n \in Nodes : SyncNode(n)

-----------------------------------------------------------------------------
(* Users and crashes *)

External == external < MaxExternal /\ external' = external + 1

EditFrame == UNCHANGED <<outputs, queues>>

\* Labels, annotations or data of a resource are edited, or it comes or goes.
EditResource(r) ==
    /\ External
    /\ \E e \in Edits : e[1] = r /\ e[2] = objs[r] /\ objs' = [objs EXCEPT ![r] = e[3]]
    /\ EditFrame /\ UNCHANGED <<typ, src, items, lags, crc, nrc>>

\* The published values are edited by hand.
Tamper ==
    /\ External /\ Published(objs)
    /\ objs' = [objs EXCEPT ![Out].data = [k \in DOMAIN @ |-> [from |-> "tampered", salt |-> NewSalt]]]
    /\ EditFrame /\ UNCHANGED <<typ, src, items, lags, crc, nrc>>

\* Its labels and annotations are, but for those with the two hashes.
Relabel ==
    /\ External /\ objs[Out] # None
    /\ \E m \in Marks :
          objs' = [objs EXCEPT ![Out] =
                     [managed |-> m.managed, scope |-> m.scope, type |-> m.type, label |-> m.label,
                      data |-> objs[Out].data, stamp |-> objs[Out].stamp]]
    /\ EditFrame /\ UNCHANGED <<typ, src, items, lags, crc, nrc>>

\* A certificate in use is rotated, broken, removed or put back.
EditSource(s) ==
    /\ External /\ \E i \in DOMAIN items : items[i].src = s
    /\ \E e \in SourceEdits : e[1] = src[s] /\ src' = [src EXCEPT ![s] = e[2]]
    /\ EditFrame /\ UNCHANGED <<objs, typ, items, lags, crc, nrc>>

EditItems ==
    /\ External
    /\ \E e \in ItemEdits : e[1] = items /\ items' = e[2]
    /\ clusterLag' = clusterLag \cup {"edit"}
    /\ crc' = IF crc.keystore = None THEN crc ELSE [crc EXCEPT !.stale = TRUE]
    /\ EditFrame /\ UNCHANGED <<objs, typ, src, cache, nodeLag, nrc>>

EditType(n) ==
    /\ External
    /\ \E t \in {"admin", "runtime"} \ {typ[n]} :
         /\ <<n, t>> \in TypeEdits
         /\ t = "admin" => AdminOf(typ) = None
         /\ typ' = [typ EXCEPT ![n] = t]
    /\ nodeLag' = nodeLag \cup {n}
    /\ nrc' = IF nrc.n = n THEN [nrc EXCEPT !.stale = TRUE] ELSE nrc
    /\ EditFrame /\ UNCHANGED <<objs, src, items, cache, clusterLag, crc>>

Crash ==
    /\ External
    /\ crc' = IdleCluster /\ nrc' = IdleNode
    /\ cache' = Truth /\ clusterLag' = {} /\ nodeLag' = {}
    /\ clusterQueued' = TRUE /\ nodesQueued' = Nodes
    /\ UNCHANGED <<inputs, outputs>>

Disturbance ==
    \/ \E r \in Resources : EditResource(r)
    \/ \E s \in Sources : EditSource(s)
    \/ \E n \in Nodes : EditType(n)
    \/ Tamper \/ Relabel \/ EditItems \/ Crash

ClusterStep == ensureConvertedKeystores \/ ClusterWritesStatus

NodeStep == NodeDefers \/ NodeDeploys

Next ==
    \/ ClusterStep \/ ConfigFollows
    \/ (\E n \in Nodes : NodeDiscovers(n)) \/ NodeStep
    \/ Sync \/ Disturbance

Spec == Init /\ [][Next]_vars

\* The node controller's work queue hands out n; that is a NodeDiscovers(n).
HandsOut(n) == n \in nodesQueued /\ nrc.n = None /\ nodesQueued' = nodesQueued \ {n}

\* Work queues are first come, first served; some event arrives at last;
\* cluster.xml is published.  Nothing is assumed of users.
Fairness ==
    /\ WF_vars(ClusterStep) /\ WF_vars(ConfigFollows) /\ WF_vars(NodeStep) /\ WF_vars(Sync)
    /\ \A n \in Nodes : SF_nodesQueued(HandsOut(n))

FairSpec == Spec /\ Fairness

-----------------------------------------------------------------------------
(* Properties *)

AtRest ==
    /\ crc = IdleCluster /\ nrc = IdleNode /\ ~clusterQueued /\ nodesQueued = {}
    /\ cache = Truth /\ clusterLag = {} /\ nodeLag = {} /\ confFor = AdminOf(typ)

\* No wake-up is lost: when nothing is left to do or to learn, the cluster
\* reports what is wrong with the resources as they are now, and every node
\* has a Deployment that mounts, and a status that lists, what they and its
\* type call for (newUnionScopeHandler, findNodesForManagedConfig,
\* findClustersForManagedConfig, the requeues of Reconcile).  Another
\* reconcile would find the same, however the cache lists the resources, and
\* roll no pod (discoverManagedResources, computeConfigHash).  Only of an admin
\* a node may not have heard: what it mounts is then as without one.
RestIsCurrent ==
    AtRest =>
      /\ Issues(objs) = {cstatus.issues}
      /\ \A n \in Nodes :
           LET mounts == Mounts(objs, typ[n], AdminOf(typ) # None /\ n \notin adminless)
           IN  /\ dep[n] \in mounts /\ (OneOrder(objs, Cluster) => mounts = {dep[n]})
               /\ applied[n] = buildAppliedManagedResources(dep[n])

\* Although one controller mounts and the other reports: at rest a resource in
\* scope is reported as dropped exactly if no node's status lists it as
\* mounted, scripts without an admin aside (applyLoggingValidations "called by
\* both reconcilers so the mount set and the surfaced issues stay in sync").
StatusTellsMounts ==
    AtRest =>
      \A r \in InScope(objs, Cluster) :
        r \in Dropped(cstatus.issues)
          <=> /\ \A n \in Nodes : \A m \in applied[n] : m[1] # r
              /\ ~(objs[r].type = "postCommitScript" /\ AdminOf(typ) = None)

\* Which resources a node should mount, one by one.
GoodLogging == {r \in InScope(objs, Cluster) : objs[r].type = "logging" /\ DOMAIN objs[r].data = {LoggingKey}}

Wanted(n) ==
    {<<r, resolveConfigType(objs[r]), objs[r].data>> : r \in {q \in InScope(objs, Cluster) :
        CASE resolveConfigType(objs[q]) = "env" -> TRUE
          [] resolveConfigType(objs[q]) = "logging" -> GoodLogging = {q}
          [] resolveConfigType(objs[q]) = "postCommitScript" -> typ[n] = "admin"
          [] resolveConfigType(objs[q]) \in {"base", "license"} ->
               AdminOf(typ) \in {n, None} \/ n \in adminless
          [] OTHER -> FALSE}}

SourcesUsable == \A i \in DOMAIN items : src[items[i].src] \in Keypairs

\* The labels and annotations of the published Secret are as it was published.
Intact ==
    objs[Out] # None =>
        objs[Out].managed /\ objs[Out].scope = {Cluster} /\ objs[Out].type = "env" /\ objs[Out].label

\* ConvertKeystoreReady=True is not left over from before a rotation, an edit
\* of the values by hand or a new list: at rest, while its labels and
\* annotations stand, every variable of every keystore is published, made from
\* the certificate as it is now, and every node's pods have it
\* (ensureConvertedKeystores, needWrite, findClusterForSecret).  That goes for
\* values edited while nobody watched the Secret, once its labels are back.
ReadyKeystoresArePublished ==
    AtRest /\ items # <<>> /\ cstatus.keystore = "Ready" /\ Intact =>
        /\ objs[Out] # None
        /\ \A i \in DOMAIN items : \A v \in Variables(items[i]) :
              /\ v \in DOMAIN objs[Out].data
              /\ objs[Out].data[v].from = src[items[i].src] /\ src[items[i].src] \in Keypairs
        /\ \A n \in Nodes : <<Out, "env">> \in applied[n]

NamesApart == \A i, j \in DOMAIN items : i # j => Variables(items[i]) \cap Variables(items[j]) = {}

\* Once users leave a cluster with sound certificates alone, every node mounts
\* exactly the valid resources in its scope, as they are now, whichever of
\* label, scope, type, data and admin was edited last and however the edits
\* fell between the two controllers' reads and writes; base and licenses also
\* on a node that looked while there was no admin and heard of none since.
MountsSettle ==
    <>[]SourcesUsable
      => <>[](\A n \in Nodes : dep[n] # None /\ Range(dep[n]) = Wanted(n))

\* Pods are not rolled for ever: not by the order in which a cache lists, not
\* by the salt of an encoding, not by the two controllers waking each other
\* (computeConfigHash, needWrite in ensureConvertedKeystores).
RolloutsStop == <>[][dep' = dep]_vars

\* Sound certificates are published, whatever happened to them, to the values
\* in the Secret or to the list before, and the condition says so, if the
\* Secret's labels and annotations stand or come back
\* (ensureConvertedKeystores, findClusterForSecret).
KeystoresArrive ==
    <>[](items # <<>> /\ SourcesUsable /\ NamesApart /\ Intact)
      => <>[]( /\ cstatus.keystore = "Ready" /\ objs[Out] # None
               /\ \A i \in DOMAIN items :
                    /\ items[i].key \in DOMAIN objs[Out].data
                    /\ objs[Out].data[items[i].key].from = src[items[i].src] )

\* "A node's Deployment is deferred until its keystore is published, so no pod
\* boots referencing a missing ${SSL_SERVER_KEY}": a Deployment created for a
\* cluster with keystores gives its pods the published environment.
NoPodBootsWithoutKeystore ==
    [][\A n \in Nodes : dep[n] = None /\ dep'[n] # None /\ nrc.items # <<>>
          => Out \in {m[1] : m \in Range(dep'[n])}]_vars
==============================================================================
