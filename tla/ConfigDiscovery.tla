---------------------------- MODULE ConfigDiscovery ----------------------------
(***************************************************************************)
(* config_discovery.go: which of a namespace's ConfigMaps and Secrets are  *)
(* mounted into which nodes, and what is wrong with the others.  Pure      *)
(* operators on a snapshot of the objects, used by both controllers.       *)
(*                                                                         *)
(* Lists are filtered and sorted by definitions of this module, as         *)
(* SelectSeq and SortSeq cannot be reasoned about.                         *)
(***************************************************************************)
EXTENDS Integers, SequencesExt

CONSTANTS
    ConfigMaps,  \* the ConfigMaps of the namespace
    Secrets,     \* its Secrets
    NameOf,      \* a number for each name: a ConfigMap and a Secret may share one
    Clusters,    \* the clusters that exist in the namespace
    LoggingKey,  \* the data key a logging resource must have
    None

Resources == ConfigMaps \cup Secrets

ConfigTypes == {"base", "license", "logging", "postCommitScript", "env"}

ASSUME DiscoveryAssumption ==
    /\ ConfigMaps \cap Secrets = {} /\ None \notin ConfigTypes
    /\ \A r \in Resources : NameOf[r] \in Nat
    /\ \A r, s \in ConfigMaps : NameOf[r] = NameOf[s] => r = s
    /\ \A r, s \in Secrets : NameOf[r] = NameOf[s] => r = s

\* An object's scope is the set of names in its curity.io/cluster annotation,
\* {} if it has none but commas, None if it is absent; its type is what
\* curity.io/config-type says, or None; data maps keys to values.

appliesToCluster(o, c) == o.scope = None \/ c \in o.scope

resolveConfigType(o) ==
    IF o.type = None THEN "base" ELSE IF o.type \in ConfigTypes THEN o.type ELSE "unknown"

\* What the labels and the annotations put in scope.
Managed(o, c) == o # None /\ o.managed /\ appliesToCluster(o, c)

InScope(objs, c) == {r \in Resources : Managed(objs[r], c)}

skippedResources(objs, c) == {r \in InScope(objs, c) : resolveConfigType(objs[r]) = "unknown"}

\* By name; a ConfigMap and a Secret of one name as they were appended.
Before(r, s) == NameOf[r] < NameOf[s] \/ (NameOf[r] = NameOf[s] /\ r \in ConfigMaps /\ s \in Secrets)

Config(r, o) == [res |-> r, type |-> resolveConfigType(o), data |-> o.data]

\* The elements of a list that are in S, in the order of the list.
Keep(list, S) ==
    LET kept[i \in 0..Len(list)] ==
          IF i = 0 THEN <<>>
          ELSE IF list[i] \in S THEN Append(kept[i - 1], list[i]) ELSE kept[i - 1]
    IN  kept[Len(list)]

\* Go sorts so many elements by insertion, which is stable.
StableUpTo == 12

\* What sort.Slice may make of a list without repetitions.  It compares names
\* only: in a longer list a ConfigMap and a Secret of one name end up anyhow.
Sorted(list) ==
    {s \in [DOMAIN list -> Range(list)] :
        /\ IsInjective(s) /\ Range(s) = Range(list)
        /\ \A i, j \in DOMAIN s : i < j =>
              IF Cardinality(Range(list)) <= StableUpTo THEN Before(s[i], s[j])
              ELSE NameOf[s[i]] <= NameOf[s[j]]}

Mountable(objs, c) == InScope(objs, c) \ skippedResources(objs, c)

\* The names, or the number of the objects, leave only one order.
OneOrder(objs, c) ==
    \/ Cardinality(Mountable(objs, c)) <= StableUpTo
    \/ \A r, s \in Mountable(objs, c) : NameOf[r] = NameOf[s] => r = s

\* The objects come as the cache lists them, in no particular order.
Listed(objs, c, listings) == {Keep(listing, Mountable(objs, c)) : listing \in listings}

Configs(objs, resources) == [i \in DOMAIN resources |-> Config(resources[i], objs[resources[i]])]

\* Mutant: in the order of the listing.
discoverManagedResources_Unsorted(objs, c, listings) ==
    {Configs(objs, list) : list \in Listed(objs, c, listings)}

\* What may be found.
discoverManagedResources(objs, c, listings) ==
    UNION {{Configs(objs, s) : s \in Sorted(list)} : list \in Listed(objs, c, listings)}

\* Curity distributes base and license from the admin; environment and
\* logging are each pod's own; scripts run where ConfigD runs.
shouldMountConfig(nodeType, adminExists, type) ==
    \/ type \in {"logging", "env"}
    \/ type \in {"base", "license"} /\ ~adminExists
    \/ nodeType = "admin"

validateLoggingResource(cfg) == DOMAIN cfg.data = {LoggingKey}

\* From here on a set of configs does where their order makes no difference.

\* All of them, when there is more than one: no arbitrary choice is made.
detectDuplicateLoggingConfigs(configs) ==
    LET logging == {c.res : c \in {d \in configs : d.type = "logging"}}
    IN  IF Cardinality(logging) > 1 THEN logging ELSE {}

Issue(r, reason) == [res |-> r, reason |-> reason]

Invalid(configs) == {c \in configs : c.type = "logging" /\ ~validateLoggingResource(c)}

LoggingIssues(invalid, dups) ==
    {Issue(c.res, "LoggingConfigInvalid") : c \in invalid}
    \cup {Issue(r, "DuplicateLoggingConfig") : r \in dups}

\* Mutant: duplicates are reported, and mounted.
applyLoggingValidations_KeepsDuplicates(configs) ==
    LET valid == configs \ Invalid(configs)
    IN  [configs |-> valid,
         issues  |-> LoggingIssues(Invalid(configs), detectDuplicateLoggingConfigs(valid))]

\* First the invalid ones go, then what is still in competition.
applyLoggingValidations(configs) ==
    LET valid == configs \ Invalid(configs)
        dups  == detectDuplicateLoggingConfigs(valid)
    IN  [configs |-> {c \in valid : c.res \notin dups},
         issues  |-> LoggingIssues(Invalid(configs), dups)]

\* Two resources of a type whose files merge share a key.
detectDuplicateKeys(configs) ==
    {c.res : c \in {a \in configs :
        /\ a.type \notin {"logging", "postCommitScript"}
        /\ \E b \in configs :
              b.res # a.res /\ b.type = a.type /\ DOMAIN a.data \cap DOMAIN b.data # {}}}

\* Name and kind (the resource), type and data, in this order; injective.
computeConfigHash(configs) ==
    [i \in DOMAIN configs |-> <<configs[i].res, configs[i].type, configs[i].data>>]

\* What a node of this type mounts of the resources found; its hash.
mountedConfigs(found, nodeType, adminExists) ==
    computeConfigHash(Keep(found, {c \in applyLoggingValidations(Range(found)).configs :
                                      shouldMountConfig(nodeType, adminExists, c.type)}))

buildAppliedManagedResources(hashed) == {<<h[1], h[2]>> : h \in Range(hashed)}

\* status.managedResourceIssues, a set instead of a sorted list.
managedResourceIssues(configs, skipped) ==
    {Issue(r, "UnknownConfigType") : r \in skipped}
    \cup {Issue(r, "DuplicateConfigKey") : r \in detectDuplicateKeys(configs)}
    \cup applyLoggingValidations(configs).issues

\* ManagedConfigsValid=False: what is reported but for duplicate keys is dropped.
Dropped(issues) == {i.res : i \in {j \in issues : j.reason # "DuplicateConfigKey"}}

\* Whom an event of an object is for: findNodesForManagedConfig, and the same
\* for clusters, where a scope that matches no cluster reaches them all.
ReachesNodes(o, c) == Managed(o, c)

ReachesCluster(o, c) ==
    o # None /\ o.managed /\ (appliesToCluster(o, c) \/ o.scope \cap Clusters = {})
==============================================================================
