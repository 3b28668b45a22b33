------------------------- MODULE ClusterConfigProofs -------------------------
(***************************************************************************)
(* Theorems about ClusterConfig: types, the Secret's annotations, the Job  *)
(* that is deleted by name, the announced reset and the status at rest,    *)
(* for any number of inputs, admins, keys, failures and crashes.           *)
(***************************************************************************)
EXTENDS ClusterConfig, TLAPS

\* What a reconcile in progress holds at each of its writes.
HoldsInv ==
    rc # None =>
        /\ rc.pc \in {"reset", "drop", "job", "publish"} => rc.hash # None
        /\ rc.pc \in {"reset", "publish"} => rc.new # None
        /\ rc.pc \in {"reset", "drop"} => rc.cond = "Regenerating"
        /\ rc.pc = "reset" => rc.new.xml = None /\ cond = "Regenerating"
        /\ rc.pc = "publish" => rc.new.xml # None

-----------------------------------------------------------------------------
(* Types. *)

\* A reconcile that starts holds what its first write needs.
LEMMA ProceedTyped ==
    ASSUME TypeOK, NEW pc \in {"job", "status"}, NEW h \in Hashes \cup {None},
           NEW c \in Reasons, pc = "job" => h # None, Proceed(pc, h, c)
    PROVE  queued' \in BOOLEAN /\ rc' \in Reconciles /\ HoldsInv'
<1>1. rc' \in Reconciles /\ rc'.pc = pc /\ rc'.hash = h
  BY DEF Proceed, Reconciles, Steps, Stale
<1> QED BY <1>1 DEF Proceed, HoldsInv

LEMMA RegenerateTyped ==
    ASSUME TypeOK, NEW a \in Names, NEW s \in SecretObjects, NEW then \in {"job", "status"},
           s.xml = None, Regenerate(a, s, then)
    PROVE  /\ queued' \in BOOLEAN /\ rc' \in Reconciles \cup {None} /\ HoldsInv'
           /\ cond' \in Reasons /\ lag' \subseteq LagKinds
           /\ Fail \/ (rc' \in Reconciles /\ rc'.pc = "reset")
<1>1. CASE Stale
  BY <1>1 DEF Regenerate, Fail, HoldsInv, TypeOK
<1>2. CASE ~Stale
  <2>1. <<cInp, a>> \in Hashes /\ <<cInp, a>> # None
    BY ClusterConfigAssumption DEF TypeOK, Hashes
  <2>2. rc' = [pc |-> "reset", hash |-> <<cInp, a>>, new |-> s, then |-> then,
               cond |-> "Regenerating", stale |-> FALSE, secStale |-> "secret" \in lag]
    BY <1>2 DEF Regenerate
  <2>3. rc' \in Reconciles
    BY <2>1, <2>2 DEF Reconciles, Steps, Reasons
  <2>4. s # None
    BY AbsentIsNoObject
  <2>5. cond' = "Regenerating" /\ lag' \subseteq LagKinds /\ queued' = FALSE
    BY <1>2 DEF Regenerate, PutCond, TypeOK, LagKinds
  <2> QED BY <2>1, <2>2, <2>3, <2>4, <2>5 DEF HoldsInv, Reasons
<1> QED BY <1>1, <1>2

\* What Branches A and C are about to write is a placeholder of the new hash.
LEMMA BranchRegenerates ==
    ASSUME TypeOK, NEW a \in cAdmins, BranchA(a) \/ BranchC(a)
    PROVE  \E s \in SecretObjects, then \in {"job", "status"} :
             Regenerate(a, s, then) /\ s.xml = None /\ s.hash # None
<1> DEFINE s == [cSecret EXCEPT !.xml = None, !.key = cKey, !.hash = <<cInp, a>>]
           t == [xml |-> None, hash |-> <<cInp, a>>, admin |-> a, key |-> OrStored(cKey, cSecret)]
<1>1. a \in Names /\ <<cInp, a>> \in Hashes /\ <<cInp, a>> # None
  BY ClusterConfigAssumption DEF TypeOK, Hashes
<1>2. cSecret \in SecretObjects
  BY DEF BranchA, BranchC, isClusterConfigReady, TypeOK
<1>3. s \in SecretObjects /\ s.xml = None /\ s.hash # None
  BY <1>1, <1>2 DEF SecretObjects, TypeOK
<1>4. t \in SecretObjects /\ t.xml = None /\ t.hash # None
  BY <1>1, <1>2 DEF SecretObjects, TypeOK, OrStored
<1>5. Regenerate(a, s, "status") \/ Regenerate(a, t, "job")
  BY DEF BranchA, BranchC
<1> HIDE DEF s, t
<1> QED BY <1>3, <1>4, <1>5

LEMMA UpdateTyped ==
    ASSUME TypeOK, NEW a \in Names, NEW s \in SecretObjects, UpdateInPlace(<<cInp, a>>, s)
    PROVE  /\ queued' \in BOOLEAN /\ rc' \in Reconciles \cup {None} /\ HoldsInv'
           /\ secret' \in SecretObjects \cup {None} /\ lag' \subseteq LagKinds
<1>1. <<cInp, a>> \in Hashes
  BY DEF TypeOK, Hashes
<1>2. CASE "secret" \in lag
  BY <1>2 DEF UpdateInPlace, Fail, HoldsInv, TypeOK
<1>3. CASE "secret" \notin lag
  <2>1. Proceed("status", <<cInp, a>>, "SecretReady") /\ PutSecret(s)
    BY <1>3 DEF UpdateInPlace
  <2>2. queued' \in BOOLEAN /\ rc' \in Reconciles /\ HoldsInv'
    BY <1>1, <2>1, ProceedTyped DEF Reasons
  <2> QED BY <2>1, <2>2 DEF PutSecret, TypeOK, LagKinds
<1> QED BY <1>2, <1>3

LEMMA BeginTyped ==
    ASSUME TypeOK, HoldsInv, Begin
    PROVE  TypeOK' /\ HoldsInv'
<1>1. CASE NoAdmin
  BY <1>1, ProceedTyped DEF NoAdmin, StartFrame, inputs, caches, cCluster, TypeOK, Reasons
<1>2. ASSUME NEW a \in cAdmins, BranchA(a) \/ BranchC(a) PROVE TypeOK' /\ HoldsInv'
  <2>1. PICK s \in SecretObjects, then \in {"job", "status"} :
          Regenerate(a, s, then) /\ s.xml = None
    BY <1>2, BranchRegenerates
  <2>2. a \in Names
    BY DEF TypeOK
  <2> QED BY <1>2, <2>1, <2>2, RegenerateTyped
          DEF BranchA, BranchC, StartFrame, inputs, caches, cCluster, TypeOK
<1>3. ASSUME NEW a \in cAdmins, SteadyState(a) PROVE TypeOK' /\ HoldsInv'
  <2>1. cSecret.hash \in Hashes \cup {None}
    BY <1>3 DEF SteadyState, isClusterConfigReady, TypeOK, SecretObjects
  <2> QED BY <1>3, <2>1, ProceedTyped
          DEF SteadyState, StartFrame, inputs, caches, cCluster, TypeOK, Reasons
<1>4. ASSUME NEW a \in cAdmins, Backfill(a) PROVE TypeOK' /\ HoldsInv'
  <2> DEFINE s == [cSecret EXCEPT !.hash = <<cInp, a>>]
  <2>1. s \in SecretObjects /\ a \in Names
    BY <1>4 DEF Backfill, isClusterConfigReady, SecretObjects, TypeOK, Hashes
  <2>2. UpdateInPlace(<<cInp, a>>, s)
    BY <1>4 DEF Backfill
  <2> HIDE DEF s
  <2> QED BY <1>4, <2>1, <2>2, UpdateTyped
          DEF Backfill, StartFrame, inputs, caches, cCluster, TypeOK
<1>5. ASSUME NEW a \in cAdmins, BranchB(a) PROVE TypeOK' /\ HoldsInv'
  <2> DEFINE s == [cSecret EXCEPT !.xml.host = a, !.admin = a, !.hash = <<cInp, a>>]
  <2>1. a \in Names
    BY DEF TypeOK
  <2>2. s \in SecretObjects
    BY <1>5, <2>1 DEF BranchB, isClusterConfigReady, SecretObjects, Xmls, TypeOK, Hashes
  <2>3. UpdateInPlace(<<cInp, a>>, s)
    BY <1>5 DEF BranchB
  <2> HIDE DEF s
  <2> QED BY <1>5, <2>1, <2>2, <2>3, UpdateTyped
          DEF BranchB, StartFrame, inputs, caches, cCluster, TypeOK
<1>6. ASSUME NEW a \in cAdmins, PlaceholderFound(a) \/ CreatePlaceholder(a)
      PROVE  TypeOK' /\ HoldsInv'
  <2>1. a \in Names /\ <<cInp, a>> \in Hashes /\ <<cInp, a>> # None
    BY ClusterConfigAssumption DEF TypeOK, Hashes
  <2>2. rc' \in Reconciles /\ queued' \in BOOLEAN /\ HoldsInv'
    BY <1>6, <2>1, ProceedTyped DEF PlaceholderFound, CreatePlaceholder, TypeOK
  <2>3. secret' \in SecretObjects \cup {None} /\ lag' \subseteq LagKinds
    <3>1. [xml |-> None, hash |-> <<cInp, a>>, admin |-> a, key |-> cKey] \in SecretObjects
      BY <2>1 DEF SecretObjects, TypeOK
    <3>2. CASE PlaceholderFound(a)
      BY <3>2 DEF PlaceholderFound, TypeOK
    <3>3. CASE CreatePlaceholder(a)
      BY <3>1, <3>3 DEF CreatePlaceholder, PutSecret, TypeOK, LagKinds
    <3> QED BY <1>6, <3>2, <3>3
  <2> QED BY <1>6, <2>2, <2>3
          DEF PlaceholderFound, CreatePlaceholder, StartFrame, inputs, caches, cCluster, TypeOK
<1> QED BY <1>1, <1>2, <1>3, <1>4, <1>5, <1>6 DEF Begin

\* The Job's deletion, and the three ways on from one write to the next.
LEMMA DeleteJobTyped ==
    ASSUME TypeOK, DeleteJob
    PROVE  job' = None /\ pods' \subseteq PodObjects /\ lag' \subseteq LagKinds
BY DEF DeleteJob, TypeOK, PodObjects, LagKinds

LEMMA FinishTyped ==
    ASSUME TypeOK, rc # None, NEW c \in Reasons, Finish(c)
    PROVE  rc' \in Reconciles /\ queued' \in BOOLEAN /\ HoldsInv'
<1>1. rc' \in Reconciles /\ rc'.pc = "status"
  BY DEF Finish, TypeOK, Reconciles, Steps
<1> QED BY <1>1 DEF Finish, HoldsInv, TypeOK

LEMMA AtJobTyped ==
    ASSUME TypeOK, HoldsInv, AtJobStep
    PROVE  TypeOK' /\ HoldsInv' /\ rc' \in Reconciles
<1>0. /\ rc \in Reconciles /\ rc # None /\ rc.pc = "job" /\ rc.hash \in Hashes
      /\ rc.cond \in Reasons /\ StepFrame
  BY DEF AtJobStep, JobDrifted, LogsUnavailable, EmptyOutput, ReadLogs, JobFailed, JobRunning,
         JobForbidden, JobExists, CreateJob, JobCompleted, AtJob, HoldsInv, TypeOK, Reconciles
<1> SUFFICES /\ job' \in JobObjects \cup {None} /\ pods' \subseteq PodObjects
             /\ lag' \subseteq LagKinds /\ queued' \in BOOLEAN
             /\ rc' \in Reconciles /\ HoldsInv'
  BY <1>0 DEF StepFrame, cluster, inputs, caches, cCluster, TypeOK
<1>1. CASE JobDrifted \/ (\E g \in BOOLEAN : LogsUnavailable(g)) \/ EmptyOutput
  <2>1. PICK c \in Reasons : Finish(c)
    BY <1>1 DEF JobDrifted, LogsUnavailable, EmptyOutput, Reasons
  <2>2. DeleteJob \/ UNCHANGED <<job, pods, lag>>
    BY <1>1 DEF JobDrifted, LogsUnavailable, EmptyOutput
  <2> QED BY <1>0, <2>1, <2>2, FinishTyped, DeleteJobTyped DEF TypeOK
<1>2. CASE JobFailed \/ JobRunning \/ JobForbidden \/ JobExists
  <2>1. PICK c \in Reasons : Finish(c)
    BY <1>0, <1>2 DEF JobFailed, JobRunning, JobForbidden, JobExists, Reasons
  <2> QED BY <1>0, <1>2, <2>1, FinishTyped
          DEF JobFailed, JobRunning, JobForbidden, JobExists, TypeOK
<1>3. CASE CreateJob
  <2>1. Finish("JobCreated") /\ "JobCreated" \in Reasons
    BY <1>3 DEF CreateJob, Reasons
  <2>2. job' \in JobObjects
    BY <1>0, <1>3 DEF CreateJob, JobObjects, TypeOK
  <2> QED BY <1>0, <1>3, <2>1, <2>2, FinishTyped DEF CreateJob, TypeOK, LagKinds
<1>4. CASE ReadLogs
  <2>1. PICK p \in pods :
          /\ p.xml # None
          /\ rc' = [rc EXCEPT !.pc = "publish",
                              !.new = [xml |-> p.xml, hash |-> rc.hash, admin |-> rc.hash[2],
                                       key |-> None]]
    BY <1>4 DEF ReadLogs
  <2>2. p.xml \in Xmls /\ rc.hash[2] \in Names
    BY <1>0, <2>1 DEF TypeOK, PodObjects, Hashes
  <2>3. rc'.pc = "publish" /\ rc'.hash = rc.hash
        /\ rc'.new = [xml |-> p.xml, hash |-> rc.hash, admin |-> rc.hash[2], key |-> None]
    BY <1>0, <2>1 DEF Reconciles
  <2>4. rc'.new \in SecretObjects
    BY <1>0, <2>2, <2>3 DEF SecretObjects, OptKeys
  <2>5. rc' \in Reconciles
    BY <1>0, <2>1, <2>3, <2>4 DEF Reconciles, Steps
  <2>6. rc'.new # None /\ rc'.new.xml # None /\ rc'.hash # None
    BY <1>0, <2>1, <2>3, <2>4, AbsentIsNoObject, ClusterConfigAssumption DEF Hashes
  <2> QED BY <1>4, <2>3, <2>5, <2>6 DEF ReadLogs, HoldsInv, TypeOK
<1> QED BY <1>1, <1>2, <1>3, <1>4 DEF AtJobStep

LEMMA WriteTyped ==
    ASSUME TypeOK, HoldsInv, ResetSecret \/ DropJob \/ Publish \/ CleanJob \/ WriteStatus
    PROVE  TypeOK' /\ HoldsInv'
<1>0. rc # None /\ rc \in Reconciles
  BY DEF ResetSecret, DropJob, Publish, CleanJob, WriteStatus, TypeOK
<1>1. CASE ResetSecret
  <2>1. rc.new \in SecretObjects /\ rc.hash # None /\ rc.cond = "Regenerating"
    BY <1>0, <1>1 DEF ResetSecret, HoldsInv, Reconciles
  <2>2. CASE Fail /\ UNCHANGED <<secret, lag>>
    BY <1>1, <2>2 DEF ResetSecret, Fail, HoldsInv, TypeOK, cluster, inputs, caches, cCluster
  <2>3. CASE PutSecret(rc.new) /\ Continue("drop")
    <3>1. rc' \in Reconciles /\ rc'.pc = "drop" /\ rc'.hash = rc.hash /\ rc'.cond = rc.cond
      BY <1>0, <2>3 DEF Continue, Reconciles, Steps
    <3> QED BY <1>1, <2>1, <2>3, <3>1 DEF ResetSecret, PutSecret, Continue, HoldsInv, TypeOK,
                                          LagKinds, cluster, inputs, caches, cCluster
  <2> QED BY <1>1, <2>2, <2>3 DEF ResetSecret
<1>2. CASE DropJob
  <2>1. rc.hash # None /\ rc.then \in {"job", "status"}
    BY <1>0, <1>2 DEF DropJob, HoldsInv, Reconciles
  <2>2. rc' \in Reconciles /\ rc'.pc = rc.then /\ rc'.hash = rc.hash
    BY <1>0, <1>2, <2>1 DEF DropJob, Continue, Reconciles, Steps
  <2>3. HoldsInv'
    BY <2>1, <2>2 DEF HoldsInv
  <2>4. job' \in JobObjects \cup {None} /\ pods' \subseteq PodObjects /\ lag' \subseteq LagKinds
    BY <1>2, DeleteJobTyped DEF DropJob, TypeOK
  <2> QED BY <1>2, <2>2, <2>3, <2>4 DEF DropJob, Continue, TypeOK, cluster, inputs, caches,
                                        cCluster
<1>3. CASE Publish
  <2>1. CASE Fail /\ UNCHANGED <<secret, lag>>
    BY <1>3, <2>1 DEF Publish, Fail, HoldsInv, TypeOK, cluster, inputs, caches, cCluster
  <2>2. CASE cSecret # None /\ PutSecret([rc.new EXCEPT !.key = OrStored(cKey, cSecret)])
             /\ Continue("clean")
    <3>1. rc.new \in SecretObjects /\ OrStored(cKey, cSecret) \in OptKeys
      BY <1>0, <1>3, <2>2 DEF Publish, HoldsInv, Reconciles, OrStored, TypeOK, SecretObjects
    <3>2. secret' \in SecretObjects
      BY <2>2, <3>1 DEF PutSecret, SecretObjects
    <3>3. rc' \in Reconciles /\ rc'.pc = "clean"
      BY <1>0, <2>2 DEF Continue, Reconciles, Steps
    <3> QED BY <1>3, <2>2, <3>2, <3>3 DEF Publish, PutSecret, Continue, HoldsInv, TypeOK,
                                          LagKinds, cluster, inputs, caches, cCluster
  <2> QED BY <1>3, <2>1, <2>2 DEF Publish
<1>4. CASE CleanJob
  <2>1. rc' \in Reconciles /\ queued' \in BOOLEAN /\ HoldsInv'
    BY <1>0, <1>4, FinishTyped DEF CleanJob, Reasons
  <2> QED BY <1>4, <2>1, DeleteJobTyped DEF CleanJob, StepFrame, TypeOK, cluster, inputs,
                                            caches, cCluster
<1>5. CASE WriteStatus
  BY <1>0, <1>5 DEF WriteStatus, PutCond, Reconciles, LagKinds, HoldsInv, TypeOK, inputs,
                    caches, cCluster
<1> QED BY <1>1, <1>2, <1>3, <1>4, <1>5

LEMMA SyncTyped ==
    ASSUME TypeOK, HoldsInv, Sync
    PROVE  TypeOK' /\ HoldsInv'
BY DEF Sync, SyncCluster, SyncAdmins, SyncKey, SyncSecret, SyncJob, SyncFrame, HoldsInv, TypeOK,
       cluster, inputs, cCluster

LEMMA JobEndsTyped ==
    ASSUME TypeOK, NEW phase \in {"complete", "failed"}, NEW output \in SUBSET PodObjects,
           JobEnds(phase, output), external' \in Nat
    PROVE  TypeOK' /\ UNCHANGED <<rc, cond>>
<1>1. job' \in JobObjects
  BY DEF JobEnds, JobObjects, TypeOK
<1> QED BY <1>1 DEF JobEnds, JobFrame, TypeOK, LagKinds, cluster, inputs, caches, cCluster

LEMMA OtherTyped ==
    ASSUME TypeOK, HoldsInv, Workload \/ Disturbance \/ Crash
    PROVE  TypeOK' /\ HoldsInv'
<1>1. CASE GenclustSucceeds \/ GenclustPrintsNothing
  <2>1. PICK o \in {GenclustOutput, [xml |-> None, orphan |-> FALSE]} : JobEnds("complete", {o})
    BY <1>1 DEF GenclustSucceeds, GenclustPrintsNothing
  <2>2. job \in JobObjects /\ key \in OptKeys
    BY <2>1 DEF JobEnds, TypeOK
  <2>3. [inp |-> job.hash[1], host |-> job.hash[2], key |-> key] \in Xmls
    BY <2>2 DEF JobObjects, Hashes, Xmls
  <2>4. GenclustOutput \in PodObjects /\ [xml |-> None, orphan |-> FALSE] \in PodObjects
    BY <2>3 DEF GenclustOutput, PodObjects
  <2>5. external' \in Nat
    BY <1>1 DEF GenclustSucceeds, GenclustPrintsNothing, Change, TypeOK
  <2> QED BY <2>1, <2>4, <2>5, JobEndsTyped DEF HoldsInv
<1>2. CASE GenclustFails
  BY <1>2, JobEndsTyped DEF GenclustFails, HoldsInv, TypeOK
<1>3. CASE CollectPods \/ LosePods
  BY <1>3 DEF CollectPods, LosePods, Change, JobFrame, HoldsInv, TypeOK, cluster, inputs, caches,
              cCluster
<1>4. ASSUME NEW i \in Inps, EditCluster(i) PROVE TypeOK' /\ HoldsInv'
  <2>1. rc' \in Reconciles \cup {None} /\ HoldsInv'
    BY <1>4 DEF EditCluster, HoldsInv, TypeOK, Reconciles
  <2> QED BY <1>4, <2>1 DEF EditCluster, Change, TypeOK, LagKinds, inputs, caches, cCluster
<1>5. ASSUME NEW s \in SUBSET Names, ChangeAdmins(s) PROVE TypeOK' /\ HoldsInv'
  BY <1>5 DEF ChangeAdmins, Change, HoldsInv, TypeOK, LagKinds, cluster, caches, cCluster
<1>6. ASSUME NEW k \in OptKeys, ChangeKey(k) PROVE TypeOK' /\ HoldsInv'
  BY <1>6 DEF ChangeKey, Change, HoldsInv, TypeOK, LagKinds, cluster, caches, cCluster
<1>7. CASE DeleteSecret
  BY <1>7 DEF DeleteSecret, PutSecret, Change, HoldsInv, TypeOK, LagKinds, cluster, inputs,
              caches, cCluster
<1>8. CASE ToggleAdmission
  BY <1>8 DEF ToggleAdmission, Change, HoldsInv, TypeOK, cluster, caches, cCluster
<1>9. CASE ApiError
  BY <1>9 DEF ApiError, Fail, Change, HoldsInv, TypeOK, cluster, inputs, caches, cCluster
<1>10. CASE Crash
  BY <1>10 DEF Crash, Fail, Change, HoldsInv, TypeOK, cluster, inputs
<1> QED BY <1>1, <1>2, <1>3, <1>4, <1>5, <1>6, <1>7, <1>8, <1>9, <1>10
       DEF Workload, Disturbance

LEMMA AlwaysTyped == Spec => [](TypeOK /\ HoldsInv)
<1>1. Init => TypeOK /\ HoldsInv
  <2> SUFFICES ASSUME Init PROVE TypeOK /\ HoldsInv
    OBVIOUS
  <2>1. inp \in Inps /\ admins \subseteq Names /\ key \in OptKeys /\ admitted \in BOOLEAN
    BY ClusterConfigAssumption DEF Init, OptKeys
  <2>2. secret \in SecretObjects \cup {None} /\ cond \in Reasons
    BY <2>1, ClusterConfigAssumption DEF Init, SecretObjects, Xmls, OptKeys, Reasons
  <2> QED BY <2>1, <2>2 DEF Init, TypeOK, HoldsInv
<1>2. TypeOK /\ HoldsInv /\ [Next]_vars => TypeOK' /\ HoldsInv'
  <2>1. TypeOK /\ HoldsInv /\ UNCHANGED vars => TypeOK' /\ HoldsInv'
    BY DEF TypeOK, HoldsInv, vars, cluster, inputs, caches, cCluster
  <2> QED BY <2>1, BeginTyped, AtJobTyped, WriteTyped, SyncTyped, OtherTyped
          DEF Next, Reconcile
<1> QED BY <1>1, <1>2, PTL DEF Spec

\* Every state the cluster controller can reach is well typed: a write never
\* lacks what an earlier step of the same reconcile should have left for it.
THEOREM TypeCorrect == Spec => []TypeOK
BY AlwaysTyped, PTL

-----------------------------------------------------------------------------
(* The Secret and the Job. *)

\* The steps that write the cluster-config Secret.
LEMMA SecretWrites ==
    ASSUME [Next]_vars
    PROVE  \/ UNCHANGED secret
           \/ \E a \in cAdmins : Backfill(a) \/ BranchB(a) \/ CreatePlaceholder(a)
           \/ ResetSecret \/ Publish \/ DeleteSecret
<1>1. Begin => \/ UNCHANGED secret
               \/ \E a \in cAdmins : Backfill(a) \/ BranchB(a) \/ CreatePlaceholder(a)
  BY DEF Begin, NoAdmin, BranchA, SteadyState, BranchC, PlaceholderFound
<1>2. DropJob \/ AtJobStep \/ CleanJob \/ WriteStatus => UNCHANGED secret
  BY DEF DropJob, AtJobStep, JobDrifted, LogsUnavailable, EmptyOutput, ReadLogs, JobFailed,
         JobRunning, JobForbidden, JobExists, CreateJob, CleanJob, WriteStatus, StepFrame
<1>3. Sync \/ Workload => UNCHANGED secret
  BY DEF Sync, SyncCluster, SyncAdmins, SyncKey, SyncSecret, SyncJob, SyncFrame, Workload,
         GenclustSucceeds, GenclustFails, JobEnds, CollectPods, JobFrame
<1>4. Disturbance \/ Crash => UNCHANGED secret \/ DeleteSecret
  BY DEF Disturbance, EditCluster, ChangeAdmins, ChangeKey, ToggleAdmission,
         GenclustPrintsNothing, JobEnds, LosePods, JobFrame, ApiError, Crash
<1> QED BY <1>1, <1>2, <1>3, <1>4 DEF Next, Reconcile, vars

\* The condition is taken back before the Secret goes back to the placeholder:
\* nobody sees ClusterConfigReady=True while a published cluster.xml is reset
\* (the first two writes of Branches A and C).
THEOREM ReadyIsWithdrawnFirst == Spec => ResetIsAnnounced
<1>1. TypeOK /\ HoldsInv /\ [Next]_vars
      => [isClusterConfigReady(secret) /\ secret' # None /\ secret'.xml = None
            => cond # "SecretReady"]_vars
  <2> SUFFICES ASSUME TypeOK, HoldsInv, [Next]_vars, isClusterConfigReady(secret),
                      secret' # None, secret'.xml = None, cond = "SecretReady"
               PROVE  FALSE
    OBVIOUS
  <2>1. secret' # secret
    BY DEF isClusterConfigReady
  <2>2. ~ResetSecret
    BY <2>1 DEF ResetSecret, HoldsInv
  <2>3. ~Publish
    <3> SUFFICES ASSUME Publish PROVE FALSE
      OBVIOUS
    <3>1. rc \in Reconciles /\ rc.new \in SecretObjects /\ rc.new.xml # None
      BY DEF Publish, TypeOK, HoldsInv, Reconciles
    <3>2. secret' = [rc.new EXCEPT !.key = OrStored(cKey, cSecret)]
      BY <2>1 DEF Publish, PutSecret
    <3> QED BY <3>1, <3>2 DEF SecretObjects
  <2>4. ASSUME NEW a \in cAdmins PROVE ~Backfill(a) /\ ~BranchB(a) /\ ~CreatePlaceholder(a)
    <3>1. ~CreatePlaceholder(a)
      BY <2>1 DEF CreatePlaceholder, isClusterConfigReady
    <3>2. isClusterConfigReady(cSecret) =>
            /\ [cSecret EXCEPT !.hash = <<cInp, a>>].xml # None
            /\ [cSecret EXCEPT !.xml.host = a, !.admin = a, !.hash = <<cInp, a>>].xml # None
      <4> SUFFICES ASSUME isClusterConfigReady(cSecret)
                   PROVE  /\ [cSecret EXCEPT !.hash = <<cInp, a>>].xml # None
                          /\ [cSecret.xml EXCEPT !.host = a] # None
        BY DEF isClusterConfigReady, TypeOK, SecretObjects
      <4>1. cSecret \in SecretObjects /\ cSecret.xml \in Xmls /\ a \in Names
        BY DEF isClusterConfigReady, TypeOK, SecretObjects
      <4>2. [cSecret.xml EXCEPT !.host = a] \in Xmls
        BY <4>1 DEF Xmls
      <4> QED BY <4>1, <4>2, AbsentIsNoObject DEF isClusterConfigReady, SecretObjects
    <3> QED BY <2>1, <3>1, <3>2 DEF Backfill, BranchB, UpdateInPlace, PutSecret
  <2> QED BY <2>1, <2>2, <2>3, <2>4, SecretWrites DEF DeleteSecret, PutSecret
<1> QED BY <1>1, AlwaysTyped, PTL DEF Spec, ResetIsAnnounced

\* The genclust pod ends, one way or another.
PodEnds == \E phase, output : JobEnds(phase, output)

\* The steps that change the Job or its cached copy.
LEMMA JobWrites ==
    ASSUME [Next]_vars
    PROVE  \/ UNCHANGED <<job, cJob>> \/ cJob' = job' \/ (DeleteJob /\ UNCHANGED cJob)
           \/ CreateJob \/ PodEnds
<1>1. Begin \/ ResetSecret \/ Publish \/ WriteStatus => UNCHANGED <<job, cJob>>
  BY DEF Begin, NoAdmin, BranchA, SteadyState, Backfill, BranchB, BranchC, PlaceholderFound,
         CreatePlaceholder, StartFrame, ResetSecret, Publish, WriteStatus, caches
<1>2. DropJob \/ AtJobStep \/ CleanJob
      => UNCHANGED <<job, cJob>> \/ (DeleteJob /\ UNCHANGED cJob) \/ CreateJob
  BY DEF DropJob, AtJobStep, JobDrifted, LogsUnavailable, EmptyOutput, ReadLogs, JobFailed,
         JobRunning, JobForbidden, JobExists, CleanJob, StepFrame, caches
<1>3. Sync \/ Crash => UNCHANGED <<job, cJob>> \/ cJob' = job'
  BY DEF Sync, SyncCluster, SyncAdmins, SyncKey, SyncSecret, SyncJob, SyncFrame, Crash
<1>4. Workload => UNCHANGED <<job, cJob>> \/ PodEnds
  BY DEF Workload, GenclustSucceeds, GenclustFails, CollectPods, JobFrame, caches, PodEnds
<1>5. Disturbance => UNCHANGED <<job, cJob>> \/ PodEnds
  BY DEF Disturbance, EditCluster, ChangeAdmins, ChangeKey, DeleteSecret, ToggleAdmission,
         GenclustPrintsNothing, LosePods, JobFrame, ApiError, caches, PodEnds
<1>6. UNCHANGED vars => UNCHANGED <<job, cJob>>
  BY DEF vars, caches
<1> QED BY <1>1, <1>2, <1>3, <1>4, <1>5, <1>6 DEF Next, Reconcile

\* The Job deleted by name is one made from the inputs the cached copy shows,
\* although nothing but the name is given to the API server (DeleteJob).
THEOREM DeleteHitsTheCachedJob == Spec => []CachedJobIsTheJob
<1>1. Init => CachedJobIsTheJob
  BY DEF Init, CachedJobIsTheJob
<1>2. TypeOK /\ CachedJobIsTheJob /\ [Next]_vars => CachedJobIsTheJob'
  <2> SUFFICES ASSUME TypeOK, CachedJobIsTheJob, [Next]_vars PROVE CachedJobIsTheJob'
    OBVIOUS
  <2>1. CreateJob => UNCHANGED cJob /\ cJob = None
    BY DEF CreateJob, StepFrame, caches
  <2>2. ASSUME NEW phase, NEW output, JobEnds(phase, output) PROVE CachedJobIsTheJob'
    BY <2>2 DEF JobEnds, JobFrame, caches, CachedJobIsTheJob, TypeOK, JobObjects
  <2> QED BY <2>1, <2>2, JobWrites DEF DeleteJob, PodEnds, CachedJobIsTheJob
<1> QED BY <1>1, <1>2, AlwaysTyped, PTL DEF Spec

-----------------------------------------------------------------------------
(* The annotations. *)

\* A Secret with a hash, and no cluster.xml but the one the hash stands for.
Match(s) ==
    s # None =>
        /\ s.hash # None
        /\ s.xml # None => s.hash = <<s.xml.inp, s.xml.host>> /\ s.admin = s.xml.host

\* Every copy of the Secret matches, and every pod that can be read is one of
\* the Job that exists, and has printed a cluster.xml of that Job's inputs.
MatchInv ==
    /\ Match(secret) /\ Match(cSecret)
    /\ rc # None /\ rc.pc \in {"reset", "publish"} => Match(rc.new)
    /\ \A p \in pods :
         /\ job # None
         /\ p.xml # None => job.hash = <<p.xml.inp, p.xml.host>>

LEMMA SecretMatches ==
    ASSUME TypeOK, HoldsInv, MatchInv, [Next]_vars
    PROVE  Match(secret')
<1>1. CASE UNCHANGED secret
  BY <1>1 DEF MatchInv, Match
<1>2. ASSUME NEW a \in cAdmins, Backfill(a) PROVE Match(secret')
  BY <1>2 DEF Backfill, isClusterConfigReady, MatchInv, Match
<1>3. ASSUME NEW a \in cAdmins, BranchB(a) PROVE Match(secret')
  <2> DEFINE s == [cSecret EXCEPT !.xml.host = a, !.admin = a, !.hash = <<cInp, a>>]
  <2>1. secret' = s \/ UNCHANGED secret
    BY <1>3 DEF BranchB, UpdateInPlace, PutSecret
  <2>2. cSecret \in SecretObjects /\ cSecret.xml \in Xmls /\ a \in Names
    BY <1>3 DEF BranchB, isClusterConfigReady, TypeOK, SecretObjects
  <2>3. cSecret.xml.inp = cInp /\ <<cInp, a>> # None
    BY <1>3, <2>2, ClusterConfigAssumption
       DEF BranchB, OnlyAdminChanged, isClusterConfigReady, MatchInv, Match, TypeOK
  <2>4. s.xml = [cSecret.xml EXCEPT !.host = a] /\ s.admin = a /\ s.hash = <<cInp, a>>
    BY <2>2 DEF SecretObjects
  <2>5. s.xml.inp = cInp /\ s.xml.host = a
    BY <2>2, <2>3, <2>4 DEF Xmls
  <2> HIDE DEF s
  <2> QED BY <1>1, <2>1, <2>3, <2>4, <2>5 DEF Match
<1>4. ASSUME NEW a \in cAdmins, CreatePlaceholder(a) PROVE Match(secret')
  <2>1. <<cInp, a>> # None
    BY ClusterConfigAssumption DEF TypeOK
  <2> QED BY <1>1, <1>4, <2>1 DEF CreatePlaceholder, PutSecret, Match
<1>5. CASE ResetSecret
  BY <1>1, <1>5 DEF ResetSecret, PutSecret, MatchInv
<1>6. CASE Publish
  <2>1. rc.new \in SecretObjects /\ Match(rc.new) /\ rc.new # None
    BY <1>6 DEF Publish, TypeOK, HoldsInv, MatchInv, Reconciles
  <2>2. Match([rc.new EXCEPT !.key = OrStored(cKey, cSecret)])
    BY <2>1 DEF Match, SecretObjects
  <2> QED BY <1>1, <1>6, <2>2 DEF Publish, PutSecret
<1>7. CASE DeleteSecret
  BY <1>7 DEF DeleteSecret, PutSecret, Match
<1> QED BY <1>1, <1>2, <1>3, <1>4, <1>5, <1>6, <1>7, SecretWrites

\* The cached Secret is only ever replaced by the Secret.
LEMMA SecretReads ==
    ASSUME [Next]_vars
    PROVE  UNCHANGED cSecret \/ cSecret' = secret
<1>1. Reconcile => UNCHANGED cSecret
  BY DEF Reconcile, Begin, NoAdmin, BranchA, SteadyState, Backfill, BranchB, BranchC,
         PlaceholderFound, CreatePlaceholder, StartFrame, ResetSecret, DropJob, AtJobStep,
         JobDrifted, LogsUnavailable, EmptyOutput, ReadLogs, JobFailed, JobRunning,
         JobForbidden, JobExists, CreateJob, StepFrame, Publish, CleanJob, WriteStatus, caches
<1>2. Sync \/ Crash => UNCHANGED cSecret \/ cSecret' = secret
  BY DEF Sync, SyncCluster, SyncAdmins, SyncKey, SyncSecret, SyncJob, Crash
<1>3. Workload \/ Disturbance => UNCHANGED cSecret
  BY DEF Workload, GenclustSucceeds, GenclustFails, CollectPods, JobEnds, JobFrame, Disturbance,
         EditCluster, ChangeAdmins, ChangeKey, DeleteSecret, ToggleAdmission,
         GenclustPrintsNothing, LosePods, ApiError, caches
<1> QED BY <1>1, <1>2, <1>3 DEF Next, vars, caches

LEMMA CachedSecretMatches ==
    ASSUME MatchInv, [Next]_vars
    PROVE  Match(cSecret')
BY SecretReads DEF MatchInv, Match

\* How a reconcile comes to hold a Secret to write.
LEMMA NewMatches ==
    ASSUME TypeOK, HoldsInv, MatchInv, CachedJobIsTheJob, [Next]_vars
    PROVE  rc' # None /\ rc'.pc \in {"reset", "publish"} => Match(rc'.new)
<1> DEFINE Ok == rc' # None /\ rc'.pc \in {"reset", "publish"} => Match(rc'.new)
<1>1. CASE UNCHANGED rc
  BY <1>1 DEF MatchInv, Match
<1>2. ASSUME NEW pc \in {"job", "status"}, NEW h, NEW c, Proceed(pc, h, c) PROVE Ok
  BY <1>2 DEF Proceed
<1>3. CASE Fail
  BY <1>3 DEF Fail
<1>4. CASE NoAdmin
  BY <1>2, <1>4 DEF NoAdmin
<1>5. ASSUME NEW a \in cAdmins,
             SteadyState(a) \/ Backfill(a) \/ BranchB(a) \/ PlaceholderFound(a)
               \/ CreatePlaceholder(a)
      PROVE  Ok
  BY <1>2, <1>3, <1>5 DEF SteadyState, Backfill, BranchB, UpdateInPlace, PlaceholderFound,
                          CreatePlaceholder
<1>6. ASSUME NEW a \in cAdmins, NEW s \in SecretObjects, NEW then, Regenerate(a, s, then),
             s.xml = None, s.hash # None
      PROVE  Ok
  BY <1>3, <1>6 DEF Regenerate, Match
<1>7. ASSUME NEW a \in cAdmins, BranchA(a) \/ BranchC(a) PROVE Ok
  BY <1>6, <1>7, BranchRegenerates
<1>8. CASE ResetSecret \/ DropJob \/ Publish \/ CleanJob \/ WriteStatus
  <2>1. rc \in Reconciles
    BY <1>8 DEF ResetSecret, DropJob, Publish, CleanJob, WriteStatus, TypeOK
  <2> QED BY <1>3, <1>8, <2>1 DEF ResetSecret, DropJob, Publish, CleanJob, Finish, Continue,
                                  WriteStatus, Reconciles
<1>9. CASE AtJobStep /\ ~ReadLogs
  <2>1. PICK c : Finish(c)
    BY <1>9 DEF AtJobStep, JobDrifted, LogsUnavailable, EmptyOutput, JobFailed, JobRunning,
                JobForbidden, JobExists, CreateJob
  <2>2. rc \in Reconciles
    BY <1>9 DEF AtJobStep, JobDrifted, LogsUnavailable, EmptyOutput, JobFailed, JobRunning,
                JobForbidden, JobExists, CreateJob, JobCompleted, AtJob, TypeOK
  <2> QED BY <2>1, <2>2 DEF Finish, Reconciles
<1>10. CASE ReadLogs
  <2>1. rc \in Reconciles /\ cJob # None /\ cJob.hash = rc.hash /\ rc.hash # None
    BY <1>10 DEF ReadLogs, JobCompleted, AtJob, Drifted, TypeOK, HoldsInv
  <2>2. PICK p \in pods :
          /\ p.xml # None
          /\ rc' = [rc EXCEPT !.pc = "publish",
                              !.new = [xml |-> p.xml, hash |-> rc.hash, admin |-> rc.hash[2],
                                       key |-> None]]
    BY <1>10 DEF ReadLogs
  <2>3. rc.hash = <<p.xml.inp, p.xml.host>>
    BY <2>1, <2>2 DEF MatchInv, CachedJobIsTheJob
  <2>4. rc'.new = [xml |-> p.xml, hash |-> rc.hash, admin |-> rc.hash[2], key |-> None]
    BY <2>1, <2>2 DEF Reconciles
  <2> QED BY <2>1, <2>3, <2>4 DEF Match
<1>11. CASE \E i \in Inps : EditCluster(i)
  BY <1>11 DEF EditCluster, TypeOK, Reconciles, MatchInv
<1>12. CASE Sync \/ Workload \/ (Disturbance /\ ~(\E i \in Inps : EditCluster(i))) \/ Crash
  <2>1. UNCHANGED rc \/ Fail
    BY <1>12 DEF Sync, SyncCluster, SyncAdmins, SyncKey, SyncSecret, SyncJob, SyncFrame, Workload,
                 GenclustSucceeds, GenclustFails, CollectPods, JobEnds, JobFrame, Disturbance,
                 ChangeAdmins, ChangeKey, DeleteSecret, ToggleAdmission, GenclustPrintsNothing,
                 LosePods, ApiError, Crash
  <2> QED BY <1>1, <1>3, <2>1
<1>13. CASE UNCHANGED vars
  BY <1>1, <1>13 DEF vars
<1>14. CASE Begin
  BY <1>4, <1>5, <1>7, <1>14 DEF Begin
<1> QED BY <1>8, <1>9, <1>10, <1>11, <1>12, <1>13, <1>14 DEF Next, Reconcile

\* The steps that change the pods or the Job.
LEMMA PodWrites ==
    ASSUME [Next]_vars
    PROVE  \/ UNCHANGED <<job, pods>> \/ DeleteJob
           \/ (CreateJob /\ UNCHANGED pods)
           \/ JobEnds("complete", {GenclustOutput})
           \/ JobEnds("complete", {[xml |-> None, orphan |-> FALSE]})
           \/ JobEnds("failed", {})
           \/ (UNCHANGED job /\ pods' \subseteq pods)
<1>1. Begin \/ ResetSecret \/ Publish \/ WriteStatus => UNCHANGED <<job, pods>>
  BY DEF Begin, NoAdmin, BranchA, SteadyState, Backfill, BranchB, BranchC, PlaceholderFound,
         CreatePlaceholder, StartFrame, ResetSecret, Publish, WriteStatus
<1>2. DropJob \/ AtJobStep \/ CleanJob
      => UNCHANGED <<job, pods>> \/ DeleteJob \/ (CreateJob /\ UNCHANGED pods)
  BY DEF DropJob, AtJobStep, JobDrifted, LogsUnavailable, EmptyOutput, ReadLogs, JobFailed,
         JobRunning, JobForbidden, JobExists, CreateJob, CleanJob
<1>3. Sync \/ Crash => UNCHANGED <<job, pods>>
  BY DEF Sync, SyncCluster, SyncAdmins, SyncKey, SyncSecret, SyncJob, SyncFrame, Crash
<1>4. Workload => \/ JobEnds("complete", {GenclustOutput}) \/ JobEnds("failed", {})
                  \/ (UNCHANGED job /\ pods' \subseteq pods)
  BY DEF Workload, GenclustSucceeds, GenclustFails, CollectPods
<1>5. Disturbance => \/ UNCHANGED <<job, pods>>
                     \/ JobEnds("complete", {[xml |-> None, orphan |-> FALSE]})
                     \/ (UNCHANGED job /\ pods' \subseteq pods)
  BY DEF Disturbance, EditCluster, ChangeAdmins, ChangeKey, DeleteSecret, ToggleAdmission,
         GenclustPrintsNothing, LosePods, ApiError
<1>6. UNCHANGED vars => UNCHANGED <<job, pods>>
  BY DEF vars
<1> QED BY <1>1, <1>2, <1>3, <1>4, <1>5, <1>6 DEF Next, Reconcile

LEMMA PodsMatch ==
    ASSUME ~PodsLinger, TypeOK, MatchInv, [Next]_vars, NEW p \in pods'
    PROVE  job' # None /\ (p.xml # None => job'.hash = <<p.xml.inp, p.xml.host>>)
<1>1. CASE UNCHANGED <<job, pods>> \/ (UNCHANGED job /\ pods' \subseteq pods)
  BY <1>1 DEF MatchInv
<1>2. CASE DeleteJob
  BY <1>2 DEF DeleteJob
<1>3. CASE CreateJob /\ UNCHANGED pods
  BY <1>3 DEF CreateJob, MatchInv
<1>4. ASSUME NEW phase \in {"complete", "failed"}, NEW output, JobEnds(phase, output)
      PROVE  job # None /\ job \in JobObjects /\ job' # None /\ job'.hash = job.hash
  <2>1. job # None /\ job \in JobObjects
    BY <1>4 DEF JobEnds, TypeOK
  <2>2. job' \in JobObjects /\ job'.hash = job.hash
    BY <1>4, <2>1 DEF JobEnds, JobObjects
  <2> QED BY <2>1, <2>2, AbsentIsNoObject
<1>5. CASE JobEnds("complete", {GenclustOutput})
  <2>1. p \in pods \/ p = GenclustOutput
    BY <1>5 DEF JobEnds
  <2>2. job.hash = <<job.hash[1], job.hash[2]>>
    BY <1>4, <1>5 DEF JobObjects, Hashes
  <2> QED BY <1>4, <1>5, <2>1, <2>2 DEF GenclustOutput, MatchInv
<1>6. CASE JobEnds("complete", {[xml |-> None, orphan |-> FALSE]})
  <2>1. p \in pods \/ p = [xml |-> None, orphan |-> FALSE]
    BY <1>6 DEF JobEnds
  <2> QED BY <1>4, <1>6, <2>1 DEF MatchInv
<1>7. CASE JobEnds("failed", {})
  <2>1. p \in pods
    BY <1>7 DEF JobEnds
  <2> QED BY <1>4, <1>7, <2>1 DEF MatchInv
<1> QED BY <1>1, <1>2, <1>3, <1>5, <1>6, <1>7, PodWrites

LEMMA AlwaysMatches == ~PodsLinger /\ ~LegacySecret => (Spec => []MatchInv)
<1> SUFFICES ASSUME ~PodsLinger, ~LegacySecret PROVE Spec => []MatchInv
  OBVIOUS
<1>1. Init => MatchInv
  BY DEF Init, MatchInv, Match
<1>2. TypeOK /\ HoldsInv /\ CachedJobIsTheJob /\ MatchInv /\ [Next]_vars => MatchInv'
  <2> SUFFICES ASSUME TypeOK, HoldsInv, CachedJobIsTheJob, MatchInv, [Next]_vars PROVE MatchInv'
    OBVIOUS
  <2>1. Match(secret') /\ Match(cSecret')
    BY SecretMatches, CachedSecretMatches
  <2>2. rc' # None /\ rc'.pc \in {"reset", "publish"} => Match(rc'.new)
    BY NewMatches
  <2>3. \A p \in pods' : job' # None /\ (p.xml # None => job'.hash = <<p.xml.inp, p.xml.host>>)
    BY PodsMatch
  <2> QED BY <2>1, <2>2, <2>3 DEF MatchInv, Match
<1> QED BY <1>1, <1>2, AlwaysTyped, DeleteHitsTheCachedJob, PTL DEF Spec

\* If a deleted Job takes its pods along, and no Secret predates the hash, the
\* cluster.xml in the Secret was generated from the inputs and for the host
\* that the annotations name, whatever changes while genclust runs: the Job is
\* stamped, drift is noticed, and the output read is the stamped Job's.
THEOREM PublishedConfigMatches == ~PodsLinger /\ ~LegacySecret => (Spec => []ConfigMatchesHash)
<1>1. MatchInv => ConfigMatchesHash
  BY DEF MatchInv, Match, ConfigMatchesHash, isClusterConfigReady
<1> QED BY <1>1, AlwaysMatches, PTL

-----------------------------------------------------------------------------
(* The status at rest. *)

\* A cache that has seen every write shows what the API server holds.
CacheInv ==
    /\ "edit" \notin lag => cInp = inp
    /\ "status" \notin lag => cCond = cond
    /\ "admins" \notin lag => cAdmins = admins
    /\ "key" \notin lag => cKey = key
    /\ "secret" \notin lag => cSecret = secret
    /\ "job" \notin lag => cJob = job

\* What the caches show has a cluster.xml of its current inputs.
Current ==
    /\ isClusterConfigReady(cSecret) /\ ~KeyRotated
    /\ \E a \in cAdmins : cSecret.hash = <<cInp, a>>

\* No event is on its way that will wake the controller.
Quiet == ~queued /\ lag \subseteq {"status"}

\* True is reported, or about to be, only of what the caches still show, unless
\* the controller is to run again; what it has just published, it has not seen.
ReadyInv ==
    /\ rc # None /\ rc.pc = "clean" => queued \/ "secret" \in lag
    /\ Quiet /\ rc # None /\ rc.pc = "status" /\ rc.cond = "SecretReady" => Current
    /\ Quiet /\ rc = None /\ cond = "SecretReady" => Current

LEMMA ReconcileCaches ==
    ASSUME TypeOK, HoldsInv, CacheInv, Reconcile
    PROVE  CacheInv' /\ UNCHANGED caches /\ (lag' = lag \/ lag \subseteq lag')
<1>1. ASSUME NEW s, PutSecret(s), UNCHANGED <<inp, cond, inputs, job, caches>>
      PROVE  CacheInv' /\ lag \subseteq lag'
  BY <1>1 DEF PutSecret, CacheInv, inputs, caches, cCluster
<1>2. ASSUME NEW c, PutCond(c), UNCHANGED <<inp, inputs, secret, job, caches>>
      PROVE  CacheInv' /\ lag \subseteq lag'
  BY <1>2 DEF PutCond, CacheInv, inputs, caches, cCluster
<1>3. ASSUME DeleteJob, UNCHANGED <<inp, cond, inputs, secret, caches>>
      PROVE  CacheInv' /\ lag \subseteq lag'
  BY <1>3 DEF DeleteJob, CacheInv, inputs, caches, cCluster
<1>4. ASSUME UNCHANGED <<inp, cond, inputs, secret, job, caches, lag>>
      PROVE  CacheInv'
  BY <1>4 DEF CacheInv, inputs, caches, cCluster
<1>5. CASE NoAdmin
  BY <1>4, <1>5 DEF NoAdmin, StartFrame
<1>6. ASSUME NEW a \in cAdmins, BranchA(a) \/ BranchC(a)
      PROVE  CacheInv' /\ UNCHANGED caches /\ (lag' = lag \/ lag \subseteq lag')
  BY <1>2, <1>4, <1>6 DEF BranchA, BranchC, Regenerate, StartFrame
<1>7. ASSUME NEW a \in cAdmins,
             SteadyState(a) \/ Backfill(a) \/ BranchB(a) \/ PlaceholderFound(a)
               \/ CreatePlaceholder(a)
      PROVE  CacheInv' /\ UNCHANGED caches /\ (lag' = lag \/ lag \subseteq lag')
  BY <1>1, <1>4, <1>7 DEF SteadyState, Backfill, BranchB, UpdateInPlace, PlaceholderFound,
                          CreatePlaceholder, StartFrame
<1>8. CASE ResetSecret \/ Publish
  BY <1>1, <1>4, <1>8 DEF ResetSecret, Publish, cluster
<1>9. CASE DropJob \/ CleanJob
  BY <1>3, <1>4, <1>9 DEF DropJob, CleanJob, StepFrame, cluster
<1>10. CASE WriteStatus
  BY <1>2, <1>4, <1>10 DEF WriteStatus
<1>11. CASE AtJobStep /\ ~CreateJob
  BY <1>3, <1>4, <1>11 DEF AtJobStep, JobDrifted, LogsUnavailable, EmptyOutput, ReadLogs,
         JobFailed, JobRunning, JobForbidden, JobExists, StepFrame, cluster
<1>12. CASE CreateJob
  BY <1>12 DEF CreateJob, StepFrame, CacheInv, cluster, inputs, caches, cCluster
<1>13. CASE Begin
  BY <1>5, <1>6, <1>7, <1>13 DEF Begin
<1> QED BY <1>8, <1>9, <1>10, <1>11, <1>12, <1>13 DEF Reconcile

LEMMA OtherCaches ==
    ASSUME TypeOK, CacheInv, Sync \/ Workload \/ Disturbance \/ Crash \/ UNCHANGED vars
    PROVE  CacheInv'
<1>1. CASE Sync \/ Crash
  BY <1>1 DEF Sync, SyncCluster, SyncAdmins, SyncKey, SyncSecret, SyncJob, SyncFrame, Crash,
              CacheInv, cluster, inputs, cCluster
<1>2. ASSUME NEW phase, NEW output, JobEnds(phase, output) PROVE CacheInv'
  BY <1>2 DEF JobEnds, JobFrame, CacheInv, cluster, inputs, caches, cCluster
<1>3. CASE Workload \/ GenclustPrintsNothing
  BY <1>2, <1>3 DEF Workload, GenclustSucceeds, GenclustFails, GenclustPrintsNothing,
                    CollectPods, JobFrame, CacheInv, cluster, inputs, caches, cCluster
<1>4. CASE (\E i \in Inps : EditCluster(i)) \/ (\E s \in SUBSET Names : ChangeAdmins(s))
           \/ (\E k \in OptKeys : ChangeKey(k))
  BY <1>4 DEF EditCluster, ChangeAdmins, ChangeKey, CacheInv, cluster, inputs, caches, cCluster
<1>5. CASE DeleteSecret \/ ToggleAdmission \/ LosePods \/ ApiError
  BY <1>5 DEF DeleteSecret, PutSecret, ToggleAdmission, LosePods, JobFrame, ApiError, CacheInv,
              cluster, inputs, caches, cCluster
<1>6. CASE UNCHANGED vars
  BY <1>6 DEF CacheInv, vars, cluster, inputs, caches, cCluster
<1> QED BY <1>1, <1>3, <1>4, <1>5, <1>6 DEF Disturbance

LEMMA CurrentKept ==
    ASSUME UNCHANGED caches, Current
    PROVE  Current'
BY DEF caches, cCluster, Current, KeyRotated, isClusterConfigReady

LEMMA BeginReady ==
    ASSUME TypeOK, ReadyInv, Begin, UNCHANGED caches
    PROVE  ReadyInv'
<1>1. ASSUME NEW pc \in {"job", "status"}, NEW h \in Hashes \cup {None}, NEW c \in Reasons,
             pc = "job" => h # None, Proceed(pc, h, c),
             pc = "status" /\ c = "SecretReady" => Current \/ "secret" \in lag'
      PROVE  ReadyInv'
  BY <1>1, ProceedTyped, AbsentIsNoObject, CurrentKept DEF Proceed, ReadyInv, Quiet
<1>2. CASE Fail
  BY <1>2 DEF Fail, ReadyInv, Quiet
<1>3. CASE NoAdmin
  BY <1>1, <1>3 DEF NoAdmin, Reasons
<1>4. ASSUME NEW a \in cAdmins, SteadyState(a) PROVE ReadyInv'
  <2>1. Current
    BY <1>4 DEF SteadyState, Current
  <2>2. cSecret.hash \in Hashes \cup {None}
    BY <1>4 DEF SteadyState, isClusterConfigReady, TypeOK, SecretObjects
  <2> QED BY <1>1, <1>4, <2>1, <2>2 DEF SteadyState, Reasons
<1>5. ASSUME NEW a \in cAdmins
      PROVE  a \in Names /\ <<cInp, a>> \in Hashes /\ <<cInp, a>> # None
  BY ClusterConfigAssumption DEF TypeOK, Hashes
<1>6. ASSUME NEW a \in cAdmins, Backfill(a) \/ BranchB(a) PROVE ReadyInv'
  BY <1>1, <1>2, <1>5, <1>6 DEF Backfill, BranchB, UpdateInPlace, PutSecret, Reasons
<1>7. ASSUME NEW a \in cAdmins, PlaceholderFound(a) \/ CreatePlaceholder(a) PROVE ReadyInv'
  BY <1>1, <1>5, <1>7 DEF PlaceholderFound, CreatePlaceholder, TypeOK
<1>8. ASSUME NEW a \in cAdmins, BranchA(a) \/ BranchC(a) PROVE ReadyInv'
  <2>1. Fail \/ (rc' \in Reconciles /\ rc'.pc = "reset")
    BY <1>8, <1>5, BranchRegenerates, RegenerateTyped
  <2> QED BY <1>2, <2>1, AbsentIsNoObject DEF ReadyInv
<1> QED BY <1>3, <1>4, <1>6, <1>7, <1>8 DEF Begin

LEMMA StepReady ==
    ASSUME TypeOK, HoldsInv, CacheInv, ReadyInv, Reconcile, ~Begin, UNCHANGED caches,
           lag' = lag \/ lag \subseteq lag'
    PROVE  ReadyInv'
<1>0. rc # None /\ rc \in Reconciles
  BY DEF Reconcile, ResetSecret, DropJob, AtJobStep, JobDrifted, LogsUnavailable, EmptyOutput,
         ReadLogs, JobFailed, JobRunning, JobForbidden, JobExists, CreateJob, JobCompleted, AtJob,
         Publish, CleanJob, WriteStatus, TypeOK
<1>1. CASE Fail
  BY <1>1 DEF Fail, ReadyInv, Quiet
<1>2. ASSUME NEW c \in Reasons, Finish(c), c = "SecretReady" => queued \/ ~(lag \subseteq {"status"})
      PROVE  ReadyInv'
  <2>1. rc' \in Reconciles /\ rc'.pc = "status" /\ rc'.cond = c /\ queued' = queued
    BY <1>0, <1>2 DEF Finish, Reconciles, Steps
  <2> QED BY <1>2, <2>1, AbsentIsNoObject DEF ReadyInv, Quiet
<1>3. ASSUME NEW pc \in Steps, Continue(pc)
      PROVE  rc' \in Reconciles /\ rc' # None /\ rc'.pc = pc /\ rc'.cond = rc.cond
  <2>1. rc' \in Reconciles /\ rc'.pc = pc /\ rc'.cond = rc.cond
    BY <1>0, <1>3 DEF Continue, Reconciles
  <2> QED BY <2>1, AbsentIsNoObject
<1>4. CASE ResetSecret \/ Publish
  BY <1>1, <1>3, <1>4 DEF ResetSecret, Publish, PutSecret, Steps, ReadyInv
<1>5. CASE DropJob
  <2>1. rc.then \in {"job", "status"} /\ rc.cond = "Regenerating"
    BY <1>0, <1>5 DEF DropJob, HoldsInv, Reconciles
  <2> QED BY <1>3, <1>5, <2>1 DEF DropJob, Steps, ReadyInv
<1>6. CASE CleanJob
  BY <1>2, <1>6 DEF CleanJob, ReadyInv, Reasons
<1>7. CASE ReadLogs
  <2>1. PICK n : rc' = [rc EXCEPT !.pc = "publish", !.new = n]
    BY <1>7 DEF ReadLogs
  <2>2. rc'.pc = "publish"
    BY <1>0, <2>1 DEF Reconciles
  <2>3. rc' # None
    BY <1>7, AtJobTyped, AbsentIsNoObject DEF AtJobStep
  <2> QED BY <2>2, <2>3 DEF ReadyInv
<1>8. CASE JobExists
  BY <1>0, <1>2, <1>8 DEF JobExists, CacheInv, Reconciles
<1>9. CASE AtJobStep /\ ~ReadLogs /\ ~JobExists
  BY <1>2, <1>9 DEF AtJobStep, JobDrifted, LogsUnavailable, EmptyOutput, JobFailed, JobRunning,
                    JobForbidden, CreateJob, Reasons
<1>10. CASE WriteStatus
  BY <1>0, <1>10, CurrentKept DEF WriteStatus, PutCond, ReadyInv, Quiet
<1> QED BY <1>4, <1>5, <1>6, <1>7, <1>8, <1>9, <1>10 DEF Reconcile, AtJobStep

LEMMA OtherReady ==
    ASSUME TypeOK, CacheInv, ReadyInv, Sync \/ Workload \/ Disturbance \/ Crash \/ UNCHANGED vars
    PROVE  ReadyInv'
<1>1. CASE queued' /\ (rc' = rc \/ rc' = None)
  BY <1>1 DEF ReadyInv, Quiet
<1>2. ASSUME UNCHANGED <<caches, queued, rc, cond>>, lag \subseteq lag' PROVE ReadyInv'
  BY <1>2, CurrentKept DEF ReadyInv, Quiet
<1>3. CASE SyncCluster
  <2>1. UNCHANGED <<rc, cond, cAdmins, cSecret, cKey>> /\ ("secret" \in lag' <=> "secret" \in lag)
    BY <1>3 DEF SyncCluster, SyncFrame, cluster
  <2>2. CASE "edit" \in lag
    BY <1>1, <1>3, <2>1, <2>2 DEF SyncCluster
  <2>3. CASE "edit" \notin lag
    <3>1. UNCHANGED <<cInp, queued>>
      BY <1>3, <2>3 DEF SyncCluster, CacheInv, TypeOK
    <3>2. Quiet' => Quiet
      BY <1>3, <2>3, <3>1 DEF SyncCluster, Quiet
    <3>3. Current => Current'
      BY <2>1, <3>1 DEF Current, KeyRotated, isClusterConfigReady
    <3> QED BY <2>1, <3>1, <3>2, <3>3 DEF ReadyInv
  <2> QED BY <2>2, <2>3
<1>4. CASE SyncAdmins \/ SyncKey \/ SyncSecret \/ SyncJob \/ ApiError \/ Crash
  BY <1>1, <1>4 DEF SyncAdmins, SyncKey, SyncSecret, SyncJob, SyncFrame, ApiError, Crash, Fail
<1>5. ASSUME NEW phase, NEW output, JobEnds(phase, output) PROVE ReadyInv'
  BY <1>2, <1>5 DEF JobEnds, JobFrame, cluster
<1>6. CASE Workload \/ GenclustPrintsNothing \/ LosePods
  BY <1>2, <1>5, <1>6 DEF Workload, GenclustSucceeds, GenclustFails, GenclustPrintsNothing,
                          CollectPods, LosePods, JobFrame, cluster
<1>7. ASSUME NEW i \in Inps, EditCluster(i) PROVE ReadyInv'
  <2>1. /\ UNCHANGED <<cond, queued>> /\ ~Quiet' /\ lag \subseteq lag'
        /\ rc' # None => rc # None /\ rc'.pc = rc.pc
    BY <1>7 DEF EditCluster, Quiet, TypeOK, Reconciles
  <2> QED BY <2>1 DEF ReadyInv
<1>8. CASE (\E s \in SUBSET Names : ChangeAdmins(s)) \/ (\E k \in OptKeys : ChangeKey(k))
           \/ DeleteSecret \/ ToggleAdmission
  BY <1>2, <1>8 DEF ChangeAdmins, ChangeKey, DeleteSecret, PutSecret, ToggleAdmission, cluster
<1>9. CASE UNCHANGED vars
  BY <1>2, <1>9 DEF vars, cluster
<1> QED BY <1>3, <1>4, <1>6, <1>7, <1>8, <1>9 DEF Sync, Disturbance

LEMMA AlwaysCurrent == Spec => [](TypeOK /\ HoldsInv /\ CacheInv /\ ReadyInv)
<1>1. Init => CacheInv /\ ReadyInv
  BY DEF Init, CacheInv, ReadyInv, Quiet
<1>2. TypeOK /\ HoldsInv /\ CacheInv /\ ReadyInv /\ [Next]_vars => CacheInv' /\ ReadyInv'
  <2> SUFFICES ASSUME TypeOK, HoldsInv, CacheInv, ReadyInv, [Next]_vars
               PROVE  CacheInv' /\ ReadyInv'
    OBVIOUS
  <2>1. CASE Reconcile
    <3>1. CacheInv' /\ UNCHANGED caches /\ (lag' = lag \/ lag \subseteq lag')
      BY <2>1, ReconcileCaches
    <3>2. CASE Begin
      BY <3>1, <3>2, BeginReady
    <3>3. CASE ~Begin
      BY <2>1, <3>1, <3>3, StepReady
    <3> QED BY <3>1, <3>2, <3>3
  <2>2. CASE Sync \/ Workload \/ Disturbance \/ Crash \/ UNCHANGED vars
    BY <2>2, OtherCaches, OtherReady
  <2> QED BY <2>1, <2>2 DEF Next
<1> QED BY <1>1, <1>2, AlwaysTyped, PTL DEF Spec

\* No event is missed: when the controller has nothing left to do and has seen
\* everything, True stands for a cluster.xml of the current inputs, of an
\* admin that exists and of the current key (the watches and their predicates,
\* the requeues of Reconcile).
THEOREM RestingStatusIsTruthful == Spec => []RestingStatusIsTrue
<1>1. TypeOK /\ CacheInv /\ ReadyInv => RestingStatusIsTrue
  BY DEF TypeOK, CacheInv, ReadyInv, Quiet, Current, KeyRotated, isClusterConfigReady,
         RestingStatusIsTrue, AtRest
<1> QED BY <1>1, AlwaysCurrent, PTL
=============================================================================
