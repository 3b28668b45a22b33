------------------------ MODULE PackagesReadyProofs ------------------------
(***************************************************************************)
(* Theorems about PackagesReady, for all packages, Secrets and bounds:     *)
(* types, what PackagesReady=True stands for, and that a failed fetch is   *)
(* shown.                                                                  *)
(***************************************************************************)
EXTENDS PackagesReady, FiniteSetTheorems, TLAPS

(* Types. *)

PodsFinite == IsFiniteSet(pods)

LEMMA PackagesTyped ==
    ASSUME NEW s \in Specs
    PROVE  s.pkgs \in Seq(BOOLEAN) /\ Len(s.pkgs) \in Nat /\ s.pkgs \in {t.pkgs : t \in Specs}
BY PackagesAssumption

LEMMA CheckTyped ==
    ASSUME NEW pkgs, NEW s
    PROVE  checkPackageSecrets(pkgs, s) \in {"ok", "PackageSecretMissing", "PackageSecretKeyMissing"}
BY DEF checkPackageSecrets

LEMMA HashTyped ==
    ASSUME NEW pkgs, NEW s \in Secrets
    PROVE  computePackageSecretsRVHash(pkgs, s) \in Int
BY DEF computePackageSecretsRVHash, Secrets, NoHash

LEMMA EnterTyped ==
    ASSUME TypeOK, NEW step \in {"translate", "status"}, NEW pr \in Reasons, NEW rf \in BOOLEAN,
           NEW requeue \in BOOLEAN, NEW wrote \in BOOLEAN, Enter(step, pr, rf, requeue, wrote)
    PROVE  rc' \in Reconciles /\ queued' \in BOOLEAN
<1>1. spec.pkgs \in {s.pkgs : s \in Specs} /\ cache.status \in Statuses /\ cache.status.last \in Int
  BY DEF TypeOK, Caches, Statuses
<1> QED BY <1>1 DEF Enter, Reconciles

\* A pod is replaced by what becomes of it.
LEMMA BecomeTyped ==
    ASSUME TypeOK, PodsFinite, NEW p \in pods, NEW q \in Pods, q.done <= Len(q.tmpl.pkgs),
           pods' = (pods \ {p}) \cup {q}
    PROVE  /\ pods' \subseteq Pods /\ PodsFinite'
           /\ \A r \in pods' : r.done <= Len(r.tmpl.pkgs)
BY FS_RemoveElement, FS_AddElement DEF TypeOK, PodsFinite

LEMMA RenumberTyped ==
    ASSUME TypeOK, PodsFinite, pods' = Renumber(pods)
    PROVE  /\ pods' \subseteq Pods /\ PodsFinite'
           /\ \A r \in pods' : r.done <= Len(r.tmpl.pkgs)
<1> DEFINE new(p) == [p EXCEPT !.id = Cardinality({q \in pods : q.id <= p.id})]
           f == [p \in pods |-> new(p)]
<1>1. ASSUME NEW p \in pods
      PROVE  /\ new(p) \in Pods /\ new(p).done = p.done /\ new(p).tmpl = p.tmpl
  <2>1. Cardinality({q \in pods : q.id <= p.id}) \in Nat
    BY FS_Subset, FS_CardinalityType DEF PodsFinite
  <2> QED BY <2>1 DEF TypeOK, Pods
<1>2. pods' = {new(p) : p \in pods}
  BY DEF Renumber
<1>3. f \in Surjection(pods, pods')
  BY <1>2 DEF Surjection
<1>4. PodsFinite'
  BY <1>3, FS_Surjection DEF PodsFinite
<1> HIDE DEF new, f
<1> QED BY <1>1, <1>2, <1>4 DEF TypeOK

LEMMA DeleteFailingTyped ==
    ASSUME TypeOK, PodsFinite, DeleteFailing
    PROVE  /\ pods' \subseteq Pods /\ PodsFinite'
           /\ \A r \in pods' : r.done <= Len(r.tmpl.pkgs)
<1> DEFINE doomed == {p.id : p \in {q \in cache.pods : failingPackagePodFilter(q, rc.pkgs)}}
           new(p) == [p EXCEPT !.del = @ \/ p.id \in doomed]
           f == [p \in pods |-> new(p)]
<1>1. ASSUME NEW p \in pods
      PROVE  /\ new(p) \in Pods /\ new(p).done = p.done /\ new(p).tmpl = p.tmpl
  <2>1. p \in Pods
    BY DEF TypeOK
  <2> HIDE DEF doomed
  <2> QED BY <2>1 DEF Pods
<1>2. pods' = {new(p) : p \in pods}
  BY DEF DeleteFailing
<1>3. f \in Surjection(pods, pods')
  BY <1>2 DEF Surjection
<1>4. PodsFinite'
  BY <1>3, FS_Surjection DEF PodsFinite
<1> HIDE DEF new, f, doomed
<1> QED BY <1>1, <1>2, <1>4 DEF TypeOK

\* Steps 5.7 to 6: up to the Deployment write.
LEMMA StartTyped ==
    ASSUME TypeOK,
           \/ WaitForConfig \/ DeferDeployment \/ PreCheckFails
           \/ DeploymentUpToDate \/ WriteDeployment \/ DeploymentConflict
    PROVE  TypeOK' /\ UNCHANGED pods
<1>0. /\ cache.status.pr \in Reasons /\ spec \in Specs
      /\ cache.deploy # None => cache.deploy.rf \in BOOLEAN
      /\ deploy # None => deploy.rf \in BOOLEAN
      /\ Preempted \in Reasons
  BY DEF TypeOK, Caches, Statuses, Deployments, Preempted, Reasons
<1>1. CASE WaitForConfig \/ DeploymentConflict
  BY <1>1 DEF WaitForConfig, DeploymentConflict, vars, truth, hist, TypeOK
<1>2. CASE DeferDeployment
  <2>1. rc' \in Reconciles /\ queued' \in BOOLEAN
    BY <1>0, <1>2, EnterTyped DEF DeferDeployment
  <2> QED BY <1>2, <2>1 DEF DeferDeployment, truth, hist, TypeOK
<1>3. CASE PreCheckFails
  <2>1. checkPackageSecrets(spec.pkgs, cache.secret) \in Reasons
    BY <1>3, CheckTyped DEF PreCheckFails, Reasons
  <2>2. rc' \in Reconciles /\ queued' \in BOOLEAN
    BY <1>3, <2>1, EnterTyped DEF PreCheckFails
  <2> QED BY <1>3, <2>2 DEF PreCheckFails, truth, hist, TypeOK
<1>4. CASE DeploymentUpToDate
  <2>1. rc' \in Reconciles /\ queued' \in BOOLEAN
    BY <1>0, <1>4, EnterTyped DEF DeploymentUpToDate
  <2> QED BY <1>4, <2>1 DEF DeploymentUpToDate, truth, hist, TypeOK
<1>5. CASE WriteDeployment
  <2>1. deploy' \in Deployments /\ deploy'.rf \in BOOLEAN
    BY <1>0, <1>5 DEF WriteDeployment, Deployments
  <2>2. (prevPackages # spec.pkgs) \in BOOLEAN
    OBVIOUS
  <2>3. Enter("translate", Preempted, deploy'.rf, FALSE, prevPackages # spec.pkgs)
    BY <1>5 DEF WriteDeployment
  <2>4. rc' \in Reconciles /\ queued' \in BOOLEAN
    BY <1>0, <2>1, <2>2, <2>3, EnterTyped
  <2>5. told' \in BOOLEAN
    BY <1>5 DEF WriteDeployment, TypeOK
  <2> QED BY <1>5, <2>1, <2>4, <2>5 DEF WriteDeployment, TypeOK
<1> QED BY <1>1, <1>2, <1>3, <1>4, <1>5

\* Steps 9 and 10.
LEMMA FinishTyped ==
    ASSUME TypeOK, PodsFinite, Translate \/ TranslateAndRecover \/ WriteStatus
    PROVE  TypeOK' /\ PodsFinite'
<1>0. rc \in Reconciles
  BY DEF Translate, TranslateAndRecover, WriteStatus, TypeOK
<1>1. CASE Translate
  <2>1. "absent" \in Reasons
    BY DEF Reasons
  <2>2. PICK pr \in Reasons : rc' = [rc EXCEPT !.step = "status", !.pr = pr]
    BY <1>1, <2>1 DEF Translate
  <2>3. rc' \in Reconciles
    BY <1>0, <2>2 DEF Reconciles
  <2> QED BY <1>1, <2>3 DEF Translate, truth, hist, TypeOK, PodsFinite
<1>2. CASE TranslateAndRecover
  <2> DEFINE h == computePackageSecretsRVHash(rc.pkgs, cache.secret)
  <2>1. h \in Int
    BY HashTyped DEF TypeOK, Caches
  <2>2. PICK pr \in Reasons : rc' = [rc EXCEPT !.step = "status", !.pr = pr, !.last = h]
    BY <1>2 DEF TranslateAndRecover
  <2> HIDE DEF h
  <2>3. rc' \in Reconciles
    BY <1>0, <2>1, <2>2 DEF Reconciles
  <2>4. /\ pods' \subseteq Pods /\ PodsFinite'
        /\ \A r \in pods' : r.done <= Len(r.tmpl.pkgs)
    BY <1>2, DeleteFailingTyped DEF TranslateAndRecover
  <2> QED BY <1>2, <2>3, <2>4 DEF TranslateAndRecover, hist, TypeOK
<1>3. CASE WriteStatus
  <2>1. [pr |-> rc.pr, last |-> rc.last] \in Statuses /\ rc.wrote \in BOOLEAN /\ rc.requeue \in BOOLEAN
    BY <1>0 DEF Reconciles, Statuses
  <2>2. status' \in Statuses
    BY <1>3, <2>1 DEF WriteStatus, TypeOK
  <2>3. told' \in BOOLEAN /\ queued' \in BOOLEAN
    BY <1>3, <2>1 DEF WriteStatus, TypeOK
  <2> QED BY <1>3, <2>2, <2>3 DEF WriteStatus, TypeOK, PodsFinite
<1> QED BY <1>1, <1>2, <1>3

LEMMA SyncTyped ==
    ASSUME TypeOK, PodsFinite, Sync
    PROVE  TypeOK' /\ PodsFinite'
<1>1. CASE SyncStatus
  <2>1. cache' \in Caches
    BY <1>1 DEF SyncStatus, TypeOK, Caches
  <2> QED BY <1>1, <2>1 DEF SyncStatus, SyncFrame, truth, hist, TypeOK, PodsFinite
<1>2. CASE SyncDeployment
  <2>1. cache' \in Caches
    BY <1>2 DEF SyncDeployment, TypeOK, Caches
  <2> QED BY <1>2, <2>1 DEF SyncDeployment, SyncFrame, truth, hist, TypeOK, PodsFinite
<1>3. CASE SyncSecret
  <2>1. cache' \in Caches
    BY <1>3 DEF SyncSecret, TypeOK, Caches
  <2>2. queued' \in BOOLEAN
    BY <1>3 DEF SyncSecret, TypeOK
  <2> QED BY <1>3, <2>1, <2>2 DEF SyncSecret, SyncFrame, truth, hist, TypeOK, PodsFinite
<1>4. CASE SyncPods
  <2>1. /\ pods' \subseteq Pods /\ PodsFinite'
        /\ \A r \in pods' : r.done <= Len(r.tmpl.pkgs)
    BY <1>4, RenumberTyped DEF SyncPods
  <2>2. cache' \in Caches
    BY <1>4, <2>1 DEF SyncPods, TypeOK, Caches
  <2>3. queued' \in BOOLEAN
    BY <1>4 DEF SyncPods, TypeOK
  <2>4. UNCHANGED <<spec, gateOpen, deploy, secret, status, rc, external, told>>
    BY <1>4 DEF SyncPods, hist
  <2> QED BY <2>1, <2>2, <2>3, <2>4 DEF TypeOK
<1> QED BY <1>1, <1>2, <1>3, <1>4 DEF Sync

\* One pod becomes another, is removed, or is created.
LEMMA FetchSucceedsTyped ==
    ASSUME TypeOK, PodsFinite, NEW p \in pods, FetchSucceeds(p)
    PROVE  TypeOK' /\ PodsFinite'
<1> DEFINE q == [p EXCEPT !.done = @ + 1, !.run = "waiting", !.cred = None]
<1>1. p \in Pods /\ p.done \in Nat /\ p.tmpl \in Specs /\ p.done < Len(p.tmpl.pkgs)
  BY DEF TypeOK, Pods, FetchSucceeds, Attempt, Fetching
<1>2. q \in Pods /\ q.done <= Len(q.tmpl.pkgs)
  <2>1. q \in Pods /\ q.done = p.done + 1 /\ q.tmpl = p.tmpl
    <3>1. p.done + 1 \in Nat /\ "waiting" \in {"waiting"} \cup Failures
          /\ None \in Contents \cup {"good", None}
      BY <1>1
    <3> QED BY <1>1, <3>1 DEF Pods
  <2> QED BY <1>1, <2>1, PackagesTyped
<1>3. pods' = (pods \ {p}) \cup {q} /\ WorkloadFrame /\ UNCHANGED external
  BY DEF FetchSucceeds, Become
<1> HIDE DEF q
<1>4. pods' \subseteq Pods /\ PodsFinite' /\ \A r \in pods' : r.done <= Len(r.tmpl.pkgs)
  BY <1>2, <1>3, BecomeTyped
<1> QED BY <1>3, <1>4 DEF WorkloadFrame, TypeOK

LEMMA PodChangeTyped ==
    ASSUME TypeOK, PodsFinite, NEW p \in pods,
           FetchFails(p) \/ Outage(p) \/ ImagePullFails(p) \/ Evict(p)
    PROVE  TypeOK' /\ PodsFinite'
<1>1. p \in Pods /\ p.done \in Nat /\ p.scar \in Nat /\ p.done <= Len(p.tmpl.pkgs)
  BY DEF TypeOK, Pods
<1>2. /\ external' \in Nat /\ WorkloadFrame
      /\ \E q : q \in Pods /\ q.done = p.done /\ q.tmpl = p.tmpl /\ pods' = (pods \ {p}) \cup {q}
  <2>1. ASSUME NEW cred \in {"bad", "good"}, Attempt(p, cred), Exit(p, cred)
        PROVE  /\ WorkloadFrame
               /\ \E q : q \in Pods /\ q.done = p.done /\ q.tmpl = p.tmpl /\ pods' = (pods \ {p}) \cup {q}
    <3> DEFINE q == [p EXCEPT !.run = "exited", !.cred = cred,
                              !.scar = IF @ = 0 THEN p.done + 1 ELSE @]
    <3>1. cred \in Contents \cup {"good", None}
      BY <1>1, <2>1 DEF Attempt, TypeOK, Secrets, Pods
    <3>2. q \in Pods /\ q.done = p.done /\ q.tmpl = p.tmpl
      <4>1. (IF p.scar = 0 THEN p.done + 1 ELSE p.scar) \in Nat
        BY <1>1
      <4> QED BY <1>1, <3>1, <4>1 DEF Pods, Failures
    <3>3. pods' = (pods \ {p}) \cup {q} /\ WorkloadFrame
      BY <2>1 DEF Exit, Become
    <3> QED BY <3>2, <3>3
  <2>2. CASE FetchFails(p)
    <3>1. CASE \E c \in {"absent", "nokey"} : Become(p, [p EXCEPT !.run = NotFound(c)])
      <4>1. PICK c \in {"absent", "nokey"} : Become(p, [p EXCEPT !.run = NotFound(c)])
        BY <3>1
      <4>2. [p EXCEPT !.run = NotFound(c)] \in Pods
        BY <1>1 DEF Pods, NotFound, Failures
      <4>3. [p EXCEPT !.run = NotFound(c)].done = p.done /\ [p EXCEPT !.run = NotFound(c)].tmpl = p.tmpl
        BY <1>1 DEF Pods
      <4> QED BY <2>2, <4>1, <4>2, <4>3 DEF FetchFails, Become, TypeOK
    <3>2. CASE Attempt(p, "bad") /\ Exit(p, "bad")
      BY <2>1, <2>2, <3>2 DEF FetchFails, TypeOK
    <3> QED BY <2>2, <3>1, <3>2 DEF FetchFails
  <2>3. CASE Outage(p)
    BY <2>1, <2>3 DEF Outage, External, TypeOK
  <2>4. CASE ImagePullFails(p)
    <3> DEFINE q == [p EXCEPT !.run = "imagePull"]
    <3>1. q \in Pods /\ q.done = p.done /\ q.tmpl = p.tmpl
      BY <1>1 DEF Pods, Failures
    <3>2. pods' = (pods \ {p}) \cup {q} /\ WorkloadFrame /\ external' \in Nat
      BY <2>4 DEF ImagePullFails, External, Become, TypeOK
    <3> HIDE DEF q
    <3> QED BY <3>1, <3>2
  <2>5. CASE Evict(p)
    <3> DEFINE q == [p EXCEPT !.del = TRUE]
    <3>1. q \in Pods /\ q.done = p.done /\ q.tmpl = p.tmpl
      BY <1>1 DEF Pods
    <3>2. pods' = (pods \ {p}) \cup {q} /\ WorkloadFrame /\ external' \in Nat
      BY <2>5 DEF Evict, External, Become, TypeOK
    <3> HIDE DEF q
    <3> QED BY <3>1, <3>2
  <2> QED BY <2>2, <2>3, <2>4, <2>5
<1>3. PICK q \in Pods : q.done = p.done /\ q.tmpl = p.tmpl /\ pods' = (pods \ {p}) \cup {q}
  BY <1>2
<1>4. pods' \subseteq Pods /\ PodsFinite' /\ \A r \in pods' : r.done <= Len(r.tmpl.pkgs)
  BY <1>1, <1>3, BecomeTyped
<1> QED BY <1>2, <1>4 DEF WorkloadFrame, TypeOK

LEMMA CreatePodTyped ==
    ASSUME TypeOK, PodsFinite, CreatePod
    PROVE  TypeOK' /\ PodsFinite'
<1>1. PICK id \in FreshIds :
        pods' = pods \cup {[id |-> id, tmpl |-> deploy.tmpl, done |-> 0, run |-> "waiting",
                            cred |-> None, scar |-> 0, del |-> FALSE]}
  BY DEF CreatePod
<1> DEFINE q == [id |-> id, tmpl |-> deploy.tmpl, done |-> 0, run |-> "waiting",
                 cred |-> None, scar |-> 0, del |-> FALSE]
<1>2. id \in Nat
  BY DEF FreshIds, TypeOK, Caches, Pods
<1>3. deploy.tmpl \in Specs
  BY DEF CreatePod, TypeOK, Deployments
<1>4. q \in Pods /\ q.done = 0 /\ q.tmpl = deploy.tmpl
  BY <1>2, <1>3 DEF Pods
<1>5. pods' = pods \cup {q}
  BY <1>1
<1> HIDE DEF q
<1>6. q.done <= Len(q.tmpl.pkgs)
  BY <1>3, <1>4, PackagesTyped
<1>7. pods' \subseteq Pods /\ PodsFinite' /\ \A r \in pods' : r.done <= Len(r.tmpl.pkgs)
  BY <1>4, <1>5, <1>6, FS_AddElement DEF TypeOK, PodsFinite
<1> QED BY <1>7 DEF CreatePod, WorkloadFrame, TypeOK

LEMMA WorkloadTyped ==
    ASSUME TypeOK, PodsFinite, Workload
    PROVE  TypeOK' /\ PodsFinite'
<1>1. ASSUME NEW p \in pods, ScaleDown(p) \/ PodGone(p) PROVE TypeOK' /\ PodsFinite'
  <2>1. pods' = pods \ {p} /\ WorkloadFrame /\ UNCHANGED external
    BY <1>1 DEF ScaleDown, PodGone
  <2>2. PodsFinite'
    BY <2>1, FS_RemoveElement DEF PodsFinite
  <2> QED BY <2>1, <2>2 DEF WorkloadFrame, TypeOK
<1> QED BY <1>1, CreatePodTyped, FetchSucceedsTyped, PodChangeTyped DEF Workload

LEMMA DisturbanceTyped ==
    ASSUME TypeOK, PodsFinite, ConfigRegenerated \/ Disturbance
    PROVE  TypeOK' /\ PodsFinite'
<1>1. CASE ConfigRegenerated
  BY <1>1 DEF ConfigRegenerated, truth, hist, TypeOK, PodsFinite
<1>2. ASSUME NEW s \in Specs, EditSpec(s) PROVE TypeOK' /\ PodsFinite'
  <2>1. gateOpen' \in BOOLEAN
    BY <1>2, PackagesAssumption DEF EditSpec
  <2> QED BY <1>2, <2>1 DEF EditSpec, External, truth, hist, TypeOK, PodsFinite
<1>3. ASSUME NEW c \in Contents, EditSecret(c) PROVE TypeOK' /\ PodsFinite'
  <2>1. secret' \in Secrets
    BY <1>3 DEF EditSecret, TypeOK, Secrets
  <2> QED BY <1>3, <2>1 DEF EditSecret, hist, TypeOK, PodsFinite
<1>4. CASE ToggleReplicaFailure
  <2>1. deploy' \in Deployments /\ external' \in Nat
    <3>1. deploy \in Deployments /\ deploy' = [deploy EXCEPT !.rf = ~deploy.rf]
      BY <1>4 DEF ToggleReplicaFailure, TypeOK
    <3>2. deploy' \in Deployments
      BY <3>1 DEF Deployments
    <3>3. external' \in Nat
      BY <1>4 DEF ToggleReplicaFailure, External, TypeOK
    <3> QED BY <3>2, <3>3
  <2> QED BY <1>4, <2>1 DEF ToggleReplicaFailure, hist, TypeOK, PodsFinite
<1>5. CASE Crash
  <2>1. cache' \in Caches
    BY <1>5 DEF Crash, Truth, TypeOK, Caches
  <2> QED BY <1>5, <2>1 DEF Crash, External, truth, hist, TypeOK, PodsFinite
<1> QED BY <1>1, <1>2, <1>3, <1>4, <1>5, PodChangeTyped DEF Disturbance

LEMMA InitTyped == Init => TypeOK /\ PodsFinite
<1> SUFFICES ASSUME Init PROVE TypeOK /\ PodsFinite
  OBVIOUS
<1>1. PodsFinite
  BY FS_EmptySet DEF Init, PodsFinite
<1>2. spec \in Specs
  BY PackagesAssumption DEF Init
<1>3. secret \in Secrets
  <2>1. PICK c \in InitContents : secret = [content |-> c, rv |-> 1]
    BY DEF Init
  <2> QED BY <2>1, PackagesAssumption DEF Secrets
<1>4. status \in Statuses
  BY DEF Init, Statuses, Reasons, NoHash
<1>5. cache \in Caches
  BY <1>3, <1>4 DEF Init, Truth, Caches
<1> QED BY <1>1, <1>2, <1>3, <1>4, <1>5 DEF Init, TypeOK

LEMMA AlwaysTyped == Spec => [](TypeOK /\ PodsFinite)
<1>1. TypeOK /\ PodsFinite /\ [Next]_vars => TypeOK' /\ PodsFinite'
  <2> SUFFICES ASSUME TypeOK, PodsFinite, [Next]_vars PROVE TypeOK' /\ PodsFinite'
    OBVIOUS
  <2>1. CASE UNCHANGED vars
    BY <2>1 DEF vars, truth, hist, TypeOK, PodsFinite
  <2>2. CASE \/ WaitForConfig \/ DeferDeployment \/ PreCheckFails
             \/ DeploymentUpToDate \/ WriteDeployment \/ DeploymentConflict
    BY <2>2, StartTyped DEF PodsFinite
  <2> QED BY <2>1, <2>2, FinishTyped, SyncTyped, WorkloadTyped, DisturbanceTyped DEF Next, Reconcile
<1> QED BY <1>1, InitTyped, PTL DEF Spec

\* Every state of a node's packages is well typed; in particular a reason is
\* always one that packages.go and packages_status.go know.
THEOREM TypeCorrect == Spec => []TypeOK
BY AlwaysTyped, PTL

-----------------------------------------------------------------------------
(* What the translation of pod states may say. *)

Success == "AllPackagesFetched"

LEMMA ClassifyTyped ==
    ASSUME NEW p \in Pods
    PROVE  classifyInitContainer(p) \in
             {"ok", "PackageHTTPError", "PackageSecretMissing", "PackageSecretKeyMissing",
              "PackageImagePullFailed"}
BY DEF classifyInitContainer, Pods, Failures

\* Success is said of packages of which a pod has fetched one, or was said before.
LEMMA SuccessIsSeen ==
    ASSUME NEW ps \in SUBSET Pods, NEW pkgs, NEW prior,
           Success \in translatePackagesReady(ps, pkgs, prior)
    PROVE  prior = Success \/ \E p \in ps : p.tmpl.pkgs = pkgs /\ p.done > 0
<1> DEFINE current == currentReplicaSetPods(podsMatchingPackagesHash(ps, pkgs))
           failing == {p \in current : classifyInitContainer(p) # "ok"}
<1>1. \A p \in current : p \in ps /\ p.tmpl.pkgs = pkgs
  BY DEF currentReplicaSetPods, podsMatchingPackagesHash
<1>2. Success \notin {classifyInitContainer(p) : p \in failing}
  BY <1>1, ClassifyTyped DEF Success
<1>3. Success \in IF failing # {} THEN {classifyInitContainer(p) : p \in failing}
                  ELSE IF \E p \in current : p.done > 0 THEN {"AllPackagesFetched"} ELSE {prior}
  BY DEF translatePackagesReady
<1> HIDE DEF current, failing
<1>4. prior = Success \/ \E p \in current : p.done > 0
  BY <1>2, <1>3
<1> QED BY <1>1, <1>4

\* The failure of the youngest pod is never outweighed by a success.
LEMMA FailureWins ==
    ASSUME NEW ps \in SUBSET Pods, NEW pkgs, NEW prior, NEW p \in ps,
           ~p.del, p.tmpl.pkgs = pkgs, classifyInitContainer(p) # "ok", \A q \in ps : q.id <= p.id
    PROVE  Success \notin translatePackagesReady(ps, pkgs, prior)
<1> DEFINE current == currentReplicaSetPods(podsMatchingPackagesHash(ps, pkgs))
           failing == {r \in current : classifyInitContainer(r) # "ok"}
<1>1. \A r \in current : r \in ps
  BY DEF currentReplicaSetPods, podsMatchingPackagesHash
<1>2. p \in failing
  BY DEF currentReplicaSetPods, podsMatchingPackagesHash
<1>3. Success \notin {classifyInitContainer(r) : r \in failing}
  BY <1>1, ClassifyTyped DEF Success
<1>4. translatePackagesReady(ps, pkgs, prior) = {classifyInitContainer(r) : r \in failing}
  BY <1>2 DEF translatePackagesReady
<1> QED BY <1>3, <1>4

-----------------------------------------------------------------------------
(* PackagesReady=True is earned. *)

\* A fetched package is remembered.
FetchedInv == \A p \in pods \cup cache.pods : p.done > 0 => p.tmpl.pkgs \in fetched

\* While told, True is about the Deployment's packages.
ToldInv ==
    /\ cache.deploy # None => deploy # None
    /\ told /\ status.pr = Success => deploy # None /\ deploy.tmpl.pkgs \in fetched

\* The reconcile in flight: one that has written the Deployment's packages has
\* set PackagesPending; True is what it has read or what a pod has earned.
FlightInv ==
    rc # None =>
        /\ rc.wrote => deploy # None /\ deploy.tmpl.pkgs = rc.pkgs
        /\ rc.step = "translate" =>
             /\ deploy # None
             /\ rc.wrote /\ rc.pkgs # <<>> => rc.pr # Success
             /\ rc.pr = Success => rc.base.pr = Success
        /\ rc.step = "status" /\ rc.pr = Success =>
             /\ deploy # None
             /\ rc.pkgs \in fetched \/ (rc.base.pr = Success /\ ~rc.wrote)

\* A controller without a reason to come back has seen, or made, a Deployment of
\* the current spec.
WrittenInv ==
    ~queued /\ (rc = None \/ ~rc.requeue) =>
        \/ deploy # None /\ deploy.tmpl = spec
        \/ cache.deploy # None /\ cache.deploy.tmpl = spec

EarnedInv == FetchedInv /\ ToldInv /\ FlightInv /\ WrittenInv

LEMMA StartEarned ==
    ASSUME TypeOK, EarnedInv,
           \/ WaitForConfig \/ DeferDeployment \/ PreCheckFails
           \/ DeploymentUpToDate \/ WriteDeployment \/ DeploymentConflict
    PROVE  EarnedInv'
<1>0. /\ NeedsPreCheck => Preempted # Success
      /\ cache.status.pr \in Reasons /\ Preempted \in Reasons
      /\ cache.deploy # None => cache.deploy.rf \in BOOLEAN
  BY DEF Preempted, Success, TypeOK, Caches, Statuses, Deployments, Reasons
<1>1. CASE WaitForConfig \/ DeploymentConflict
  BY <1>1 DEF WaitForConfig, DeploymentConflict, vars, truth, hist, EarnedInv, FetchedInv, ToldInv,
              FlightInv, WrittenInv
<1>2. ASSUME NEW step \in {"translate", "status"}, NEW pr \in Reasons, NEW rf \in BOOLEAN,
             NEW requeue \in BOOLEAN, Enter(step, pr, rf, requeue, FALSE), UNCHANGED <<spec, truth, cache, hist>>,
             step = "translate" => deploy # None /\ (pr = Success => cache.status.pr = Success),
             step = "status" => pr # Success,
             requeue \/ (cache.deploy # None /\ cache.deploy.tmpl = spec)
      PROVE  EarnedInv'
  <2>1. /\ rc'.step = step /\ rc'.pr = pr /\ rc'.requeue = requeue /\ rc'.wrote = FALSE
        /\ rc'.base = cache.status /\ rc'.pkgs = spec.pkgs
    BY <1>2 DEF Enter
  <2>2. FlightInv'
    BY <1>2, <2>1 DEF FlightInv, truth
  <2>3. rc' # None
    BY <1>2, EnterTyped, AbsentIsNoObject
  <2>4. WrittenInv'
    BY <1>2, <2>1, <2>3 DEF WrittenInv, truth
  <2> QED BY <1>2, <2>2, <2>4 DEF EarnedInv, FetchedInv, ToldInv, truth, hist
<1>3. CASE DeferDeployment
  BY <1>0, <1>2, <1>3 DEF DeferDeployment, EarnedInv, ToldInv
<1>4. CASE PreCheckFails
  <2>1. /\ checkPackageSecrets(spec.pkgs, cache.secret) # Success
        /\ checkPackageSecrets(spec.pkgs, cache.secret) \in Reasons
    BY <1>4, CheckTyped DEF PreCheckFails, Success, Reasons
  <2> QED BY <1>2, <1>4, <2>1 DEF PreCheckFails
<1>5. CASE DeploymentUpToDate
  <2>1. Preempted = Success => cache.status.pr = Success
    BY DEF Preempted, Success
  <2> QED BY <1>0, <1>2, <1>5, <2>1 DEF DeploymentUpToDate, EarnedInv, ToldInv
<1>6. CASE WriteDeployment
  <2>1. /\ cache.deploy = deploy /\ deploy'.tmpl = spec
        /\ told' = (told /\ prevPackages = spec.pkgs)
        /\ UNCHANGED <<spec, pods, status, cache, fetched>>
    BY <1>6 DEF WriteDeployment
  <2>2. deploy' # None
    <3>1. deploy # None => deploy.rf \in BOOLEAN
      BY DEF TypeOK, Deployments
    <3>2. deploy' \in Deployments
      BY <1>6, <3>1 DEF WriteDeployment, Deployments, TypeOK
    <3> QED BY <3>2, AbsentIsNoObject
  <2>3. /\ rc'.step = "translate" /\ rc'.pr = Preempted /\ rc'.base = cache.status
        /\ rc'.pkgs = spec.pkgs /\ rc'.wrote = (prevPackages # spec.pkgs)
    BY <1>6 DEF WriteDeployment, Enter
  <2>4. FlightInv'
    <3>1. rc'.wrote /\ rc'.pkgs # <<>> => rc'.pr # Success
      BY <1>0, <2>3 DEF NeedsPreCheck
    <3>2. rc'.pr = Success => rc'.base.pr = Success
      BY <2>3 DEF Preempted, Success
    <3> QED BY <2>1, <2>2, <2>3, <3>1, <3>2 DEF FlightInv
  <2>5. ToldInv'
    <3> SUFFICES ASSUME told', status.pr = Success PROVE spec.pkgs \in fetched
      BY <2>1, <2>2 DEF ToldInv
    <3>1. deploy # None /\ deploy.tmpl.pkgs \in fetched /\ prevPackages = spec.pkgs
      BY <2>1 DEF EarnedInv, ToldInv
    <3> QED BY <2>1, <3>1 DEF prevPackages
  <2> QED BY <2>1, <2>2, <2>4, <2>5 DEF EarnedInv, FetchedInv, WrittenInv
<1> QED BY <1>1, <1>3, <1>4, <1>5, <1>6

\* What the translation leaves in the reconcile.
LEMMA TranslationStep ==
    ASSUME TypeOK, Translate \/ TranslateAndRecover
    PROVE  /\ rc # None /\ rc' # None /\ rc.step = "translate" /\ rc'.step = "status"
           /\ rc'.pkgs = rc.pkgs /\ rc'.base = rc.base /\ rc'.wrote = rc.wrote
           /\ rc'.requeue = rc.requeue
           /\ rc'.pr = Success =>
                rc.pkgs # <<>> /\ Success \in translatePackagesReady(cache.pods, rc.pkgs, rc.pr)
           /\ UNCHANGED <<spec, deploy, status, cache, queued, fetched, told>>
<1>1. /\ rc \in Reconciles /\ rc # None /\ rc.step = "translate"
      /\ UNCHANGED <<spec, deploy, status, cache, queued, fetched, told>>
  BY DEF Translate, TranslateAndRecover, truth, hist, TypeOK
<1>2. \E pr \in Reasons, last \in Int :
        /\ rc' = [rc EXCEPT !.step = "status", !.pr = pr, !.last = last]
        /\ (rc.pkgs = <<>> /\ pr = "absent") \/ (rc.pkgs # <<>> /\ Translated(pr))
  <2>1. CASE Translate
    <3>1. PICK pr \in Reasons :
            /\ rc' = [rc EXCEPT !.step = "status", !.pr = pr]
            /\ (rc.pkgs = <<>> /\ pr = "absent") \/ (rc.pkgs # <<>> /\ Translated(pr))
      BY <2>1 DEF Translate, Reasons
    <3>2. rc.last \in Int /\ [rc EXCEPT !.step = "status", !.pr = pr]
                               = [rc EXCEPT !.step = "status", !.pr = pr, !.last = rc.last]
      BY <1>1 DEF Reconciles
    <3> QED BY <3>1, <3>2
  <2>2. CASE TranslateAndRecover
    <3>1. computePackageSecretsRVHash(rc.pkgs, cache.secret) \in Int
      BY HashTyped DEF TypeOK, Caches
    <3> QED BY <2>2, <3>1 DEF TranslateAndRecover
  <2> QED BY <2>1, <2>2
<1>3. PICK pr \in Reasons, last \in Int :
        /\ rc' = [rc EXCEPT !.step = "status", !.pr = pr, !.last = last]
        /\ (rc.pkgs = <<>> /\ pr = "absent") \/ (rc.pkgs # <<>> /\ Translated(pr))
  BY <1>2
<1>4. /\ rc' \in Reconciles /\ rc'.step = "status" /\ rc'.pr = pr /\ rc'.pkgs = rc.pkgs
      /\ rc'.base = rc.base /\ rc'.wrote = rc.wrote /\ rc'.requeue = rc.requeue
  BY <1>1, <1>3 DEF Reconciles
<1>5. pr = Success =>
        rc.pkgs # <<>> /\ Success \in translatePackagesReady(cache.pods, rc.pkgs, rc.pr)
  BY <1>3 DEF Translated, Success
<1> QED BY <1>1, <1>4, <1>5, AbsentIsNoObject

LEMMA FinishEarned ==
    ASSUME TypeOK, EarnedInv, Translate \/ TranslateAndRecover \/ WriteStatus
    PROVE  EarnedInv'
<1>1. CASE Translate \/ TranslateAndRecover
  <2>1. /\ rc # None /\ rc' # None /\ rc.step = "translate" /\ rc'.step = "status"
        /\ rc'.pkgs = rc.pkgs /\ rc'.base = rc.base /\ rc'.wrote = rc.wrote
        /\ rc'.requeue = rc.requeue
        /\ UNCHANGED <<spec, deploy, status, cache, queued, fetched, told>>
    BY <1>1, TranslationStep
  <2>2. ASSUME rc'.pr = Success
        PROVE  deploy # None /\ (rc.pkgs \in fetched \/ (rc.base.pr = Success /\ ~rc.wrote))
    <3>1. rc.pkgs # <<>> /\ Success \in translatePackagesReady(cache.pods, rc.pkgs, rc.pr)
      BY <1>1, <2>2, TranslationStep
    <3>2. rc.pr = Success \/ \E p \in cache.pods : p.tmpl.pkgs = rc.pkgs /\ p.done > 0
      BY <3>1, SuccessIsSeen DEF TypeOK, Caches
    <3> QED BY <2>1, <3>1, <3>2 DEF EarnedInv, FlightInv, FetchedInv
  <2>3. FlightInv'
    BY <2>1, <2>2 DEF EarnedInv, FlightInv
  <2>4. WrittenInv'
    BY <2>1 DEF EarnedInv, WrittenInv
  <2>5. FetchedInv'
    <3>1. \A p \in pods' : p.done > 0 => p.tmpl.pkgs \in fetched
      <4>1. CASE UNCHANGED pods
        BY <4>1 DEF EarnedInv, FetchedInv
      <4>2. CASE DeleteFailing
        <5>1. ASSUME NEW p \in pods'
              PROVE  \E r \in pods : r.done = p.done /\ r.tmpl = p.tmpl
          <6>1. PICK r \in pods : \E d : p = [r EXCEPT !.del = d]
            BY <4>2 DEF DeleteFailing
          <6>2. r \in Pods
            BY DEF TypeOK
          <6> QED BY <6>1, <6>2 DEF Pods
        <5> QED BY <5>1 DEF EarnedInv, FetchedInv
      <4> QED BY <1>1, <4>1, <4>2 DEF Translate, TranslateAndRecover, truth
    <3> QED BY <2>1, <3>1 DEF EarnedInv, FetchedInv
  <2> QED BY <2>1, <2>3, <2>4, <2>5 DEF EarnedInv, ToldInv
<1>2. CASE WriteStatus
  <2>1. /\ rc # None /\ rc \in Reconciles /\ rc.step = "status" /\ rc' = None
        /\ UNCHANGED <<spec, deploy, pods, cache, fetched>>
    BY <1>2 DEF WriteStatus, TypeOK
  <2>2. WrittenInv'
    BY <1>2, <2>1 DEF WriteStatus, EarnedInv, WrittenInv
  <2>3. ToldInv'
    <3>1. CASE rc.base = status
      <4>1. status'.pr = rc.pr /\ told' = (rc.wrote \/ (told /\ ~TurnsTrueForOthers))
        BY <1>2, <3>1 DEF WriteStatus
      <4>2. ASSUME told', rc.pr = Success PROVE deploy # None /\ deploy.tmpl.pkgs \in fetched
        <5>1. deploy # None /\ (rc.pkgs \in fetched \/ (rc.base.pr = Success /\ ~rc.wrote))
          BY <2>1, <4>2 DEF EarnedInv, FlightInv
        <5>2. CASE rc.wrote
          BY <2>1, <5>1, <5>2 DEF EarnedInv, FlightInv
        <5>3. CASE ~rc.wrote /\ rc.base.pr = Success
          BY <3>1, <4>1, <4>2, <5>3 DEF EarnedInv, ToldInv
        <5>4. CASE ~rc.wrote /\ rc.base.pr # Success
          BY <4>1, <4>2, <5>1, <5>4 DEF TurnsTrueForOthers, Success
        <5> QED BY <5>2, <5>3, <5>4
      <4> QED BY <2>1, <4>1, <4>2 DEF EarnedInv, ToldInv
    <3>2. CASE rc.base # status
      BY <1>2, <2>1, <3>2 DEF WriteStatus, EarnedInv, ToldInv
    <3> QED BY <3>1, <3>2
  <2> QED BY <2>1, <2>2, <2>3 DEF EarnedInv, FetchedInv, FlightInv
<1> QED BY <1>1, <1>2

\* The caches catch up.
LEMMA SyncEarned ==
    ASSUME TypeOK, EarnedInv, Sync
    PROVE  EarnedInv'
<1>0. cache \in Caches
  BY DEF TypeOK
<1>1. CASE SyncStatus
  <2>1. /\ cache'.deploy = cache.deploy /\ cache'.pods = cache.pods
        /\ UNCHANGED <<spec, deploy, pods, status, rc, fetched, told, queued>>
    BY <1>0, <1>1 DEF SyncStatus, SyncFrame, truth, hist, Caches
  <2> QED BY <2>1 DEF EarnedInv, FetchedInv, ToldInv, FlightInv, WrittenInv
<1>2. CASE SyncDeployment
  <2>1. /\ cache'.deploy = deploy /\ cache'.pods = cache.pods /\ queued' = TRUE
        /\ UNCHANGED <<spec, deploy, pods, status, rc, fetched, told>>
    BY <1>0, <1>2 DEF SyncDeployment, SyncFrame, truth, hist, Caches
  <2> QED BY <2>1 DEF EarnedInv, FetchedInv, ToldInv, FlightInv, WrittenInv
<1>3. CASE SyncSecret
  <2>1. /\ cache'.deploy = cache.deploy /\ cache'.pods = cache.pods /\ (queued => queued')
        /\ UNCHANGED <<spec, deploy, pods, status, rc, fetched, told>>
    BY <1>0, <1>3 DEF SyncSecret, SyncFrame, truth, hist, Caches
  <2> QED BY <2>1 DEF EarnedInv, FetchedInv, ToldInv, FlightInv, WrittenInv
<1>4. CASE SyncPods
  <2>1. /\ cache'.deploy = cache.deploy /\ cache'.pods = pods' /\ (queued => queued')
        /\ UNCHANGED <<spec, deploy, status, rc, fetched, told>>
    BY <1>0, <1>4 DEF SyncPods, hist, Caches
  <2>2. ASSUME NEW p \in pods'
        PROVE  \E r \in pods : r.done = p.done /\ r.tmpl = p.tmpl
    <3>1. PICK r \in pods : \E i : p = [r EXCEPT !.id = i]
      BY <1>4 DEF SyncPods, Renumber
    <3>2. r \in Pods
      BY DEF TypeOK
    <3> QED BY <3>1, <3>2 DEF Pods
  <2>3. FetchedInv'
    BY <2>1, <2>2 DEF EarnedInv, FetchedInv
  <2> QED BY <2>1, <2>3 DEF EarnedInv, ToldInv, FlightInv, WrittenInv
<1> QED BY <1>1, <1>2, <1>3, <1>4 DEF Sync

\* Pods come, go and fetch.
LEMMA PodsEarned ==
    ASSUME EarnedInv, \A p \in pods' : p.done > 0 => p.tmpl.pkgs \in fetched',
           fetched \subseteq fetched', WorkloadFrame
    PROVE  EarnedInv'
BY DEF EarnedInv, FetchedInv, ToldInv, FlightInv, WrittenInv, WorkloadFrame

\* What a pod becomes that does not fetch.
LEMMA PodKeepsItsPackages ==
    ASSUME NEW p \in Pods, NEW q, Become(p, q), q.done = p.done, q.tmpl = p.tmpl,
           TypeOK, EarnedInv, p \in pods, UNCHANGED fetched
    PROVE  EarnedInv'
<1>1. pods' = (pods \ {p}) \cup {q} /\ WorkloadFrame
  BY DEF Become
<1>2. \A r \in pods' : r.done > 0 => r.tmpl.pkgs \in fetched
  BY <1>1 DEF EarnedInv, FetchedInv
<1> QED BY <1>1, <1>2, PodsEarned

LEMMA ExitEarned ==
    ASSUME TypeOK, EarnedInv, NEW p \in pods, NEW cred, Exit(p, cred), UNCHANGED fetched
    PROVE  EarnedInv'
<1> DEFINE q == [p EXCEPT !.run = "exited", !.cred = cred,
                          !.scar = IF @ = 0 THEN p.done + 1 ELSE @]
<1>1. p \in Pods
  BY DEF TypeOK
<1>2. q.done = p.done /\ q.tmpl = p.tmpl
  BY <1>1 DEF Pods
<1>3. Become(p, q)
  BY DEF Exit
<1> HIDE DEF q
<1> QED BY <1>1, <1>2, <1>3, PodKeepsItsPackages

LEMMA WorkloadEarned ==
    ASSUME TypeOK, EarnedInv, Workload
    PROVE  EarnedInv'
<1>0. \A p \in pods : p \in Pods /\ (p.done > 0 => p.tmpl.pkgs \in fetched)
  BY DEF TypeOK, EarnedInv, FetchedInv
<1>1. CASE CreatePod
  <2>1. WorkloadFrame /\ UNCHANGED fetched
    BY <1>1 DEF CreatePod
  <2>2. \A p \in pods' : p \in pods \/ p.done = 0
    BY <1>1 DEF CreatePod
  <2> QED BY <1>0, <2>1, <2>2, PodsEarned
<1>2. ASSUME NEW p \in pods, ScaleDown(p) \/ PodGone(p) PROVE EarnedInv'
  BY <1>0, <1>2, PodsEarned DEF ScaleDown, PodGone
<1>3. ASSUME NEW p \in pods, FetchSucceeds(p) PROVE EarnedInv'
  <2> DEFINE q == [p EXCEPT !.done = @ + 1, !.run = "waiting", !.cred = None]
  <2>1. q.tmpl = p.tmpl
    BY <1>0 DEF Pods
  <2>2. /\ pods' = (pods \ {p}) \cup {q} /\ WorkloadFrame
        /\ fetched' = fetched \cup {p.tmpl.pkgs}
    BY <1>3 DEF FetchSucceeds, Become
  <2> HIDE DEF q
  <2> QED BY <1>0, <2>1, <2>2, PodsEarned
<1>4. ASSUME NEW p \in pods, FetchFails(p) PROVE EarnedInv'
  <2>1. ASSUME NEW r, Become(p, [p EXCEPT !.run = r]), UNCHANGED fetched PROVE EarnedInv'
    <3>1. [p EXCEPT !.run = r].done = p.done /\ [p EXCEPT !.run = r].tmpl = p.tmpl
      BY <1>0 DEF Pods
    <3> QED BY <1>0, <2>1, <3>1, PodKeepsItsPackages
  <2> QED BY <1>4, <2>1, ExitEarned DEF FetchFails
<1> QED BY <1>1, <1>2, <1>3, <1>4 DEF Workload

LEMMA DisturbanceEarned ==
    ASSUME TypeOK, EarnedInv, ConfigRegenerated \/ Disturbance
    PROVE  EarnedInv'
<1>1. CASE ConfigRegenerated \/ \E s \in Specs : EditSpec(s)
  BY <1>1 DEF ConfigRegenerated, EditSpec, truth, hist, EarnedInv, FetchedInv, ToldInv, FlightInv,
              WrittenInv
<1>2. CASE \E c \in Contents : EditSecret(c)
  BY <1>2 DEF EditSecret, hist, EarnedInv, FetchedInv, ToldInv, FlightInv, WrittenInv
<1>3. CASE ToggleReplicaFailure
  <2>1. /\ deploy # None /\ deploy \in Deployments
        /\ UNCHANGED <<spec, pods, status, cache, queued, rc, fetched, told>>
    BY <1>3 DEF ToggleReplicaFailure, hist, TypeOK
  <2>2. deploy' # None /\ deploy'.tmpl = deploy.tmpl
    <3>1. deploy' = [deploy EXCEPT !.rf = ~deploy.rf]
      BY <1>3 DEF ToggleReplicaFailure
    <3>2. deploy' \in Deployments
      BY <2>1, <3>1 DEF Deployments
    <3> QED BY <2>1, <3>1, <3>2, AbsentIsNoObject DEF Deployments
  <2> QED BY <2>1, <2>2 DEF EarnedInv, FetchedInv, ToldInv, FlightInv, WrittenInv
<1>4. CASE Crash
  BY <1>4 DEF Crash, Truth, truth, hist, EarnedInv, FetchedInv, ToldInv, FlightInv, WrittenInv
<1>5. ASSUME NEW p \in pods, Outage(p) PROVE EarnedInv'
  BY <1>5, ExitEarned DEF Outage
<1>6. ASSUME NEW p \in pods, ImagePullFails(p) \/ Evict(p) PROVE EarnedInv'
  <2>1. p \in Pods
    BY DEF TypeOK
  <2>2. /\ [p EXCEPT !.run = "imagePull"].done = p.done
        /\ [p EXCEPT !.run = "imagePull"].tmpl = p.tmpl
        /\ [p EXCEPT !.del = TRUE].done = p.done /\ [p EXCEPT !.del = TRUE].tmpl = p.tmpl
    BY <2>1 DEF Pods
  <2> QED BY <1>6, <2>1, <2>2, PodKeepsItsPackages DEF ImagePullFails, Evict
<1> QED BY <1>1, <1>2, <1>3, <1>4, <1>5, <1>6 DEF Disturbance

LEMMA AlwaysEarned == Spec => []EarnedInv
<1>1. Init => EarnedInv
  BY DEF Init, Truth, EarnedInv, FetchedInv, ToldInv, FlightInv, WrittenInv, Success
<1>2. TypeOK /\ EarnedInv /\ [Next]_vars => EarnedInv'
  <2> SUFFICES ASSUME TypeOK, EarnedInv, [Next]_vars PROVE EarnedInv'
    OBVIOUS
  <2>1. CASE UNCHANGED vars
    BY <2>1 DEF vars, truth, hist, EarnedInv, FetchedInv, ToldInv, FlightInv, WrittenInv
  <2> QED BY <2>1, StartEarned, FinishEarned, SyncEarned, WorkloadEarned, DisturbanceEarned
          DEF Next, Reconcile
<1> QED BY <1>1, <1>2, TypeCorrect, PTL DEF Spec

\* At rest PackagesReady=True stands for a fetched package of the current list,
\* whatever the caches, conflicts, secrets and crashes do, unless the status
\* write that follows the Deployment write was lost, or a deferred or outdated
\* reconcile has reported an earlier rollout's pods (Reconcile, translatePackagesReady).
THEOREM SuccessIsEarned == Spec => []TrueIsEarned
<1>1. TypeOK /\ EarnedInv => TrueIsEarned
  <2> SUFFICES ASSUME TypeOK, EarnedInv, told, AtRest, status.pr = Success
               PROVE  spec.pkgs \in fetched
    BY DEF TrueIsEarned, TrueIsFetched, Success
  <2>1. cache.deploy = deploy
    BY DEF AtRest, Truth
  <2>2. deploy.tmpl = spec
    BY <2>1 DEF AtRest, EarnedInv, WrittenInv
  <2> QED BY <2>2 DEF EarnedInv, ToldInv
<1> QED BY <1>1, AlwaysEarned, TypeCorrect, PTL

-----------------------------------------------------------------------------
(* A failure is shown. *)

\* An id is one pod, in the API server and in the cache; a deletion is final.
IdInv ==
    /\ \A p, q \in pods : p.id = q.id => p = q
    /\ \A p \in pods, c \in cache.pods : p.id = c.id => p.tmpl = c.tmpl /\ (c.del => p.del)

YoungestFails(p, ps) ==
    /\ ~p.del /\ p.tmpl.pkgs = spec.pkgs /\ classifyInitContainer(p) # "ok"
    /\ \A q \in ps : q.id <= p.id

\* The failure that the cache shows is, or is about to be, in the status, or the
\* controller comes back.
ShownInv ==
    ~queued /\ (\E p \in cache.pods : YoungestFails(p, cache.pods)) =>
        IF rc = None THEN status.pr # Success
        ELSE /\ rc.pkgs = spec.pkgs
             /\ rc.step = "status" /\ rc.base = status => rc.pr # Success

\* The rank of a pod by age, its new id.
Rank(p) == Cardinality({r \in pods : r.id <= p.id})

LEMMA RankIsMonotone ==
    ASSUME TypeOK, PodsFinite, NEW p \in pods, NEW q \in pods, p.id < q.id
    PROVE  Rank(p) < Rank(q) /\ Rank(p) \in Nat /\ Rank(q) \in Nat
<1> DEFINE A == {r \in pods : r.id <= p.id}
           B == {r \in pods : r.id <= q.id}
<1>1. \A r \in pods : r.id \in Nat
  BY DEF TypeOK, Pods
<1>2. A \subseteq B /\ q \in B /\ q \notin A /\ B \subseteq pods
  BY <1>1
<1>3. IsFiniteSet(B) /\ IsFiniteSet(A)
  BY <1>2, FS_Subset DEF PodsFinite
<1> HIDE DEF A, B
<1>4. Cardinality(A) \in Nat /\ Cardinality(B) \in Nat
  BY <1>3, FS_CardinalityType
<1>5. Cardinality(A) <= Cardinality(B) /\ Cardinality(A) # Cardinality(B)
  BY <1>2, <1>3, FS_Subset
<1> QED BY <1>4, <1>5 DEF Rank, A, B

LEMMA RenumberedPod ==
    ASSUME TypeOK, PodsFinite, NEW p \in Renumber(pods)
    PROVE  \E r \in pods : /\ p = [r EXCEPT !.id = Rank(r)] /\ p.id = Rank(r)
                           /\ p.tmpl = r.tmpl /\ p.del = r.del
                           /\ classifyInitContainer(p) = classifyInitContainer(r)
<1>1. PICK r \in pods : p = [r EXCEPT !.id = Rank(r)]
  BY DEF Renumber, Rank
<1>2. r \in Pods
  BY DEF TypeOK
<1>3. /\ p.id = Rank(r) /\ p.tmpl = r.tmpl /\ p.del = r.del
      /\ p.done = r.done /\ p.run = r.run /\ p.scar = r.scar
  BY <1>1, <1>2 DEF Pods
<1>4. classifyInitContainer(p) = classifyInitContainer(r)
  BY <1>3 DEF classifyInitContainer
<1> QED BY <1>1, <1>3, <1>4

\* A pod whose failure is news wakes the controller.
LEMMA SyncPodsShown ==
    ASSUME TypeOK, PodsFinite, IdInv, ShownInv, SyncPods
    PROVE  IdInv' /\ ShownInv'
<1>1. /\ pods' = Renumber(pods) /\ cache'.pods = pods' /\ queued' = (queued \/ PodsWake)
      /\ UNCHANGED <<spec, status, rc>>
  BY DEF SyncPods, TypeOK, Caches
<1>2. \A p, q \in pods : Rank(p) <= Rank(q) => p.id <= q.id
  <2> TAKE p, q \in pods
  <2>1. p.id \in Nat /\ q.id \in Nat
    BY DEF TypeOK, Pods
  <2> QED BY <2>1, RankIsMonotone
<1>3. \A p, q \in pods : Rank(p) = Rank(q) => p = q
  <2> TAKE p, q \in pods
  <2>1. p.id \in Nat /\ q.id \in Nat
    BY DEF TypeOK, Pods
  <2>2. Rank(p) = Rank(q) => p.id = q.id
    BY <2>1, RankIsMonotone
  <2> QED BY <2>2 DEF IdInv
<1>4. \A p, q \in pods' : p.id = q.id => p = q
  <2> SUFFICES ASSUME NEW p \in Renumber(pods), NEW q \in Renumber(pods), p.id = q.id
               PROVE  p = q
    BY <1>1
  <2>1. PICK r \in pods : p = [r EXCEPT !.id = Rank(r)] /\ p.id = Rank(r)
    BY RenumberedPod
  <2>2. PICK s \in pods : q = [s EXCEPT !.id = Rank(s)] /\ q.id = Rank(s)
    BY RenumberedPod
  <2> QED BY <1>3, <2>1, <2>2
<1>5. IdInv'
  BY <1>1, <1>4 DEF IdInv
<1>6. ASSUME ~PodsWake, NEW p \in Renumber(pods), YoungestFails(p, Renumber(pods))
      PROVE  \E c \in cache.pods : YoungestFails(c, cache.pods)
  <2>1. PICK r \in pods : /\ p.id = Rank(r) /\ p.tmpl = r.tmpl /\ p.del = r.del
                          /\ classifyInitContainer(p) = classifyInitContainer(r)
    BY RenumberedPod
  <2>2. ASSUME NEW q \in pods PROVE q.id <= r.id
    <3>1. [q EXCEPT !.id = Rank(q)] \in Renumber(pods)
      BY DEF Renumber, Rank
    <3>2. [q EXCEPT !.id = Rank(q)].id = Rank(q)
      BY DEF TypeOK, Pods
    <3>3. Rank(q) <= Rank(r)
      BY <1>6, <2>1, <3>1, <3>2 DEF YoungestFails
    <3> QED BY <1>2, <3>3
  <2>3. ~r.del /\ r.tmpl.pkgs = spec.pkgs /\ classifyInitContainer(r) # "ok" /\ r \in Pods
    BY <1>6, <2>1 DEF YoungestFails, TypeOK
  <2>4. <<r.id, r.done, r.run, r.scar>> # <<r.id, 0, "waiting", 0>>
    <3> SUFFICES ASSUME r.done = 0, r.run = "waiting", r.scar = 0
                 PROVE  classifyInitContainer(r) = "ok"
      BY <2>3
    <3>1. r.scar \notin 1..r.done
      OBVIOUS
    <3> QED BY <3>1 DEF classifyInitContainer
  <2>5. PICK c \in cache.pods :
          c.id = r.id /\ c.done = r.done /\ c.run = r.run /\ c.scar = r.scar
    <3>1. <<r.id, r.done, r.run, r.scar>> \in InitStatuses(pods)
      BY DEF InitStatuses
    <3>2. <<r.id, r.done, r.run, r.scar>> \in InitStatuses(cache.pods)
      BY <1>6, <2>4, <3>1 DEF PodsWake
    <3> QED BY <3>2 DEF InitStatuses
  <2>6. c.tmpl = r.tmpl /\ ~c.del
    BY <2>3, <2>5 DEF IdInv
  <2>7. classifyInitContainer(c) = classifyInitContainer(r)
    BY <2>5 DEF classifyInitContainer
  <2>8. \A d \in cache.pods : d.id <= c.id
    <3> TAKE d \in cache.pods
    <3>1. PICK q \in pods : q.id = d.id
      BY <1>6 DEF PodsWake
    <3> QED BY <2>2, <2>5, <3>1
  <2> QED BY <2>3, <2>6, <2>7, <2>8 DEF YoungestFails
<1>7. ShownInv'
  <2> SUFFICES ASSUME ~queued', NEW p \in Renumber(pods), YoungestFails(p, Renumber(pods))
               PROVE  IF rc = None THEN status.pr # Success
                      ELSE /\ rc.pkgs = spec.pkgs
                           /\ rc.step = "status" /\ rc.base = status => rc.pr # Success
    BY <1>1 DEF ShownInv, YoungestFails
  <2> QED BY <1>1, <1>6 DEF ShownInv
<1> QED BY <1>5, <1>7

\* A reconcile that begins answers for the spec it sees.
LEMMA StartShown ==
    ASSUME TypeOK, ShownInv, IdInv,
           \/ WaitForConfig \/ DeferDeployment \/ PreCheckFails
           \/ DeploymentUpToDate \/ WriteDeployment \/ DeploymentConflict
    PROVE  ShownInv' /\ IdInv'
<1>0. UNCHANGED <<pods, cache, status, spec>>
  BY DEF WaitForConfig, DeferDeployment, PreCheckFails, DeploymentUpToDate, WriteDeployment,
         DeploymentConflict, vars, truth
<1>1. CASE WaitForConfig \/ DeploymentConflict
  BY <1>1 DEF WaitForConfig, DeploymentConflict, vars, truth, ShownInv, IdInv, YoungestFails
<1>2. ASSUME NEW step \in {"translate", "status"}, NEW pr \in Reasons, NEW rf \in BOOLEAN,
             NEW requeue \in BOOLEAN, NEW wrote \in BOOLEAN, Enter(step, pr, rf, requeue, wrote),
             step = "status" => pr # Success
      PROVE  ShownInv'
  <2>1. rc' # None /\ rc'.step = step /\ rc'.pr = pr /\ rc'.pkgs = spec.pkgs
    BY <1>2, EnterTyped, AbsentIsNoObject DEF Enter
  <2> QED BY <1>0, <1>2, <2>1 DEF ShownInv
<1>3. /\ cache.status.pr \in Reasons /\ Preempted \in Reasons
      /\ cache.deploy # None => cache.deploy.rf \in BOOLEAN
      /\ deploy # None => deploy.rf \in BOOLEAN
  BY DEF Preempted, TypeOK, Caches, Statuses, Deployments, Reasons
<1>4. ASSUME DeferDeployment PROVE ShownInv'
  BY <1>2, <1>3, <1>4 DEF DeferDeployment
<1>5. ASSUME PreCheckFails PROVE ShownInv'
  <2>1. /\ checkPackageSecrets(spec.pkgs, cache.secret) # Success
        /\ checkPackageSecrets(spec.pkgs, cache.secret) \in Reasons
    BY <1>5, CheckTyped DEF PreCheckFails, Success, Reasons
  <2> QED BY <1>2, <1>5, <2>1 DEF PreCheckFails
<1>6. ASSUME DeploymentUpToDate PROVE ShownInv'
  BY <1>2, <1>3, <1>6 DEF DeploymentUpToDate
<1>7. ASSUME WriteDeployment PROVE ShownInv'
  <2>1. deploy'.rf \in BOOLEAN
    BY <1>3, <1>7 DEF WriteDeployment
  <2>2. Enter("translate", Preempted, deploy'.rf, FALSE, prevPackages # spec.pkgs)
    BY <1>7 DEF WriteDeployment
  <2> QED BY <1>2, <1>3, <2>1, <2>2
<1> QED BY <1>0, <1>1, <1>4, <1>5, <1>6, <1>7 DEF IdInv

\* What the pods become leaves their ids, templates and deletions alone.
LEMMA PodsKeepIds ==
    ASSUME IdInv, \A p \in pods' : \E r \in pods : p.id = r.id /\ p.tmpl = r.tmpl /\ (r.del => p.del),
           \A p, q \in pods' : p.id = q.id => p = q, cache'.pods = cache.pods
    PROVE  IdInv'
BY DEF IdInv

LEMMA FinishShown ==
    ASSUME TypeOK, ShownInv, IdInv, Translate \/ TranslateAndRecover \/ WriteStatus
    PROVE  ShownInv' /\ IdInv'
<1>1. CASE Translate \/ TranslateAndRecover
  <2>1. /\ rc # None /\ rc' # None /\ rc'.pkgs = rc.pkgs /\ rc'.base = rc.base
        /\ UNCHANGED <<spec, status, cache, queued>>
        /\ rc'.pr = Success => Success \in translatePackagesReady(cache.pods, rc.pkgs, rc.pr)
    BY <1>1, TranslationStep
  <2>2. ASSUME ~queued, NEW p \in cache.pods, YoungestFails(p, cache.pods)
        PROVE  rc.pkgs = spec.pkgs /\ rc'.pr # Success
    <3>1. rc.pkgs = spec.pkgs
      BY <2>1, <2>2 DEF ShownInv
    <3>2. Success \notin translatePackagesReady(cache.pods, rc.pkgs, rc.pr)
      BY <2>2, <3>1, FailureWins DEF YoungestFails, TypeOK, Caches
    <3> QED BY <2>1, <3>1, <3>2
  <2>3. ShownInv'
    BY <2>1, <2>2 DEF ShownInv, YoungestFails
  <2>4. IdInv'
    <3>1. CASE UNCHANGED pods
      BY <2>1, <3>1 DEF IdInv
    <3>2. CASE DeleteFailing
      <4> DEFINE doomed == {p.id : p \in {q \in cache.pods : failingPackagePodFilter(q, rc.pkgs)}}
                 new(r) == [r EXCEPT !.del = @ \/ r.id \in doomed]
      <4>1. ASSUME NEW r \in pods
            PROVE  new(r).id = r.id /\ new(r).tmpl = r.tmpl /\ (r.del => new(r).del)
        <5>1. r \in Pods
          BY DEF TypeOK
        <5> HIDE DEF doomed
        <5> QED BY <5>1 DEF Pods
      <4>2. pods' = {new(r) : r \in pods}
        BY <3>2 DEF DeleteFailing
      <4> HIDE DEF new
      <4>3. \A p, q \in pods' : p.id = q.id => p = q
        BY <4>1, <4>2 DEF IdInv
      <4>4. \A p \in pods' : \E r \in pods : p.id = r.id /\ p.tmpl = r.tmpl /\ (r.del => p.del)
        BY <4>1, <4>2
      <4> QED BY <2>1, <4>3, <4>4, PodsKeepIds
    <3> QED BY <1>1, <3>1, <3>2 DEF Translate, TranslateAndRecover, truth
  <2> QED BY <2>3, <2>4
<1>2. CASE WriteStatus
  <2>1. /\ rc # None /\ rc.step = "status" /\ rc' = None
        /\ UNCHANGED <<spec, pods, cache>>
    BY <1>2 DEF WriteStatus
  <2>2. /\ rc.base = status => status'.pr = rc.pr
        /\ rc.base # status => queued'
        /\ queued => queued'
    BY <1>2 DEF WriteStatus, TypeOK
  <2> QED BY <2>1, <2>2 DEF ShownInv, IdInv, YoungestFails
<1> QED BY <1>1, <1>2

LEMMA SyncShown ==
    ASSUME TypeOK, PodsFinite, ShownInv, IdInv, Sync
    PROVE  ShownInv' /\ IdInv'
<1>1. CASE SyncStatus \/ SyncDeployment \/ SyncSecret
  <2>1. /\ cache'.pods = cache.pods /\ (queued => queued')
        /\ UNCHANGED <<spec, pods, status, rc>>
    BY <1>1 DEF SyncStatus, SyncDeployment, SyncSecret, SyncFrame, truth, TypeOK, Caches
  <2> QED BY <2>1 DEF ShownInv, IdInv, YoungestFails
<1> QED BY <1>1, SyncPodsShown DEF Sync

\* The kubelet and the workload controllers: their work is not seen yet.
LEMMA BecomeKeepsIds ==
    ASSUME IdInv, NEW p \in pods, NEW q, Become(p, q), q.id = p.id, q.tmpl = p.tmpl, p.del => q.del
    PROVE  IdInv'
<1>1. pods' = (pods \ {p}) \cup {q} /\ UNCHANGED cache
  BY DEF Become, WorkloadFrame
<1>2. \A r \in pods' : \E s \in pods : r.id = s.id /\ r.tmpl = s.tmpl /\ (s.del => r.del)
  BY <1>1
<1>3. \A r, s \in pods' : r.id = s.id => r = s
  BY <1>1 DEF IdInv
<1> QED BY <1>1, <1>2, <1>3, PodsKeepIds

LEMMA PodChangeKeepsIds ==
    ASSUME TypeOK, IdInv, NEW p \in pods,
           FetchSucceeds(p) \/ FetchFails(p) \/ Outage(p) \/ ImagePullFails(p) \/ Evict(p)
    PROVE  IdInv'
<1>0. p \in Pods
  BY DEF TypeOK
<1>1. CASE FetchSucceeds(p)
  <2> DEFINE q == [p EXCEPT !.done = @ + 1, !.run = "waiting", !.cred = None]
  <2>1. q.id = p.id /\ q.tmpl = p.tmpl /\ q.del = p.del
    BY <1>0 DEF Pods
  <2>2. Become(p, q)
    BY <1>1 DEF FetchSucceeds
  <2> HIDE DEF q
  <2> QED BY <2>1, <2>2, BecomeKeepsIds
<1>2. ASSUME NEW r, Become(p, [p EXCEPT !.run = r]) PROVE IdInv'
  <2>1. /\ [p EXCEPT !.run = r].id = p.id /\ [p EXCEPT !.run = r].tmpl = p.tmpl
        /\ [p EXCEPT !.run = r].del = p.del
    BY <1>0 DEF Pods
  <2> QED BY <1>2, <2>1, BecomeKeepsIds
<1>3. ASSUME NEW cred, Exit(p, cred) PROVE IdInv'
  <2> DEFINE q == [p EXCEPT !.run = "exited", !.cred = cred,
                            !.scar = IF @ = 0 THEN p.done + 1 ELSE @]
  <2>1. q.id = p.id /\ q.tmpl = p.tmpl /\ q.del = p.del
    BY <1>0 DEF Pods
  <2>2. Become(p, q)
    BY <1>3 DEF Exit
  <2> HIDE DEF q
  <2> QED BY <2>1, <2>2, BecomeKeepsIds
<1>4. CASE Evict(p)
  <2>1. [p EXCEPT !.del = TRUE].id = p.id /\ [p EXCEPT !.del = TRUE].tmpl = p.tmpl
        /\ [p EXCEPT !.del = TRUE].del
    BY <1>0 DEF Pods
  <2> QED BY <1>4, <2>1, BecomeKeepsIds DEF Evict
<1> QED BY <1>1, <1>2, <1>3, <1>4 DEF FetchFails, Outage, ImagePullFails

LEMMA WorkloadShown ==
    ASSUME TypeOK, ShownInv, IdInv,
           Workload \/ \E p \in pods : Outage(p) \/ ImagePullFails(p) \/ Evict(p)
    PROVE  ShownInv' /\ IdInv'
<1>1. UNCHANGED <<spec, status, cache, queued, rc>>
  BY DEF Workload, CreatePod, ScaleDown, PodGone, FetchSucceeds, FetchFails, Outage, ImagePullFails,
         Evict, Exit, Become, WorkloadFrame
<1>2. ShownInv'
  BY <1>1 DEF ShownInv, YoungestFails
<1>3. ASSUME NEW p \in pods, ScaleDown(p) \/ PodGone(p) PROVE IdInv'
  BY <1>1, <1>3 DEF ScaleDown, PodGone, IdInv
<1>4. ASSUME CreatePod PROVE IdInv'
  <2>1. PICK q : /\ pods' = pods \cup {q}
                 /\ \A r \in pods \cup cache.pods : r.id < q.id
    <3>1. PICK id \in FreshIds :
            pods' = pods \cup {[id |-> id, tmpl |-> deploy.tmpl, done |-> 0, run |-> "waiting",
                                cred |-> None, scar |-> 0, del |-> FALSE]}
      BY <1>4 DEF CreatePod
    <3> DEFINE q == [id |-> id, tmpl |-> deploy.tmpl, done |-> 0, run |-> "waiting",
                     cred |-> None, scar |-> 0, del |-> FALSE]
    <3>2. pods' = pods \cup {q} /\ q.id = id
      BY <3>1
    <3>3. \A r \in pods \cup cache.pods : r.id < id
      BY DEF FreshIds
    <3> HIDE DEF q
    <3> QED BY <3>2, <3>3
  <2>2. \A r \in pods \cup cache.pods : r.id \in Nat
    BY DEF TypeOK, Caches, Pods
  <2>3. \A r \in pods \cup cache.pods : r.id # q.id
    BY <2>1, <2>2
  <2>4. \A r, s \in pods' : r.id = s.id => r = s
    BY <2>1, <2>3 DEF IdInv
  <2>5. \A r \in pods', c \in cache.pods : r.id = c.id => r.tmpl = c.tmpl /\ (c.del => r.del)
    BY <2>1, <2>3 DEF IdInv
  <2> QED BY <1>1, <2>4, <2>5 DEF IdInv
<1> QED BY <1>2, <1>3, <1>4, PodChangeKeepsIds DEF Workload

LEMMA DisturbanceShown ==
    ASSUME TypeOK, ShownInv, IdInv, ConfigRegenerated \/ Disturbance
    PROVE  ShownInv' /\ IdInv'
<1>1. CASE ConfigRegenerated \/ \E s \in Specs : EditSpec(s)
  BY <1>1 DEF ConfigRegenerated, EditSpec, truth, ShownInv, IdInv
<1>2. CASE ToggleReplicaFailure \/ \E c \in Contents : EditSecret(c)
  BY <1>2 DEF ToggleReplicaFailure, EditSecret, ShownInv, IdInv, YoungestFails
<1>3. CASE Crash
  BY <1>3 DEF Crash, Truth, truth, ShownInv, IdInv
<1> QED BY <1>1, <1>2, <1>3, WorkloadShown DEF Disturbance

\* No schedule of pod, Secret, spec and status events hides a failed fetch: at
\* rest PackagesReady is not True while the youngest pod, of the current
\* packages, fails (packageInitContainerStatusChangedPredicate, findNodesForPod,
\* translatePackagesReady).
THEOREM FailureIsAlwaysShown == Spec => []FailureIsShown
<1>1. Init => ShownInv /\ IdInv
  BY DEF Init, Truth, ShownInv, IdInv
<1>2. TypeOK /\ PodsFinite /\ ShownInv /\ IdInv /\ [Next]_vars => ShownInv' /\ IdInv'
  <2> SUFFICES ASSUME TypeOK, PodsFinite, ShownInv, IdInv, [Next]_vars PROVE ShownInv' /\ IdInv'
    OBVIOUS
  <2>1. CASE UNCHANGED vars
    BY <2>1 DEF vars, truth, ShownInv, IdInv, YoungestFails
  <2> QED BY <2>1, StartShown, FinishShown, SyncShown, WorkloadShown, DisturbanceShown
          DEF Next, Reconcile
<1>3. ShownInv => FailureIsShown
  <2> SUFFICES ASSUME ShownInv, NEW p \in pods, AtRest, YoungestFails(p, pods)
               PROVE  status.pr # Success
    BY DEF FailureIsShown, YoungestFails, Success
  <2> QED BY DEF AtRest, Truth, ShownInv
<1> QED BY <1>1, <1>2, <1>3, AlwaysTyped, PTL DEF Spec
=============================================================================
