-------------------------- MODULE ReconcileProofs --------------------------
(***************************************************************************)
(* Theorems about Reconcile, for every set of specs and every bound: the   *)
(* types, and that operands are created in dependency order (IInv of       *)
(* ReconcileInv is inductive).                                             *)
(***************************************************************************)
EXTENDS ReconcileInv, ManifestsProofs

USE DEF Uids, Gens

\* resolve.From knows two database modes.
LEMMA DesireModes ==
    ASSUME NEW s \in Specs
    PROVE  Desire[s].DatabaseMode \in {"Managed", "External"}
BY DEF Desire, From

\* publicURL is empty or the Ingress host of the spec.
LEMMA PublicURLType ==
    ASSUME NEW s \in Specs
    PROVE  publicURL(Desire[s]) \in {""} \cup {Desire[t].IngressHost : t \in Specs}
BY DEF publicURL

\* patchStatus writes what the status schema allows.
LEMMA ConditionsType ==
    ASSUME TypeOK, my \in CRs
    PROVE  NewConditions \in Conditions
<1>1. my.gen \in Gens
  BY DEF CRs
<1>2. DatabaseMessage(Desire[my.spec]) \in
        {"external secret present", "external secret not found",
         "postgres ready", "StatefulSet not found", "waiting for postgres"}
  BY DEF DatabaseMessage
<1>3. Degraded \in {"LeftoverManagedPostgres", "ReconcileError",
                    "ImagePullError", "AsExpected"}
  BY DEF Degraded
<1>4. Ready(Desire[my.spec]) \in {"Error", "Available", "Waiting"}
  BY DEF Ready
<1>5. Progressing(Desire[my.spec]) \in {"Retrying", "Stable", "Waiting"}
  BY <1>4 DEF Progressing
<1>6. deploymentMessage \in {"ready", "image pull", "waiting for deployment",
                             "deployment not found"}
  BY DEF deploymentMessage
<1> QED
  BY <1>1, <1>2, <1>3, <1>4, <1>5, <1>6
  DEF NewConditions, ConditionsOf, Conditions

LEMMA NewStatusType ==
    ASSUME TypeOK, my \in CRs
    PROVE  NewStatus \in Status
<1>1. my.gen \in Gens /\ my.spec \in Specs
  BY DEF CRs
<1>2. my.gen \in 0 .. MaxGen
  BY <1>1, BoundsAssumption
<1> QED
  BY <1>1, <1>2, ConditionsType, DesireModes, PublicURLType
  DEF NewStatus, StatusOf, Status

LEMMA MergePatchType ==
    ASSUME NEW server \in Status, NEW orig \in Status, NEW new \in Status,
           NEW sent \in BOOLEAN
    PROVE  MergePatch(server, orig, new, sent) \in Status
BY DEF MergePatch, MergeField, Status

-----------------------------------------------------------------------------
(* Type correctness.                                                        *)

LEMMA AdvanceType ==
    ASSUME Advance, my \in CRs
    PROVE  pc' \in StepNames
<1>1. my.spec \in Specs
  BY DEF CRs
<1>2. Plan[my.spec] = StepsOf(Desire[my.spec])
  BY <1>1 DEF Plan
<1>3. StepsOf(Desire[my.spec]) \subseteq StepNames
  BY DEF StepsOf
<1> QED
  BY <1>2, <1>3 DEF Advance

\* The worker's variables keep their types when a step passes or fails.
LEMMA WorkerType ==
    ASSUME TypeOK, my \in CRs, pc \in StepNames, Pass \/ Fail
    PROVE  /\ pc' \in StepNames
           /\ my' = my
           /\ leftover' \in BOOLEAN
           /\ failed' \in BOOLEAN
<1>1. "Status" \in StepNames
  BY StepsAreNamed
<1> QED
  BY <1>1, AdvanceType DEF TypeOK, Pass, Fail

LEMMA ReturnType ==
    ASSUME Return
    PROVE  /\ pc' = "Idle" /\ my' = None
           /\ leftover' = FALSE /\ failed' = FALSE
BY DEF Return

LEMMA InitTypeOK == Init => TypeOK
<1>1. 0 \in 0 .. MaxUid /\ 0 \in 0 .. MaxFaults /\ 0 \in 0 .. MaxDrift
  BY BoundsAssumption
<1> QED
  BY <1>1 DEF Init, TypeOK

\* Removing objects, as the garbage collector and the user do.
LEMMA RemoveType ==
    ASSUME TypeOK, NEW gone, Remove(gone)
    PROVE  /\ owner' \in [Owned -> 0 .. MaxUid]
           /\ applied' \in [Owned -> Specs \cup {None}]
           /\ running' \in [Workloads -> Specs \cup {None}]
           /\ pullError' \in BOOLEAN
<1>1. 0 \in 0 .. MaxUid
  BY BoundsAssumption
<1> QED
  BY <1>1 DEF TypeOK, Remove

\* The steps of the worker.
LEMMA ReconcilerTypeOK ==
    ASSUME TypeOK, Reconciler
    PROVE  TypeOK'
<1> USE DEF userVars, storeVars, cacheVars, podVars, bounds
<1>m. ASSUME pc # "Idle" PROVE my \in CRs /\ my # None /\ pc \in StepNames
  BY <1>m DEF TypeOK
<1>u. ASSUME my \in CRs PROVE my.uid \in 0 .. MaxUid /\ my.spec \in Specs
  BY <1>u, BoundsAssumption DEF CRs
<1>1. CASE Start
  <2>1. pc' \in StepNames /\ my' \in CRs /\ my' # None
    BY <1>1, StepsAreNamed DEF Start, TypeOK
  <2> QED
    BY <1>1, <2>1 DEF Start, TypeOK
<1>2. ASSUME NEW n \in Applied, ApplyStep(n) PROVE TypeOK'
  <2>1. pc # "Idle"
    BY <1>2, OwnedAreSteps DEF ApplyStep, Owned
  <2>2. Pass
    BY <1>2 DEF ApplyStep
  <2>3. /\ pc' \in StepNames /\ my' \in CRs /\ my' # None
        /\ leftover' \in BOOLEAN /\ failed' \in BOOLEAN
    BY <2>1, <2>2, <1>m, WorkerType
  <2>4. owner' \in [Owned -> 0 .. MaxUid]
    BY <1>2, <2>1, <1>m, <1>u DEF ApplyStep, Apply, TypeOK
  <2>5. applied' \in [Owned -> Specs \cup {None}]
    BY <1>2, <2>1, <1>m, <1>u DEF ApplyStep, Apply, TypeOK
  <2> QED
    BY <1>2, <2>3, <2>4, <2>5 DEF ApplyStep, TypeOK
<1>3. ASSUME NEW n \in Credentials, EnsureCredential(n) \/ EnsureProxyAdminToken
      PROVE TypeOK'
  <2>1. pc # "Idle"
    BY <1>3, OwnedAreSteps
    DEF EnsureCredential, EnsureProxyAdminToken, Owned, Credentials
  <2>2. Pass \/ Fail
    BY <1>3 DEF EnsureCredential, EnsureProxyAdminToken
  <2>3. /\ pc' \in StepNames /\ my' \in CRs /\ my' # None
        /\ leftover' \in BOOLEAN /\ failed' \in BOOLEAN
    BY <2>1, <2>2, <1>m, WorkerType
  <2>4. owner' \in [Owned -> 0 .. MaxUid]
    BY <1>3, <2>1, <1>m, <1>u
    DEF EnsureCredential, EnsureProxyAdminToken, Create, TypeOK
  <2>5. applied' = applied
    BY <1>3 DEF EnsureCredential, EnsureProxyAdminToken, Create
  <2> QED
    BY <1>3, <2>3, <2>4, <2>5
    DEF EnsureCredential, EnsureProxyAdminToken, TypeOK
<1>4. CASE CheckUserTLS \/ LoadWorkloadInputs
  <2>1. pc # "Idle" /\ (Pass \/ Fail)
    BY <1>4 DEF CheckUserTLS, LoadWorkloadInputs
  <2>2. /\ pc' \in StepNames /\ my' \in CRs /\ my' # None
        /\ leftover' \in BOOLEAN /\ failed' \in BOOLEAN
    BY <2>1, <1>m, WorkerType
  <2> QED
    BY <1>4, <2>2 DEF CheckUserTLS, LoadWorkloadInputs, TypeOK
<1>5. CASE CheckLeftover
  <2>1. my \in CRs /\ my # None
    BY <1>5, <1>m DEF CheckLeftover
  <2>2. pc' \in StepNames /\ my' = my
    BY <1>5, <2>1, AdvanceType DEF CheckLeftover
  <2>3. leftover' \in BOOLEAN
    BY <1>5 DEF CheckLeftover
  <2> QED
    BY <1>5, <2>1, <2>2, <2>3 DEF CheckLeftover, TypeOK
<1>6. CASE patchStatus
  <2>1. my \in CRs
    BY <1>6, <1>m DEF patchStatus
  <2>2. cr' \in CRs \cup {None}
    <3>1. CASE cr = None
      BY <1>6, <3>1 DEF patchStatus
    <3>2. CASE cr # None
      <4>1. cr \in CRs
        BY <3>2 DEF TypeOK
      <4>2. PICK sent \in SentAnyway :
              cr' = [cr EXCEPT !.status =
                        MergePatch(cr.status, my.status, NewStatus, sent)]
        BY <1>6, <3>2 DEF patchStatus
      <4>3. sent \in BOOLEAN
        BY DEF SentAnyway
      <4>4. MergePatch(cr.status, my.status, NewStatus, sent) \in Status
        BY <2>1, <4>1, <4>3, NewStatusType, MergePatchType DEF CRs
      <4> QED
        BY <4>1, <4>2, <4>4 DEF CRs
    <3> QED
      BY <3>1, <3>2
  <2> QED
    BY <1>6, <2>2 DEF patchStatus, Return, TypeOK
<1> QED
  BY <1>1, <1>2, <1>3, <1>4, <1>5, <1>6 DEF Reconciler, Credentials

\* What goes wrong.
LEMMA FailuresTypeOK ==
    ASSUME TypeOK, Failures
    PROVE  TypeOK'
<1> USE DEF userVars, storeVars, cacheVars, podVars
<1>m. ASSUME pc # "Idle" PROVE my \in CRs /\ my # None /\ pc \in StepNames
  BY <1>m DEF TypeOK
<1>f. ASSUME Fault PROVE faults' \in 0 .. MaxFaults /\ drifts' = drifts
  BY <1>f, BoundsAssumption DEF Fault, TypeOK
<1>1. CASE CallFails \/ LeftoverReadFails
  <2>1. pc # "Idle" /\ (Pass \/ Fail) /\ Fault
    BY <1>1 DEF CallFails, LeftoverReadFails
  <2>2. /\ pc' \in StepNames /\ my' \in CRs /\ my' # None
        /\ leftover' \in BOOLEAN /\ failed' \in BOOLEAN
    BY <2>1, <1>m, WorkerType
  <2> QED
    BY <1>1, <1>f, <2>1, <2>2 DEF CallFails, LeftoverReadFails, TypeOK
<1>2. ASSUME NEW n \in Owned, ReplyLost(n) PROVE TypeOK'
  <2>1. pc # "Idle"
    BY <1>2, OwnedAreSteps DEF ReplyLost
  <2>2. my \in CRs /\ my.uid \in 0 .. MaxUid /\ my.spec \in Specs
    BY <2>1, <1>m, BoundsAssumption DEF CRs
  <2>3. /\ pc' \in StepNames /\ my' \in CRs /\ my' # None
        /\ leftover' \in BOOLEAN /\ failed' \in BOOLEAN
    BY <1>2, <2>1, <1>m, WorkerType DEF ReplyLost
  <2>4. /\ owner' \in [Owned -> 0 .. MaxUid]
        /\ applied' \in [Owned -> Specs \cup {None}]
    <3>1. CASE Apply(n)
      BY <3>1, <2>2 DEF Apply, TypeOK
    <3>2. CASE Create(n)
      BY <3>2, <2>2 DEF Create, TypeOK
    <3> QED
      BY <1>2, <3>1, <3>2 DEF ReplyLost
  <2> QED
    BY <1>2, <1>f, <2>3, <2>4 DEF ReplyLost, TypeOK
<1>3. CASE PatchFails \/ Crash
  BY <1>3, <1>f DEF PatchFails, Crash, Return, TypeOK
<1> QED
  BY <1>1, <1>2, <1>3 DEF Failures

\* What the user does.
LEMMA UserTypeOK ==
    ASSUME TypeOK, User
    PROVE  TypeOK'
<1> USE DEF userVars, storeVars, cacheVars, podVars, workerVars, bounds
<1>1. ASSUME NEW s \in Specs, CreateCR(s) PROVE TypeOK'
  <2>1. lastUid' \in 0 .. MaxUid /\ lastUid + 1 \in Uids
    BY <1>1, BoundsAssumption DEF CreateCR, TypeOK
  <2>2. 1 \in Gens /\ 0 \in 0 .. MaxGen
    BY BoundsAssumption
  <2>3. NoStatus \in Status
    BY <2>2 DEF NoStatus, Status
  <2>4. cr' \in CRs
    BY <1>1, <2>1, <2>2, <2>3 DEF CreateCR, CRs
  <2> QED
    BY <1>1, <2>1, <2>4 DEF CreateCR, TypeOK
<1>2. ASSUME NEW s \in Specs, EditSpec(s) PROVE TypeOK'
  <2>1. cr \in CRs
    BY <1>2 DEF EditSpec, TypeOK
  <2>2. cr.gen + 1 \in Gens
    BY <1>2, <2>1, BoundsAssumption DEF EditSpec, CRs
  <2>3. cr' \in CRs
    BY <1>2, <2>1, <2>2 DEF EditSpec, CRs
  <2> QED
    BY <1>2, <2>3 DEF EditSpec, TypeOK
<1>3. CASE DeleteCR
  BY <1>3 DEF DeleteCR, TypeOK
<1>4. ASSUME NEW o \in UserObjects, NEW state \in GivenStates,
             UserChanges(o, state)
      PROVE  TypeOK'
  BY <1>4 DEF UserChanges, TypeOK
<1>5. ASSUME NEW n \in Owned, UserDeletes(n) PROVE TypeOK'
  <2>1. drifts' \in 0 .. MaxDrift
    BY <1>5, BoundsAssumption DEF UserDeletes, TypeOK
  <2>2. Remove({n})
    BY <1>5 DEF UserDeletes
  <2> QED
    BY <1>5, <2>1, <2>2, RemoveType DEF UserDeletes, TypeOK
<1> QED
  BY <1>1, <1>2, <1>3, <1>4, <1>5 DEF User

\* What the cluster does.
LEMMA ClusterTypeOK ==
    ASSUME TypeOK, Cluster
    PROVE  TypeOK'
<1> USE DEF userVars, storeVars, cacheVars, podVars, workerVars, bounds
<1>1. CASE CRSync
  BY <1>1 DEF CRSync, TypeOK
<1>2. ASSUME NEW kind \in Informers, Sync(kind) PROVE TypeOK'
  <2>1. cached' \in [Cached -> 0 .. MaxUid]
    BY <1>2 DEF Sync, TypeOK, Owned, Cached, Applied
  <2>2. cachedReady' \in [Workloads -> BOOLEAN]
    BY <1>2 DEF Sync, TypeOK, IsReady
  <2> QED
    BY <1>2, <2>1, <2>2 DEF Sync, TypeOK
<1>3. ASSUME NEW group \in Collectable, GC(group) PROVE TypeOK'
  <2>1. Remove({n \in group : Orphan(n)})
    BY <1>3 DEF GC
  <2>2. /\ owner' \in [Owned -> 0 .. MaxUid]
        /\ applied' \in [Owned -> Specs \cup {None}]
        /\ running' \in [Workloads -> Specs \cup {None}]
        /\ pullError' \in BOOLEAN
    BY <2>1, RemoveType
  <2> QED
    BY <1>3, <2>2 DEF GC, TypeOK
<1>4. ASSUME NEW w \in Workloads, PodReady(w) PROVE TypeOK'
  BY <1>4 DEF PodReady, TypeOK, Owned, Applied
<1>5. ASSUME NEW w \in Workloads, PodStops(w) PROVE TypeOK'
  <2>1. faults' \in 0 .. MaxFaults /\ drifts' = drifts
    BY <1>5, BoundsAssumption DEF PodStops, Fault, TypeOK
  <2> QED
    BY <1>5, <2>1 DEF PodStops, TypeOK
<1>6. CASE PullFails
  <2>1. faults' \in 0 .. MaxFaults /\ drifts' = drifts
    BY <1>6, BoundsAssumption DEF PullFails, Fault, TypeOK
  <2> QED
    BY <1>6, <2>1 DEF PullFails, TypeOK
<1> QED
  BY <1>1, <1>2, <1>3, <1>4, <1>5, <1>6 DEF Cluster

LEMMA TypeStep ==
    ASSUME TypeOK, [Next]_vars
    PROVE  TypeOK'
<1>1. CASE Next
  BY <1>1, ReconcilerTypeOK, FailuresTypeOK, UserTypeOK, ClusterTypeOK DEF Next
<1>2. CASE UNCHANGED vars
  BY <1>2 DEF vars, userVars, storeVars, cacheVars, podVars, workerVars,
              bounds, TypeOK
<1> QED
  BY <1>1, <1>2

\* Every variable of the reconcile loop stays in its type, whatever the specs
\* and the bounds: in particular a status patch merged from a stale copy is a
\* status the CRD allows.
THEOREM TypeCorrect == Spec => []TypeOK
<1>1. TypeOK /\ [Next]_vars => TypeOK'
  BY TypeStep
<1> QED
  BY <1>1, InitTypeOK, PTL DEF Spec

-----------------------------------------------------------------------------
(* Dependency order.                                                        *)

\* IInv without the type invariant.
Parts ==
    /\ UidsKnown
    /\ FreshUntilSeen
    /\ CacheTrue
    /\ FailedIsOver
    /\ DoneSoFar
    /\ DependenciesFirst

-----------------------------------------------------------------------------
(* What a worker has gone past.                                             *)

\* A worker that goes on skips nothing its spec calls for.
LEMMA AdvanceOrder ==
    ASSUME Advance, my \in CRs, pc \in StepNames,
           NEW m \in Operands(my.spec), Pos[m] < Pos[pc']
    PROVE  Pos[m] < Pos[pc] \/ m = pc
<1>1. m \in Plan[my.spec] /\ m \in StepNames
  BY StepsAreNamed DEF Operands
<1>2. PICK n \in {k \in Plan[my.spec] : Pos[k] > Pos[pc]} :
         /\ \A k \in {j \in Plan[my.spec] : Pos[j] > Pos[pc]} : Pos[n] <= Pos[k]
         /\ pc' = n
  BY DEF Advance
<1>3. n \in StepNames
  BY <1>2, AdvanceType
<1>4. Pos[m] \in Nat /\ Pos[n] \in Nat /\ Pos[pc] \in Nat
  BY <1>1, <1>3, PosOfSteps
<1>5. ~(Pos[m] > Pos[pc])
  BY <1>1, <1>2, <1>4
<1> QED
  BY <1>1, <1>4, <1>5, PosOfSteps

-----------------------------------------------------------------------------
(* The kinds of step there are, as far as Parts can tell.                   *)

SameCR == cr' # None => cr # None /\ cr'.uid = cr.uid

LEMMA UidsAreNumbers ==
    ASSUME TypeOK
    PROVE  /\ lastUid \in Nat
           /\ \A n \in Owned : owner[n] \in Nat
           /\ \A n \in Cached : cached[n] \in Nat
           /\ cr # None => cr.uid \in Nat /\ cr.uid # 0
           /\ crCache # None => crCache.uid \in Nat
           /\ pc # "Idle" => my.uid \in Nat
<1>1. 0 .. MaxUid \subseteq Nat
  BY BoundsAssumption
<1>2. ASSUME NEW c \in CRs PROVE c.uid \in Nat /\ c.uid # 0
  <2>1. c.uid \in 1 .. MaxUid
    BY DEF CRs
  <2> QED
    BY <2>1, BoundsAssumption
<1>3. /\ cr # None => cr \in CRs
      /\ crCache # None => crCache \in CRs
      /\ pc # "Idle" => my \in CRs
  BY DEF TypeOK
<1>4. lastUid \in Nat /\ (\A n \in Owned : owner[n] \in Nat)
      /\ (\A n \in Cached : cached[n] \in Nat)
  BY <1>1 DEF TypeOK
<1> QED
  BY <1>2, <1>3, <1>4

\* A status patch changes nothing else of the CR.
LEMMA CRsAreRecords ==
    ASSUME TypeOK, cr # None, NEW st
    PROVE  [cr EXCEPT !.status = st].uid = cr.uid
<1>1. cr \in CRs
  BY DEF TypeOK
<1> QED
  BY <1>1 DEF CRs

\* Steps that touch nothing Parts speaks of.
LEMMA QuietStep ==
    ASSUME TypeOK, Parts, SameCR,
           UNCHANGED <<owner, applied, cached, crCache, lastUid, pc, my,
                       failed, drifts>>
    PROVE  Parts'
<1> USE DEF SameCR
<1>1. UidsKnown' /\ FreshUntilSeen'
  BY DEF Parts, UidsKnown, FreshUntilSeen, NoTraceOf
<1>2. CacheTrue' /\ FailedIsOver'
  BY DEF Parts, CacheTrue, FailedIsOver
<1>3. DoneSoFar' /\ DependenciesFirst'
  BY DEF Parts, DoneSoFar, DependenciesFirst, Guaranteed
<1> QED
  BY <1>1, <1>2, <1>3 DEF Parts

\* Steps that end a reconcile.
LEMMA ReturnStep ==
    ASSUME TypeOK, Parts, SameCR, Return,
           UNCHANGED <<owner, applied, cached, crCache, lastUid, drifts>>
    PROVE  Parts'
<1> USE DEF SameCR, Return
<1>1. UidsKnown' /\ FreshUntilSeen'
  BY DEF Parts, UidsKnown, FreshUntilSeen, NoTraceOf
<1>2. CacheTrue' /\ FailedIsOver' /\ DoneSoFar'
  BY DEF Parts, CacheTrue, FailedIsOver, DoneSoFar
<1>3. DependenciesFirst'
  BY DEF Parts, DependenciesFirst, Guaranteed
<1> QED
  BY <1>1, <1>2, <1>3 DEF Parts

\* What a worker's step may write: the object it is at, in its CR's name.
Writes ==
    \/ UNCHANGED <<owner, applied>>
    \/ pc \in Applied /\ Apply(pc)
    \/ pc \in Credentials /\ Create(pc)

\* What a step that passes leaves behind.
Ensured ==
    (cr # None /\ drifts = 0 /\ my.uid = cr.uid /\ pc \in Owned) =>
        /\ Guaranteed(pc) => owner'[pc] = cr.uid
        /\ pc \in Applied => applied'[pc] = my.spec

\* Steps of ensureAll, failed ones included.
LEMMA WorkStep ==
    ASSUME TypeOK, Parts, pc \notin {"Idle", "Status"}, Writes,
           cr' = cr, my' = my,
           UNCHANGED <<cached, crCache, lastUid, drifts>>,
           \/ Advance /\ failed' = failed /\ Ensured
           \/ Fail
    PROVE  Parts'
<1> DEFINE Current == cr # None /\ my.uid = cr.uid
<1>1. my \in CRs /\ pc \in StepNames /\ ~failed
  BY DEF TypeOK, Parts, FailedIsOver
<1>2. pc' \in StepNames
  BY <1>1, AdvanceType, StepsAreNamed DEF Fail
<1>3. pc' # "Idle"
  BY <1>2, OwnedAreSteps
<1>4. \A n \in Owned : owner'[n] = owner[n] \/ (owner'[n] = my.uid /\ n = pc)
  BY DEF Writes, Apply, Create, TypeOK
<1>5. \A n \in Owned : applied'[n] = applied[n]
                       \/ (applied'[n] = my.spec /\ n = pc /\ owner'[n] = my.uid)
  BY DEF Writes, Apply, Create, TypeOK, Owned
<1>6. UidsKnown'
  BY <1>1, <1>4 DEF Parts, UidsKnown
<1>7. FreshUntilSeen'
  BY <1>1, <1>3, <1>4 DEF Parts, FreshUntilSeen, NoTraceOf
<1>8. CacheTrue'
  <2> SUFFICES ASSUME cr # None, drifts = 0, NEW n \in Credentials,
                      cached[n] = cr.uid
               PROVE  owner'[n] = cr.uid
    BY DEF CacheTrue
  <2>1. owner[n] = cr.uid
    BY DEF Parts, CacheTrue
  <2>2. my.uid = cr.uid
    BY <2>1 DEF Parts, FreshUntilSeen, NoTraceOf, Owned
  <2> QED
    BY <1>4, <2>1, <2>2 DEF Owned
<1>9. FailedIsOver'
  BY <1>1 DEF FailedIsOver, Fail
<1>10. DoneSoFar'
  <2> SUFFICES ASSUME cr # None, drifts = 0, my.uid = cr.uid, ~failed',
                      NEW m \in Operands(my.spec), Pos[m] < Pos[pc']
               PROVE  /\ Guaranteed(m) => owner'[m] = cr.uid
                      /\ m \in Applied => applied'[m] = my.spec
    BY DEF DoneSoFar, Guaranteed
  <2>1. Advance /\ Ensured
    BY DEF Fail
  <2>2. m \in Owned
    BY DEF Operands
  <2>3. CASE Pos[m] < Pos[pc]
    <3>1. /\ Guaranteed(m) => owner[m] = cr.uid
          /\ m \in Applied => applied[m] = my.spec
      BY <1>1, <2>3 DEF Parts, DoneSoFar
    <3> QED
      BY <1>4, <1>5, <2>2, <3>1
  <2>4. CASE m = pc
    BY <2>1, <2>2, <2>4 DEF Ensured
  <2> QED
    BY <1>1, <2>1, <2>3, <2>4, AdvanceOrder
<1>11. DependenciesFirst'
  <2> SUFFICES ASSUME cr # None, drifts = 0, NEW n \in Applied,
                      owner'[n] = cr.uid, NEW m \in Operands(applied'[n]),
                      Pos[m] < Pos[n], Guaranteed(m)
               PROVE  owner'[m] = cr.uid
    BY DEF DependenciesFirst, Guaranteed
  <2>1. m \in Owned /\ n \in Owned
    BY DEF Operands, Owned
  <2>2. my.uid = cr.uid
    BY <1>4, <2>1 DEF Parts, FreshUntilSeen, NoTraceOf
  <2>3. owner[m] = cr.uid
    <3>1. CASE n = pc /\ applied'[n] = my.spec
      BY <1>1, <2>2, <3>1 DEF Parts, DoneSoFar
    <3>2. CASE n # pc \/ applied'[n] # my.spec
      <4>1. applied'[n] = applied[n]
        BY <1>5, <2>1, <3>2
      <4>2. CASE owner[n] = cr.uid
        BY <4>1, <4>2 DEF Parts, DependenciesFirst
      <4>3. CASE owner[n] # cr.uid
        <5>1. n = pc /\ owner' # owner
          BY <1>4, <2>1, <4>3
        <5>2. Apply(pc)
          BY <5>1 DEF Writes, Create, Applied, Workloads, Credentials
        <5> QED
          BY <5>1, <5>2, <2>1, <3>2 DEF Apply, TypeOK
      <4> QED
        BY <4>2, <4>3
    <3> QED
      BY <3>1, <3>2
  <2> QED
    BY <1>4, <2>1, <2>2, <2>3
<1> QED
  BY <1>6, <1>7, <1>8, <1>9, <1>10, <1>11 DEF Parts

\* Objects go: orphans, or, once the user has interfered, any.
LEMMA RemoveStep ==
    ASSUME TypeOK, Parts, NEW gone, Remove(gone), cr' = cr,
           drifts' # 0 \/ (drifts' = drifts /\ \A n \in gone : Orphan(n)),
           UNCHANGED <<cached, crCache, lastUid, pc, my, failed>>
    PROVE  Parts'
<1>1. \A n \in Owned : owner'[n] = owner[n] \/ (owner'[n] = 0 /\ n \in gone)
  BY DEF Remove
<1>2. \A n \in Owned : n \notin gone => applied'[n] = applied[n]
  BY DEF Remove
<1>3. cr # None => cr.uid \in Nat /\ cr.uid # 0
  BY UidsAreNumbers
<1>4. lastUid \in Nat
  BY BoundsAssumption DEF TypeOK
<1>5. ASSUME drifts' = 0, cr # None, NEW n \in Owned, owner[n] = cr.uid
      PROVE  owner'[n] = cr.uid /\ n \notin gone
  BY <1>1, <1>5 DEF Orphan
<1>6. UidsKnown'
  BY <1>1, <1>4 DEF Parts, UidsKnown
<1>7. FreshUntilSeen'
  BY <1>1, <1>3 DEF Parts, FreshUntilSeen, NoTraceOf
<1>8. drifts' = 0 => drifts = 0
  OBVIOUS
<1>9. CacheTrue' /\ FailedIsOver'
  BY <1>5, <1>8 DEF Parts, CacheTrue, FailedIsOver, Owned
<1>10. DoneSoFar'
  <2> SUFFICES ASSUME cr # None, drifts' = 0, pc # "Idle", my.uid = cr.uid,
                      ~failed, NEW m \in Operands(my.spec), Pos[m] < Pos[pc]
               PROVE  /\ Guaranteed(m) => owner'[m] = cr.uid
                      /\ m \in Applied => applied'[m] = my.spec
    BY DEF DoneSoFar, Guaranteed
  <2>1. m \in Owned
    BY DEF Operands
  <2>2. /\ Guaranteed(m) => owner[m] = cr.uid
        /\ m \in Applied => applied[m] = my.spec
    BY <1>8 DEF Parts, DoneSoFar
  <2>3. m \in Applied => Guaranteed(m)
    BY DEF Guaranteed, Applied, Workloads, Credentials
  <2> QED
    BY <1>2, <1>5, <2>1, <2>2, <2>3
<1>11. DependenciesFirst'
  <2> SUFFICES ASSUME cr # None, drifts' = 0, NEW n \in Applied,
                      owner'[n] = cr.uid, NEW m \in Operands(applied'[n]),
                      Pos[m] < Pos[n], Guaranteed(m)
               PROVE  owner'[m] = cr.uid
    BY DEF DependenciesFirst, Guaranteed
  <2>1. m \in Owned /\ n \in Owned
    BY DEF Operands, Owned
  <2>2. owner[n] = cr.uid
    BY <1>1, <1>3, <2>1
  <2>3. applied'[n] = applied[n]
    BY <1>2, <1>5, <2>1, <2>2
  <2> QED
    BY <1>5, <1>8, <2>1, <2>2, <2>3 DEF Parts, DependenciesFirst
<1> QED
  BY <1>6, <1>7, <1>9, <1>10, <1>11 DEF Parts

\* A reconcile starts from the cached CR.
LEMMA StartStep ==
    ASSUME TypeOK, Parts, Start
    PROVE  Parts'
<1> USE DEF Start, userVars, storeVars, cacheVars, podVars, bounds
<1>1. UidsKnown' /\ FreshUntilSeen'
  BY DEF Parts, UidsKnown, FreshUntilSeen, NoTraceOf
<1>2. CacheTrue' /\ FailedIsOver'
  BY DEF Parts, CacheTrue, FailedIsOver
<1>3. DoneSoFar'
  BY FirstStep, StepsAreNamed DEF DoneSoFar, Operands
<1>4. DependenciesFirst'
  BY DEF Parts, DependenciesFirst, Guaranteed
<1> QED
  BY <1>1, <1>2, <1>3, <1>4 DEF Parts

\* A CR is created, with a uid nobody has seen.
LEMMA CreateStep ==
    ASSUME TypeOK, Parts, NEW s \in Specs, CreateCR(s)
    PROVE  Parts'
<1> USE DEF CreateCR, storeVars, cacheVars, workerVars, bounds
<1>1. /\ lastUid \in Nat
      /\ \A n \in Owned : owner[n] \in Nat
      /\ \A n \in Cached : cached[n] \in Nat
      /\ crCache # None => crCache.uid \in Nat
      /\ pc # "Idle" => my.uid \in Nat
  BY UidsAreNumbers
<1>2. cr'.uid = lastUid + 1 /\ lastUid' = lastUid + 1
  OBVIOUS
<1>3. NoTraceOf(cr'.uid) /\ (crCache # None => crCache.uid # cr'.uid)
      /\ (pc # "Idle" => my.uid # cr'.uid)
  BY <1>1, <1>2 DEF Parts, UidsKnown, NoTraceOf
<1>4. UidsKnown'
  BY <1>1, <1>2 DEF Parts, UidsKnown
<1>5. FreshUntilSeen'
  BY <1>3 DEF FreshUntilSeen, NoTraceOf
<1>6. CacheTrue' /\ FailedIsOver' /\ DoneSoFar' /\ DependenciesFirst'
  BY <1>3 DEF Parts, CacheTrue, FailedIsOver, DoneSoFar, DependenciesFirst,
              NoTraceOf, Cached, Owned
<1> QED
  BY <1>4, <1>5, <1>6 DEF Parts

\* The CR is deleted.
LEMMA DeleteStep ==
    ASSUME TypeOK, Parts, DeleteCR
    PROVE  Parts'
BY DEF DeleteCR, storeVars, cacheVars, workerVars, userVars, bounds,
       Parts, UidsKnown, FreshUntilSeen, CacheTrue, FailedIsOver, DoneSoFar,
       DependenciesFirst

\* The cached CR catches up.
LEMMA CRSyncStep ==
    ASSUME TypeOK, Parts, CRSync
    PROVE  Parts'
<1> USE DEF CRSync, storeVars, userVars, workerVars, bounds
<1>1. UidsKnown' /\ FreshUntilSeen'
  <2>1. cr # None => cr.uid <= lastUid
    BY BoundsAssumption DEF Parts, UidsKnown, TypeOK
  <2> QED
    BY <2>1 DEF Parts, UidsKnown, FreshUntilSeen, NoTraceOf
<1>2. CacheTrue' /\ FailedIsOver'
  BY DEF Parts, CacheTrue, FailedIsOver
<1>3. DoneSoFar' /\ DependenciesFirst'
  BY DEF Parts, DoneSoFar, DependenciesFirst, Guaranteed
<1> QED
  BY <1>1, <1>2, <1>3 DEF Parts

\* The cached objects of a kind catch up.
LEMMA SyncStep ==
    ASSUME TypeOK, Parts, NEW kind, Sync(kind)
    PROVE  Parts'
<1> USE DEF Sync, storeVars, userVars, workerVars, bounds
<1>1. \A n \in Cached : cached'[n] = cached[n] \/ cached'[n] = owner[n]
  OBVIOUS
<1>2. Cached \subseteq Owned /\ Credentials \subseteq Cached
  BY DEF Cached, Owned, Applied
<1>3. UidsKnown' /\ FreshUntilSeen'
  BY <1>1, <1>2 DEF Parts, UidsKnown, FreshUntilSeen, NoTraceOf
<1>4. CacheTrue' /\ FailedIsOver'
  BY <1>1, <1>2 DEF Parts, CacheTrue, FailedIsOver
<1>5. DoneSoFar' /\ DependenciesFirst'
  BY DEF Parts, DoneSoFar, DependenciesFirst, Guaranteed
<1> QED
  BY <1>3, <1>4, <1>5 DEF Parts

-----------------------------------------------------------------------------
(* The actions, by their kinds.                                             *)

LEMMA ReconcilerParts ==
    ASSUME TypeOK, Parts, Reconciler
    PROVE  Parts'
<1> USE DEF userVars, storeVars, cacheVars, podVars, bounds
<1>s. "Status" \notin Owned /\ "Idle" \notin Owned
      /\ Applied \subseteq Owned /\ Credentials \subseteq Owned
  BY OwnedAreSteps DEF Owned, Applied, Credentials, Workloads
<1>1. CASE Start
  BY <1>1, StartStep
<1>2. ASSUME NEW n \in Applied, ApplyStep(n) PROVE Parts'
  <2>1. pc = n /\ Apply(pc) /\ Pass
    BY <1>2 DEF ApplyStep
  <2>2. Ensured
    BY <2>1 DEF Ensured, Apply, TypeOK
  <2> QED
    BY <1>2, <1>s, <2>1, <2>2, WorkStep DEF ApplyStep, Writes, Pass
<1>3. ASSUME NEW n \in Credentials \ {"ProxyAdminToken"}, EnsureCredential(n)
      PROVE  Parts'
  <2>1. pc = n /\ pc \in Credentials /\ pc \notin Applied /\ pc \in Cached
    BY <1>3 DEF EnsureCredential, Credentials, Applied, Workloads, Cached
  <2>2. CASE cached[n] # 0 /\ Pass /\ UNCHANGED storeVars
    <3>1. Ensured
      <4> SUFFICES ASSUME cr # None, drifts = 0, my.uid = cr.uid, Guaranteed(pc)
                   PROVE  owner'[pc] = cr.uid
        BY <2>1 DEF Ensured
      <4>1. cr.uid = 1 /\ lastUid = 1
        BY <1>3, <2>1 DEF Guaranteed, Parts, UidsKnown
      <4>2. cached[n] \in Nat /\ cached[n] <= 1
        BY <2>1, <4>1, BoundsAssumption DEF Parts, UidsKnown, TypeOK
      <4>3. cached[n] = cr.uid
        BY <2>2, <4>1, <4>2
      <4> QED
        BY <2>1, <2>2, <4>3 DEF Parts, CacheTrue
    <3> QED
      BY <1>3, <1>s, <2>1, <2>2, <3>1, WorkStep
      DEF EnsureCredential, Writes, Pass
  <2>3. CASE Create(n) /\ Pass
    <3>1. Ensured
      BY <2>1, <2>3 DEF Ensured, Create, TypeOK, Owned
    <3> QED
      BY <1>3, <1>s, <2>1, <2>3, <3>1, WorkStep
      DEF EnsureCredential, Writes, Pass
  <2>4. CASE Fail /\ UNCHANGED storeVars
    BY <1>3, <1>s, <2>1, <2>4, WorkStep DEF EnsureCredential, Writes, Fail
  <2> QED
    BY <1>3, <2>2, <2>3, <2>4 DEF EnsureCredential
<1>4. CASE EnsureProxyAdminToken
  <2>1. /\ pc = "ProxyAdminToken" /\ pc \in Credentials /\ pc \notin Applied
        /\ pc \in Owned
    BY <1>4, <1>s
    DEF EnsureProxyAdminToken, Credentials, Applied, Workloads
  <2>2. CASE cached[pc] = my.uid /\ Pass /\ UNCHANGED storeVars
    <3>1. Ensured
      BY <2>1, <2>2 DEF Ensured, Parts, CacheTrue
    <3> QED
      BY <1>4, <1>s, <2>1, <2>2, <3>1, WorkStep
      DEF EnsureProxyAdminToken, Writes, Pass
  <2>3. CASE Create(pc) /\ Pass
    <3>1. Ensured
      BY <2>1, <2>3 DEF Ensured, Create, TypeOK
    <3> QED
      BY <1>4, <1>s, <2>1, <2>3, <3>1, WorkStep
      DEF EnsureProxyAdminToken, Writes, Pass
  <2>4. CASE Fail /\ UNCHANGED storeVars
    BY <1>4, <1>s, <2>1, <2>4, WorkStep
    DEF EnsureProxyAdminToken, Writes, Fail
  <2> QED
    BY <1>4, <2>1, <2>2, <2>3, <2>4 DEF EnsureProxyAdminToken
<1>5. CASE CheckUserTLS \/ LoadWorkloadInputs
  <2>1. /\ pc \in {"UserPostgresTLS", "WorkloadInputs"}
        /\ Pass \/ Fail
    BY <1>5 DEF CheckUserTLS, LoadWorkloadInputs
  <2>2. pc \notin Owned /\ pc \notin {"Idle", "Status"}
    BY <2>1 DEF Owned, Applied, Credentials, Workloads
  <2>3. Ensured
    BY <2>2 DEF Ensured
  <2> QED
    BY <1>5, <2>1, <2>2, <2>3, WorkStep
    DEF CheckUserTLS, LoadWorkloadInputs, Writes, Pass, Fail
<1>6. CASE CheckLeftover
  <2>1. pc \notin Owned
    BY <1>6 DEF CheckLeftover, Owned, Applied, Credentials, Workloads
  <2>2. Ensured
    BY <2>1 DEF Ensured
  <2> QED
    BY <1>6, <2>2, WorkStep DEF CheckLeftover, Writes
<1>7. CASE patchStatus
  <2>1. SameCR
    <3>1. CASE cr = None
      BY <1>7, <3>1 DEF patchStatus, SameCR
    <3>2. CASE cr # None
      <4>1. PICK sent \in SentAnyway :
              cr' = [cr EXCEPT !.status =
                        MergePatch(cr.status, my.status, NewStatus, sent)]
        BY <1>7, <3>2 DEF patchStatus
      <4> QED
        BY <3>2, <4>1, CRsAreRecords DEF SameCR
    <3> QED
      BY <3>1, <3>2
  <2> QED
    BY <1>7, <2>1, ReturnStep DEF patchStatus
<1> QED
  BY <1>1, <1>2, <1>3, <1>4, <1>5, <1>6, <1>7 DEF Reconciler

LEMMA FailuresParts ==
    ASSUME TypeOK, Parts, Failures
    PROVE  Parts'
<1> USE DEF Fault, userVars, storeVars, cacheVars, podVars
<1>1. CASE CallFails
  BY <1>1, WorkStep DEF CallFails, Writes, Fail
<1>2. CASE LeftoverReadFails
  <2>1. pc \notin Owned
    BY <1>2 DEF LeftoverReadFails, Owned, Applied, Credentials, Workloads
  <2>2. Ensured
    BY <2>1 DEF Ensured
  <2> QED
    BY <1>2, <2>2, WorkStep DEF LeftoverReadFails, Writes, Pass
<1>3. ASSUME NEW n \in Owned, ReplyLost(n) PROVE Parts'
  <2>1. pc \notin {"Idle", "Status"}
    BY <1>3, OwnedAreSteps
    DEF ReplyLost, Owned, Applied, Credentials, Workloads
  <2>2. Writes
    BY <1>3 DEF ReplyLost, Writes
  <2> QED
    BY <1>3, <2>1, <2>2, WorkStep DEF ReplyLost, Fail
<1>4. CASE PatchFails \/ Crash
  BY <1>4, ReturnStep DEF PatchFails, Crash, SameCR
<1> QED
  BY <1>1, <1>2, <1>3, <1>4 DEF Failures

LEMMA UserParts ==
    ASSUME TypeOK, Parts, User
    PROVE  Parts'
<1> USE DEF userVars, storeVars, cacheVars, podVars, workerVars, bounds
<1>1. ASSUME NEW s \in Specs, CreateCR(s) PROVE Parts'
  BY <1>1, CreateStep
<1>2. ASSUME NEW s \in Specs, EditSpec(s) PROVE Parts'
  <2>1. SameCR
    BY <1>2 DEF EditSpec, SameCR, TypeOK, CRs
  <2> QED
    BY <1>2, <2>1, QuietStep DEF EditSpec
<1>3. CASE DeleteCR
  BY <1>3, DeleteStep
<1>4. ASSUME NEW o, NEW state, UserChanges(o, state) PROVE Parts'
  BY <1>4, QuietStep DEF UserChanges, SameCR
<1>5. ASSUME NEW n \in Owned, UserDeletes(n) PROVE Parts'
  <2>1. drifts' # 0
    BY <1>5, BoundsAssumption DEF UserDeletes, TypeOK
  <2> QED
    BY <1>5, <2>1, RemoveStep DEF UserDeletes
<1> QED
  BY <1>1, <1>2, <1>3, <1>4, <1>5 DEF User

LEMMA ClusterParts ==
    ASSUME TypeOK, Parts, Cluster
    PROVE  Parts'
<1> USE DEF userVars, storeVars, cacheVars, podVars, workerVars, bounds
<1>1. CASE CRSync
  BY <1>1, CRSyncStep
<1>2. ASSUME NEW kind, Sync(kind) PROVE Parts'
  BY <1>2, SyncStep
<1>3. ASSUME NEW group, GC(group) PROVE Parts'
  <2> DEFINE gone == {n \in group : Orphan(n)}
  <2>1. Remove(gone) /\ \A n \in gone : Orphan(n)
    BY <1>3 DEF GC
  <2>2. /\ cr' = cr /\ drifts' = drifts
        /\ UNCHANGED <<cached, crCache, lastUid, pc, my, failed>>
    BY <1>3 DEF GC
  <2> HIDE DEF gone
  <2> QED
    BY <2>1, <2>2, RemoveStep
<1>4. ASSUME NEW w, PodReady(w) \/ PodStops(w) PROVE Parts'
  BY <1>4, QuietStep DEF PodReady, PodStops, Fault, SameCR
<1>5. CASE PullFails
  BY <1>5, QuietStep DEF PullFails, Fault, SameCR
<1> QED
  BY <1>1, <1>2, <1>3, <1>4, <1>5 DEF Cluster

-----------------------------------------------------------------------------

LEMMA InitParts == Init => Parts
BY DEF Init, Parts, UidsKnown, FreshUntilSeen, CacheTrue, FailedIsOver,
       DoneSoFar, DependenciesFirst

\* The inductive invariant of the reconcile loop.
THEOREM Inductive == Spec => []IInv
<1>1. Init => IInv
  BY InitTypeOK, InitParts DEF IInv, Parts
<1>2. IInv /\ [Next]_vars => IInv'
  <2> SUFFICES ASSUME IInv, [Next]_vars PROVE IInv'
    OBVIOUS
  <2>1. TypeOK /\ Parts
    BY DEF IInv, Parts
  <2>2. TypeOK'
    BY <2>1, TypeStep
  <2>3. Parts'
    <3>1. CASE Next
      BY <2>1, <3>1, ReconcilerParts, FailuresParts, UserParts, ClusterParts
      DEF Next
    <3>2. CASE UNCHANGED vars
      BY <2>1, <3>2, QuietStep
      DEF vars, userVars, storeVars, cacheVars, podVars, workerVars, bounds,
          SameCR
    <3> QED
      BY <3>1, <3>2
  <2> QED
    BY <2>2, <2>3 DEF IInv, Parts
<1> QED
  BY <1>1, <1>2, PTL DEF Spec

\* Operands are created in dependency order: however reconciles fail, crash,
\* work from stale caches or overlap with edits, deletion and recreation of the
\* CR, an operand of the CR is applied only after those it depends on.
THEOREM DependencyOrder == Spec => []DependenciesFirst
<1>1. IInv => DependenciesFirst
  BY DEF IInv
<1> QED
  BY <1>1, Inductive, PTL
=============================================================================
