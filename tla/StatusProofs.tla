---------------------------- MODULE StatusProofs ----------------------------
(***************************************************************************)
(* The status can be believed, for every set of specs and every bound:     *)
(* StatusInv of ReconcileInv is inductive, and the loop implements module  *)
(* Provisioning: every step, taken where the invariants hold, is one of    *)
(* the promise's or leaves Wanted, Built and Says alone.                   *)
(***************************************************************************)
EXTENDS ReconcilePromise, ReconcileProofs

USE DEF Uids, Gens

-----------------------------------------------------------------------------
(* The kinds of step there are.                                             *)

\* A step of ensureAll, failed or not.
Working ==
    /\ pc \notin {"Idle", "Status"}
    /\ Writes
    /\ Advance \/ pc' = "Status"
    /\ UNCHANGED <<cr, crCache, lastUid, my, drifts>>

\* A reconcile that ends without a patch.
GivingUp ==
    /\ Return
    /\ UNCHANGED <<cr, crCache, lastUid, owner, applied, drifts>>

\* The garbage collector.
Collecting ==
    /\ \E gone : Remove(gone) /\ \A n \in gone : Orphan(n)
    /\ UNCHANGED <<cr, crCache, lastUid, pc, my, drifts>>

\* A step that does not concern the CR, the objects or the worker.
Quiet == UNCHANGED <<cr, crCache, lastUid, owner, applied, pc, my, drifts>>

LEMMA ReconcilerKinds ==
    ASSUME Reconciler
    PROVE  Start \/ Working \/ patchStatus
<1> USE DEF userVars, storeVars, cacheVars, bounds
<1>s. /\ {"Idle", "Status"} \cap (Applied \cup Credentials) = {}
      /\ "ProxyAdminToken" \in Credentials
  BY DEF Applied, Credentials, Workloads
<1>1. ASSUME NEW n \in Applied, ApplyStep(n) PROVE Working
  BY <1>1, <1>s DEF ApplyStep, Working, Writes, Pass
<1>2. ASSUME NEW n \in Credentials, EnsureCredential(n) PROVE Working
  BY <1>2, <1>s DEF EnsureCredential, Working, Writes, Pass, Fail
<1>3. CASE EnsureProxyAdminToken
  BY <1>3, <1>s DEF EnsureProxyAdminToken, Working, Writes, Pass, Fail
<1>4. CASE CheckUserTLS
  BY <1>4 DEF CheckUserTLS, Working, Writes, Pass, Fail
<1>5. CASE CheckLeftover
  BY <1>5 DEF CheckLeftover, Working, Writes
<1>6. CASE LoadWorkloadInputs
  BY <1>6 DEF LoadWorkloadInputs, Working, Writes, Pass, Fail
<1> QED
  BY <1>1, <1>2, <1>3, <1>4, <1>5, <1>6 DEF Reconciler

LEMMA FailuresKinds ==
    ASSUME Failures
    PROVE  Working \/ GivingUp
<1> USE DEF Fault, userVars, storeVars, cacheVars
<1>1. CASE CallFails
  BY <1>1 DEF CallFails, Working, Writes, Fail
<1>2. CASE LeftoverReadFails
  BY <1>2 DEF LeftoverReadFails, Working, Writes, Pass
<1>3. ASSUME NEW n \in Owned, ReplyLost(n) PROVE Working
  <2>1. n \notin {"Idle", "Status"}
    BY DEF Owned, Applied, Credentials, Workloads
  <2> QED
    BY <1>3, <2>1 DEF ReplyLost, Working, Writes, Fail
<1>4. CASE PatchFails \/ Crash
  BY <1>4 DEF PatchFails, Crash, GivingUp
<1> QED
  BY <1>1, <1>2, <1>3, <1>4 DEF Failures

LEMMA ClusterKinds ==
    ASSUME Cluster
    PROVE  CRSync \/ Collecting \/ Quiet
<1> USE DEF userVars, storeVars, cacheVars, podVars, workerVars, bounds
<1>1. ASSUME NEW kind, Sync(kind) PROVE Quiet
  BY <1>1 DEF Sync, Quiet
<1>2. ASSUME NEW group, GC(group) PROVE Collecting
  <2> DEFINE gone == {n \in group : Orphan(n)}
  <2>1. Remove(gone)
    BY <1>2 DEF GC
  <2>2. \A n \in gone : Orphan(n)
    OBVIOUS
  <2> HIDE DEF gone
  <2> QED
    BY <1>2, <2>1, <2>2 DEF GC, Collecting
<1>3. ASSUME NEW w, PodReady(w) \/ PodStops(w) PROVE Quiet
  BY <1>3 DEF PodReady, PodStops, Fault, Quiet
<1>4. CASE PullFails
  BY <1>4 DEF PullFails, Fault, Quiet
<1> QED
  BY <1>1, <1>2, <1>3, <1>4 DEF Cluster

\* What a step may be, as far as status and operands can tell.
LEMMA StepKinds ==
    ASSUME [Next]_vars
    PROVE  \/ Start \/ Working \/ patchStatus \/ GivingUp
           \/ \E s \in Specs : CreateCR(s) \/ EditSpec(s)
           \/ DeleteCR
           \/ \E n \in Owned : UserDeletes(n)
           \/ CRSync \/ Collecting \/ Quiet
<1> USE DEF userVars, storeVars, cacheVars, workerVars, bounds
<1>1. ASSUME NEW o, NEW state, UserChanges(o, state) PROVE Quiet
  BY <1>1 DEF UserChanges, Quiet
<1>2. ASSUME UNCHANGED vars PROVE Quiet
  BY <1>2 DEF vars, Quiet
<1> QED
  BY <1>1, <1>2, ReconcilerKinds, FailuresKinds, ClusterKinds DEF Next, User

-----------------------------------------------------------------------------
(* The worker keeps to the plan of its spec.                                *)

LEMMA EndsArePlanned ==
    ASSUME NEW s \in Specs
    PROVE  "ServiceAccount" \in Plan[s] /\ "Status" \in Plan[s]
BY StepsAreNamed DEF Plan, StepsOf, Skipped, Unless

LEMMA StepIsPlannedStep ==
    ASSUME TypeOK, StepIsPlanned, [Next]_vars
    PROVE  StepIsPlanned'
<1> USE DEF userVars, storeVars, cacheVars, workerVars, bounds
<1>1. CASE Start
  BY <1>1, EndsArePlanned DEF Start, StepIsPlanned, TypeOK, CRs
<1>2. CASE Working
  <2>1. my \in CRs /\ my' = my
    BY <1>2 DEF Working, TypeOK
  <2>2. "Status" \in Plan[my.spec]
    BY <2>1, EndsArePlanned DEF CRs
  <2> QED
    BY <1>2, <2>1, <2>2 DEF Working, Advance, StepIsPlanned
<1>3. CASE patchStatus \/ GivingUp
  BY <1>3 DEF patchStatus, GivingUp, Return, StepIsPlanned
<1>4. ASSUME UNCHANGED <<pc, my>> PROVE StepIsPlanned'
  BY <1>4 DEF StepIsPlanned
<1>5. ASSUME NEW s, CreateCR(s) \/ EditSpec(s) PROVE UNCHANGED <<pc, my>>
  BY <1>5 DEF CreateCR, EditSpec
<1>6. ASSUME NEW n, UserDeletes(n) PROVE UNCHANGED <<pc, my>>
  BY <1>6 DEF UserDeletes
<1>7. CASE DeleteCR \/ CRSync \/ Collecting \/ Quiet
  BY <1>4, <1>7 DEF DeleteCR, CRSync, Collecting, Quiet
<1> QED
  BY <1>1, <1>2, <1>3, <1>4, <1>5, <1>6, <1>7, StepKinds

-----------------------------------------------------------------------------
(* The copies of the first CR.                                              *)

\* While the first CR is there, everybody works from it.
LEMMA OnlyFirst ==
    ASSUME TypeOK, Parts, FirstCR
    PROVE  /\ cr \in CRs
           /\ crCache # None => crCache \in CRs /\ crCache.uid = 1
           /\ pc # "Idle" => my \in CRs /\ my.uid = 1
<1>1. lastUid = 1 /\ cr \in CRs
  BY DEF FirstCR, Parts, UidsKnown, TypeOK
<1>2. ASSUME NEW c \in CRs, c.uid <= lastUid PROVE c.uid = 1
  BY <1>1, <1>2, BoundsAssumption DEF CRs
<1> QED
  BY <1>1, <1>2 DEF Parts, UidsKnown, TypeOK

LEMMA GensAreNumbers ==
    ASSUME NEW c \in CRs
    PROVE  /\ c.gen \in Nat /\ c.gen >= 1 /\ c.spec \in Specs /\ c.status \in Status
           /\ c.status.observedGeneration \in Nat
<1>1. c.gen \in 1 .. MaxGen /\ c.spec \in Specs /\ c.status \in Status
  BY DEF CRs
<1>2. c.status.observedGeneration \in 0 .. MaxGen
  BY <1>1 DEF Status
<1> QED
  BY <1>1, <1>2, BoundsAssumption

LEMMA NoStatusFields ==
    NoStatus.observedGeneration = 0 /\ NoStatus.conditions = None
BY DEF NoStatus

\* The patch, field by field: the generation is what was reconciled, and the
\* conditions are the worker's or what was there.
LEMMA PatchedStatus ==
    ASSUME TypeOK, Parts, CopiesInOrder, FirstCR, pc # "Idle",
           NEW sent \in BOOLEAN,
           NEW st, st = MergePatch(cr.status, my.status, NewStatus, sent)
    PROVE  /\ st \in Status
           /\ st.observedGeneration = my.gen
           /\ st.conditions = NewConditions \/ st.conditions = cr.status.conditions
           /\ st.conditions # None /\ st.conditions.gen = my.gen
<1>1. cr \in CRs /\ my \in CRs
  BY OnlyFirst
<1>2. cr.status \in Status /\ my.status \in Status /\ NewStatus \in Status
  BY <1>1, GensAreNumbers, NewStatusType
<1>3. st \in Status
  BY <1>2, MergePatchType
<1>4. /\ my.gen \in Nat /\ my.gen >= 1
      /\ my.status.observedGeneration \in Nat
      /\ cr.status.observedGeneration \in Nat
  BY <1>1, GensAreNumbers
<1>5. /\ NewStatus.observedGeneration = my.gen
      /\ NewStatus.conditions = NewConditions
      /\ NewConditions.gen = my.gen
      /\ NewConditions # None
  BY <1>1, ConditionsType, NoneAssumption
  DEF NewStatus, StatusOf, NewConditions, ConditionsOf
<1>6. /\ Coherent(cr.status) /\ Coherent(my.status)
      /\ my.status.observedGeneration <= cr.status.observedGeneration
      /\ cr.status.observedGeneration <= my.gen
  BY DEF CopiesInOrder, CopyOfCR
<1>7. /\ st.observedGeneration =
             IF my.gen = my.status.observedGeneration
             THEN cr.status.observedGeneration ELSE my.gen
      /\ st.conditions =
             IF sent \/ NewConditions # my.status.conditions
             THEN NewConditions ELSE cr.status.conditions
  BY <1>5 DEF MergePatch, MergeField
<1>8. st.observedGeneration = my.gen
  BY <1>4, <1>6, <1>7
<1>9. CASE sent \/ NewConditions # my.status.conditions
  BY <1>3, <1>5, <1>7, <1>8, <1>9
<1>10. CASE ~sent /\ NewConditions = my.status.conditions
  <2>1. /\ my.status # NoStatus
        /\ my.status.conditions.gen = my.status.observedGeneration
    BY <1>5, <1>6, <1>10, NoStatusFields DEF Coherent
  <2>2. my.status.observedGeneration = my.gen
    BY <1>5, <1>10, <2>1
  <2>3. cr.status.observedGeneration = my.gen /\ my.gen # 0
    BY <1>4, <1>6, <2>2
  <2>4. cr.status # NoStatus
    BY <2>3, NoStatusFields
  <2>5. cr.status.conditions # None /\ cr.status.conditions.gen = my.gen
    BY <1>6, <2>3, <2>4 DEF Coherent
  <2> QED
    BY <1>3, <1>7, <1>8, <1>10, <2>5
<1> QED
  BY <1>9, <1>10

\* Nobody's copy changes, or a reconcile ends.
LEMMA CopiesStay ==
    ASSUME CopiesInOrder, cr' = cr, crCache' = crCache,
           pc' = "Idle" \/ (pc # "Idle" /\ my' = my)
    PROVE  CopiesInOrder'
BY DEF CopiesInOrder, FirstCR, CopyOfCR, Coherent

LEMMA CopiesPatched ==
    ASSUME TypeOK, Parts, CopiesInOrder, patchStatus
    PROVE  CopiesInOrder'
<1> USE DEF cacheVars
<1>1. CASE cr = None
  BY <1>1, CopiesStay DEF patchStatus, Return, cacheVars
<1>2. CASE cr # None
  <2>1. PICK sent \in SentAnyway :
          cr' = [cr EXCEPT !.status =
                    MergePatch(cr.status, my.status, NewStatus, sent)]
    BY <1>2 DEF patchStatus
  <2> SUFFICES ASSUME FirstCR' PROVE CopiesInOrder'
    BY DEF CopiesInOrder
  <2> DEFINE st == MergePatch(cr.status, my.status, NewStatus, sent)
  <2>2. cr \in CRs
    BY <1>2 DEF TypeOK
  <2>3. /\ cr'.uid = cr.uid /\ cr'.gen = cr.gen /\ cr'.spec = cr.spec
        /\ cr'.status = st
    BY <2>1, <2>2 DEF CRs
  <2>4. FirstCR
    BY <1>2, <2>3 DEF FirstCR
  <2>5. pc # "Idle" /\ sent \in BOOLEAN
    BY DEF patchStatus, SentAnyway
  <2>6. /\ st.observedGeneration = my.gen
        /\ st.conditions # None /\ st.conditions.gen = my.gen
    BY <2>4, <2>5, PatchedStatus
  <2> HIDE DEF st
  <2>7. crCache # None /\ crCache \in CRs /\ my \in CRs
    BY <2>4, <2>5, OnlyFirst DEF CopiesInOrder
  <2>8. /\ crCache.status.observedGeneration <= cr.status.observedGeneration
        /\ cr.status.observedGeneration <= my.gen
        /\ my.gen <= crCache.gen
        /\ crCache.gen <= cr.gen
        /\ crCache.gen = cr.gen => crCache.spec = cr.spec
        /\ Coherent(crCache.status)
    BY <2>4, <2>5, <2>7 DEF CopiesInOrder, CopyOfCR
  <2>9. Coherent(cr'.status)
    BY <2>3, <2>6 DEF Coherent
  <2>10. pc' = "Idle" /\ crCache' = crCache
    BY DEF patchStatus, Return
  <2>11. crCache.status.observedGeneration <= my.gen
    BY <2>2, <2>7, <2>8, GensAreNumbers
  <2>12. CopyOfCR(crCache)'
    BY <2>3, <2>6, <2>8, <2>10, <2>11 DEF CopyOfCR, Coherent
  <2> QED
    BY <2>3, <2>6, <2>7, <2>8, <2>9, <2>10, <2>12 DEF CopiesInOrder
<1> QED
  BY <1>1, <1>2

\* The user's steps: a CR of uid 1 is the first, and an edit moves only it.
LEMMA CopiesCreated ==
    ASSUME TypeOK, Parts, CopiesInOrder, NEW s \in Specs, CreateCR(s)
    PROVE  CopiesInOrder'
<1> USE DEF cacheVars, workerVars
<1> SUFFICES ASSUME FirstCR' PROVE CopiesInOrder'
  BY DEF CopiesInOrder
<1>1. lastUid = 0 /\ cr'.status = NoStatus
  BY DEF FirstCR, CreateCR, TypeOK
<1>2. crCache = None
  BY <1>1, BoundsAssumption DEF Parts, UidsKnown, TypeOK, CRs
<1>3. pc = "Idle"
  BY <1>1, BoundsAssumption DEF Parts, UidsKnown, TypeOK, CRs
<1> QED
  BY <1>1, <1>2, <1>3 DEF CreateCR, CopiesInOrder, Coherent

LEMMA CopiesEdited ==
    ASSUME TypeOK, Parts, CopiesInOrder, NEW s \in Specs, EditSpec(s)
    PROVE  CopiesInOrder'
<1> USE DEF cacheVars, workerVars
<1>1. cr \in CRs /\ cr # None
  BY DEF EditSpec, TypeOK
<1>2. /\ cr'.uid = cr.uid /\ cr'.gen = cr.gen + 1
      /\ cr'.status = cr.status
      /\ crCache' = crCache /\ pc' = pc /\ my' = my
  BY <1>1 DEF EditSpec, CRs
<1>3. ASSUME FirstCR, NEW c \in CRs, CopyOfCR(c), c' = c
      PROVE  CopyOfCR(c)'
  BY <1>1, <1>2, <1>3, GensAreNumbers DEF CopyOfCR, Coherent
<1> SUFFICES ASSUME FirstCR' PROVE CopiesInOrder'
  BY DEF CopiesInOrder
<1>4. FirstCR
  BY <1>1, <1>2 DEF FirstCR
<1>5. crCache # None => CopyOfCR(crCache)'
  BY <1>2, <1>3, <1>4, OnlyFirst DEF CopiesInOrder
<1>6. pc # "Idle" => CopyOfCR(my)'
  BY <1>2, <1>3, <1>4, OnlyFirst DEF CopiesInOrder
<1> QED
  BY <1>2, <1>4, <1>5, <1>6 DEF CopiesInOrder, Coherent

LEMMA CopiesStarted ==
    ASSUME TypeOK, Parts, CopiesInOrder, Start
    PROVE  CopiesInOrder'
<1> USE DEF cacheVars
<1>1. cr' = cr /\ crCache' = crCache /\ my' = crCache /\ crCache # None
  BY DEF Start
<1>2. crCache \in CRs
  BY <1>1 DEF TypeOK
<1>3. crCache.gen <= crCache.gen
  BY <1>2, GensAreNumbers
<1> QED
  BY <1>1, <1>3 DEF CopiesInOrder, FirstCR, CopyOfCR, Coherent

LEMMA CopiesSynced ==
    ASSUME TypeOK, Parts, CopiesInOrder, CRSync
    PROVE  CopiesInOrder'
<1> USE DEF workerVars
<1>1. cr' = cr /\ crCache' = cr /\ pc' = pc /\ my' = my
  BY DEF CRSync
<1> SUFFICES ASSUME FirstCR PROVE CopiesInOrder'
  BY <1>1 DEF CopiesInOrder, FirstCR
<1>2. cr \in CRs /\ (crCache # None => crCache \in CRs) /\ (pc # "Idle" => my \in CRs)
  BY OnlyFirst
<1>3. cr.status.observedGeneration <= cr.gen
  <2>1. CASE crCache = None
    BY <1>2, <2>1, GensAreNumbers, NoStatusFields DEF CopiesInOrder
  <2>2. CASE crCache # None
    BY <1>2, <2>2, GensAreNumbers DEF CopiesInOrder, CopyOfCR
  <2> QED
    BY <2>1, <2>2
<1>4. CopyOfCR(cr) /\ Coherent(cr.status)
  BY <1>2, GensAreNumbers DEF CopiesInOrder, CopyOfCR
<1>5. pc # "Idle" => /\ CopyOfCR(my) /\ my.gen <= cr.gen
                     /\ cr.status.observedGeneration <= my.gen
  BY DEF CopiesInOrder, CopyOfCR
<1> QED
  BY <1>1, <1>3, <1>4, <1>5 DEF CopiesInOrder, FirstCR, CopyOfCR, Coherent

LEMMA CopiesStep ==
    ASSUME TypeOK, Parts, CopiesInOrder, [Next]_vars
    PROVE  CopiesInOrder'
<1> USE DEF storeVars, cacheVars, workerVars
<1>1. ASSUME UNCHANGED <<cr, crCache, pc, my>> PROVE CopiesInOrder'
  BY <1>1 DEF CopiesInOrder, FirstCR, CopyOfCR, Coherent
<1>2. CASE Working
  <2>1. pc # "Idle" /\ my' = my
    BY <1>2 DEF Working
  <2> QED
    BY <1>2, <2>1, CopiesStay DEF Working
<1>3. CASE GivingUp
  BY <1>3, CopiesStay DEF GivingUp, Return
<1>4. CASE DeleteCR
  BY <1>4 DEF DeleteCR, CopiesInOrder, FirstCR
<1>5. ASSUME NEW n \in Owned, UserDeletes(n) PROVE CopiesInOrder'
  BY <1>1, <1>5 DEF UserDeletes
<1>6. CASE Collecting \/ Quiet
  BY <1>1, <1>6 DEF Collecting, Quiet
<1> QED
  BY <1>2, <1>3, <1>4, <1>5, <1>6, StepKinds, CopiesStarted, CopiesPatched,
     CopiesCreated, CopiesEdited, CopiesSynced

-----------------------------------------------------------------------------
(* Ready means in place.                                                    *)

\* While the status says so, a worker has the CR's present spec.
LEMMA ReadyIsPresent ==
    ASSUME TypeOK, Parts, CopiesInOrder, FirstCR, SaysReady, pc # "Idle"
    PROVE  my.spec = cr.spec /\ my.uid = cr.uid
<1>1. cr \in CRs /\ my \in CRs /\ my.uid = cr.uid
  BY OnlyFirst DEF FirstCR
<1>2. cr.status # NoStatus
  BY NoStatusFields DEF SaysReady
<1>3. cr.status.observedGeneration = cr.gen
  BY <1>2 DEF CopiesInOrder, Coherent, SaysReady
<1>4. cr.status.observedGeneration <= my.gen /\ CopyOfCR(my)
  BY DEF CopiesInOrder
<1>5. my.gen = cr.gen
  BY <1>1, <1>3, <1>4, GensAreNumbers DEF CopyOfCR
<1> QED
  BY <1>1, <1>4, <1>5 DEF CopyOfCR

\* A worker that comes to the status without an error has built everything.
LEMMA AllDone ==
    ASSUME TypeOK, Parts, FirstCR, drifts = 0, pc = "Status", ~failed
    PROVE  InPlace(my.spec)
<1>1. my.uid = 1 /\ my \in CRs
  BY OnlyFirst
<1> SUFFICES ASSUME NEW m \in Operands(my.spec)
             PROVE  owner[m] = cr.uid /\ (m \in Applied => applied[m] = my.spec)
  BY DEF InPlace
<1>2. m \in StepNames /\ m # "Status"
  BY StepsAreNamed DEF Operands, Owned, Applied, Credentials, Workloads
<1>3. Pos[m] < Pos["Status"]
  BY <1>2, LastStep
<1> QED
  BY <1>1, <1>3 DEF Parts, DoneSoFar, FirstCR, Guaranteed

LEMMA ReadyPatched ==
    ASSUME TypeOK, Parts, CopiesInOrder, ReadyMeansInPlace, patchStatus
    PROVE  ReadyMeansInPlace'
<1> USE DEF storeVars, bounds
<1> SUFFICES ASSUME cr' # None, cr'.uid = 1, drifts' = 0, SaysReady'
             PROVE  InPlace(cr.spec)'
  BY DEF ReadyMeansInPlace
<1>1. cr # None
  BY DEF patchStatus
<1>2. PICK sent \in SentAnyway :
        cr' = [cr EXCEPT !.status =
                  MergePatch(cr.status, my.status, NewStatus, sent)]
  BY <1>1 DEF patchStatus
<1> DEFINE st == MergePatch(cr.status, my.status, NewStatus, sent)
<1>3. cr \in CRs
  BY <1>1 DEF TypeOK
<1>4. cr'.uid = cr.uid /\ cr'.gen = cr.gen /\ cr'.spec = cr.spec /\ cr'.status = st
  BY <1>2, <1>3 DEF CRs
<1>5. FirstCR /\ pc = "Status" /\ sent \in BOOLEAN /\ drifts = 0
      /\ owner' = owner /\ applied' = applied
  BY <1>1, <1>4 DEF FirstCR, patchStatus, SentAnyway
<1>6. /\ st.conditions = NewConditions \/ st.conditions = cr.status.conditions
      /\ st.conditions.gen = my.gen
  BY <1>5, PatchedStatus
<1> HIDE DEF st
<1>7. InPlace(cr.spec)
  <2>1. CASE st.conditions = cr.status.conditions
    BY <1>1, <1>4, <1>5, <2>1 DEF SaysReady, ReadyMeansInPlace, FirstCR
  <2>2. CASE st.conditions = NewConditions
    <3>1. my.gen = cr.gen
      BY <1>4, <1>6 DEF SaysReady
    <3>2. my.spec = cr.spec
      BY <1>5, <3>1 DEF CopiesInOrder, CopyOfCR
    <3>3. NewConditions.ready = Ready(Desire[my.spec])
      BY DEF NewConditions, ConditionsOf
    <3>4. ~failed
      BY <1>4, <2>2, <3>3 DEF SaysReady, Ready
    <3> QED
      BY <1>5, <3>2, <3>4, AllDone
  <2> QED
    BY <1>6, <2>1, <2>2
<1> QED
  BY <1>4, <1>5, <1>7 DEF InPlace

\* Building again what is in place does not disturb it.
LEMMA ReadyWorking ==
    ASSUME TypeOK, Parts, CopiesInOrder, ReadyMeansInPlace, Working
    PROVE  ReadyMeansInPlace'
<1> SUFFICES ASSUME FirstCR, drifts = 0, SaysReady, NEW m \in Operands(cr.spec)
             PROVE  /\ owner'[m] = cr.uid
                    /\ m \in Applied => applied'[m] = cr.spec
  BY DEF ReadyMeansInPlace, InPlace, Working, SaysReady, FirstCR
<1>1. owner[m] = cr.uid /\ (m \in Applied => applied[m] = cr.spec)
  BY DEF ReadyMeansInPlace, InPlace, FirstCR
<1>2. pc # "Idle" /\ Writes
  BY DEF Working
<1>3. my.spec = cr.spec /\ my.uid = cr.uid
  BY <1>2, ReadyIsPresent
<1>4. m \in Owned
  BY DEF Operands
<1> QED
  BY <1>1, <1>2, <1>3, <1>4 DEF Writes, Apply, Create, TypeOK

\* An edit makes every claim one of a former generation.
LEMMA EditIsUnclaimed ==
    ASSUME TypeOK, Parts, CopiesInOrder, NEW s, EditSpec(s), FirstCR
    PROVE  ~SaysReady'
<1>1. cr \in CRs /\ cr # None
  BY DEF EditSpec, TypeOK
<1>2. cr'.gen = cr.gen + 1 /\ cr'.status = cr.status
  BY <1>1 DEF EditSpec, CRs
<1> SUFFICES ASSUME SaysReady' PROVE FALSE
  OBVIOUS
<1>3. cr.status # NoStatus
  BY <1>2, NoStatusFields DEF SaysReady
<1>4. cr.status.observedGeneration = cr.gen + 1
  BY <1>2, <1>3 DEF CopiesInOrder, Coherent, SaysReady
<1>5. crCache # None /\ crCache \in CRs
  BY <1>3, OnlyFirst DEF CopiesInOrder
<1>6. cr.status.observedGeneration <= crCache.gen /\ crCache.gen <= cr.gen
  BY <1>5 DEF CopiesInOrder, CopyOfCR
<1> QED
  BY <1>1, <1>4, <1>5, <1>6, GensAreNumbers

LEMMA ReadyEdited ==
    ASSUME TypeOK, Parts, CopiesInOrder, ReadyMeansInPlace, NEW s, EditSpec(s)
    PROVE  ReadyMeansInPlace'
<1>1. cr \in CRs /\ cr # None
  BY DEF EditSpec, TypeOK
<1>2. cr'.uid = cr.uid
  BY <1>1 DEF EditSpec, CRs
<1> QED
  BY <1>1, <1>2, EditIsUnclaimed DEF ReadyMeansInPlace, FirstCR

\* Only orphans are collected.
LEMMA ReadyCollecting ==
    ASSUME TypeOK, ReadyMeansInPlace, Collecting
    PROVE  ReadyMeansInPlace'
<1> SUFFICES ASSUME FirstCR, drifts = 0, SaysReady, NEW m \in Operands(cr.spec)
             PROVE  /\ owner'[m] = cr.uid
                    /\ m \in Applied => applied'[m] = cr.spec
  BY DEF ReadyMeansInPlace, InPlace, Collecting, SaysReady, FirstCR
<1>1. owner[m] = cr.uid /\ (m \in Applied => applied[m] = cr.spec)
  BY DEF ReadyMeansInPlace, InPlace, FirstCR
<1>2. PICK gone : Remove(gone) /\ \A n \in gone : Orphan(n)
  BY DEF Collecting
<1>3. m \notin gone
  BY <1>1, <1>2 DEF Orphan, FirstCR
<1>4. m \in Owned
  BY DEF Operands
<1> QED
  BY <1>1, <1>2, <1>3, <1>4 DEF Remove

LEMMA ReadyStep ==
    ASSUME TypeOK, Parts, CopiesInOrder, ReadyMeansInPlace, [Next]_vars
    PROVE  ReadyMeansInPlace'
<1> USE DEF storeVars, bounds
<1>1. ASSUME UNCHANGED <<cr, owner, applied, drifts>> PROVE ReadyMeansInPlace'
  BY <1>1 DEF ReadyMeansInPlace, InPlace, SaysReady
<1>2. ASSUME NEW s, CreateCR(s) PROVE ReadyMeansInPlace'
  <2>1. cr'.status = NoStatus
    BY <1>2 DEF CreateCR
  <2> QED
    BY <2>1, NoStatusFields DEF ReadyMeansInPlace, SaysReady
<1>3. CASE DeleteCR
  BY <1>3 DEF DeleteCR, ReadyMeansInPlace
<1>4. ASSUME NEW n \in Owned, UserDeletes(n) PROVE ReadyMeansInPlace'
  <2>1. drifts' # 0
    BY <1>4, BoundsAssumption DEF UserDeletes, TypeOK
  <2> QED
    BY <2>1 DEF ReadyMeansInPlace
<1>5. CASE Start \/ CRSync \/ GivingUp \/ Quiet
  BY <1>1, <1>5 DEF Start, CRSync, GivingUp, Quiet
<1> QED
  BY <1>2, <1>3, <1>4, <1>5, StepKinds, ReadyPatched, ReadyWorking,
     ReadyEdited, ReadyCollecting

-----------------------------------------------------------------------------

\* The copies of the CR stay in order, and Ready is claimed of what is built.
THEOREM StatusInductive == Spec => []StatusInv
<1>1. Init => StatusInv
  BY DEF Init, StatusInv, CopiesInOrder, StepIsPlanned, ReadyMeansInPlace, FirstCR
<1>2. IInv /\ StatusInv /\ [Next]_vars => StatusInv'
  <2> SUFFICES ASSUME IInv, StatusInv, [Next]_vars PROVE StatusInv'
    OBVIOUS
  <2>1. TypeOK /\ Parts
    BY DEF IInv, Parts
  <2> QED
    BY <2>1, StepIsPlannedStep, CopiesStep, ReadyStep DEF StatusInv
<1> QED
  BY <1>1, <1>2, Inductive, PTL DEF Spec

\* Ready=True with the CR's generation means that every operand belongs to the
\* CR and is as its spec has it, however stale the copies were from which the
\* status was patched, and whatever reconciles did since.
THEOREM ReadyIsTrue == Spec => []ReadyMeansInPlace
<1>1. StatusInv => ReadyMeansInPlace
  BY DEF StatusInv
<1> QED
  BY <1>1, StatusInductive, PTL

\* Merge patches from stale copies never mix two generations: conditions and
\* observedGeneration come from one reconcile, of a generation the CR has had.
THEOREM StatusStaysCoherent == Spec => []StatusCoherent
<1>1. IInv /\ StatusInv => StatusCoherent
  <2> SUFFICES ASSUME IInv, StatusInv, FirstCR, cr.status # NoStatus
               PROVE  /\ cr.status.conditions # None
                      /\ cr.status.conditions.gen = cr.status.observedGeneration
                      /\ cr.status.observedGeneration <= cr.gen
    BY DEF StatusCoherent, FirstCR
  <2>1. TypeOK /\ Parts /\ CopiesInOrder
    BY DEF IInv, Parts, StatusInv
  <2>2. crCache # None /\ crCache \in CRs /\ cr \in CRs
    BY <2>1, OnlyFirst DEF CopiesInOrder
  <2>3. cr.status.observedGeneration <= crCache.gen /\ crCache.gen <= cr.gen
    BY <2>1, <2>2 DEF CopiesInOrder, CopyOfCR
  <2> QED
    BY <2>1, <2>2, <2>3, GensAreNumbers DEF CopiesInOrder, Coherent
<1> QED
  BY <1>1, StatusInductive, Inductive, PTL

-----------------------------------------------------------------------------
(* The needs of pods and the order of the steps.                            *)

\* Everything a pod cannot start without comes before its workload.
LEMMA NeedsComeFirst ==
    ASSUME NEW s \in Specs, NEW n \in Operands(s), NEW m \in OperandNeeds[s][n]
    PROVE  m \in Operands(s) /\ Pos[m] < Pos[n]
<1> DEFINE d == Desire[s]
<1>1. /\ n \in Owned
      /\ m \in Operands(s) /\ m \in Owned /\ Object(d, m) \in PodNeeds(d, n)
  BY DEF OperandNeeds, Operands
<1>2. CASE n = "Deployment"
  <2>1. Object(d, m)[1] \in Loadable
    BY <1>1, <1>2, DeploymentLoads DEF PodNeeds
  <2>2. m \notin {"Deployment", "EngineService", "GatewayService",
                  "UIService", "Ingress", "APMENetworkPolicy"}
    BY <2>1, LaterIsNotLoaded
  <2> QED
    BY <1>1, <1>2, <2>2, PosIs DEF Owned, Applied, Credentials, Workloads
<1>3. CASE n = "StatefulSet"
  <2>1. d.GeneratePostgres
    BY <1>3 DEF Operands, Plan, StepsOf, Skipped, Unless
  <2>2. d.DatabaseSecretName = "-postgres" /\ d.ProxyAdminTokenName = "-proxy-admin"
    BY <2>1 DEF Desire, From, External, OrDefault
  <2>3. d.PostgresTLSSecretName \in {"-postgres-tls"} \cup UserObjects
    <3> DEFINE tls == Content[s].postgresTLS
    <3>1. /\ d.GeneratePostgresTLS = (~External(Content[s]) /\ tls = "")
          /\ d.GeneratePostgres = ~External(Content[s])
          /\ ~External(Content[s]) =>
                 d.PostgresTLSSecretName = IF tls = "" THEN "-postgres-tls" ELSE tls
      BY DEF Desire, From, OrDefault, GenerateTLS
    <3>2. ~d.GeneratePostgresTLS => d.PostgresTLSSecretName \in UserObjects
      BY <2>1, SpecsAssumption
    <3> QED
      BY <2>1, <3>1, <3>2
  <2>4. Object(d, m) \in StatefulSetNeeds(d)
    BY <1>1, <1>3 DEF PodNeeds
  <2>5. m \in {"PostgresTLS", "PostgresSecret", "SSLConfigMap"}
    BY <1>1, <2>2, <2>3, <2>4, NamesAssumption
    DEF Object, StatefulSetNeeds, Owned, Applied, Credentials, Workloads
  <2> QED
    BY <1>1, <1>3, <2>5, PosIs
<1>4. CASE n \notin {"Deployment", "StatefulSet"}
  BY <1>1, <1>4 DEF PodNeeds
<1> QED
  BY <1>2, <1>3, <1>4

-----------------------------------------------------------------------------
(* Every step is one of the promise's, or leaves it alone.                  *)

Invariant == TypeOK /\ Parts /\ StatusInv /\ drifts = 0

PromiseStep == Promise!Next \/ UNCHANGED <<Wanted, Built, Says>>

LEMMA PromiseInit ==
    ASSUME Init
    PROVE  Promise!Init
BY DEF Init, Promise!Init, Wanted, Built, Says, FirstCR

\* What is seen of the objects depends on owner and applied.
LEMMA BuiltStays ==
    ASSUME UNCHANGED <<owner, applied>>
    PROVE  UNCHANGED Built
BY DEF Built

LEMMA PromiseStays ==
    ASSUME UNCHANGED <<cr, owner, applied>>
    PROVE  PromiseStep
BY BuiltStays DEF PromiseStep, Wanted, Says, FirstCR, SaysReady

\* The first CR is built from the worker's copy, on top of what that copy asks
\* for before.
LEMMA WorkIsBuild ==
    ASSUME Invariant, Working, ~failed, my.uid = 1,
           NEW n \in Owned, n = pc,
           owner' = [owner EXCEPT ![n] = 1],
           \/ n \in Applied /\ applied' = [applied EXCEPT ![n] = my.spec]
           \/ n \in Credentials /\ applied' = applied /\ owner[n] = 0
    PROVE  Promise!Build(n, my.spec)
<1>1. my \in CRs /\ my.spec \in Specs /\ pc # "Idle" /\ cr' = cr
  BY DEF Invariant, Working, TypeOK, CRs
<1>2. n \in Operands(my.spec)
  BY <1>1 DEF Invariant, StatusInv, StepIsPlanned, Operands
<1>3. n \in OperandsAsked[my.spec]
  BY <1>1, <1>2 DEF OperandsAsked
<1>4. n \in Credentials => Built[n] = None
  BY DEF Built, Applied, Workloads, Credentials
<1>5. ASSUME Wanted # None, NEW m \in OperandNeeds[my.spec][n]
      PROVE  Promise!InPlace(m, my.spec)
  <2>1. FirstCR
    BY <1>5 DEF Wanted
  <2>2. m \in Operands(my.spec) /\ Pos[m] < Pos[n] /\ m \in Owned
    BY <1>1, <1>2, <1>5, NeedsComeFirst DEF Operands
  <2>3. owner[m] = 1 /\ (m \in Applied => applied[m] = my.spec)
    BY <1>1, <2>1, <2>2
    DEF Invariant, Parts, DoneSoFar, FirstCR, Guaranteed
  <2> QED
    BY <2>2, <2>3 DEF Promise!InPlace, Built, Owned
<1>6. Says => my.spec = Wanted
  BY <1>1, ReadyIsPresent DEF Invariant, StatusInv, Says, Wanted
<1>7. Built' = [Built EXCEPT ![n] = IF n \in Credentials THEN "made" ELSE my.spec]
  BY DEF Built, Invariant, TypeOK, Applied, Workloads, Credentials
<1>8. UNCHANGED <<Wanted, Says>>
  BY <1>1 DEF Wanted, Says, FirstCR, SaysReady
<1> QED
  BY <1>3, <1>4, <1>5, <1>6, <1>7, <1>8 DEF Promise!Build

\* A later CR takes over what was built for the first, which is gone.
LEMMA LaterTakesAway ==
    ASSUME Invariant, ~FirstCR, UNCHANGED cr,
           \A n \in Owned :
               owner'[n] # 1 \/ (owner'[n] = owner[n] /\ applied'[n] = applied[n])
    PROVE  Promise!TakeAway
<1>1. Wanted = None /\ UNCHANGED <<Wanted, Says>>
  BY DEF Wanted, Says, FirstCR, SaysReady
<1>2. Built' = [n \in Owned |-> IF Built'[n] = None THEN None ELSE Built[n]]
  <2>1. \A n \in Owned : Built'[n] = IF Built'[n] = None THEN None ELSE Built[n]
    BY DEF Built
  <2> DEFINE taken == [n \in Owned |-> IF Built'[n] = None THEN None ELSE Built[n]]
  <2>2. \A n \in Owned : Built'[n] = taken[n]
    BY <2>1
  <2>3. Built' = [n \in Owned |-> Built'[n]] /\ taken = [n \in Owned |-> taken[n]]
    BY DEF Built
  <2> QED
    BY <2>2, <2>3
<1> QED
  BY <1>1, <1>2 DEF Promise!TakeAway

LEMMA PromiseWorking ==
    ASSUME Invariant, Working
    PROVE  PromiseStep
<1>1. my \in CRs /\ ~failed /\ cr' = cr /\ Writes
  BY DEF Invariant, Working, Parts, FailedIsOver, TypeOK
<1>2. CASE UNCHANGED <<owner, applied>>
  BY <1>1, <1>2, PromiseStays
<1>3. CASE (pc \in Applied /\ Apply(pc)) \/ (pc \in Credentials /\ Create(pc))
  <2>1. pc \in Owned
    BY <1>3 DEF Owned
  <2>2. CASE my.uid = 1
    <3>1. Promise!Build(pc, my.spec)
      BY <1>1, <1>3, <2>1, <2>2, WorkIsBuild DEF Apply, Create
    <3> QED
      BY <1>1, <2>1, <3>1 DEF PromiseStep, Promise!Next, CRs
  <2>3. CASE my.uid # 1
    <3>1. ~FirstCR
      BY <2>3, OnlyFirst DEF Invariant, Working
    <3>2. \A n \in Owned :
            owner'[n] # 1 \/ (owner'[n] = owner[n] /\ applied'[n] = applied[n])
      BY <1>3, <2>3 DEF Apply, Create, Invariant, TypeOK
    <3> QED
      BY <1>1, <3>1, <3>2, LaterTakesAway DEF PromiseStep, Promise!Next
  <2> QED
    BY <2>2, <2>3
<1> QED
  BY <1>1, <1>2, <1>3 DEF Writes

\* A patch is a claim, which then is true, or the end of one.
LEMMA PromisePatched ==
    ASSUME Invariant, patchStatus
    PROVE  PromiseStep
<1> USE DEF storeVars, bounds
<1>1. UNCHANGED <<owner, applied, drifts>>
  BY DEF patchStatus
<1>2. CASE cr = None
  BY <1>1, <1>2, PromiseStays DEF patchStatus
<1>3. CASE cr # None
  <2>1. PICK sent \in SentAnyway :
          cr' = [cr EXCEPT !.status =
                    MergePatch(cr.status, my.status, NewStatus, sent)]
    BY <1>3 DEF patchStatus
  <2>2. cr \in CRs
    BY <1>3 DEF Invariant, TypeOK
  <2>3. cr' # None
    <3>1. my \in CRs /\ sent \in BOOLEAN
      BY DEF patchStatus, SentAnyway, Invariant, TypeOK
    <3>2. MergePatch(cr.status, my.status, NewStatus, sent) \in Status
      BY <2>2, <3>1, NewStatusType, MergePatchType, GensAreNumbers DEF Invariant
    <3> QED
      BY <2>1, <2>2, <3>2, NoneAssumption DEF CRs
  <2>4. cr'.uid = cr.uid /\ cr'.gen = cr.gen /\ cr'.spec = cr.spec
    BY <2>1, <2>2 DEF CRs
  <2>5. UNCHANGED <<Wanted, Built>>
    BY <1>1, <1>3, <2>3, <2>4, BuiltStays DEF Wanted, FirstCR
  <2>6. CASE ~Says'
    BY <2>5, <2>6 DEF PromiseStep, Promise!Next, Promise!Unclaim
  <2>7. CASE Says'
    <3>1. InPlace(cr.spec)'
      BY <1>1, <2>7, ReadyPatched
      DEF Invariant, StatusInv, Says, FirstCR, ReadyMeansInPlace
    <3>2. Wanted = cr.spec /\ cr.spec \in Specs /\ cr'.uid = 1
      BY <1>3, <2>2, <2>4, <2>7 DEF Wanted, Says, FirstCR, CRs
    <3>3. \A m \in Operands(cr.spec) : Promise!InPlace(m, cr.spec)
      BY <1>1, <2>4, <3>1, <3>2 DEF InPlace, Promise!InPlace, Built, Operands, Owned
    <3>4. Wanted # None /\ OperandsAsked[Wanted] = Operands(cr.spec)
      BY <3>2, SpecsAssumption DEF OperandsAsked
    <3>5. Promise!Claim
      BY <2>5, <2>7, <3>2, <3>3, <3>4 DEF Promise!Claim
    <3> QED
      BY <3>5 DEF PromiseStep, Promise!Next
  <2> QED
    BY <2>6, <2>7
<1> QED
  BY <1>2, <1>3

\* The user's steps are asking and withdrawing.
LEMMA PromiseCreated ==
    ASSUME Invariant, NEW s \in Specs, CreateCR(s)
    PROVE  PromiseStep
<1> USE DEF storeVars
<1>1. UNCHANGED Built /\ ~FirstCR
  BY BuiltStays DEF CreateCR, FirstCR
<1>2. cr'.spec = s /\ cr'.status = NoStatus
  BY DEF CreateCR
<1>3. ~Says'
  BY <1>2, NoStatusFields DEF Says, SaysReady
<1>4. CASE FirstCR'
  BY <1>1, <1>2, <1>3, <1>4
  DEF PromiseStep, Promise!Next, Promise!Ask, Wanted, Says
<1>5. CASE ~FirstCR'
  BY <1>1, <1>5 DEF PromiseStep, Wanted, Says
<1> QED
  BY <1>4, <1>5

LEMMA PromiseEdited ==
    ASSUME Invariant, NEW s \in Specs, EditSpec(s)
    PROVE  PromiseStep
<1> USE DEF storeVars
<1>1. UNCHANGED Built
  BY BuiltStays DEF EditSpec
<1>2. cr \in CRs /\ cr # None
  BY DEF EditSpec, Invariant, TypeOK
<1>3. cr'.spec = s /\ cr'.uid = cr.uid
  BY <1>2 DEF EditSpec, CRs
<1>4. ~Says'
  <2>1. Says' => FirstCR
    BY <1>2, <1>3 DEF Says, FirstCR
  <2>2. FirstCR => ~SaysReady'
    BY EditIsUnclaimed DEF Invariant, StatusInv
  <2> QED
    BY <2>1, <2>2 DEF Says
<1>5. CASE FirstCR'
  BY <1>1, <1>3, <1>4, <1>5 DEF PromiseStep, Promise!Next, Promise!Ask, Wanted
<1>6. CASE ~FirstCR'
  BY <1>1, <1>4, <1>6 DEF PromiseStep, Promise!Next, Promise!Withdraw, Wanted
<1> QED
  BY <1>5, <1>6

LEMMA PromiseDeleted ==
    ASSUME Invariant, DeleteCR
    PROVE  PromiseStep
<1>1. UNCHANGED Built /\ ~FirstCR'
  BY BuiltStays DEF DeleteCR, FirstCR, storeVars
<1> QED
  BY <1>1 DEF PromiseStep, Promise!Next, Promise!Withdraw, Wanted, Says

\* What the garbage collector takes is not the first CR's while that is there.
LEMMA PromiseCollected ==
    ASSUME Invariant, Collecting
    PROVE  PromiseStep
<1>1. cr' = cr
  BY DEF Collecting
<1>2. PICK gone : Remove(gone) /\ \A n \in gone : Orphan(n)
  BY DEF Collecting
<1>3. \A n \in Owned :
         owner'[n] # 1 \/ (owner'[n] = owner[n] /\ applied'[n] = applied[n])
  BY <1>2 DEF Remove
<1>4. CASE FirstCR
  <2>1. \A n \in Owned :
           IF n \in gone THEN owner[n] # 1 /\ owner'[n] # 1
           ELSE owner'[n] = owner[n] /\ applied'[n] = applied[n]
    BY <1>2, <1>4 DEF Remove, Orphan, FirstCR
  <2>2. UNCHANGED Built
    BY <2>1 DEF Built
  <2> QED
    BY <1>1, <2>2 DEF PromiseStep, Wanted, Says, FirstCR, SaysReady
<1>5. CASE ~FirstCR
  BY <1>1, <1>3, <1>5, LaterTakesAway DEF PromiseStep, Promise!Next
<1> QED
  BY <1>4, <1>5

LEMMA PromiseKeeping ==
    ASSUME Invariant, [Next]_vars, drifts' = 0
    PROVE  PromiseStep
<1> USE DEF storeVars
<1>1. ASSUME NEW n \in Owned, UserDeletes(n) PROVE FALSE
  BY <1>1, BoundsAssumption DEF UserDeletes, Invariant
<1>2. CASE Start \/ GivingUp \/ CRSync \/ Quiet
  BY <1>2, PromiseStays DEF Start, GivingUp, CRSync, Quiet
<1> QED
  BY <1>1, <1>2, StepKinds, PromiseWorking, PromisePatched, PromiseCreated,
     PromiseEdited, PromiseDeleted, PromiseCollected

-----------------------------------------------------------------------------

\* The loop implements Provisioning as long as no operand is deleted by hand:
\* through stale copies, failed calls, lost replies, crashes, edits and
\* re-creations, workloads are applied over what their pods load, a Secret is
\* made once, and Available is claimed of what is built and stays true.
THEOREM PromiseKept == Spec /\ [](drifts = 0) => KeepsItsPromise
<1>1. Init => Promise!Init
  BY PromiseInit
<1>2. IInv /\ StatusInv /\ [Next]_vars /\ drifts = 0 /\ (drifts = 0)'
      => [Promise!Next]_(Promise!vars)
  BY PromiseKeeping DEF IInv, Parts, Invariant, PromiseStep, Promise!vars
<1>3. Spec => []IInv /\ []StatusInv
  BY Inductive, StatusInductive, PTL
<1>4. Spec /\ [](drifts = 0) => Promise!Init /\ [][Promise!Next]_(Promise!vars)
  BY <1>1, <1>2, <1>3, PTL DEF Spec
<1> QED
  BY <1>4 DEF KeepsItsPromise, Promise!Spec
=============================================================================
