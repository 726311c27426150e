----------------------------- MODULE Reconcile -----------------------------
(***************************************************************************)
(* internal/controller: the reconcile loop of one Apme CR on a cluster     *)
(* without the OpenShift Route API (ensureRoutes is a no-op there; module  *)
(* Routes is the other half).                                              *)
(*                                                                         *)
(* One worker (MaxConcurrentReconciles is 1) runs Reconcile as a sequence  *)
(* of API calls.  Between two of them the user edits, deletes or           *)
(* recreates the CR, the informer caches catch up, pods start and stop,    *)
(* the garbage collector removes what a deleted CR owned, a call fails or  *)
(* the manager crashes.  Gets of typed objects read the informer cache,    *)
(* which lags; writes go to the API server.                                *)
(***************************************************************************)
EXTENDS EnsureOrder

CONSTANTS Specs,         \* the specs a user may give the CR, by name
          Content,       \* their fields, see module Desired
          UserObjects,   \* Secrets and ConfigMaps the user creates
          GivenStates,   \* what may be found of them
          None,          \* "no such object"
          MaxUid,        \* bound: how often the CR is created
          MaxDeletes,    \* bound: how often it is deleted
          MaxGen,        \* bound: how often the spec of one CR is edited
          MaxFaults,     \* bound: failed calls, lost replies, crashes, pod failures
          MaxDrift       \* bound: operand objects the user deletes

ASSUME BoundsAssumption ==
    /\ MaxUid \in Nat /\ MaxDeletes \in Nat /\ MaxGen \in Nat \ {0}
    /\ MaxFaults \in Nat /\ MaxDrift \in Nat

\* What resolve.From makes of each spec.
Desire == [s \in Specs |-> From(Content[s])]

\* "bad" is a Secret or ConfigMap without the keys it should have.
ASSUME GivenAssumption == GivenStates \subseteq {"absent", "bad", "good"}

\* A user names an object of his own, never one the operator generates.
ASSUME SpecsAssumption ==
    /\ None \notin Specs
    /\ \A s \in Specs :
          LET d == Desire[s]
          IN  /\ ~d.GeneratePostgres => d.DatabaseSecretName \in UserObjects
              /\ d.GeneratePostgres /\ ~d.GeneratePostgresTLS =>
                     d.PostgresTLSSecretName \in UserObjects
              /\ d.GalaxyCAConfigMap # "" => d.GalaxyCAConfigMap \in UserObjects

VARIABLES
    cr,          \* the Apme CR in the API server, or None
    crCache,     \* the informer's copy of it, or None
    lastUid,     \* uid given to the latest CR
    owner,       \* per operand object, uid of its controller; 0: no object
    applied,     \* per operand object, the spec it was last applied from
    cached,      \* owner, as the informer cache has it
    cachedReady, \* readyReplicas >= 1, as the informer cache has it
    running,     \* spec whose pod template the ready pod runs, or None
    pullError,   \* a pod of the Deployment waits on an image pull
    given,       \* what the user's own objects look like
    pc,          \* the step the worker is at
    my,          \* the copy of the CR this reconcile works from
    leftover,    \* managedPostgresExists, as this reconcile saw it
    failed,      \* ensureAll returned an error
    faults, drifts

userVars   == <<given, lastUid>>
storeVars  == <<owner, applied>>
cacheVars  == <<crCache, cached, cachedReady>>
podVars    == <<running, pullError>>
workerVars == <<pc, my, leftover, failed>>
bounds     == <<faults, drifts>>
vars == <<cr, userVars, storeVars, cacheVars, podVars, workerVars, bounds>>

-----------------------------------------------------------------------------
(* What a spec asks the loop to do.                                         *)

\* The informers, each with the objects of its kind that are read from it.
Informers == {Credentials, {"StatefulSet"}, {"Deployment"}}

\* The steps of a reconcile per spec, and the objects its CR must own.
Plan == [s \in Specs |-> StepsOf(Desire[s])]

Operands(spec) == Plan[spec] \cap Owned

-----------------------------------------------------------------------------
(* Types.  A status field that was never written is 0, "" or None.          *)

Uids == 1 .. MaxUid
Gens == 1 .. MaxGen

Conditions ==
    [ gen         : Gens,
      database    : {"external secret present", "external secret not found",
                     "postgres ready", "StatefulSet not found",
                     "waiting for postgres"},
      degraded    : {"LeftoverManagedPostgres", "ReconcileError",
                     "ImagePullError", "AsExpected"},
      progressing : {"Retrying", "Stable", "Waiting"},
      ready       : {"Error", "Available", "Waiting"},
      message     : {"error", "ready", "image pull",
                     "waiting for deployment", "deployment not found"} ]

Status == [ observedGeneration : 0 .. MaxGen,
            database           : {"", "Managed", "External"},
            url                : {""} \cup {Desire[s].IngressHost : s \in Specs},
            conditions         : Conditions \cup {None} ]

CRs == [uid : Uids, gen : Gens, spec : Specs, status : Status]

ASSUME NoneAssumption == None \notin Conditions /\ None \notin CRs

NoStatus == [ observedGeneration |-> 0, database |-> "", url |-> "",
              conditions |-> None ]

\* Every variable holds what its comment says.
TypeOK ==
    /\ cr \in CRs \cup {None}
    /\ crCache \in CRs \cup {None}
    /\ lastUid \in 0 .. MaxUid
    /\ owner \in [Owned -> 0 .. MaxUid]
    /\ applied \in [Owned -> Specs \cup {None}]
    /\ cached \in [Cached -> 0 .. MaxUid]
    /\ cachedReady \in [Workloads -> BOOLEAN]
    /\ running \in [Workloads -> Specs \cup {None}]
    /\ pullError \in BOOLEAN
    /\ given \in [UserObjects -> GivenStates]
    /\ pc \in StepNames \cup {"Idle"}
    /\ my \in CRs \cup {None}
    /\ pc # "Idle" => my # None
    /\ leftover \in BOOLEAN
    /\ failed \in BOOLEAN
    /\ faults \in 0 .. MaxFaults
    /\ drifts \in 0 .. MaxDrift

Init ==
    /\ cr = None /\ crCache = None /\ lastUid = 0
    /\ owner = [n \in Owned |-> 0]
    /\ applied = [n \in Owned |-> None]
    /\ cached = [n \in Cached |-> 0]
    /\ cachedReady = [w \in Workloads |-> FALSE]
    /\ running = [w \in Workloads |-> None]
    /\ pullError = FALSE
    /\ given \in [UserObjects -> GivenStates]
    /\ pc = "Idle" /\ my = None /\ leftover = FALSE /\ failed = FALSE
    /\ faults = 0 /\ drifts = 0

-----------------------------------------------------------------------------
(* Reconcile and ensureAll: one action per API call the worker makes.       *)

\* On to the next step this spec calls for.
Advance ==
    LET todo == {n \in Plan[my.spec] : Pos[n] > Pos[pc]}
    IN  \E n \in todo : /\ \A m \in todo : Pos[n] <= Pos[m]
                        /\ pc' = n

Pass == Advance /\ UNCHANGED <<my, leftover, failed>>

\* (mutant: the error of a call is dropped)
FailIgnored == Pass

\* ensureAll returns the error, and fail patches the status with it; the
\* leftover flag is dropped on the way.
Fail == /\ pc' = "Status"
        /\ failed' = TRUE
        /\ leftover' = FALSE
        /\ UNCHANGED my

\* (mutant: the worker retries in place, with the copy it has)
RetryInPlace == /\ pc' = "ServiceAccount"
                /\ leftover' = FALSE /\ failed' = FALSE
                /\ UNCHANGED my

\* Reconcile returns.  The request comes back after requeueStatus, after a
\* backoff or with an event: Start is enabled again at once.
Return == /\ pc' = "Idle" /\ my' = None
          /\ leftover' = FALSE /\ failed' = FALSE

\* (mutant: a generation that was observed is not reconciled again)
StartOncePerGeneration ==
    /\ pc = "Idle" /\ crCache # None
    /\ crCache.status.observedGeneration # crCache.gen
    /\ pc' = "ServiceAccount" /\ my' = crCache
    /\ UNCHANGED <<cr, userVars, storeVars, cacheVars, podVars, bounds,
                   leftover, failed>>

\* Reconcile reads the CR from the cache.  A CR that is not there ends it.
Start ==
    /\ pc = "Idle" /\ crCache # None
    /\ pc' = "ServiceAccount" /\ my' = crCache
    /\ UNCHANGED <<cr, userVars, storeVars, cacheVars, podVars, bounds,
                   leftover, failed>>

\* (mutant: an object that is there already is left as it is)
ApplyIfAbsent(n) ==
    /\ owner' = [owner EXCEPT ![n] = my.uid]
    /\ applied' = [applied EXCEPT ![n] = IF owner[n] = 0 THEN my.spec ELSE @]

\* apply: server-side apply with ForceOwnership.  The controller reference a
\* former CR of the same name left is this field manager's own entry, so the
\* new one replaces it.
Apply(n) ==
    /\ owner' = [owner EXCEPT ![n] = my.uid]
    /\ applied' = [applied EXCEPT ![n] = my.spec]

ApplyStep(n) ==
    /\ pc = n
    /\ Apply(n)
    /\ Pass
    /\ UNCHANGED <<cr, userVars, cacheVars, podVars, bounds>>

\* Create: refused with AlreadyExists when the cache hid the object.
Create(n) ==
    /\ owner[n] = 0
    /\ owner' = [owner EXCEPT ![n] = my.uid]
    /\ UNCHANGED applied

\* ensurePostgresTLS, ensurePostgresSecret, ensureAbbenayToken: whatever the
\* cache holds under the name is good enough, whoever owns it.
EnsureCredential(n) ==
    /\ pc = n
    /\ \/ cached[n] # 0 /\ Pass /\ UNCHANGED storeVars
       \/ cached[n] = 0 /\ Create(n) /\ Pass
       \/ cached[n] = 0 /\ owner[n] # 0 /\ Fail /\ UNCHANGED storeVars
    /\ UNCHANGED <<cr, userVars, cacheVars, podVars, bounds>>

\* ensureProxyAdminToken also wants the Secret to belong to this very CR.
EnsureProxyAdminToken ==
    LET n == "ProxyAdminToken"
    IN  /\ pc = n
        /\ \/ cached[n] = my.uid /\ Pass /\ UNCHANGED storeVars
           \/ cached[n] \notin {0, my.uid} /\ Fail /\ UNCHANGED storeVars
           \/ cached[n] = 0 /\ Create(n) /\ Pass
           \/ cached[n] = 0 /\ owner[n] # 0 /\ Fail /\ UNCHANGED storeVars
        /\ UNCHANGED <<cr, userVars, cacheVars, podVars, bounds>>

\* ensurePostgresTLS with a Secret the user brings: it must be there and hold
\* tls.crt, tls.key and ca.crt.
CheckUserTLS ==
    /\ pc = "UserPostgresTLS"
    /\ IF given[Desire[my.spec].PostgresTLSSecretName] = "good" THEN Pass ELSE Fail
    /\ UNCHANGED <<cr, userVars, storeVars, cacheVars, podVars, bounds>>

\* ensureDatabase in external mode: is a managed Postgres still around?
CheckLeftover ==
    /\ pc = "Leftover"
    /\ leftover' = (cached["StatefulSet"] # 0)
    /\ Advance
    /\ UNCHANGED <<cr, userVars, storeVars, cacheVars, podVars, bounds,
                   my, failed>>

\* applyWorkload re-reads the token Secret it has just ensured, and the Galaxy
\* CA bundle.
LoadWorkloadInputs ==
    LET ca == Desire[my.spec].GalaxyCAConfigMap
        loaded == /\ cached["ProxyAdminToken"] # 0
                  /\ ca # "" => given[ca] = "good"
    IN  /\ pc = "WorkloadInputs"
        /\ IF loaded THEN Pass ELSE Fail
        /\ UNCHANGED <<cr, userVars, storeVars, cacheVars, podVars, bounds>>

-----------------------------------------------------------------------------
(* patchStatus.                                                             *)

\* databaseReady
DatabaseMessage(d) ==
    IF d.DatabaseMode = "External"
    THEN IF given[d.DatabaseSecretName] # "absent"
         THEN "external secret present" ELSE "external secret not found"
    ELSE IF cached["StatefulSet"] = 0 THEN "StatefulSet not found"
    ELSE IF cachedReady["StatefulSet"] THEN "postgres ready"
    ELSE "waiting for postgres"

databaseReady(d) ==
    DatabaseMessage(d) \in {"external secret present", "postgres ready"}

\* deploymentReady; the pods are listed live, and only when none is ready.
deploymentMessage ==
    IF cached["Deployment"] = 0 THEN "deployment not found"
    ELSE IF cachedReady["Deployment"] THEN "ready"
    ELSE IF pullError THEN "image pull"
    ELSE "waiting for deployment"

deploymentReady == deploymentMessage = "ready"

\* publicURL without the Route API; the scheme is left out.
publicURL(d) == IF d.IngressEnabled THEN d.IngressHost ELSE ""

Degraded ==
    IF leftover THEN "LeftoverManagedPostgres"
    ELSE IF failed THEN "ReconcileError"
    ELSE IF deploymentMessage = "image pull" THEN "ImagePullError"
    ELSE "AsExpected"

\* (mutant: the leftover Postgres only degrades)
ReadyDespiteLeftover(d) ==
    IF failed THEN "Error"
    ELSE IF deploymentReady /\ databaseReady(d) THEN "Available"
    ELSE "Waiting"

Ready(d) ==
    IF failed THEN "Error"
    ELSE IF deploymentReady /\ databaseReady(d) /\ ~leftover THEN "Available"
    ELSE "Waiting"

Progressing(d) ==
    [Error |-> "Retrying", Available |-> "Stable", Waiting |-> "Waiting"][Ready(d)]

\* A condition is its reason; the messages stay because the patch is empty when
\* nothing, message included, changed.
ConditionsOf(d, generation) ==
    [ gen         |-> generation,
      database    |-> DatabaseMessage(d),
      degraded    |-> Degraded,
      progressing |-> Progressing(d),
      ready       |-> Ready(d),
      message     |-> IF failed THEN "error" ELSE deploymentMessage ]

\* (mutants: the conditions, or the status, take the generation the CR has when
\* they are written; a generation that was observed keeps its status)
ConditionsOfLatest == ConditionsOf(Desire[my.spec], cr.gen)

NewConditions == ConditionsOf(Desire[my.spec], my.gen)

StatusOf(d, generation) ==
    [ observedGeneration |-> generation,
      database           |-> d.DatabaseMode,
      url                |-> publicURL(d),
      conditions         |-> NewConditions ]

StatusOfLatest == StatusOf(Desire[my.spec], cr.gen)

StatusOncePerGeneration ==
    IF my.status.observedGeneration = my.gen THEN my.status
    ELSE StatusOf(Desire[my.spec], my.gen)

\* The status this reconcile computes.
NewStatus == StatusOf(Desire[my.spec], my.gen)

\* What a field is after the JSON merge patch client.MergeFrom(orig) makes: a
\* field that equals the reconcile's own copy is not in the patch.
MergeField(server, orig, new) == IF new = orig THEN server ELSE new

\* Two errors, or two reasons why an image is not pulled, may differ in a text
\* that is left out here, and then the list of conditions is in the patch.
SentAnyway ==
    IF failed \/ deploymentMessage = "image pull" THEN BOOLEAN ELSE {FALSE}

MergePatch(server, orig, new, sent) ==
    [ observedGeneration |-> MergeField(server.observedGeneration,
                                        orig.observedGeneration,
                                        new.observedGeneration),
      database   |-> MergeField(server.database, orig.database, new.database),
      url        |-> MergeField(server.url, orig.url, new.url),
      conditions |-> IF sent THEN new.conditions
                     ELSE MergeField(server.conditions, orig.conditions,
                                     new.conditions) ]

\* Status().Patch: by name, with no precondition on uid or resourceVersion.
patchStatus ==
    /\ pc = "Status"
    /\ Return
    /\ IF cr = None
       THEN UNCHANGED cr      \* NotFound
       ELSE \E sent \in SentAnyway :
                cr' = [cr EXCEPT !.status =
                          MergePatch(cr.status, my.status, NewStatus, sent)]
    /\ UNCHANGED <<userVars, storeVars, cacheVars, podVars, bounds>>

\* What the worker does when no call fails.
Reconciler ==
    \/ Start
    \/ \E n \in Applied : ApplyStep(n)
    \/ \E n \in Credentials \ {"ProxyAdminToken"} : EnsureCredential(n)
    \/ EnsureProxyAdminToken
    \/ CheckUserTLS
    \/ CheckLeftover
    \/ LoadWorkloadInputs
    \/ patchStatus

-----------------------------------------------------------------------------
(* Failures.  A status patch whose reply is lost is patchStatus: the worker  *)
(* returns either way.                                                       *)

Fault == faults < MaxFaults /\ faults' = faults + 1 /\ UNCHANGED drifts

\* A call fails without effect.  managedPostgresExists hides its error.
CallFails ==
    /\ pc \notin {"Idle", "Leftover", "Status"}
    /\ Fault /\ Fail
    /\ UNCHANGED <<cr, userVars, storeVars, cacheVars, podVars>>

LeftoverReadFails ==
    /\ pc = "Leftover"
    /\ Fault /\ Pass
    /\ UNCHANGED <<cr, userVars, storeVars, cacheVars, podVars>>

\* The write happens and its reply is lost.
ReplyLost(n) ==
    /\ pc = n
    /\ \/ n \in Applied /\ Apply(n)
       \/ n \in Credentials /\ cached[n] = 0 /\ Create(n)
    /\ Fault /\ Fail
    /\ UNCHANGED <<cr, userVars, cacheVars, podVars>>

PatchFails ==
    /\ pc = "Status"
    /\ Fault /\ Return
    /\ UNCHANGED <<cr, userVars, storeVars, cacheVars, podVars>>

\* The manager stops anywhere and starts again.  Its new caches may be as stale
\* as the old ones: they are listed from a watch cache.
Crash ==
    /\ pc # "Idle"
    /\ Fault /\ Return
    /\ UNCHANGED <<cr, userVars, storeVars, cacheVars, podVars>>

-----------------------------------------------------------------------------
(* The user.                                                                *)

CreateCR(s) ==
    /\ cr = None /\ lastUid < MaxUid
    /\ lastUid' = lastUid + 1
    /\ cr' = [uid |-> lastUid + 1, gen |-> 1, spec |-> s, status |-> NoStatus]
    /\ UNCHANGED <<given, storeVars, cacheVars, podVars, workerVars, bounds>>

EditSpec(s) ==
    /\ cr # None
    /\ cr.gen < MaxGen /\ cr.spec # s
    /\ cr' = [cr EXCEPT !.gen = cr.gen + 1, !.spec = s]
    /\ UNCHANGED <<userVars, storeVars, cacheVars, podVars, workerVars, bounds>>

\* The CR has no finalizer: it is gone at once, its operands are not.
DeleteCR ==
    /\ cr # None /\ cr.uid <= MaxDeletes
    /\ cr' = None
    /\ UNCHANGED <<userVars, storeVars, cacheVars, podVars, workerVars, bounds>>

\* An object of the user's own comes, goes or changes.  The operator reads it
\* through a cache; a change is taken to happen when that cache has it.
UserChanges(o, state) ==
    /\ given[o] # state
    /\ given' = [given EXCEPT ![o] = state]
    /\ UNCHANGED <<cr, lastUid, storeVars, cacheVars, podVars, workerVars, bounds>>

\* Objects go, and with a workload its pods.
Remove(gone) ==
    /\ owner' = [n \in Owned |-> IF n \in gone THEN 0 ELSE owner[n]]
    /\ applied' = [n \in Owned |-> IF n \in gone THEN None ELSE applied[n]]
    /\ running' = [w \in Workloads |-> IF w \in gone THEN None ELSE running[w]]
    /\ pullError' = (pullError /\ "Deployment" \notin gone)

UserDeletes(n) ==
    /\ owner[n] # 0
    /\ drifts < MaxDrift /\ drifts' = drifts + 1
    /\ Remove({n})
    /\ UNCHANGED <<cr, userVars, cacheVars, workerVars, faults>>

-----------------------------------------------------------------------------
(* The cluster: informers, garbage collector, workload controllers.  All of *)
(* it is code outside this repository.                                      *)

CRSync ==
    /\ crCache # cr
    /\ crCache' = cr
    /\ UNCHANGED <<cr, userVars, storeVars, cached, cachedReady, podVars,
                   workerVars, bounds>>

IsReady(w) == running[w] # None

\* One watch per kind: the cached Secrets are those of one moment.
Sync(kind) ==
    /\ \/ \E n \in kind : cached[n] # owner[n]
       \/ \E w \in Workloads \cap kind : cachedReady[w] # IsReady(w)
    /\ cached' = [n \in Cached |-> IF n \in kind THEN owner[n] ELSE cached[n]]
    /\ cachedReady' = [w \in Workloads |->
                          IF w \in kind THEN IsReady(w) ELSE cachedReady[w]]
    /\ UNCHANGED <<cr, crCache, userVars, storeVars, podVars, workerVars, bounds>>

\* Its owner is not there any more.
Orphan(n) == owner[n] \notin {0, IF cr = None THEN 0 ELSE cr.uid}

\* What the garbage collector removes in one step: a single object, or, since
\* the operator never reads them, all orphans of the other kinds together.
Collectable == {{n} : n \in Cached} \cup {Owned \ Cached}

GC(group) ==
    /\ \E n \in group : Orphan(n)
    /\ Remove({n \in group : Orphan(n)})
    /\ UNCHANGED <<cr, userVars, cacheVars, workerVars, bounds>>

\* The Deployment's strategy is Recreate and Postgres has one replica: a new
\* pod becomes ready only after the old one is gone.
PodReady(w) ==
    /\ owner[w] # 0 /\ ~IsReady(w)
    /\ running' = [running EXCEPT ![w] = applied[w]]
    /\ pullError' = (pullError /\ w # "Deployment")
    /\ UNCHANGED <<cr, userVars, storeVars, cacheVars, workerVars, bounds>>

\* A pod fails by itself, or is stopped because its template changed.
PodStops(w) ==
    /\ IsReady(w)
    /\ \/ Fault
       \/ running[w] # applied[w] /\ UNCHANGED bounds
    /\ running' = [running EXCEPT ![w] = None]
    /\ UNCHANGED <<cr, userVars, storeVars, cacheVars, workerVars, pullError>>

\* A pod starts waiting on an image pull; it stops to when it becomes ready.
PullFails ==
    /\ owner["Deployment"] # 0 /\ ~IsReady("Deployment") /\ ~pullError
    /\ Fault
    /\ pullError' = TRUE
    /\ UNCHANGED <<cr, userVars, storeVars, cacheVars, workerVars, running>>

-----------------------------------------------------------------------------

Failures ==
    \/ CallFails
    \/ LeftoverReadFails
    \/ \E n \in Owned : ReplyLost(n)
    \/ PatchFails
    \/ Crash

User ==
    \/ \E s \in Specs : CreateCR(s)
    \/ \E s \in Specs : EditSpec(s)
    \/ DeleteCR
    \/ \E o \in UserObjects, state \in GivenStates : UserChanges(o, state)
    \/ \E n \in Owned : UserDeletes(n)

Cluster ==
    \/ CRSync
    \/ \E kind \in Informers : Sync(kind)
    \/ \E group \in Collectable : GC(group)
    \/ \E w \in Workloads : PodReady(w)
    \/ \E w \in Workloads : PodStops(w)
    \/ PullFails

Next == Reconciler \/ Failures \/ User \/ Cluster

Spec == Init /\ [][Next]_vars

(***************************************************************************)
(* Fairness.  A reconcile that ends is requeued (RequeueAfter, a backoff,  *)
(* or the event that the next cache update is), and its calls return; the  *)
(* watches go on delivering, and the garbage collector goes on collecting, *)
(* each in whatever order.  Nothing is assumed of the user, of pods or of  *)
(* failures, and MaxFaults bounds the failures.                            *)
(***************************************************************************)
Fairness ==
    /\ WF_vars(Reconciler)
    /\ WF_vars(CRSync)
    /\ WF_vars(\E kind \in Informers : Sync(kind))
    /\ WF_vars(\E group \in Collectable : GC(group))

FairSpec == Spec /\ Fairness

-----------------------------------------------------------------------------
(* Safety.                                                                  *)

\* A Secret found under the name of one of these is used whoever owns it, so
\* one that a deleted CR left may be in use, and vanish, under a later CR.
Guaranteed(n) == cr.uid = 1 \/ n \notin Credentials \ {"ProxyAdminToken"}

\* Operands are created in dependency order, whatever fails, crashes or changes
\* in between: an operand of the CR was applied from some spec, and every
\* operand that comes before it in ensureAll for that spec belongs to the CR
\* too.  No Postgres without its TLS material and password, no Deployment
\* without its ServiceAccount, volumes and tokens.
DependenciesFirst ==
    (cr # None /\ drifts = 0) =>
        \A n \in Applied : owner[n] = cr.uid =>
            \A m \in Operands(applied[n]) :
                Pos[m] < Pos[n] /\ Guaranteed(m) => owner[m] = cr.uid

\* All that spec asks for is there, and is what spec asks for.
InPlace(spec) ==
    \A m \in Operands(spec) :
        /\ owner[m] = cr.uid
        /\ m \in Applied => applied[m] = spec

SaysReady ==
    /\ cr.status.conditions # None
    /\ cr.status.conditions.ready = "Available"
    /\ cr.status.conditions.gen = cr.gen

\* patchStatus sets Ready=True with the generation it reconciled.  While that
\* is the CR's generation, every operand is in place as the spec has it,
\* although the reconcile worked from caches and was not the first to run.
ReadyMeansInPlace ==
    (cr # None /\ cr.uid = 1 /\ drifts = 0 /\ SaysReady) => InPlace(cr.spec)

\* patchStatus sends only the fields that differ from its own, possibly stale,
\* copy.  The fields that say what was reconciled still come from one reconcile:
\* conditions and observedGeneration agree and are not ahead of the spec.  (url
\* and database may be another reconcile's until a later patch: StatusSettles.)
StatusCoherent ==
    (cr # None /\ cr.uid = 1 /\ cr.status # NoStatus) =>
        /\ cr.status.conditions # None
        /\ cr.status.conditions.gen = cr.status.observedGeneration
        /\ cr.status.observedGeneration <= cr.gen

-----------------------------------------------------------------------------
(* Liveness, under FairSpec.  The user edits, deletes and drifts only a      *)
(* bounded number of times.                                                  *)

\* The user's own objects are as the CR needs them.
InputsGood ==
    cr # None =>
        LET d == Desire[cr.spec]
        IN  /\ ~d.GeneratePostgres => given[d.DatabaseSecretName] # "absent"
            /\ d.GeneratePostgres /\ ~d.GeneratePostgresTLS =>
                  given[d.PostgresTLSSecretName] = "good"
            /\ d.GalaxyCAConfigMap # "" => given[d.GalaxyCAConfigMap] = "good"

PodsUp == \A w \in Workloads : owner[w] # 0 => IsReady(w)

\* The operands converge to the spec through stale reads, AlreadyExists,
\* failed calls, crashes, deleted operands and recreated CRs.
OperandsConverge ==
    <>[]InputsGood => <>[](cr # None => InPlace(cr.spec))

\* The status a quiet system must show: Available, or Degraded with the reason
\* LeftoverManagedPostgres when the spec has moved to an external database and
\* the StatefulSet is still there.
SettledStatus ==
    LET st == cr.status
        left == ~Desire[cr.spec].GeneratePostgres /\ owner["StatefulSet"] # 0
    IN  /\ st.conditions # None
        /\ st.observedGeneration = cr.gen
        /\ st.conditions.gen = cr.gen
        /\ st.conditions.ready = IF left THEN "Waiting" ELSE "Available"
        /\ st.conditions.degraded =
              IF left THEN "LeftoverManagedPostgres" ELSE "AsExpected"
        /\ st.database = Desire[cr.spec].DatabaseMode
        /\ st.url = publicURL(Desire[cr.spec])

\* Lost status updates are repaired: once inputs are good and pods stay up, the
\* status settles on what the system looks like.
StatusSettles ==
    <>[](InputsGood /\ PodsUp) => <>[](cr # None => SettledStatus)

\* After the CR is deleted for good nothing of it remains, although a reconcile
\* in flight, or one from a stale copy, goes on creating objects for it.
NothingLeftBehind ==
    <>[](cr = None) => <>[](\A n \in Owned : owner[n] = 0)

-----------------------------------------------------------------------------
(* What the repository says of the program and the program does not do.     *)

\* "all owned objects ready": the ready pod runs the version the status's
\* generation asks for.
ReadyMeansRolledOut ==
    (cr # None /\ SaysReady /\ running["Deployment"] # None) =>
        Desire[running["Deployment"]].Version = Desire[cr.spec].Version
=============================================================================
