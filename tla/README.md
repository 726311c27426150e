# TLA+ verification of apme-operator

apme-operator is a Kubernetes operator: it reads an `Apme` custom resource (CR)
and keeps the objects of one APME installation in line with it, namely an engine
pod with up to a dozen containers, a managed or external Postgres, Services,
NetworkPolicies, an Ingress and OpenShift Routes. This directory models the
reconcile loop against the cluster it runs in, what several manager processes make
of the generated credentials, the functions that compute the objects, and what
the init containers of the pod do when they are killed. TLC
checks the models on small instances, and TLAPS proves the central safety
properties for every instance. Paths below are relative to the repository.

    tlc -config ReconcileFaults.cfg MCReconcile.tla     # a run
    tlapm ReconcileProofs.tla                           # a proof

PROJECT.json maps each definition to the lines it stands for, and names for each
property a mutated definition that breaks it.

## 1. The system

| Part | State | Operations | Interacts with |
|---|---|---|---|
| Reconcile loop, `internal/controller/apme_controller.go` | none of its own between reconciles; per reconcile a copy of the CR and of what it read | `Reconcile`, `ensureAll` (about 20 API calls in a fixed order), `patchStatus` | reads typed objects from informer caches, writes to the API server, is woken by events, requeues and backoffs |
| Desired state, `internal/resolve/desired.go` | none | `From`: spec to desired state with defaults; `resolvePlugins`: ports of plugins | called once per reconcile; its result feeds every builder |
| Manifest builders, `internal/manifests` | none | one function per object; `containers` and `postgres` for the pods | called by the `ensure*` steps |
| Init containers, scripts in `internal/manifests/containers/containers.go` | files on emptyDirs and on one claim | four shell scripts | the kubelet runs and reruns them; Abbenay writes one of the files |
| Routes, `internal/controller/routes.go` | Route objects and the annotation with the desired host | get, compare, then delete or apply | Route API (not cached), OpenShift's host admission, finalizers, garbage collector |
| Credential contents, `apme_controller.go:228-343`, `internal/manifests/postgres` | Secrets written once, a checksum on the pod template | generate, rewrite of the database URL, hash | the pods that mount them |
| Manager, `cmd/main.go` | leader lease, `HasRouteAPI` | flags, probe of the Route API, start of the loop | controller-runtime |

What is hard, and what correctness means there:

* **Stale caches.** Get reads an informer cache, Create and Patch go to the
  server. An object just created may be invisible, one just deleted visible.
  Nothing may be built on something that is not there, and every wrong
  impression has to be repaired later.
* **Partial runs.** Any call may fail, have its reply lost, or be the last before
  the manager dies. What is left must be a prefix the next run continues.
* **A moving CR.** The user edits, deletes or recreates the CR between two calls
  of a reconcile. The status must speak of the generation that was reconciled,
  and nothing may stay behind a CR that is gone.
* **Merge patches.** `patchStatus` sends the difference to its own stale copy; a
  field that happens to be equal there is not sent at all.
* **Many toggles.** A dozen builders test the same fields of the desired state
  separately. They have to agree on ports, volume names, references, selectors.
* **Init containers** run at least once, not exactly once, and one of them writes
  to a volume that outlives the pod.
* **Routes** are read, compared and then deleted or applied without a
  precondition; OpenShift changes what it is given (assigned hosts).

PROJECT.json lists these as hazards, line by line, with the properties that
would catch each going wrong.

## 2. Modules

    Desired ── EnsureOrder ─┬─ Reconcile ── ReconcileInv ── ReconcilePromise ── MCReconcile
                            │                  (with Manifests, implements Provisioning)
                            └─ Manifests ─┬─ Topology ──── MCTopology
                                          ├─ PodStart ──── MCPodStart
                                          ├─ Routes ────── MCRoutes
                              Managers ───┴─ Credentials ─ MCCredentials
                                               (implements WriteOnce)
    Desired ── PluginPorts ── MCPluginPorts

    Manifests ── ManifestsProofs ─┬─ ReconcileProofs (with ReconcileInv)
                                  │     └─ StatusProofs (with ReconcilePromise)
                                  ├─ TopologyProofs (with Topology)
                                  ├─ PodStartProofs (with PodStart)
                                  └─ PluginPortsProofs (with PluginPorts)
    Routes ── RoutesProofs        Credentials ── CredentialsProofs

* **Desired** is `resolve.From` as an operator on a record of spec fields. Fields
  nothing depends on (quantities, resources, proxies) are left out; of the images
  the version is kept. `"nil"`, `"true"` and `"false"` are the values of a
  `*bool`; a name is a number where only its order matters (plugins) and a
  string where only equality does. `resolvePlugins` is defined here as a function
  (the ports that are free, in order).
* **EnsureOrder** is the step list of `ensureAll` in program order (`Steps`,
  `Pos`), which steps a desired state skips (`Skipped`), and which objects the
  steps create. Reconcile executes it; Topology checks that it creates what the
  pods refer to. It is one definition for both.
* **Reconcile** is the loop with its environment; section 3.
* **ReconcileInv** has the inductive invariants: `IInv` (order of the operands,
  checked in ReconcileRecreate, proved in **ReconcileProofs**) and `StatusInv` (what
  the status says, checked in ReconcileConverge, proved in **StatusProofs**).
* **Provisioning** is the abstract specification of one installation: what is
  built, from which spec, and whether the status claims it is available. It has
  no caches, passes, retries or errors. **ReconcilePromise** maps Reconcile to it;
  which objects a pod needs comes from Manifests, not from `Steps`. That the mapping is a
  refinement is proved in StatusProofs.
* **Managers** is the life of the manager processes (`cmd/main.go`): start,
  leader election, loss of the lease, exit.
* **Credentials** composes Managers with the steps of the loop that read or write
  one generated credential, and with the containers that read it (found in
  Manifests). **WriteOnce** is the abstract specification it implements.
  **CredentialsProofs** proves that, and its safety properties.
* **PluginPorts** is `resolvePlugins` loop by loop (scan, probe, assign, sort),
  one iteration per step, compared with the function in Desired;
  **PluginPortsProofs** proves them equal.
* **Manifests** is what the builders produce, reduced to names, ports, volumes,
  mounts, references, selectors and policies. **ManifestsProofs** has the lemmas
  the other proof modules share: on free ports and their order, on `Steps`, on what
  pods load, and on the list of init containers.
* **Topology** walks over the specs and states how the objects fit together; **TopologyProofs** proves it for every spec.
* **PodStart** runs the init containers of the pods Manifests builds;
  **PodStartProofs** proves what they leave behind.
* **Routes** is `ensureRoutes`, one API call per step; section 3.
  **RoutesProofs** has its proofs.
* **MC...** give the constants values: spec fields, input lists.

Names follow the source. Operators marked `(mutant: ...)` are the faulty variants
PROJECT.json refers to; no specification uses them.

## 3. How state and actions correspond to the code

### Reconcile

`cr` is the object in the API server with uid, generation, spec and status;
`crCache` the informer's copy. For each operand `owner` holds the uid of its
controller reference (0: no such object) and `applied` the spec of its last
apply. `cached` and `cachedReady` are what the informers show. `pc`, `my`,
`leftover` and `failed` are the local state of the one worker
(MaxConcurrentReconciles is not set, hence 1): the step, the CR copy read at
line 69, `managedPostgresExists` as seen, and whether `ensureAll` returned an
error.

One action is one API call together with all the code up to the next one:
`Start` (lines 65-74), `ApplyStep(n)` (server-side apply of operand n with
ForceOwnership), `EnsureCredential` and `EnsureProxyAdminToken` (cached Get, then
Create; AlreadyExists is an error), `CheckUserTLS`, `CheckLeftover`,
`LoadWorkloadInputs` (lines 163-179), and `patchStatus` with its JSON merge patch
field by field. `Advance` takes the next step of `Steps` that the spec calls for.
An error goes straight to the status (`Fail`), as `fail` does. Failures are
actions of their own: `CallFails`, `LeftoverReadFails` (its error is hidden by
the code), `ReplyLost`, `PatchFails`, `Crash`.

The environment is external code, modelled from how the controller relies on it:
the user creates, edits, deletes and recreates the CR, changes his own Secrets
and ConfigMaps, and deletes operands; informers catch up per kind (`Sync`), so the
Secrets in the cache are those of one moment while kinds lag independently; the
garbage collector removes objects whose owner uid is gone; pods become ready, stop
and fail to pull. The Deployment's strategy is Recreate and Postgres has one
replica, so a pod of a new version is ready only after the old one stopped.

`KeepsItsPromise` refines to Provisioning: `wanted` is the spec of the first CR
of the name, `built[n]` the spec an operand owned by that CR was last applied
from (or "made", for a credential), `says` whether the status is Ready with the
CR's generation. `Start` and the cluster's steps are stutters, an apply is
`Build`, `patchStatus` is `Claim`, `Unclaim` or a stutter.

Simplifications: the contents of Secrets are in module Credentials; a user's own object
changes in the API server and in the cache at once; the scheme of the URL, texts
of errors (but not whether two statuses differ) and transition times are left out.
The list of conditions is one field of the merge patch, as it is in the CRD.

### Routes

The same loop on a cluster with the Route API, reduced to its last step, which
is the only one that deletes. `routes[r]` is the Route in the API server: owner,
annotation, host, path, whether it is being deleted. Route Gets are not cached
(unstructured), so `GetRoute` reads the server and `WriteRoute` acts on what was
read, a step later: it waits for a Route being deleted, deletes one that must be
recreated, or applies with the host that was read. `hasRoute` is what the process
found when it looked for the Route API at start (`main`, lines 206-210); an error
of that look-up counts as no API, and then `ensureRoutes` does nothing until
another process is started (`Restart`). The CR may be deleted and created again,
and takes over the Routes of the former one. The initial state is an empty
cluster or Routes of a former version without the annotation. `inherited` is history,
which no action reads but to keep it. OpenShift is external: a host is
assigned when none is given, setting another host takes the custom-host
permission, which an administrator grants or withdraws. A call that is refused
for a CR without a host gives either of the two errors of `wrapRouteApplyErr`, which
tells them apart by the text. A Delete, the operator's, the user's or the
collector's, takes effect at once or leaves the Route to a finalizer. A write
whose reply is lost is taken for a write followed by a failed call or a crash.
`publicURL` reads the Route once more (`GetURL`), and the status patch follows as a
step of its own. The status is patched in full; the merge patch and its repair are
Reconcile's subject.

### Credentials and Managers

`kind` is the credential a behaviour looks at: the Postgres certificate, the
Postgres password with its URL, the Abbenay token or the proxy administration
token. A value is a number; `made` counts them. `secret` is the Secret in the API
server with its owner, who made the value, whether it has the keys that are asked
for (`fit`) and whether its URL predates TLS (`legacy`); `cache[m]` is what process
m's informer shows. `pc[m]` and `my[m]` are the step and the uid of the reconcile
process m is in. `EnsureSecret` is the ensure function of the kind: the cached Get, the
checks (`Accepted`: the certificate's entries, or the token's owner and value),
Create, or the rewrite of a legacy URL with its resourceVersion (`UpdateURL`). It
is one action because the API server decides at the write alone. `ApplyDeployment` reads
the token once more and puts its hash in the pod template; of the other Secrets
only the name is hashed. `has[c]` is the value container c started with. Who
reads what is computed from Manifests for the installation of the run, so a
container added there joins the model.

A container reads Secret environment variables when it starts, the certificate
when its pod starts (init containers copy it). The kubelet does not start one without the
Secret. Deletion and creation of the CR are one step: the collector and the
processes may still be behind, so whatever could happen between the two can
happen after. Bounded by `MaxMade`: values made for a CR that is gone, which a
cache that never catches up would allow without end.

Managers has the flag `--leader-elect` as a variable, because both settings
exist: the default in `main` is off, `config/manager/manager.yaml` switches it on.
A process that loses its lease exits (`Retire`), but only some time later, and
nothing it writes carries the lease. `LeaderElectionReleaseOnCancel` is off, so
the lease of a process that ended runs out (`Expire`).

### PodStart

`disk` holds, per volume, the sequence of what was copied into the one file an
init container makes there; `"torn"` is a copy that was cut short. The scripts are
sequences of remove, copy and append. The kubelet may kill a script after any
line and in the middle of a copy and run it again on the same volume; a node
restart runs all of them again; a new pod has fresh emptyDirs and the former
claim. Abbenay may overwrite its own config.yaml once the pod is up.

### Topology and PluginPorts

Topology has one variable, the spec; `EditField` sets one field, so all
combinations are reached. PluginPorts has the locals of `resolvePlugins`; the
list in is any the CRD's rules admit.

## 4. Runs

Passing runs:

| Run | Instance | What it shows |
|---|---|---|
| ReconcileFaults | the specs with every operand and with every input the user's own; those inputs good or bad and changing; 1 failure | `DependenciesFirst`: an operand of the CR exists only when everything before it in `ensureAll` does, through stale reads, failed calls, lost replies, crashes |
| ReconcileConverge | edit between managed and external Postgres under way | `StatusInv`, the inductive invariant behind what the status says; `ReadyMeansInPlace`: Ready=True with the CR's generation means all operands are as that spec asks; `StatusCoherent`: patches from stale copies never mix generations; `KeepsItsPromise`: no pod's workload is applied without what its template refers to, and once Available is claimed nothing is rebuilt from an older spec or taken away; `OperandsConverge` and `StatusSettles` through the edit, LeftoverManagedPostgres included |
| ReconcileDrift | 1 operand deleted by the user, 1 failure, an external Secret that comes and goes | operands come back, the status follows and settles |
| ReconcileRecreate | the CR deleted and created again | `IInv`, the inductive invariant, types included; `StatusSettles` although a patch meant for the former CR may land in the new one; `NothingLeftBehind` a deleted CR although a reconcile in flight still creates |
| PluginPorts | all admitted lists of up to 4 plugins over 3 ports | `LoopInv`, the invariant of the loops; `PortsDistinct`, `MatchesReference` (independent of list order), `NobodyLeftOut` unless ports run out, `Terminates` |
| Topology | 14 toggles, 16384 specs | no port twice in the pod; every loopback call is answered; every mount has its volume; what a pod needs is created before it; no step writes another's or the user's object; what Ingress and Routes expose is reachable past Service and NetworkPolicy; `DatabaseIsTrusted`: what verify-full to the managed Postgres takes |
| PodStart | 6 toggles, 3 edits, 2 kills | `PodInv`: what a killed and repeated script has left; `TrustIsComplete`: CA bundles whole and without duplicates; `SettingsSurvive`: saved settings are not overwritten; `PodComesUp` |
| Routes | 4 specs, 1 edit, 2 uids, legacy Routes with a custom host or none; one of: a permission that is missing or withdrawn (and may be granted), a failed call, a crash, a failed probe, a Route deleted by the user | `HostInv`: the types, the Route that was read is the one there unless gone or going, and annotations name hosts; `HostNeverMoves`: the host of a Route in place is never changed under its users; `RoutesSettle`: Routes and status become right, or RoutePermissionDenied, once a process has found the Route API; a host the spec does not ask for stays only on a Route it was found on, while the CR names none; `NoRouteLeft` |
| Credentials | 2 processes, with and without leader election; all 4 kinds; one of: a lost call, reply, process, lease, container or pod, an edit by the user, a recreated CR | `TypeOK`; `TokenInv` and `LeaderInv`, the inductive invariants; `GeneratedOnce` (refinement of WriteOnce): a value is generated only where there is none and never written back over a later one; `NoIdleRollout`: the pod is not replaced while there has been one token only; `AdoptedStays`: under leader election, with nothing lost, what the present CR has taken over is not handed back to the former; `ReadersAgree`: all readers end up with the Secret's value; `OneLeads`: in the end one process leads, with its lease |

Runs whose violation documents a disagreement (section 7): ReadyBeforeRollout,
TornConfig, RecreatedCertificate.

Why these bounds. Each bound admits the case its run is about, and the cases
are pairs: one reconcile against one change. One fault suffices for
safety because a faulty run leaves the same kind of state as a run cut short,
which later reconciles meet from any intermediate state; two generations suffice
for an edit under way; two uids for a recreated CR. ReconcileFaults has the two
specs between which every step of `Steps` is taken. The runs with liveness use small specs
(`minimal`, `lean`) that keep every kind of step that reads a cache: a credential,
a workload, the leftover check. 3 ports for 4 plugins let the range be exhausted,
with explicit ports at either end. In Routes, the four specs cover: assigned
host, two custom ones (one of them with no UI, so another path for the API
Route), no Routes; `MaxTrouble` = 1 takes each kind of trouble alone. That the range is
exhausted (PluginPorts) is a case the code handles and the CRD rules out as it stands:
it admits 32 plugins, and there are 100 ports. In Credentials two processes are what an overlap takes;
`MaxTrouble` = 1 takes each kind of trouble alone, at every point of both
processes' work (with two, one kind of credential alone has over a million
states; the proxy token was checked so once, with the same properties except AdoptedStays,
and passed). `MaxMade` = 1 lets a process that has not seen the new CR
make a Secret for the former one. The refinement to Provisioning is checked for
one CR that is not deleted in ReconcileConverge; with the bounds of
ReconcileRecreate, deletion and a second CR included, it passes too, in four
minutes, and is kept out of that run for its length. The proofs of section 6 hold for
all bounds.

CHECK_DEADLOCK is FALSE where the system may come to rest: resolvePlugins returns
(PluginPorts), a pod is up and nobody edits or kills (PodStart, TornConfig), the
CR is gone and bounds are used up (Routes), every process is stopped for good
where none is started again (Credentials, RecreatedCertificate). The Reconcile runs check
deadlock: the user's own objects may always change, or a reconcile may run.

## 5. Fairness

* `WF_vars(Reconciler)`: a reconcile that started goes on, since its calls return,
  and one that ended comes back: `Reconcile` returns RequeueAfter `requeueStatus`
  (line 83), or an error, which controller-runtime retries with backoff. The
  fairness is on the disjunction only, no step is preferred.
* `WF_vars(CRSync)`, `WF_vars(\E kind : Sync(kind))`: watches deliver. Only that
  some kind goes on is assumed; since each Sync settles its kind until the server changes again,
  all do when the system is quiet.
* `WF_vars(\E group : GC(group))`: the garbage collector goes on.
* PodStart: the kubelet proceeds with a pod that is not up, and the Deployment
  controller replaces a pod of a former template.
* Routes: as above, and finalizers finish. That a process finds the Route API is
  not assumed: `RoutesSettle` has it as its condition.
* Credentials: as above for each process, and `WF_vars(Exits(m))`: a process
  notices that its lease is gone, as controller-runtime does at its renew
  deadline; `WF_vars(ElectionStep)`: processes are started again by their
  Deployment, and a free lease is taken. `WF_vars(Kubelet)`: pods are rolled out and
  containers start when they can; nothing ever restarts one for a changed Secret.

Nothing is assumed of the user, of pod readiness or of failures; failures are
bounded by `MaxFaults` (`MaxTrouble`), which for liveness says they eventually stop. Properties
that need more say so: `StatusSettles` asks that the inputs are good and the pods
up from some time on, `NothingLeftBehind` that the CR is not created again.

## 6. Proofs

Every invariant of a passing run, and every action property and refinement that
needs no fairness, is proved for all values of the constants.

| Theorem | Statement |
|---|---|
| ReconcileProofs!TypeCorrect | Spec => []TypeOK |
| ReconcileProofs!Inductive | Spec => []IInv |
| ReconcileProofs!DependencyOrder | Spec => []DependenciesFirst |
| StatusProofs!StatusInductive | Spec => []StatusInv |
| StatusProofs!ReadyIsTrue | Spec => []ReadyMeansInPlace |
| StatusProofs!StatusStaysCoherent | Spec => []StatusCoherent |
| StatusProofs!PromiseKept | Spec /\ [](drifts = 0) => KeepsItsPromise, that is, Reconcile implements Provisioning |
| CredentialsProofs!TypeCorrect | Spec => []TypeOK |
| CredentialsProofs!OnceGenerated | Spec => GeneratedOnce, that is, Credentials implements WriteOnce |
| CredentialsProofs!OneTokenInductive | Spec => []TokenInv |
| CredentialsProofs!RollsOutForTokens | Spec => NoIdleRollout |
| CredentialsProofs!LeaderInductive | Spec => []LeaderInv |
| CredentialsProofs!LeadersAdopt | Spec => AdoptedStays |
| RoutesProofs!RoutesTypeCorrect | Spec => []TypeOK |
| RoutesProofs!HostInductive | Spec => []HostInv |
| RoutesProofs!HostsStay | Spec => HostNeverMoves |
| PluginPortsProofs!PortsStayDistinct | Spec => []PortsDistinct |
| PluginPortsProofs!LoopInductive | Spec => []LoopInv |
| PluginPortsProofs!LoopsMatchReference | Spec => []MatchesReference |
| PluginPortsProofs!EveryoneIsPlaced | Spec => []NobodyLeftOut |
| TopologyProofs!PortsHaveOneOwner | Spec => []OnePortOneContainer |
| TopologyProofs!CallsFindSomeone | Spec => []CallsAreAnswered |
| TopologyProofs!MountsFindVolumes | Spec => []MountsHaveVolumes |
| TopologyProofs!NeedsAreMet | Spec => []NeedsAreEnsured |
| TopologyProofs!StepsDoNotShare | Spec => []StepsOwnTheirObjects |
| TopologyProofs!ExposedGetsThrough | Spec => []ExposedIsReachable |
| TopologyProofs!DatabaseCanBeTrusted | Spec => []DatabaseIsTrusted |
| PodStartProofs!PodInductive | Spec => []PodInv |
| PodStartProofs!TrustIsWhole | Spec => []TrustIsComplete |
| PodStartProofs!SettingsAreSpared | Spec => SettingsSurvive |

They hold for any set of specs with any content, any number of CR incarnations,
edits, deletions, faults, drifts, processes, pods and kills, any admitted list of
plugins and any range of ports.

### Assumptions

* All models: the bounds are naturals, and what stands for "nothing" (`None`,
  `Nobody`) is no value of the other kind. The port range is not empty
  (`PluginPortAssumption`).
* Reconcile: `SpecsAssumption`, a name the user gives refers to one of his own
  objects; `GivenAssumption`, such an object is absent, bad or good. For
  PromiseKept, `NamesAssumption`: none of them has the name of a Secret the
  operator makes. The code does not enforce this.
* Topology: `NamesAssumption`, the same for all the names the operator gives;
  `PluginsAssumption`: plugin lists as the CRD admits them (`Admitted`: names and
  explicit ports differ, ports in range), no more plugins than ports, the
  range above the fixed ports (50100 in the code), and no plugin's volume called like
  one of the pod's own.
* PodStart: `PodStartAssumption`, admitted lists, and no plugin's volume called
  like one an init container writes to. A plugin's volume is `plugin-`, its name, `-config`,
  so no name makes one of these.
* Routes: `RoutesAssumption`, Routes of a former version exist only for specs that
  ask for Routes; at least one uid.
* Credentials: `CredentialsAssumption`, the kinds are those of the code, and the
  installation of the model generates all of them.

### Reconcile: dependency order

`DependenciesFirst` speaks of objects of the present CR, but
is not inductive: the next apply is right only because everything before it was
done by this reconcile, and not undone since. `IInv` adds:

* `DoneSoFar`: what a reconcile of the present CR has gone past is in place, as
  its copy of the spec has it. It holds although a reconcile skips a credential
  the cache shows, because of
* `CacheTrue`: a Secret the cache shows as the present CR's exists. The cache can
  only be behind; it could be wrong about the CR's own Secret only if that Secret
  were removed, which is drift. That in turn rests on
* `UidsKnown`: nothing refers to a uid that has not been given out, and
* `FreshUntilSeen`: the present CR leaves no trace before the cache has shown it
  and the worker has taken it up; otherwise the cache could hold a Secret under its uid left
  by somebody else;
* `FailedIsOver`: after an error only the status follows, so no step is passed
  without having succeeded.

The proof has a lemma per group of actions (worker steps, failures, user,
cluster) and, under each, one step per conjunct. The order of `Steps` enters
through lemmas on `Pos` and `Advance`. `drifts = 0` excludes operands the
user deletes himself: they may be missing until the loop has put them back
(ReconcileDrift). `Guaranteed` weakens the property, for second and later
incarnations, on credentials other than the proxy token: the code accepts one
that the former CR owned, and the garbage collector may then remove it. The
proof made that exception necessary; it is a property of the code.

### Reconcile: the status

`ReadyMeansInPlace` and `StatusCoherent` speak of the status in the API server,
which the worker writes as the difference between what it found and its own copy
of the CR. What makes such a patch right is an order of three generations
(`CopiesInOrder`): the server's CR, the informer's copy and the worker's copy, none
ahead of the one before it, all with a status whose conditions and
observedGeneration were written together, and **none behind the generation the
server's status speaks of**. So when the worker's copy has the generation of the
patch already, the server has it too, and leaving it out of the patch does no
harm; when it has not, all of it is sent. A status that is Ready for the CR's
generation was written by a reconcile whose copy had that generation, hence that
spec, and `DoneSoFar` says what this reconcile had put in place; it stays, because every later
reconcile has the same generation as well. `StepIsPlanned` is what makes "gone past"
mean "applied" for the steps the spec calls for.

All of it is stated of the first CR of a name (`FirstCR`): a CR created after it can
be patched by a reconcile of the former one (section 7), so there the order does
not hold and only ReconcileRecreate's liveness is claimed.

### Reconcile: the promise

PromiseKept is a step simulation under the invariants above. `StepKinds` sorts the
actions by what they do to `wanted`, `built` and `says`; each
kind has a lemma. Those that matter: a step of `ensureAll` is a `Build`
(`WorkIsBuild`), whose guard, that a pod's needs are in place, comes from `DoneSoFar`
and `NeedsComeFirst`: what Manifests says a pod loads is made by a step earlier in
`Steps`, for every desired state; a patch that makes the CR Ready is a `Claim`, by
ReadyMeansInPlace; what the garbage collector takes is not the first CR's
while that is there, and is `TakeAway` after.

The hypothesis `[](drifts = 0)` is the one the property needs: an operand that the
user deletes is gone although the CR wants it, which Provisioning rules out. That
it comes back is liveness (ReconcileDrift). Nothing else is excluded: failures,
lost replies, crashes, edits and recreated CRs are all admitted.

### Credentials

**OnceGenerated.** The only writers are Create, which the API server refuses
when there is a Secret, and the rewrite of the URL, whose resourceVersion makes
the cached copy equal to what is replaced, so the value stays. Both hold whatever
the caches show and whoever leads, so type correctness is the whole invariant;
lemma `Writes` says it of one write, and `StepIsRegistered` of every step, the
user's and the collector's included.

**RollsOutForTokens.** `rolled` is the checksum of the template the pod was rolled
out with, so the pod is replaced only when a Deployment is applied with another.
`OneToken` says why there is none: while one token has been made, every copy of it
in the Secret and in the caches is the first, all of them agree on whether it has
the keys, and a process that got past `ensureProxyAdminToken` (`Passed`) read one.
In particular no reconcile reaches the Deployment with the checksum of nothing,
whatever its cache misses. `NoToken` is the case of the other kinds, of which
only names are hashed.

**LeadersAdopt.** An apply hands a workload to the CR the process works for, so it
goes back to a former CR if a process that has not seen the present one is still
active. `LeaderInv`: with leader election and nothing lost, the active process is the
one with the lease, its reconcile is for a CR its cache has shown, and whatever
owns a workload has been seen by both.
Its hypotheses are those of `AdoptedStays`; section 7 has the behaviour without them.

### Routes

`HostNeverMoves` could fail in two ways: the Route that is written is not the one
that was read (`SeenIsLive` of `HostInv`: it is, or it was deleted meanwhile and is gone
or waits for a finalizer, since only this worker writes one), or the annotation routeNeedsRecreate compares does
not say what the host is (`IntentIsHost`: a non-empty annotation is the host). An
apply onto an existing Route then either keeps the intent, hence the host, or sends
the live host itself (`ApplyKeepsHost`).

### PluginPorts

**PortsStayDistinct.** The strengthening (`PortsInv`) is that, while ports are
being assigned, every port in `out` is in `used`; a port is assigned only when it
is not. The explicit ports differ because the CRD admits no other list, and the
final sort is a permutation.

**LoopsMatchReference.** `resolvePlugins` in Desired gives the k-th plugin by name the
k-th free port; the loop never counts. `LoopInv` relates the two: those served are
the first by name, each has what the function gives it, and the loop has passed as many
free ports as it served plugins. That the next port it finds is the k-th free one
(`RankIsTaken`), and that there is none when it finds none, is a matter of
cardinalities of initial segments (`Below`). A least and a greatest port of a set
exist because the set is finite (`LowestIs`, `HighestIs`), so no induction over
the list is needed. **EveryoneIsPlaced** adds that explicit ports and
plugins without one are together no more than the range (`PortsSuffice`).

### Topology

There is no induction on steps to speak of: the spec keeps to the user's choices
(`Chosen`), and the rest is about the operators of Manifests, for any desired state
`From` may return. What containers listen on, mount and call is tabled once
(`PortsHeard`, `PortsOfContainers`, `VolumesByName`, `MountsOfContainers`), the
objects of a step by `OwnObject`, and each theorem goes by cases through its table.
Plugins enter through the facts proved for PluginPorts: ports in range, and
different.

### PodStart

`PodInv` has three parts. `Planned`: only init containers of the pod are left to
run. `Underway`: the script that runs has done to its file what its lines so far
say, whatever an earlier, killed run had left there; for the bundles that is
because the script begins by removing. `Finished`: the file of an init container
that succeeded is complete; the others leave it alone, because no two write to
one volume (`DisksAre`, `InitsDiffer`) and plugins do not write to any of these.
SettingsSurvive follows from `Underway` for the seed: it copies only onto
a claim that was found empty.

### Only model-checked

* Everything under fairness, since TLAPS has no ENABLED: `OperandsConverge`,
  `StatusSettles`, `NothingLeftBehind`, `PodComesUp`, `RoutesSettle`,
  `NoRouteLeft`, `ReadersAgree`, `OneLeads`, `Terminates`.
* The three properties that are violated (section 7).

## 7. Findings

1. **Ready before the rollout** (ReadyBeforeRollout). `deploymentReady` asks for
   `readyReplicas >= 1` and not whether the Deployment's controller has seen the new
   template. Right after a version change Ready=True is set for the new
   generation while the old version's pod serves. The message says "all owned
   objects ready".
2. **A seed that was not finished** (TornConfig). `init-abbenay-config` is killed
   in the middle of `cp`; the partial file is taken for the user's own by every
   later run.
3. **A certificate nobody serves** (RecreatedCertificate). A recreated CR takes over
   the StatefulSet by applying it, but only looks at the generated Secrets, which
   still belong to the former CR and are collected later. A new CA and
   certificate are generated, and nothing restarts the Postgres pod, which copied
   the former ones when it started: the Gateway, given the new CA, cannot connect
   until Postgres is restarted by something else. The guide says managed Postgres always serves
   TLS so that it can. The same holds of the password, and of a generated Secret
   the user deletes, which the same function generates anew (the run has the
   recreated CR only).

Observed while modelling, not checked by a run of their own:

* A legacy Route (no annotation) whose host is cleared in the spec before the new
  operator has annotated it keeps its custom host: the apply keeps the live host
  and stamps the empty intent, and no later comparison sees a difference. The
  comment at `routes.go:127` expects the stamp to help, and the guide
  (`docs/user-guide.md:255`) that the new host converges without manual deletion.
  Likewise a Route of a deleted CR that the recreated CR takes over, before the
  collector comes, keeps the former custom host although the new CR leaves it empty
  "for the OpenShift default hostname" (line 254). Both are in the run Routes:
  `inherited` marks such a Route, and `RoutesSettle` allows no other to have a host
  that is not the spec's. Naming a host in the spec recreates the Route and ends it.
* A status patch has no uid precondition: a reconcile of a deleted CR can write
  into the CR created after it. The next reconcile repairs it (ReconcileRecreate).
* Switching `networkPolicy.enabled` off stops applying the policies, but nothing
  deletes them, although the API type says the field "toggles operand
  NetworkPolicies" (`api/v1alpha1/apme_types.go:309`). The same holds of the
  Ingress and of the UI Service.
* With a recreated CR and a lost lease together, a new leader whose cache of the
  CR is old applies operands for the CR that is gone. That hands workloads, and
  claims, which the present CR had taken over, to the garbage collector. `LeaderInv`
  and `AdoptedStays` have their condition (nothing lost) for this reason, so they
  say nothing of that case, and neither does `OneLeads`, which is about processes.
* When `abbenay.tokenSecretRef.key` changes, the generated Abbenay Secret keeps
  its former key and the pod asks for one that is not there.
* The generated server certificate runs out after 365 days (`certs.go:81`), the CA after
  ten years; HasTLSMaterial only asks that the entries are not empty, and nothing renews either.
* The engine Service offers ports the default NetworkPolicy closes.
* On failure `fail` passes `false` for the leftover flag, so
  LeftoverManagedPostgres flickers to ReconcileError (`Fail`).
* Changing the host of a Route without the permission deletes a working Route first
  and is denied the new one.

## 8. Not modelled

* **The bytes of credentials**: random numbers, PEM, URL syntax, expiry. The
  values are numbers, told apart only by which one they are; the names in the certificate
  and the URL are in Manifests.
* **Credentials the user brings**: their presence and form is in Reconcile
  (`given`); what pods make of a change of theirs is the same as of a generated
  one (the names are hashed, not the contents).
* **The rest of `cmd/main.go`**: flags other than `--leader-elect`, TLS options,
  metrics, webhook and health servers. The loop of Reconcile is one worker of one
  manager; several managers are in Credentials.
* **CRD validation** beyond the rules on plugins; **generated deep copies**;
  **kustomize configuration and RBAC**; **tests**.
* Images, probes, resources, security contexts: data nothing modelled depends on.
* Foreground deletion of the CR: it is gone at once, and the garbage collector
  follows (background deletion, the default).
* Routes together with the other operands' caches.

## 9. Plan

Done, in this order: Desired, Reconcile with its invariant and proofs,
PluginPorts with its proof, Manifests and Topology, PodStart, Routes, Credentials
with Managers and its refinement and proof, the refinement of Reconcile to
Provisioning, Routes over two incarnations and the probe; then the proofs: the
status and the refinement to Provisioning, tokens and leaders in Credentials, the
hosts of Routes, the loops of PluginPorts, all of Topology, PodStart.

Next, in the direction of the liveness properties, whose safety parts can be
stated and proved:

1. **A promise that admits drift**: Provisioning with an action that loses an
   operand and withdraws the claim no earlier than the next patch; PromiseKept
   then needs no hypothesis.
2. **Later incarnations**: what of `CopiesInOrder` and of the order of operands is
   left when a patch for a former CR lands in the present one.
3. **Stability behind the liveness properties**: once a reconcile of the last
   spec is through with nothing failed, no step of the worker changes an operand again (OperandsConverge);
   once no reconcile is under way for a CR that is gone, nothing is created for it
   (NothingLeftBehind, NoRouteLeft).
