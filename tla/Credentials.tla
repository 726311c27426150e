----------------------------- MODULE Credentials -----------------------------
(***************************************************************************)
(* The contents of one generated credential: the Postgres certificate, the *)
(* Postgres password with its URL, the Abbenay token or the proxy          *)
(* administration token.  Of the reconcile loop it has the steps that read *)
(* or write the Secret, or apply a workload whose containers read it; of   *)
(* the rest, module Reconcile.  Several manager processes run the loop,    *)
(* each from informer caches of its own.                                   *)
(***************************************************************************)
EXTENDS Managers, Manifests

CONSTANTS None,
          Installation,  \* the fields of the CR's spec, see module Desired
          Kinds,         \* the credentials to look at, one per behaviour
          MaxMade,       \* bound: values after which no more are made for a CR
                         \* that is gone
          MaxUid,        \* bound: how often the CR is created
          MaxEdits,      \* bound: Secrets the user edits, deletes or creates
          MaxFaults,     \* bound: failed calls, lost replies, processes, leases,
                         \* containers and pods that are lost
          MaxTrouble     \* bound: all of these together

D == From(Installation)

SecretName ==
    [ tls      |-> D.PostgresTLSSecretName, postgres |-> D.DatabaseSecretName,
      abbenay  |-> D.AbbenayTokenName,      proxy    |-> D.ProxyAdminTokenName ]

ASSUME CredentialsAssumption ==
    /\ Kinds \subseteq DOMAIN SecretName
    /\ D.GeneratePostgres /\ D.GeneratePostgresTLS /\ D.GenerateAbbenayToken

ASSUME BoundsAssumption ==
    /\ MaxUid \in Nat \ {0}
    /\ MaxMade \in Nat /\ MaxEdits \in Nat /\ MaxFaults \in Nat /\ MaxTrouble \in Nat

VARIABLES
    kind,      \* which of the credentials
    cr,        \* uid of the CR in the API server
    crCache,   \* per process, cr as its informer has it
    secret,    \* the Secret in the API server, or None
    cache,     \* per process, the Secret as its informer has it
    made,      \* how many values there have been
    owner,     \* per workload, uid of its controller; 0: no object
    sum,       \* what the Deployment's checksum is computed from
    rolled,    \* the checksum its pod has; None: no pod
    has,       \* per container, the value it started with, or None
    pc, my,    \* per process, the step it is at and the uid it works for
    edits, faults

podVars   == <<rolled, has>>
workVars  == <<owner, sum>>
stepVars  == <<pc, my>>
bounds    == <<edits, faults>>
vars == <<managerVars, kind, cr, crCache, secret, cache, made, workVars,
          podVars, stepVars, bounds>>

-----------------------------------------------------------------------------
(* Who reads the credential, by module Manifests.                           *)

EngineReaders(k) ==
    {c.name : c \in {x \in Containers(D) :
        SecretName[k] \in x.secrets \/ (k = "tls" /\ "db-ca-bundle" \in x.mounts)}}

PostgresReaders(k) ==
    When(<<"Secret", SecretName[k]>> \in StatefulSetNeeds(D), {"postgres"})

\* The containers of a workload's pod that read it.
Pod == [k \in Kinds |-> [Deployment  |-> EngineReaders(k),
                         StatefulSet |-> PostgresReaders(k)]]

Readers == [k \in Kinds |-> Pod[k].Deployment \cup Pod[k].StatefulSet]

AllReaders == UNION {Readers[k] : k \in Kinds}

Uids == 1 .. MaxUid

\* fit: it has the keys the operator and the containers ask for, and they are
\* not empty.  legacy: the URL in it does not ask for TLS.
Secrets == [ owner : 0 .. MaxUid, by : {"operator", "user"}, n : Nat,
             fit : BOOLEAN, legacy : BOOLEAN ]

ASSUME NoneAssumption == None \notin Secrets

\* Every variable holds what its comment says.
TypeOK ==
    /\ ManagersTypeOK
    /\ kind \in Kinds
    /\ cr \in Uids
    /\ crCache \in [Managers -> Uids]
    /\ secret \in Secrets \cup {None}
    /\ cache \in [Managers -> Secrets \cup {None}]
    /\ made \in Nat
    /\ owner \in [Workloads -> 0 .. MaxUid]
    /\ sum \in Nat
    /\ rolled \in Nat \cup {None}
    /\ has \in [AllReaders -> Nat \cup {None}]
    /\ pc \in [Managers -> {"Idle", "Ensure", "StatefulSet", "Deployment"}]
    /\ my \in [Managers -> 0 .. MaxUid]
    /\ \A m \in Managers : pc[m] # "Idle" => my[m] # 0 /\ mode[m] = "active"
    /\ edits \in 0 .. MaxEdits /\ faults \in 0 .. MaxFaults

\* A CR that is new, or that a version served whose URLs had no TLS.
LegacySecret == [owner |-> 1, by |-> "operator", n |-> 1, fit |-> TRUE, legacy |-> TRUE]

Init ==
    /\ ManagersInit
    /\ kind \in Kinds
    /\ cr = 1
    /\ crCache = [m \in Managers |-> 1]
    /\ secret \in {None} \cup When(kind = "postgres", {LegacySecret})
    /\ cache = [m \in Managers |-> secret]
    /\ made = IF secret = None THEN 0 ELSE 1
    /\ owner = [w \in Workloads |-> 0] /\ sum = 0
    /\ rolled = None /\ has = [c \in AllReaders |-> None]
    /\ pc = [m \in Managers |-> "Idle"] /\ my = [m \in Managers |-> 0]
    /\ edits = 0 /\ faults = 0

-----------------------------------------------------------------------------
(* The worker of process m.                                                 *)

Goto(m, step) == pc' = [pc EXCEPT ![m] = step] /\ UNCHANGED my

\* Reconcile returns; what it writes to the status is in module Reconcile.
Return(m) == pc' = [pc EXCEPT ![m] = "Idle"] /\ my' = [my EXCEPT ![m] = 0]

\* (mutant: the controller does not wait for the election)
StartBeforeElected(m) ==
    /\ mode[m] # "down" /\ pc[m] = "Idle"
    /\ pc' = [pc EXCEPT ![m] = "Ensure"] /\ my' = [my EXCEPT ![m] = crCache[m]]
    /\ UNCHANGED <<managerVars, kind, cr, crCache, secret, cache, made,
                   workVars, podVars, bounds>>

Start(m) ==
    /\ mode[m] = "active" /\ pc[m] = "Idle"
    /\ pc' = [pc EXCEPT ![m] = "Ensure"] /\ my' = [my EXCEPT ![m] = crCache[m]]
    /\ UNCHANGED <<managerVars, kind, cr, crCache, secret, cache, made,
                   workVars, podVars, bounds>>

\* ensureDatabase applies the StatefulSet once its Secrets are ensured.
Ensured(m) ==
    Goto(m, IF kind \in {"tls", "postgres"} THEN "StatefulSet" ELSE "Deployment")

\* A fresh random value under the name, for this CR.
Generated(m) ==
    [owner |-> my[m], by |-> "operator", n |-> made + 1, fit |-> TRUE, legacy |-> FALSE]

\* (mutant: the Secret is applied, not created)
CreateOrReplace(m) == secret' = Generated(m) /\ made' = made + 1

\* A cache that lags for ever would let a process make Secrets for a CR that is
\* gone as fast as the collector removes them.
Bounded(m) == my[m] # cr => made < MaxMade

\* AlreadyExists when the cache hid it.
Create(m) ==
    /\ secret = None /\ Bounded(m)
    /\ secret' = Generated(m) /\ made' = made + 1

\* (mutant: the Update carries no resourceVersion)
UpdateAnyway(m) == secret # None /\ secret' = [cache[m] EXCEPT !.legacy = FALSE]

\* ensurePostgresURLTLS writes the whole Secret as the cache has it, with the
\* URL changed, and with the resourceVersion of what was read.
UpdateURL(m) == secret = cache[m] /\ secret' = [cache[m] EXCEPT !.legacy = FALSE]

\* All three entries are there and not empty.
HasTLSMaterial(m) == cache[m].fit

\* What the ensure function asks of a Secret that is there.
Accepted(m) ==
    CASE kind = "tls"      -> HasTLSMaterial(m)
      [] kind = "proxy"    -> cache[m].owner = my[m] /\ cache[m].fit
      [] kind \in {"postgres", "abbenay"} -> TRUE

NeedsTLS(m) == cache[m].fit /\ cache[m].legacy

\* The write an ensure function makes, if it makes one and it succeeds.
Write(m) ==
    \/ cache[m] = None /\ Create(m)
    \/ cache[m] # None /\ NeedsTLS(m) /\ UpdateURL(m) /\ UNCHANGED made

\* It makes one that is refused.
Refused(m) ==
    \/ cache[m] = None /\ (secret # None \/ ~Bounded(m))
    \/ cache[m] # None /\ NeedsTLS(m) /\ secret # cache[m]

EnsureSecret(m) ==
    /\ pc[m] = "Ensure"
    /\ \/ Write(m) /\ Ensured(m)
       \/ Refused(m) /\ Return(m) /\ UNCHANGED <<secret, made>>
       \/ /\ cache[m] # None /\ ~NeedsTLS(m)
          /\ IF Accepted(m) THEN Ensured(m) ELSE Return(m)
          /\ UNCHANGED <<secret, made>>
    /\ UNCHANGED <<managerVars, kind, cr, crCache, cache, workVars, podVars, bounds>>

\* Nothing in the StatefulSet's pod template depends on the credential.
ApplyStatefulSet(m) ==
    /\ pc[m] = "StatefulSet"
    /\ owner' = [owner EXCEPT !["StatefulSet"] = my[m]]
    /\ Goto(m, "Deployment")
    /\ UNCHANGED <<managerVars, kind, cr, crCache, secret, cache, made, sum,
                   podVars, bounds>>

\* The token's value as the cache has it.
Token(m) == IF cache[m] # None /\ cache[m].fit THEN cache[m].n ELSE 0

\* (mutant: the hash is of the token's name, as it is for the other Secrets)
ChecksumOfName(m) == 0

\* Of the proxy token the value is hashed, of the other Secrets the name.
Checksum(m) == IF kind = "proxy" THEN Token(m) ELSE 0

\* (mutant: the error of the Get is not returned)
TokenOptional(m) == TRUE

\* applyWorkload reads the proxy token once more.
TokenRead(m) == kind = "proxy" => cache[m] # None

ApplyDeployment(m) ==
    /\ pc[m] = "Deployment"
    /\ IF TokenRead(m)
       THEN /\ owner' = [owner EXCEPT !["Deployment"] = my[m]]
            /\ sum' = Checksum(m)
       ELSE UNCHANGED workVars
    /\ Return(m)
    /\ UNCHANGED <<managerVars, kind, cr, crCache, secret, cache, made,
                   podVars, bounds>>

Worker(m) == Start(m) \/ EnsureSecret(m) \/ ApplyStatefulSet(m) \/ ApplyDeployment(m)

-----------------------------------------------------------------------------
(* Failures, and the life of the processes.                                 *)

Trouble == (cr - 1) + edits + faults

Fault ==
    /\ faults < MaxFaults /\ Trouble < MaxTrouble
    /\ faults' = faults + 1 /\ UNCHANGED edits

CallFails(m) ==
    /\ pc[m] # "Idle"
    /\ Fault /\ Return(m)
    /\ UNCHANGED <<managerVars, kind, cr, crCache, secret, cache, made,
                   workVars, podVars>>

\* The Secret is written and the reply is lost.
ReplyLost(m) ==
    /\ pc[m] = "Ensure" /\ Write(m)
    /\ Fault /\ Return(m)
    /\ UNCHANGED <<managerVars, kind, cr, crCache, cache, workVars, podVars>>

Killed(m) ==
    /\ Fault
    /\ Stop(m) /\ Return(m)
    /\ UNCHANGED <<kind, cr, crCache, secret, cache, made, workVars, podVars>>

Exits(m) ==
    /\ Retire(m) /\ Return(m)
    /\ UNCHANGED <<kind, cr, crCache, secret, cache, made, workVars, podVars, bounds>>

LeaseLapses ==
    /\ Lapse /\ Fault
    /\ UNCHANGED <<kind, cr, crCache, secret, cache, made, workVars, podVars, stepVars>>

ElectionStep ==
    /\ \/ \E m \in Managers : Boot(m) \/ Acquire(m)
       \/ Expire
    /\ UNCHANGED <<kind, cr, crCache, secret, cache, made, workVars, podVars,
                   stepVars, bounds>>

-----------------------------------------------------------------------------
(* The user.                                                                *)

\* The CR is deleted and created again.  What can happen in between can happen
\* afterwards, while nothing has seen the new one.
RecreateCR ==
    /\ cr < MaxUid /\ Trouble < MaxTrouble
    /\ cr' = cr + 1
    /\ UNCHANGED <<managerVars, kind, crCache, secret, cache, made, workVars,
                   podVars, stepVars, bounds>>

Edit ==
    /\ edits < MaxEdits /\ Trouble < MaxTrouble
    /\ edits' = edits + 1 /\ UNCHANGED faults

\* He puts a value of his own into the Secret, or makes a Secret of his own.
UserWrites(fit, legacy) ==
    /\ Edit
    /\ legacy => kind = "postgres"
    /\ secret' = [owner |-> IF secret = None THEN 0 ELSE secret.owner,
                  by |-> "user", n |-> made + 1, fit |-> fit, legacy |-> legacy]
    /\ made' = made + 1
    /\ UNCHANGED <<managerVars, kind, cr, crCache, cache, workVars, podVars, stepVars>>

UserDeletes ==
    /\ secret # None /\ Edit
    /\ secret' = None
    /\ UNCHANGED <<managerVars, kind, cr, crCache, cache, made, workVars,
                   podVars, stepVars>>

-----------------------------------------------------------------------------
(* The cluster.                                                             *)

CRSync(m) ==
    /\ crCache[m] # cr
    /\ crCache' = [crCache EXCEPT ![m] = cr]
    /\ UNCHANGED <<managerVars, kind, cr, secret, cache, made, workVars,
                   podVars, stepVars, bounds>>

SecretSync(m) ==
    /\ cache[m] # secret
    /\ cache' = [cache EXCEPT ![m] = secret]
    /\ UNCHANGED <<managerVars, kind, cr, crCache, secret, made, workVars,
                   podVars, stepVars, bounds>>

\* A container is started once its pod is there and the kubelet finds the
\* Secret with the key.
StartContainer(c) ==
    /\ has[c] = None
    /\ IF c = "postgres" THEN owner["StatefulSet"] # 0 ELSE rolled # None
    /\ secret # None /\ secret.fit
    /\ c \in Readers[kind]
    /\ has' = [has EXCEPT ![c] = secret.n]
    /\ UNCHANGED <<managerVars, kind, cr, crCache, secret, cache, made,
                   workVars, rolled, stepVars, bounds>>

Stopped(cs) == [c \in AllReaders |-> IF c \in cs THEN None ELSE has[c]]

\* The Deployment controller replaces the pod of another template.
RollOut ==
    /\ owner["Deployment"] # 0 /\ rolled # sum
    /\ rolled' = sum
    /\ has' = Stopped(Pod[kind].Deployment)
    /\ UNCHANGED <<managerVars, kind, cr, crCache, secret, cache, made,
                   workVars, stepVars, bounds>>

\* One container is restarted and reads its environment again.  Certificates
\* are read by the init containers, when the pod starts.
ContainerStops(c) ==
    /\ has[c] # None /\ kind # "tls"
    /\ Fault
    /\ has' = Stopped({c})
    /\ UNCHANGED <<managerVars, kind, cr, crCache, secret, cache, made,
                   workVars, rolled, stepVars>>

PodStops(w) ==
    /\ \E c \in Pod[kind][w] : has[c] # None
    /\ Fault
    /\ has' = Stopped(Pod[kind][w])
    /\ UNCHANGED <<managerVars, kind, cr, crCache, secret, cache, made,
                   workVars, rolled, stepVars>>

Gone(uid) == uid \notin {0, cr}

CollectSecret ==
    /\ secret # None /\ Gone(secret.owner)
    /\ secret' = None
    /\ UNCHANGED <<managerVars, kind, cr, crCache, cache, made, workVars,
                   podVars, stepVars, bounds>>

CollectWorkload(w) ==
    /\ Gone(owner[w])
    /\ owner' = [owner EXCEPT ![w] = 0]
    /\ has' = Stopped(Pod[kind][w])
    /\ rolled' = IF w = "Deployment" THEN None ELSE rolled
    /\ UNCHANGED <<managerVars, kind, cr, crCache, secret, cache, made, sum,
                   stepVars, bounds>>

Collector == CollectSecret \/ \E w \in Workloads : CollectWorkload(w)

Kubelet == RollOut \/ \E c \in AllReaders : StartContainer(c)

Next ==
    \/ \E m \in Managers :
          \/ Worker(m)
          \/ CallFails(m)
          \/ ReplyLost(m)
          \/ Killed(m)
          \/ Exits(m)
          \/ CRSync(m)
          \/ SecretSync(m)
    \/ LeaseLapses
    \/ ElectionStep
    \/ RecreateCR
    \/ \E fit, legacy \in BOOLEAN : UserWrites(fit, legacy)
    \/ UserDeletes
    \/ Kubelet
    \/ \E c \in AllReaders : ContainerStops(c)
    \/ \E w \in Workloads : PodStops(w)
    \/ Collector

Spec == Init /\ [][Next]_vars

(***************************************************************************)
(* Fairness, as in Reconcile and for each process: processes are started   *)
(* again and take the lease when it is free, their reconciles come back,   *)
(* the watches deliver, the collector and the kubelet go on.               *)
(***************************************************************************)
Fairness ==
    /\ \A m \in Managers :
          /\ WF_vars(Worker(m)) /\ WF_vars(Exits(m))
          /\ WF_vars(CRSync(m)) /\ WF_vars(SecretSync(m))
    /\ WF_vars(ElectionStep)
    /\ WF_vars(Collector) /\ WF_vars(Kubelet)

FairSpec == Spec /\ Fairness

-----------------------------------------------------------------------------
(* Properties.                                                              *)

Register == INSTANCE WriteOnce WITH
    value <- IF secret = None THEN None ELSE [by |-> secret.by, n |-> secret.n],
    made  <- made

\* "once-created": whichever process writes, from whatever its cache shows, the
\* operator puts a value only where there is none.  It never generates over a
\* value and never writes back one that has been replaced.
GeneratedOnce == Register!Spec

\* The Secret and its copies.
Copies == {v \in {secret} \cup {cache[m] : m \in Managers} : v # None}

\* Some reconcile has got past the Secret.
Passed ==
    \/ \E m \in Managers : pc[m] \in {"StatefulSet", "Deployment"}
    \/ owner["Deployment"] # 0

\* While there has been at most one token, it is all that any cache shows; and
\* once it has been accepted, it is the one a checksum is of.
OneToken ==
    kind = "proxy" /\ made <= 1 =>
        /\ made = 0 => Copies = {}
        /\ \A v \in Copies : v.n = 1 /\ ~v.legacy
        /\ \A v, w \in Copies : v.fit = w.fit
        /\ Passed => made = 1 /\ \A v \in Copies : v.fit
        /\ owner["Deployment"] # 0 => sum = 1
        /\ rolled \in {None, 1}

\* The other Secrets are hashed by name.
NoToken == kind # "proxy" => sum = 0 /\ rolled \in {None, 0}

\* Why the pod is not replaced for nothing.
TokenInv == OneToken /\ NoToken

\* As long as nothing is lost, one process leads, and for good; it has seen
\* whichever CR owns a workload, and so has the reconcile it is busy with.
LeaderInv ==
    elect /\ faults = 0 =>
        /\ \A m \in Managers : mode[m] = "active" <=> m = lease
        /\ \A m \in Managers : my[m] <= crCache[m] /\ crCache[m] <= cr
        /\ \A w \in Workloads : owner[w] # 0 =>
              /\ lease # Nobody
              /\ owner[w] <= crCache[lease]
              /\ pc[lease] # "Idle" => owner[w] <= my[lease]

\* The pod is replaced only for another token: until there has been a second
\* one, the template does not change, whatever the caches miss or show.
NoIdleRollout ==
    [][(made <= 1 /\ rolled # None) => rolled' \in {rolled, None}]_vars

\* The Secret is as the ensure function wants it.
SecretInOrder ==
    /\ secret # None /\ secret.fit /\ ~secret.legacy
    /\ kind = "proxy" => secret.owner = cr

AllAgree == \A c \in Readers[kind] : has[c] = secret.n

\* What the user has to leave alone.  Of the proxy token he may do as he likes
\* as long as the Secret is the CR's and not empty.
LeftAlone ==
    secret # None =>
        /\ secret.fit
        /\ IF kind = "proxy" THEN secret.owner = cr ELSE secret.n = 1

\* "changes to the Secret trigger a workload rollout": all containers that share
\* the proxy token end up with the one in the Secret, through lost leases, stale
\* caches and containers restarted one by one.  For the other credentials the
\* same holds of the value that was generated first.
ReadersAgree == <>[]LeftAlone => <>[](SecretInOrder /\ AllAgree)

\* "Enabling this will ensure there is only one active controller manager": in
\* the end, with its lease.
OneLeads ==
    <>[](elect => lease # Nobody /\ \A m \in Managers : mode[m] = "active" <=> m = lease)

\* What leader election is for: as long as no process, lease or call is lost, a
\* workload the present CR has taken over is not handed back to a former one,
\* although other processes, with caches that never saw the present CR, are up.
AdoptedStays ==
    [][(elect /\ faults = 0 /\ cr' = cr) =>
          \A w \in Workloads : owner[w] = cr => owner'[w] = cr]_vars

\* "Managed Postgres always serves TLS so the Gateway can connect": in the end
\* both are up with the password, or the CA, of the same Secret.
GatewayConnects ==
    <>[](has["gateway"] # None /\ has["gateway"] = has["postgres"])
=============================================================================
