------------------------------- MODULE Routes -------------------------------
(***************************************************************************)
(* internal/controller/routes.go: the last step of ensureAll, on a cluster *)
(* with the OpenShift Route API.                                           *)
(*                                                                         *)
(* A Route is read from the API server (unstructured objects are not read  *)
(* from a cache), compared, and then deleted or applied by name; the user, *)
(* the garbage collector and finalizers act in between.  The steps before  *)
(* ensureRoutes are left out, and of the status only what depends on the   *)
(* Routes is kept, patched in full: module Reconcile has the rest.         *)
(***************************************************************************)
EXTENDS Manifests

CONSTANTS Specs, Content,  \* the specs a user may give the CR, and their fields
          LegacySpecs,     \* those a former version of the operator may have served
          None,
          MaxUid,          \* bound: how often the CR is created
          MaxEdits,        \* bound: edits of the spec
          MaxTrouble       \* bound: failed calls, crashes, Routes the user deletes,
                           \* a missing API, a missing or withdrawn permission

Desire == [s \in Specs |-> From(Content[s])]

ASSUME RoutesAssumption ==
    /\ None \notin Specs /\ LegacySpecs \subseteq Specs
    /\ \A s \in LegacySpecs : Desire[s].RouteEnabled
    /\ MaxUid \in Nat \ {0} /\ MaxEdits \in Nat /\ MaxTrouble \in Nat

VARIABLES
    cr, crCache,   \* [uid, spec] in the API server and in the informer, or None
    lastUid,
    routes,        \* per name, the Route in the API server, or None
    granted,       \* the operator may create routes/custom-host
    hasRoute,      \* what the process found when it looked for the Route API
    pc,
    at,            \* the Route the worker is at
    my,            \* its copy of the CR
    seen,          \* the Route as the last Get returned it
    error,         \* what ensureRoutes returns, "" for nothing
    url,           \* what publicURL has returned, for the status
    status,        \* the CR's
    edits, trouble

crVars     == <<cr, lastUid>>
envVars    == <<granted, hasRoute>>
workerVars == <<pc, at, my, seen, error, url>>
bounds     == <<edits, trouble>>
vars == <<crVars, crCache, routes, envVars, workerVars, status, bounds>>

Names == {"ui", "api"}

Hosts == {Desire[s].RouteHost : s \in Specs} \ {""}

\* What OpenShift calls a Route that names no host.
Assigned == [ui |-> "ui.apps", api |-> "api.apps"]

\* intent is the annotation that records the host the CR asked for; a Route of
\* a former version has none.  inherited is history, for RoutesSettle: the Route
\* has kept a custom host that this CR found on it, annotated by nobody or by a
\* former CR.
Route == [ owner : 1 .. MaxUid, intent : Hosts \cup {"", "no annotation"},
           host : Hosts \cup {Assigned[r] : r \in Names}, path : {"/", "/api"},
           inherited : BOOLEAN, deleting : BOOLEAN ]

CRs == [uid : 1 .. MaxUid, spec : Specs]

URLs == {""} \cup Hosts \cup {Assigned[r] : r \in Names}

Status == [ url : URLs,
            degraded : {"", "AsExpected", "ReconcileError", "RoutePermissionDenied"} ]

NoStatus == [url |-> "", degraded |-> ""]

Errors == {"", "ReconcileError", "RoutePermissionDenied"}

\* Every variable holds what its comment says.
TypeOK ==
    /\ cr \in CRs \cup {None} /\ crCache \in CRs \cup {None}
    /\ lastUid \in 0 .. MaxUid
    /\ routes \in [Names -> Route \cup {None}]
    /\ granted \in BOOLEAN /\ hasRoute \in BOOLEAN
    /\ pc \in {"Idle", "Get", "Write", "URL", "Status"} /\ at \in Names
    /\ my \in CRs \cup {None} /\ (pc # "Idle" => my # None)
    /\ seen \in Route \cup {None}
    /\ error \in Errors /\ url \in URLs
    /\ status \in Status
    /\ edits \in 0 .. MaxEdits /\ trouble \in 0 .. MaxTrouble

-----------------------------------------------------------------------------
(* The Routes a desired state asks for.                                     *)

Want(d, r) == d.RouteEnabled /\ (r = "ui" => d.UI)

Path(d, r) == IF r = "ui" THEN UIRoute(d).path ELSE APIRoute(d).path

HostOf(d, r) == IF d.RouteHost # "" THEN d.RouteHost ELSE Assigned[r]

\* A Route of a former version, which did not annotate it.
Legacy(s, r) ==
    IF Want(Desire[s], r)
    THEN [owner |-> 1, intent |-> "no annotation", host |-> HostOf(Desire[s], r),
          path |-> Path(Desire[s], r), inherited |-> FALSE, deleting |-> FALSE]
    ELSE None

Init ==
    /\ \/ /\ cr = None /\ lastUid = 0
          /\ routes = [r \in Names |-> None]
       \/ \E s \in LegacySpecs :
             /\ cr = [uid |-> 1, spec |-> s] /\ lastUid = 1
             /\ routes = [r \in Names |-> Legacy(s, r)]
    /\ crCache = None
    /\ granted \in BOOLEAN /\ hasRoute \in BOOLEAN
    /\ trouble = (IF granted THEN 0 ELSE 1) + (IF hasRoute THEN 0 ELSE 1)
    /\ trouble <= MaxTrouble
    /\ pc = "Idle" /\ at = "ui" /\ my = None /\ seen = None /\ error = "" /\ url = ""
    /\ status = NoStatus
    /\ edits = 0

-----------------------------------------------------------------------------
(* The worker.                                                              *)

\* ensureRoutes does nothing when the API was not found.
Start ==
    /\ pc = "Idle" /\ crCache # None
    /\ pc' = (IF hasRoute THEN "Get" ELSE "URL") /\ at' = "ui" /\ my' = crCache
    /\ UNCHANGED <<crVars, crCache, routes, envVars, seen, error, url, status, bounds>>

GetRoute ==
    /\ pc = "Get"
    /\ seen' = routes[at]
    /\ pc' = "Write"
    /\ UNCHANGED <<crVars, crCache, routes, envVars, at, my, error, url, status, bounds>>

\* On to the API Route, or to the status.
Done ==
    /\ pc' = IF at = "ui" THEN "Get" ELSE "URL"
    /\ at' = "api" /\ seen' = None
    /\ UNCHANGED <<my, error, url>>

Fail(reason) ==
    /\ pc' = "URL" /\ error' = reason
    /\ at' = "api" /\ seen' = None
    /\ UNCHANGED <<my, url>>

IsControlledBy == seen # None /\ seen.owner = my.uid

\* (mutant: only the path is compared)
PathDiffers(d) == seen.path # Path(d, at)

\* (mutant: the host is compared with the live one, assigned or not)
HostOrPathDiffers(d) == seen.path # Path(d, at) \/ seen.host # d.RouteHost

routeNeedsRecreate(d) ==
    \/ seen.path # Path(d, at)
    \/ IF seen.intent # "no annotation" THEN seen.intent # d.RouteHost
       ELSE d.RouteHost # "" /\ seen.host # d.RouteHost

\* (mutant: the live host is kept whatever the CR names)
LiveHost(d) == IF seen # None THEN seen.host ELSE d.RouteHost

\* The host in the apply payload: a live host is kept when the CR names none.
PayloadHost(d) ==
    IF d.RouteHost = "" /\ seen # None THEN seen.host ELSE d.RouteHost

\* Creating a Route with a host, or changing the host, takes a permission.
Forbidden(host) ==
    /\ ~granted /\ host # ""
    /\ routes[at] # None => routes[at].host # host

Inherits(d) ==
    /\ d.RouteHost = "" /\ seen # None
    /\ \/ seen.inherited
       \/ /\ seen.host \in Hosts
          /\ ~IsControlledBy \/ seen.intent = "no annotation"

\* (mutant: the Route is applied without an owner reference)
ResultWithoutOwner(d) ==
    LET host == PayloadHost(d)
    IN  [owner |-> 0, intent |-> d.RouteHost,
         host |-> IF host = "" THEN Assigned[at] ELSE host,
         path |-> Path(d, at), inherited |-> Inherits(d),
         deleting |-> routes[at] # None /\ routes[at].deleting]

Result(d) ==
    LET host == PayloadHost(d)
    IN  [owner |-> my.uid, intent |-> d.RouteHost,
         host |-> IF host = "" THEN Assigned[at] ELSE host,
         path |-> Path(d, at), inherited |-> Inherits(d),
         deleting |-> routes[at] # None /\ routes[at].deleting]

\* A Delete goes by name.  The Route is gone, or waits for a finalizer.
Delete(r) ==
    \/ routes' = [routes EXCEPT ![r] = None]
    \/ routes' = [routes EXCEPT ![r].deleting = TRUE]

\* What becomes of a call that is forbidden, for whatever reason: a permission
\* error if the CR names a host or the text the custom-host subresource.
wrapRouteApplyErr(d) ==
    IF d.RouteHost # "" THEN {"RoutePermissionDenied"}
    ELSE {"RoutePermissionDenied", "ReconcileError"}

applyRoute(d) ==
    \/ /\ Forbidden(PayloadHost(d))
       /\ \E reason \in wrapRouteApplyErr(d) : Fail(reason)
       /\ UNCHANGED routes
    \/ /\ ~Forbidden(PayloadHost(d))
       /\ routes' = [routes EXCEPT ![at] = Result(d)]
       /\ Done

applyOrRecreateRoute(d) ==
    \/ seen # None /\ seen.deleting /\ Done /\ UNCHANGED routes
    \/ /\ IsControlledBy /\ ~seen.deleting /\ routeNeedsRecreate(d)
       /\ IF routes[at] = None THEN Fail("ReconcileError") /\ UNCHANGED routes
          ELSE Delete(at) /\ Done
    \/ /\ seen # None => ~seen.deleting
       /\ ~(IsControlledBy /\ routeNeedsRecreate(d))
       /\ applyRoute(d)

deleteOwnedRoute ==
    /\ IF IsControlledBy /\ routes[at] # None THEN Delete(at) ELSE UNCHANGED routes
    /\ Done

WriteRoute ==
    /\ pc = "Write"
    /\ LET d == Desire[my.spec]
       IN  IF Want(d, at) THEN applyOrRecreateRoute(d) ELSE deleteOwnedRoute
    /\ UNCHANGED <<crVars, crCache, envVars, status, bounds>>

\* The scheme and the fallback to the Ingress are in module Reconcile.
publicURL(d) ==
    LET r == IF d.UI THEN "ui" ELSE "api"
    IN  IF d.RouteEnabled /\ hasRoute /\ routes[r] # None THEN routes[r].host ELSE ""

\* patchStatus reads the Route once more, and then patches.  An error of that
\* Get counts as no Route.
GetURL ==
    /\ pc = "URL"
    /\ url' = publicURL(Desire[my.spec])
    /\ pc' = "Status"
    /\ UNCHANGED <<crVars, crCache, routes, envVars, at, my, seen, error, status, bounds>>

patchStatus ==
    /\ pc = "Status"
    /\ pc' = "Idle" /\ my' = None /\ error' = "" /\ url' = "" /\ at' = "ui"
    /\ status' = IF cr = None THEN status
                 ELSE [url |-> url,
                       degraded |-> IF error = "" THEN "AsExpected" ELSE error]
    /\ UNCHANGED <<crVars, crCache, routes, envVars, seen, bounds>>

Worker == Start \/ GetRoute \/ WriteRoute \/ GetURL \/ patchStatus

Trouble == trouble < MaxTrouble /\ trouble' = trouble + 1

\* A call fails without effect.
CallFails ==
    /\ pc \in {"Get", "Write"} /\ Trouble
    /\ LET d == Desire[my.spec]
       IN  \E reason \in {"ReconcileError"}
                            \cup When(Want(d, at), wrapRouteApplyErr(d)) : Fail(reason)
    /\ UNCHANGED <<crVars, crCache, routes, envVars, status, edits>>

GetURLFails ==
    /\ pc = "URL" /\ Trouble
    /\ pc' = "Status" /\ url' = ""
    /\ UNCHANGED <<crVars, crCache, routes, envVars, at, my, seen, error, status, edits>>

\* The process is over, and another is started, which looks for the API once
\* (main).
Restart(found) ==
    /\ pc' = "Idle" /\ my' = None /\ seen' = None /\ error' = "" /\ url' = "" /\ at' = "ui"
    /\ hasRoute' = found
    /\ UNCHANGED <<crVars, crCache, routes, granted, status, edits>>

\* An error of that look-up counts as no API.
Crash(found) == Trouble /\ Restart(found)

Redeployed == ~hasRoute /\ Restart(TRUE) /\ UNCHANGED trouble

-----------------------------------------------------------------------------
(* The user, an administrator and the cluster.                              *)

CreateCR(s) ==
    /\ cr = None /\ lastUid < MaxUid
    /\ lastUid' = lastUid + 1
    /\ cr' = [uid |-> lastUid + 1, spec |-> s]
    /\ UNCHANGED <<crCache, routes, envVars, workerVars, status, bounds>>

EditSpec(s) ==
    /\ cr # None /\ cr.spec # s
    /\ edits < MaxEdits /\ edits' = edits + 1
    /\ cr' = [cr EXCEPT !.spec = s]
    /\ UNCHANGED <<lastUid, crCache, routes, envVars, workerVars, status, trouble>>

DeleteCR ==
    /\ cr # None
    /\ cr' = None /\ status' = NoStatus
    /\ UNCHANGED <<lastUid, crCache, routes, envVars, workerVars, bounds>>

UserDeletes(r) ==
    /\ routes[r] # None /\ ~routes[r].deleting /\ Trouble
    /\ Delete(r)
    /\ UNCHANGED <<crVars, crCache, envVars, workerVars, status, edits>>

ChangePermission ==
    /\ granted' = ~granted
    /\ IF granted THEN Trouble ELSE UNCHANGED trouble
    /\ UNCHANGED <<crVars, crCache, routes, hasRoute, workerVars, status, edits>>

CRSync ==
    /\ crCache # cr
    /\ crCache' = cr
    /\ UNCHANGED <<crVars, routes, envVars, workerVars, status, bounds>>

Finalize(r) ==
    /\ routes[r] # None /\ routes[r].deleting
    /\ routes' = [routes EXCEPT ![r] = None]
    /\ UNCHANGED <<crVars, crCache, envVars, workerVars, status, bounds>>

\* The collector removes what names an owner that is gone.
GC(r) ==
    /\ routes[r] # None /\ ~routes[r].deleting /\ routes[r].owner # 0
    /\ cr # None => cr.uid # routes[r].owner
    /\ Delete(r)
    /\ UNCHANGED <<crVars, crCache, envVars, workerVars, status, bounds>>

Cluster == CRSync \/ \E r \in Names : Finalize(r) \/ GC(r)

Next ==
    \/ Worker
    \/ CallFails
    \/ GetURLFails
    \/ \E found \in BOOLEAN : Crash(found)
    \/ Redeployed
    \/ \E s \in Specs : CreateCR(s)
    \/ \E s \in Specs : EditSpec(s)
    \/ DeleteCR
    \/ \E r \in Names : UserDeletes(r)
    \/ ChangePermission
    \/ Cluster

Spec == Init /\ [][Next]_vars

\* As in Reconcile: a reconcile that ends comes back, its calls return, the watch
\* delivers, and what is to be removed goes.
FairSpec ==
    /\ Spec
    /\ WF_vars(Worker)
    /\ WF_vars(CRSync)
    /\ \A r \in Names : WF_vars(Finalize(r)) /\ WF_vars(GC(r))

-----------------------------------------------------------------------------

\* Only the worker creates a Route or changes more of one than that it is being
\* deleted: what it read is still what is there, or is gone or going, though
\* others delete it in between.
SeenIsLive ==
    pc = "Write" =>
        \/ routes[at] \in {None, seen}
        \/ seen # None /\ routes[at] = [seen EXCEPT !.deleting = TRUE]

\* The annotation tells the truth: a Route that was asked for with a host has it,
\* whoever's Route it was before and whatever host it was given then.
IntentIsHost ==
    \A r \in Names :
        (routes[r] # None /\ routes[r].intent \notin {"", "no annotation"}) =>
            routes[r].host = routes[r].intent

\* Why no host moves: routeNeedsRecreate compares the annotation of a Route that
\* was read, and not the host of the Route that is there.
HostInv == TypeOK /\ SeenIsLive /\ IntentIsHost

\* "Changing host recreates owned Routes": the host of a Route in place is never
\* changed under its users, whatever is read and edited in between.
HostNeverMoves ==
    [][\A r \in Names :
          (/\ routes[r] # None /\ routes'[r] # None
           /\ routes[r].owner = routes'[r].owner) =>
              routes'[r].host = routes[r].host]_vars

\* The host a Route is to have, unless it was inherited and the CR names none.
HostInPlace(d, r) ==
    \/ routes[r].host = HostOf(d, r)
    \/ d.RouteHost = "" /\ routes[r].inherited

InPlace(d, r) ==
    IF Want(d, r)
    THEN /\ routes[r] # None /\ ~routes[r].deleting
         /\ routes[r].owner = cr.uid /\ routes[r].intent = d.RouteHost
         /\ routes[r].path = Path(d, r) /\ HostInPlace(d, r)
    ELSE routes[r] = None

\* A Route that would have to be created, or moved to another host, without the
\* permission.
Denied(d) ==
    /\ ~granted /\ d.RouteHost # ""
    /\ \E r \in Names : Want(d, r) /\ ~InPlace(d, r)

\* Through edits of host and components, slow finalizers, failed calls, crashes
\* and deleted Routes, the Routes become what the spec asks for and status.url
\* says where they are; or, "if that permission is missing, status sets
\* Degraded=True with reason RoutePermissionDenied".  A Route keeps a host the
\* spec does not ask for only if the CR found it on the Route and has named none
\* since: an empty host is not told from the one that is there.
RoutesSettle ==
    <>[]hasRoute => <>[](cr # None =>
            LET d == Desire[cr.spec]
            IN  IF Denied(d) THEN status.degraded = "RoutePermissionDenied"
                ELSE /\ \A r \in Names : InPlace(d, r)
                     /\ status.degraded = "AsExpected"
                     /\ status.url = publicURL(d))

\* "owner references garbage-collect owned children": a deleted CR leaves no
\* Route, although a reconcile in flight may still create one.
NoRouteLeft == <>[](cr = None) => <>[](\A r \in Names : routes[r] = None)
=============================================================================
