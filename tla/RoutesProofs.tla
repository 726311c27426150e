---------------------------- MODULE RoutesProofs ----------------------------
(***************************************************************************)
(* Theorems about Routes, for every set of specs and every bound.          *)
(***************************************************************************)
EXTENDS Routes, TLAPS

-----------------------------------------------------------------------------
(* The Routes that are asked for, and what applying one makes of it.        *)

LEMMA HostTypes ==
    ASSUME NEW s \in Specs, NEW r \in Names
    PROVE  /\ Desire[s].RouteHost \in Hosts \cup {""}
           /\ HostOf(Desire[s], r) \in Hosts \cup {Assigned[n] : n \in Names}
           /\ Path(Desire[s], r) \in {"/", "/api"}
<1>1. Desire[s].RouteHost \in Hosts \cup {""}
  BY DEF Hosts
<1>2. Path(Desire[s], r) \in {"/", "/api"}
  BY DEF Path, UIRoute, APIRoute, Backend
<1> QED
  BY <1>1, <1>2 DEF HostOf

\* No Route is without a host.
LEMMA HostsAreNamed == "" \notin Hosts \cup {Assigned[r] : r \in Names}
<1>1. Assigned["ui"] = "ui.apps" /\ Assigned["api"] = "api.apps"
  BY DEF Assigned
<1>2. \A r \in Names : Assigned[r] # ""
  BY <1>1 DEF Names
<1> QED
  BY <1>2 DEF Hosts

LEMMA Bounds ==
    /\ MaxUid \in Nat \ {0} /\ MaxEdits \in Nat
    /\ MaxTrouble \in Nat /\ LegacySpecs \subseteq Specs
BY RoutesAssumption

LEMMA ResultType ==
    ASSUME TypeOK, pc = "Write"
    PROVE  Result(Desire[my.spec]) \in Route
<1> DEFINE d == Desire[my.spec]
<1>1. my \in CRs /\ at \in Names /\ my.uid \in 1 .. MaxUid /\ my.spec \in Specs
  BY DEF TypeOK, CRs
<1>2. d.RouteHost \in Hosts \cup {""} /\ Path(d, at) \in {"/", "/api"}
  BY <1>1, HostTypes
<1>3. PayloadHost(d) \in {""} \cup Hosts \cup {Assigned[r] : r \in Names}
  BY <1>2 DEF PayloadHost, TypeOK, Route
<1>4. (routes[at] # None /\ routes[at].deleting) \in BOOLEAN
  OBVIOUS
<1>5. Inherits(d) \in BOOLEAN
  BY DEF Inherits, TypeOK, Route
<1> HIDE DEF d
<1>6. Result(d) \in Route
  BY <1>1, <1>2, <1>3, <1>4, <1>5 DEF Result, Route
<1> QED
  BY <1>6 DEF d

\* What a worker's step may do to the Routes.
LEMMA WriteKinds ==
    ASSUME WriteRoute
    PROVE  /\ \/ UNCHANGED routes
              \/ routes[at] # None /\ Delete(at)
              \/ /\ routes' = [routes EXCEPT ![at] = Result(Desire[my.spec])]
                 /\ ~(IsControlledBy /\ routeNeedsRecreate(Desire[my.spec]))
           /\ pc = "Write" /\ pc' \in {"Get", "URL"} /\ at' = "api"
           /\ seen' = None /\ my' = my /\ url' = url
           /\ error' \in {error, "ReconcileError", "RoutePermissionDenied"}
BY DEF WriteRoute, applyOrRecreateRoute, applyRoute, deleteOwnedRoute, Fail, Done,
   wrapRouteApplyErr

-----------------------------------------------------------------------------
(* Type correctness.                                                        *)

LEMMA ErrorTypes ==
    "" \in Errors /\ "ReconcileError" \in Errors /\ "RoutePermissionDenied" \in Errors
BY DEF Errors

LEMMA LegacyType ==
    ASSUME NEW s \in LegacySpecs, NEW r \in Names
    PROVE  /\ Legacy(s, r) \in Route \cup {None}
           /\ Legacy(s, r) # None => Legacy(s, r).intent = "no annotation"
<1>1. /\ HostOf(Desire[s], r) \in Hosts \cup {Assigned[n] : n \in Names}
      /\ Path(Desire[s], r) \in {"/", "/api"}
  BY HostTypes, Bounds
<1>2. 1 \in 1 .. MaxUid
  BY Bounds
<1> QED
  BY <1>1, <1>2 DEF Legacy, Route

LEMMA TypeInit == Init => TypeOK
<1> SUFFICES ASSUME Init PROVE TypeOK
  OBVIOUS
<1>1. 1 \in 1 .. MaxUid /\ {0, 1} \subseteq 0 .. MaxUid
  BY Bounds
<1>2. routes \in [Names -> Route \cup {None}]
  BY LegacyType DEF Init
<1>3. cr \in CRs \cup {None} /\ lastUid \in 0 .. MaxUid
  <2>1. lastUid \in {0, 1}
    BY DEF Init
  <2>2. ASSUME NEW s \in LegacySpecs PROVE [uid |-> 1, spec |-> s] \in CRs
    BY <1>1, Bounds DEF CRs
  <2>3. cr \in CRs \cup {None}
    BY <2>2 DEF Init
  <2> QED
    BY <1>1, <2>1, <2>3
<1>4. trouble \in {0, 1, 2} /\ trouble <= MaxTrouble
  <2> DEFINE count(b) == IF b THEN 0 ELSE 1
  <2>1. trouble = count(granted) + count(hasRoute) /\ trouble <= MaxTrouble
    BY DEF Init
  <2>2. \A b : count(b) \in {0, 1}
    OBVIOUS
  <2> HIDE DEF count
  <2>3. count(granted) + count(hasRoute) \in {0, 1, 2}
    BY <2>2
  <2> QED
    BY <2>1, <2>3
<1>5. trouble \in 0 .. MaxTrouble /\ 0 \in 0 .. MaxEdits
  BY <1>4, Bounds
<1>6. status \in Status /\ url \in URLs /\ at \in Names
  BY DEF Init, Status, NoStatus, URLs, Names
<1> QED
  BY <1>2, <1>3, <1>5, <1>6, ErrorTypes DEF Init, TypeOK

LEMMA DeleteType ==
    ASSUME TypeOK, NEW r \in Names, Delete(r), routes[r] # None
    PROVE  routes' \in [Names -> Route \cup {None}]
<1>1. routes[r] \in Route
  BY DEF TypeOK
<1>2. [routes[r] EXCEPT !.deleting = TRUE] \in Route
  BY <1>1 DEF Route
<1> QED
  BY <1>1, <1>2 DEF Delete, TypeOK

\* The bounded counters stay within their bounds.
LEMMA BoundsType ==
    ASSUME TypeOK, [Next]_vars
    PROVE  edits' \in 0 .. MaxEdits /\ trouble' \in 0 .. MaxTrouble
<1> USE DEF bounds, Trouble
<1>1. edits' = edits \/ (edits < MaxEdits /\ edits' = edits + 1)
  BY DEF Next, Worker, Start, GetRoute, WriteRoute, GetURL, patchStatus, CallFails,
     GetURLFails, Crash, Redeployed, CreateCR, EditSpec, DeleteCR, UserDeletes,
     Restart, ChangePermission, Cluster, CRSync, Finalize, GC, vars
<1>2. trouble' = trouble \/ (trouble < MaxTrouble /\ trouble' = trouble + 1)
  BY DEF Next, Worker, Start, GetRoute, WriteRoute, GetURL, patchStatus, CallFails,
     GetURLFails, Crash, Redeployed, CreateCR, EditSpec, DeleteCR, UserDeletes,
     Restart, ChangePermission, Cluster, CRSync, Finalize, GC, vars
<1> QED
  BY <1>1, <1>2, Bounds DEF TypeOK

LEMMA UidType ==
    ASSUME TypeOK, NEW s, CreateCR(s)
    PROVE  lastUid + 1 \in 1 .. MaxUid /\ lastUid' \in 0 .. MaxUid
<1>1. lastUid \in 0 .. MaxUid /\ lastUid < MaxUid /\ lastUid' = lastUid + 1
  BY DEF CreateCR, TypeOK
<1> QED
  BY <1>1, Bounds

LEMMA TypeNext == TypeOK /\ [Next]_vars => TypeOK'
<1> SUFFICES ASSUME TypeOK, [Next]_vars PROVE TypeOK'
  OBVIOUS
<1> USE ErrorTypes DEF crVars, envVars, workerVars, bounds
<1>b. edits' \in 0 .. MaxEdits /\ trouble' \in 0 .. MaxTrouble
  BY BoundsType
<1>n. {"ui", "api"} \subseteq Names /\ "" \in URLs /\ NoStatus \in Status
  BY DEF Names, URLs, NoStatus, Status
<1>1. CASE Start
  BY <1>1, <1>n DEF Start, TypeOK
<1>2. CASE GetRoute
  BY <1>2 DEF GetRoute, TypeOK
<1>3. CASE WriteRoute
  <2>1. routes' \in [Names -> Route \cup {None}]
    BY <1>3, WriteKinds, ResultType, DeleteType DEF TypeOK
  <2> QED
    BY <1>3, <1>n, <2>1, WriteKinds DEF WriteRoute, TypeOK
<1>4. CASE patchStatus
  <2>1. status' \in Status
    BY <1>4 DEF patchStatus, TypeOK, Status, Errors
  <2> QED
    BY <1>4, <1>n, <2>1 DEF patchStatus, TypeOK
<1>15. CASE GetURL
  <2>1. ASSUME NEW s \in Specs PROVE publicURL(Desire[s]) \in URLs
    BY DEF publicURL, URLs, TypeOK, Route, Names
  <2>2. my.spec \in Specs
    BY <1>15 DEF GetURL, TypeOK, CRs
  <2> QED
    BY <1>15, <2>1, <2>2 DEF GetURL, TypeOK
<1>5. CASE CallFails
  <2>1. error' \in Errors
    BY <1>5 DEF CallFails, Fail, wrapRouteApplyErr, When
  <2> QED
    BY <1>5, <1>b, <1>n, <2>1 DEF CallFails, Fail, TypeOK
<1>16. CASE GetURLFails
  BY <1>16, <1>b, <1>n DEF GetURLFails, TypeOK
<1>6. ASSUME NEW found \in BOOLEAN, Crash(found) PROVE TypeOK'
  BY <1>6, <1>b, <1>n DEF Crash, Restart, TypeOK
<1>7. CASE Redeployed
  BY <1>7, <1>n DEF Redeployed, Restart, TypeOK
<1>8. ASSUME NEW s \in Specs, CreateCR(s) PROVE TypeOK'
  <2>1. lastUid + 1 \in 1 .. MaxUid /\ lastUid' \in 0 .. MaxUid
    BY <1>8, UidType
  <2>2. cr' \in CRs
    BY <1>8, <2>1 DEF CreateCR, CRs
  <2> QED
    BY <1>8, <2>1, <2>2 DEF CreateCR, TypeOK
<1>9. ASSUME NEW s \in Specs, EditSpec(s) PROVE TypeOK'
  <2>1. cr' \in CRs
    BY <1>9 DEF EditSpec, TypeOK, CRs
  <2> QED
    BY <1>9, <1>b, <2>1 DEF EditSpec, TypeOK
<1>10. CASE DeleteCR
  BY <1>10, <1>n DEF DeleteCR, TypeOK
<1>11. ASSUME NEW r \in Names, UserDeletes(r) \/ Finalize(r) \/ GC(r) PROVE TypeOK'
  <2>1. routes' \in [Names -> Route \cup {None}]
    BY <1>11, DeleteType DEF UserDeletes, Finalize, GC, TypeOK
  <2> QED
    BY <1>11, <1>b, <2>1 DEF UserDeletes, Finalize, GC, TypeOK
<1>12. CASE ChangePermission
  BY <1>12, <1>b DEF ChangePermission, TypeOK
<1>13. CASE CRSync
  BY <1>13 DEF CRSync, TypeOK
<1>14. CASE UNCHANGED vars
  BY <1>14 DEF vars, TypeOK
<1> QED
  BY <1>1, <1>2, <1>3, <1>4, <1>5, <1>6, <1>7, <1>8, <1>9, <1>10, <1>11,
     <1>12, <1>13, <1>14, <1>15, <1>16 DEF Next, Worker, Cluster

\* Every variable of the Route step holds what its comment says: the hosts of
\* live Routes are ones a CR named or OpenShift assigned, and nothing else is
\* shown as status.url.
THEOREM RoutesTypeCorrect == Spec => []TypeOK
BY TypeInit, TypeNext, PTL DEF Spec

-----------------------------------------------------------------------------
(* A host stays where it is.                                                *)

\* A Route that gets its deletion timestamp stays what it is otherwise.
Going(r) ==
    routes[r] # None /\ routes'[r] = [routes[r] EXCEPT !.deleting = TRUE]

LEMMA GoingIs ==
    ASSUME TypeOK, NEW r \in Names, Going(r)
    PROVE  /\ routes'[r].owner = routes[r].owner
           /\ routes'[r].intent = routes[r].intent
           /\ routes'[r].host = routes[r].host
<1>1. routes[r] \in Route
  BY DEF Going, TypeOK
<1> QED
  BY <1>1 DEF Going, Route

\* What a Delete does.
LEMMA DeleteIs ==
    ASSUME TypeOK, NEW r \in Names, Delete(r), routes[r] # None, NEW q \in Names
    PROVE  routes'[q] \in {None, routes[q]} \/ Going(q)
BY DEF Delete, Going, TypeOK

\* Everybody but the worker only deletes.
LEMMA OthersDelete ==
    ASSUME TypeOK, [Next]_vars, ~WriteRoute
    PROVE  \A r \in Names : routes'[r] \in {None, routes[r]} \/ Going(r)
<1> USE DEF crVars, envVars, workerVars, bounds
<1>1. ASSUME NEW r \in Names, UserDeletes(r) \/ GC(r)
      PROVE  Delete(r) /\ routes[r] # None
  BY <1>1 DEF UserDeletes, GC
<1>2. ASSUME NEW r \in Names, Finalize(r)
      PROVE  \A q \in Names : routes'[q] \in {None, routes[q]}
  BY <1>2 DEF Finalize, TypeOK
<1>3. ASSUME \A r \in Names : ~(UserDeletes(r) \/ Finalize(r) \/ GC(r))
      PROVE  UNCHANGED routes
  BY <1>3 DEF Next, Worker, Start, GetRoute, GetURL, patchStatus, CallFails,
     GetURLFails, Crash, Redeployed, Restart, CreateCR, EditSpec, DeleteCR,
     ChangePermission, Cluster, CRSync, vars
<1> QED
  BY <1>1, <1>2, <1>3, DeleteIs

\* A worker that is about to write has just read, or has its Route unchanged.
LEMMA WriterHasRead ==
    ASSUME [Next]_vars, pc' = "Write", ~GetRoute
    PROVE  /\ ~WriteRoute
           /\ pc = "Write" /\ at' = at /\ seen' = seen
<1> USE DEF crVars, envVars, workerVars, bounds
<1>1. ~WriteRoute
  BY WriteKinds
<1>2. ~(Start \/ GetURL \/ patchStatus \/ CallFails \/ GetURLFails
        \/ Redeployed \/ \E f : Crash(f))
  BY DEF Start, GetURL, patchStatus, CallFails, GetURLFails, Redeployed, Crash,
     Restart, Fail
<1> QED
  BY <1>1, <1>2 DEF Next, Worker, CreateCR, EditSpec, DeleteCR, UserDeletes,
     ChangePermission, Cluster, CRSync, Finalize, GC, vars

LEMMA SeenIsLiveNext ==
    ASSUME TypeOK, SeenIsLive, [Next]_vars
    PROVE  SeenIsLive'
<1> SUFFICES ASSUME pc' = "Write"
             PROVE  \/ routes'[at'] \in {None, seen'}
                    \/ /\ seen' # None
                       /\ routes'[at'] = [seen' EXCEPT !.deleting = TRUE]
  BY DEF SeenIsLive
<1>1. CASE GetRoute
  BY <1>1 DEF GetRoute
<1>2. CASE ~GetRoute
  <2>1. pc = "Write" /\ at' = at /\ seen' = seen /\ at \in Names
    BY <1>2, WriterHasRead DEF TypeOK
  <2>2. CASE routes'[at] \in {None, routes[at]}
    BY <2>1, <2>2 DEF SeenIsLive
  <2>3. CASE Going(at)
    <3>1. seen # None /\ seen \in Route
      BY <2>1, <2>3 DEF Going, SeenIsLive, TypeOK
    <3>2. routes[at] = seen \/ routes[at] = [seen EXCEPT !.deleting = TRUE]
      BY <2>1, <2>3 DEF Going, SeenIsLive
    <3>3. routes'[at] = [seen EXCEPT !.deleting = TRUE]
      BY <2>3, <3>1, <3>2 DEF Going, Route
    <3> QED
      BY <2>1, <3>1, <3>3
  <2> QED
    BY <1>2, <2>1, <2>2, <2>3, WriterHasRead, OthersDelete
<1> QED
  BY <1>1, <1>2

\* A Route that is applied has the host its annotation names.
LEMMA ResultIntent ==
    ASSUME NEW d, Result(d).intent # ""
    PROVE  Result(d).host = Result(d).intent
BY DEF Result, PayloadHost

LEMMA IntentIsHostNext ==
    ASSUME TypeOK, IntentIsHost, [Next]_vars
    PROVE  IntentIsHost'
<1> SUFFICES ASSUME NEW r \in Names, routes'[r] # None,
                    routes'[r].intent \notin {"", "no annotation"}
             PROVE  routes'[r].host = routes'[r].intent
  BY DEF IntentIsHost
<1>1. CASE routes'[r] = routes[r]
  BY <1>1 DEF IntentIsHost
<1>3. CASE Going(r)
  BY <1>3, GoingIs DEF Going, IntentIsHost
<1>2. CASE WriteRoute /\ routes'[r] # routes[r]
  <2>1. CASE routes' = [routes EXCEPT ![at] = Result(Desire[my.spec])]
    <3>1. r = at /\ routes'[r] = Result(Desire[my.spec])
      BY <1>2, <2>1 DEF TypeOK
    <3> QED
      BY <3>1, ResultIntent
  <2>2. CASE Delete(at) /\ routes[at] # None
    <3>1. Going(r)
      BY <1>2, <2>2, DeleteIs DEF TypeOK
    <3> QED
      BY <1>3, <3>1
  <2> QED
    BY <1>2, <2>1, <2>2, WriteKinds
<1> QED
  BY <1>1, <1>2, <1>3, OthersDelete

\* The Route that is read is the one that is changed, and annotations tell the
\* truth.
THEOREM HostInductive == Spec => []HostInv
<1>1. Init => SeenIsLive /\ IntentIsHost
  <2> SUFFICES ASSUME Init, NEW r \in Names, routes[r] # None
               PROVE  routes[r].intent = "no annotation"
    BY DEF Init, SeenIsLive, IntentIsHost
  <2> QED
    BY LegacyType DEF Init
<1>2. HostInv /\ [Next]_vars => HostInv'
  BY TypeNext, SeenIsLiveNext, IntentIsHostNext DEF HostInv
<1> QED
  BY <1>1, <1>2, TypeInit, PTL DEF Spec, HostInv

\* Applying over the CR's own Route keeps its host.
LEMMA ApplyKeepsHost ==
    ASSUME TypeOK, HostInv, pc = "Write", routes[at] # None,
           routes[at].owner = my.uid, ~routeNeedsRecreate(Desire[my.spec])
    PROVE  Result(Desire[my.spec]).host = routes[at].host
<1> DEFINE d == Desire[my.spec]
<1>1. seen # None /\ seen \in Route /\ at \in Names
  BY DEF HostInv, SeenIsLive, TypeOK
<1>5. routes[at].host = seen.host /\ routes[at].intent = seen.intent
  BY <1>1 DEF HostInv, SeenIsLive, Route
<1>2. seen.host # ""
  BY <1>1, HostsAreNamed DEF Route
<1> HIDE DEF d
<1>3. CASE d.RouteHost = ""
  BY <1>1, <1>2, <1>3, <1>5 DEF Result, PayloadHost, d
<1>4. CASE d.RouteHost # ""
  <2>1. Result(d).host = d.RouteHost
    BY <1>4 DEF Result, PayloadHost
  <2>2. seen.host = d.RouteHost
    BY <1>1, <1>4, <1>5 DEF routeNeedsRecreate, HostInv, IntentIsHost, d
  <2> QED
    BY <1>5, <2>1, <2>2 DEF d
<1> QED
  BY <1>3, <1>4

\* The host of a CR's Route never changes: a Route whose host is to change is
\* deleted first, although the CR, the Route and the worker's copies of both
\* change between the Get and the Apply.
THEOREM HostsStay == Spec => HostNeverMoves
<1> DEFINE Moves(r) == /\ routes[r] # None /\ routes'[r] # None
                       /\ routes[r].owner = routes'[r].owner
                       /\ routes'[r].host # routes[r].host
<1>1. ASSUME TypeOK, HostInv, [Next]_vars, NEW r \in Names, Moves(r)
      PROVE  FALSE
  <2>0. ~Going(r)
    BY <1>1, GoingIs
  <2>1. WriteRoute /\ routes'[r] # routes[r]
    BY <1>1, <2>0, OthersDelete
  <2>2. pc = "Write"
    BY <2>1, WriteKinds
  <2>3. CASE Delete(at) /\ routes[at] # None
    BY <1>1, <2>0, <2>1, <2>3, DeleteIs DEF TypeOK
  <2>4. CASE /\ routes' = [routes EXCEPT ![at] = Result(Desire[my.spec])]
             /\ ~(IsControlledBy /\ routeNeedsRecreate(Desire[my.spec]))
    <3>1. r = at /\ routes'[r] = Result(Desire[my.spec])
      BY <1>1, <2>1, <2>4 DEF TypeOK
    <3>2. routes[at].owner = my.uid
      <4>1. Result(Desire[my.spec]).owner = my.uid
        BY DEF Result
      <4> QED
        BY <1>1, <3>1, <4>1
    <3>3. IsControlledBy
      <4>1. seen # None /\ seen \in Route
        BY <1>1, <2>2, <3>1 DEF HostInv, SeenIsLive, TypeOK
      <4>2. seen.owner = routes[at].owner
        BY <1>1, <2>2, <3>1, <4>1 DEF HostInv, SeenIsLive, Route
      <4> QED
        BY <3>2, <4>1, <4>2 DEF IsControlledBy
    <3> QED
      BY <1>1, <2>2, <2>4, <3>1, <3>2, <3>3, ApplyKeepsHost
  <2> QED
    BY <2>1, <2>3, <2>4, WriteKinds
<1>2. TypeOK /\ HostInv /\ [Next]_vars
      => [\A r \in Names :
             (/\ routes[r] # None /\ routes'[r] # None
              /\ routes[r].owner = routes'[r].owner) =>
                 routes'[r].host = routes[r].host]_vars
  BY <1>1
<1> QED
  BY <1>2, RoutesTypeCorrect, HostInductive, PTL DEF Spec, HostNeverMoves
=============================================================================
