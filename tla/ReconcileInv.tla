---------------------------- MODULE ReconcileInv ----------------------------
(***************************************************************************)
(* Why operands appear in dependency order and why the status can be       *)
(* believed: inductive strengthenings of DependenciesFirst and of          *)
(* ReadyMeansInPlace and StatusCoherent, checked by TLC on small instances *)
(* and proved in ReconcileProofs and StatusProofs.                         *)
(***************************************************************************)
EXTENDS Reconcile

\* A uid is handed out once, and everything refers to one handed out.
UidsKnown ==
    /\ cr # None => cr.uid = lastUid
    /\ crCache # None => crCache.uid <= lastUid
    /\ pc # "Idle" => my.uid <= lastUid
    /\ \A n \in Owned : owner[n] <= lastUid
    /\ \A n \in Cached : cached[n] <= lastUid

NoTraceOf(u) ==
    /\ \A n \in Owned : owner[n] # u
    /\ \A n \in Cached : cached[n] # u

\* The present CR leaves its first trace in a reconcile that works from it, so
\* there is none before the cache has it, nor while the one worker is still
\* busy with a former CR.
FreshUntilSeen ==
    cr # None =>
        /\ (crCache = None \/ crCache.uid # cr.uid) =>
               /\ NoTraceOf(cr.uid)
               /\ pc # "Idle" => my.uid # cr.uid
        /\ (pc # "Idle" /\ my.uid # cr.uid) => NoTraceOf(cr.uid)

\* A Secret the cache shows as the CR's is still there.
CacheTrue ==
    (cr # None /\ drifts = 0) =>
        \A n \in Credentials : cached[n] = cr.uid => owner[n] = cr.uid

\* After an error only the status is left to write.
FailedIsOver == failed => pc = "Status"

\* What a reconcile of the present CR has gone past is there, as its copy of
\* the spec has it.
DoneSoFar ==
    (cr # None /\ drifts = 0 /\ pc # "Idle" /\ my.uid = cr.uid /\ ~failed) =>
        \A m \in Operands(my.spec) :
            Pos[m] < Pos[pc] =>
                /\ Guaranteed(m) => owner[m] = cr.uid
                /\ m \in Applied => applied[m] = my.spec

\* The invariant that is inductive.
IInv ==
    /\ TypeOK
    /\ UidsKnown
    /\ FreshUntilSeen
    /\ CacheTrue
    /\ FailedIsOver
    /\ DoneSoFar
    /\ DependenciesFirst

-----------------------------------------------------------------------------
(* The first CR of the name, which no reconcile of a former one can patch.  *)

FirstCR == cr # None /\ cr.uid = 1

\* Conditions and observedGeneration were written together.
Coherent(status) ==
    \/ status = NoStatus
    \/ /\ status.conditions # None
       /\ status.conditions.gen = status.observedGeneration

\* c is a copy of the CR, possibly an old one.
CopyOfCR(c) ==
    /\ c.gen <= cr.gen
    /\ c.gen = cr.gen => c.spec = cr.spec
    /\ Coherent(c.status)
    /\ c.status.observedGeneration <= cr.status.observedGeneration

\* The copies of the CR are in order: the informer's is not ahead of the API
\* server's, and the worker's not ahead of the informer's; and none is behind
\* the generation the status speaks of.  So a worker whose own copy has that
\* generation as observed knows what the server has, and may leave it out.
CopiesInOrder ==
    FirstCR =>
        /\ Coherent(cr.status)
        /\ crCache = None => pc = "Idle" /\ cr.status = NoStatus
        /\ crCache # None =>
               /\ CopyOfCR(crCache)
               /\ cr.status.observedGeneration <= crCache.gen
        /\ pc # "Idle" =>
               /\ CopyOfCR(my)
               /\ my.gen <= crCache.gen
               /\ cr.status.observedGeneration <= my.gen

\* The worker is at a step its spec calls for.
StepIsPlanned == pc # "Idle" => pc \in Plan[my.spec]

\* What is inductive together with IInv.
StatusInv == CopiesInOrder /\ StepIsPlanned /\ ReadyMeansInPlace
=============================================================================
