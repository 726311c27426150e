-------------------------- MODULE ReconcilePromise --------------------------
(***************************************************************************)
(* The reconcile loop implements module Provisioning, for the first CR of  *)
(* the name, as long as the user deletes no operands: a later CR takes     *)
(* over what is left of it, and that is taken away for the first.  Which   *)
(* objects a workload needs is computed from its pod template, module      *)
(* Manifests, not from the order of the steps.                             *)
(***************************************************************************)
EXTENDS ReconcileInv, Manifests

PodNeeds(d, n) ==
    CASE n = "Deployment"  -> DeploymentNeeds(d)
      [] n = "StatefulSet" -> StatefulSetNeeds(d)
      [] OTHER             -> {}

\* The objects a workload needs, as far as the loop creates them.
OperandNeeds ==
    [s \in Specs |-> [n \in Owned |->
        {m \in Operands(s) : Object(Desire[s], m) \in PodNeeds(Desire[s], n)}]]

OperandsAsked == [s \in Specs |-> Operands(s)]

\* A user names an object of his own, never one the operator generates: here,
\* that what he brings is not called as one of the operator's Secrets.
ASSUME NamesAssumption ==
    UserObjects \cap {"-abbenay", "-proxy-admin"} = {}

\* What the CR is to look like, what has been built of it, and what it says.
Wanted == IF FirstCR THEN cr.spec ELSE None

Built == [n \in Owned |-> IF owner[n] # 1 THEN None
                          ELSE IF n \in Credentials THEN "made"
                          ELSE applied[n]]

Says == FirstCR /\ SaysReady

Promise == INSTANCE Provisioning WITH
    Objects <- Owned,
    Asks    <- OperandsAsked,
    Needs   <- OperandNeeds,
    Once    <- Credentials,
    Made    <- "made",
    wanted  <- Wanted,
    built   <- Built,
    says    <- Says

\* Every step of the loop, with its stale copies, failed calls, crashes and
\* retries, is one a user could have been promised: a workload is only applied
\* over its Secrets, ConfigMaps, claims and ServiceAccount of the same spec, a
\* generated Secret is made once, Available is claimed only when all is in place,
\* and after that nothing is rebuilt from an older spec or taken away.
KeepsItsPromise == Promise!Spec
=============================================================================
