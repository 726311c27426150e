---------------------------- MODULE EnsureOrder ----------------------------
(***************************************************************************)
(* The steps of ensureAll, in program order, and the objects they create.  *)
(* A step carries the name of the object it is about; ensureRoutes, a no-op *)
(* without the OpenShift Route API, is not among them.                     *)
(***************************************************************************)
EXTENDS Desired

Steps == << "ServiceAccount", "SessionsPVC", "ProxyCachePVC",
            "UserPostgresTLS", "PostgresTLS", "PostgresSecret",
            "SSLConfigMap", "StatefulSet", "PostgresService",
            "PostgresNetworkPolicy", "Leftover",
            "AbbenayToken", "AbbenayConfigMap", "AbbenayPVC",
            "ProxyAdminToken", "WorkloadInputs",
            "Deployment", "EngineService", "GatewayService",
            "UIService", "Ingress", "APMENetworkPolicy", "Status" >>

StepNames == {Steps[i] : i \in DOMAIN Steps}

Pos == [n \in StepNames |-> CHOOSE i \in DOMAIN Steps : Steps[i] = n]

\* Created once and never applied again.
Credentials == {"PostgresTLS", "PostgresSecret", "AbbenayToken",
                "ProxyAdminToken"}

Workloads == {"StatefulSet", "Deployment"}

\* Server-side applied on every reconcile.
Applied == Workloads \cup
    {"ServiceAccount", "SessionsPVC", "ProxyCachePVC", "SSLConfigMap",
     "PostgresService", "PostgresNetworkPolicy", "AbbenayConfigMap",
     "AbbenayPVC", "EngineService", "GatewayService", "UIService",
     "Ingress", "APMENetworkPolicy"}

Owned  == Credentials \cup Applied
Cached == Credentials \cup Workloads

Unless(condition, steps) == IF condition THEN {} ELSE steps

\* The steps a reconcile of desired state d does not go through.
Skipped(d) ==
    Unless(d.GeneratePostgres,
           {"PostgresSecret", "SSLConfigMap", "StatefulSet", "PostgresService"})
    \cup Unless(d.GeneratePostgresTLS, {"PostgresTLS"})
    \cup Unless(d.GeneratePostgres /\ ~d.GeneratePostgresTLS,
                {"UserPostgresTLS"})
    \cup Unless(d.GeneratePostgres /\ d.NetworkPolicy,
                {"PostgresNetworkPolicy"})
    \cup Unless(~d.GeneratePostgres, {"Leftover"})
    \cup Unless(d.GenerateAbbenayToken, {"AbbenayToken"})
    \cup Unless(d.Abbenay /\ d.AbbenayConfigMap = "", {"AbbenayConfigMap"})
    \cup Unless(d.AbbenayPersist, {"AbbenayPVC"})
    \cup Unless(d.UI, {"UIService"})
    \cup Unless(d.IngressEnabled, {"Ingress"})
    \cup Unless(d.NetworkPolicy, {"APMENetworkPolicy"})

StepsOf(d) == StepNames \ Skipped(d)
=============================================================================
