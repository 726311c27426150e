----------------------------- MODULE Manifests -----------------------------
(***************************************************************************)
(* internal/manifests: the objects built from a desired state, reduced to  *)
(* what makes them fit together: names, ports, volumes, references.        *)
(*                                                                         *)
(* An object is <<kind, name>>, and the name of an object the operator     *)
(* calls after the CR is the suffix it appends ("" for none).  A container *)
(* is what it listens to, which addresses of the pod it is told to call,   *)
(* what it mounts and which Secrets its environment reads.  Images, probes *)
(* (they use the ports listened to), resources and labels other than the   *)
(* component are left out.                                                 *)
(***************************************************************************)
EXTENDS EnsureOrder, TLC

When(condition, set) == IF condition THEN set ELSE {}

-----------------------------------------------------------------------------
(* containers.go                                                            *)

Container(name, listens, dials, mounts, secrets) ==
    [ name |-> name, listens |-> listens, dials |-> dials, mounts |-> mounts,
      secrets |-> secrets ]

PluginPortsOf(d) == {p.port : p \in d.Plugins}

PluginConfigVolumeName(p) == "plugin-" \o ToString(p.name) \o "-config"

\* Addresses both Engine and Gateway are given.
OptionalValidators(d) ==
    When(d.CollectionHealth, {50058}) \cup When(d.DepAudit, {50059})

AbbenayToken(d) == When(d.Abbenay, {d.AbbenayTokenName})

AbbenaySocket(d) == When(d.Abbenay, {"abbenay-run"})

Engine(d) ==
    Container("engine", {50051},
              {50055, 50054, 50053, 8765, 50060} \cup When(d.Gitleaks, {50056})
                  \cup OptionalValidators(d) \cup PluginPortsOf(d),
              {"sessions"} \cup AbbenaySocket(d),
              {d.ProxyAdminTokenName} \cup AbbenayToken(d))

Native(d)   == Container("native", {50055}, {}, {}, {})
OPA(d)      == Container("opa", {50054}, {}, {}, {})
Ansible(d)  == Container("ansible", {50053}, {8765}, {"sessions"}, {})
Gitleaks(d) == Container("gitleaks", {50056}, {}, {}, {})

CollectionHealth(d) ==
    Container("collection-health", {50058}, {}, {"sessions"}, {})

DepAudit(d) == Container("dep-audit", {50059}, {}, {"sessions"}, {})

Plugin(p) ==
    Container("plugin-" \o ToString(p.name), {p.port}, {},
              When(p.config # "", {PluginConfigVolumeName(p)}), {})

GalaxyProxy(d) ==
    Container("galaxy-proxy", {8765}, {},
              {"proxy-cache"}
                  \cup When(d.GalaxyCAConfigMap # "", {"galaxy-ca-bundle"}),
              {d.ProxyAdminTokenName})

\* (mutant: the bundle is mounted although there is no managed Postgres)
GatewayAlwaysBundled(d) ==
    Container("gateway", {50060, 8080},
              {50051} \cup OptionalValidators(d) \cup When(d.Abbenay, {8787}),
              {"db-ca-bundle"} \cup AbbenaySocket(d),
              {d.DatabaseSecretName, d.ProxyAdminTokenName} \cup AbbenayToken(d))

Gateway(d) ==
    Container("gateway", {50060, 8080},
              {50051} \cup OptionalValidators(d) \cup When(d.Abbenay, {8787}),
              When(d.GeneratePostgres, {"db-ca-bundle"}) \cup AbbenaySocket(d),
              {d.DatabaseSecretName, d.ProxyAdminTokenName} \cup AbbenayToken(d))

UI(d) == Container("ui", {8081}, {8080}, {"nginx-cache", "nginx-run", "nginx-conf"}, {})

Abbenay(d) ==
    Container("abbenay", {8787, 50057}, {}, {"abbenay-config", "abbenay-run"},
              {d.AbbenayTokenName})

\* An init container reads one volume, or nothing, and fills another.
InitContainer(name, from, to) == [name |-> name, from |-> from, to |-> to]

InitGalaxyCABundle == InitContainer("init-galaxy-ca", {"galaxy-ca"}, "galaxy-ca-bundle")
InitDBCABundle     == InitContainer("init-db-ca", {"db-ca"}, "db-ca-bundle")
InitNginx          == InitContainer("init-nginx-conf", {}, "nginx-conf")
InitAbbenayConfig  ==
    InitContainer("init-abbenay-config", {"abbenay-config-seed"}, "abbenay-config")

-----------------------------------------------------------------------------
(* deployment.go, and the pod of postgres/statefulset.go                    *)

\* (mutant: a validator is switched off and Engine not told)
ContainersWithoutDepAudit(d) ==
    {Engine(d), Native(d), OPA(d), Ansible(d), GalaxyProxy(d), Gateway(d)}
    \cup When(d.Gitleaks, {Gitleaks(d)})
    \cup When(d.CollectionHealth /\ d.DepAudit, {CollectionHealth(d), DepAudit(d)})
    \cup {Plugin(p) : p \in d.Plugins}
    \cup When(d.UI, {UI(d)})
    \cup When(d.Abbenay, {Abbenay(d)})

Containers(d) ==
    {Engine(d), Native(d), OPA(d), Ansible(d), GalaxyProxy(d), Gateway(d)}
    \cup When(d.Gitleaks, {Gitleaks(d)})
    \cup When(d.CollectionHealth, {CollectionHealth(d)})
    \cup When(d.DepAudit, {DepAudit(d)})
    \cup {Plugin(p) : p \in d.Plugins}
    \cup When(d.UI, {UI(d)})
    \cup When(d.Abbenay, {Abbenay(d)})

\* In the order they run.
InitContainers(d) ==
    (IF d.GalaxyCAConfigMap # "" THEN <<InitGalaxyCABundle>> ELSE << >>) \o
    (IF d.GeneratePostgres THEN <<InitDBCABundle>> ELSE << >>) \o
    (IF d.UI THEN <<InitNginx>> ELSE << >>) \o
    (IF d.Abbenay THEN <<InitAbbenayConfig>> ELSE << >>)

\* A volume and the object it shows; <<"empty", name>> is an emptyDir.
Volume(name, source) == [name |-> name, source |-> source]
pvcVol(name, claim) == Volume(name, <<"PersistentVolumeClaim", claim>>)
emptyVol(name) == Volume(name, <<"empty", name>>)

\* (mutant: the operator's own seed is mounted whatever the spec says)
DefaultSeed(d) == <<"ConfigMap", "-abbenay-config">>

Seed(d) ==
    <<"ConfigMap", IF d.AbbenayConfigMap # "" THEN d.AbbenayConfigMap
                   ELSE "-abbenay-config">>

\* (mutant: the generated CA is trusted although the user brought a certificate)
GeneratedCA(d) == <<"Secret", "-postgres-tls">>

DatabaseCA(d) == <<"Secret", d.PostgresTLSSecretName>>

Volumes(d) ==
    {pvcVol("sessions", "-sessions"), pvcVol("proxy-cache", "-proxy-cache")}
    \cup When(d.GalaxyCAConfigMap # "",
                {Volume("galaxy-ca", <<"ConfigMap", d.GalaxyCAConfigMap>>),
                 emptyVol("galaxy-ca-bundle")})
    \cup {Volume(PluginConfigVolumeName(p), <<"ConfigMap", p.config>>) :
             p \in {q \in d.Plugins : q.config # ""}}
    \cup When(d.GeneratePostgres,
                {Volume("db-ca", DatabaseCA(d)),
                 emptyVol("db-ca-bundle")})
    \cup When(d.UI, {emptyVol("nginx-cache"), emptyVol("nginx-run"),
                       emptyVol("nginx-conf")})
    \cup When(d.Abbenay,
                {Volume("abbenay-config-seed", Seed(d)), emptyVol("abbenay-run"),
                 IF d.AbbenayPersist THEN pvcVol("abbenay-config", "-abbenay-config")
                 ELSE emptyVol("abbenay-config")})

VolumeNames(d) == {v.name : v \in Volumes(d)}

Mounts(d) ==
    (UNION {c.mounts : c \in Containers(d)}) \cup
    (UNION {InitContainers(d)[i].from \cup {InitContainers(d)[i].to} :
               i \in DOMAIN InitContainers(d)})

\* The objects the Deployment's pod needs before it can start.
DeploymentNeeds(d) ==
    {<<"ServiceAccount", "">>}
    \cup {v.source : v \in {w \in Volumes(d) : w.source[1] # "empty"}}
    \cup {<<"Secret", s>> : s \in UNION {c.secrets : c \in Containers(d)}}

\* The same for the Postgres pod; it has a claim template of its own.
StatefulSetNeeds(d) ==
    {<<"Secret", d.DatabaseSecretName>>, <<"Secret", d.PostgresTLSSecretName>>,
     <<"ConfigMap", "-postgres-ssl">>}

-----------------------------------------------------------------------------
(* postgres/certs.go, and the Secrets of postgres/statefulset.go.  A DNS    *)
(* name is a Service and the domain after it.                               *)

ServiceHostnames(d) ==
    {"-postgres"} \X {"", "namespace", "namespace.svc", "namespace.svc.cluster.local"}

NewTLSSecret(d) == [name |-> d.PostgresTLSSecretName, hosts |-> ServiceHostnames(d)]

\* The URL in it asks for ssl=verify-full.
NewSecret(d) ==
    [name |-> d.DatabaseSecretName, host |-> <<"-postgres", "namespace.svc">>, port |-> 5432]

-----------------------------------------------------------------------------
(* services.go, networkpolicy.go, ingress.go, routes.go                     *)

\* targetPort is the port; the selector is a component label.
Service(name, selects, ports) == [name |-> name, selects |-> selects, ports |-> ports]

EngineService(d) == Service("-engine", "engine", {50051} \cup OptionalValidators(d))
GatewayService(d) == Service("-gateway", "engine", {8080})
UIService(d) == Service("-ui", "engine", {8081})
PostgresService(d) == Service("-postgres", "postgres", {5432})

\* (mutant: the UI's port is not opened)
APMENetworkPolicyWithoutUI(d) == {8080}

\* The ports of the engine pod anyone may call.
APMENetworkPolicy(d) == {8080} \cup When(d.UI, {8081})

\* Who may call the Postgres pod, and where.
PostgresNetworkPolicy(d) == [from |-> "engine", ports |-> {5432}]

Backend(path, service, port) == [path |-> path, service |-> service, port |-> port]

Ingress(d) ==
    IF d.UI THEN {Backend("/", "-ui", 8081), Backend("/api", "-gateway", 8080)}
    ELSE {Backend("/", "-gateway", 8080)}

\* A Route names its target port "http": 8081 of the UI's Service, 8080 of the
\* Gateway's.  No path is "/".
UIRoute(d) == Backend("/", "-ui", 8081)
APIRoute(d) == Backend(IF d.UI THEN "/api" ELSE "/", "-gateway", 8080)

-----------------------------------------------------------------------------
(* pvc.go, sa.go, and the names the other builders give their objects.      *)

Object(d, step) ==
    CASE step = "ServiceAccount"   -> <<"ServiceAccount", "">>
      [] step = "SessionsPVC"      -> <<"PersistentVolumeClaim", "-sessions">>
      [] step = "ProxyCachePVC"    -> <<"PersistentVolumeClaim", "-proxy-cache">>
      [] step = "AbbenayPVC"       -> <<"PersistentVolumeClaim", "-abbenay-config">>
      [] step = "PostgresTLS"      -> <<"Secret", d.PostgresTLSSecretName>>
      [] step = "PostgresSecret"   -> <<"Secret", d.DatabaseSecretName>>
      [] step = "AbbenayToken"     -> <<"Secret", "-abbenay">>
      [] step = "ProxyAdminToken"  -> <<"Secret", d.ProxyAdminTokenName>>
      [] step = "SSLConfigMap"     -> <<"ConfigMap", "-postgres-ssl">>
      [] step = "AbbenayConfigMap" -> <<"ConfigMap", "-abbenay-config">>
      [] step = "StatefulSet"      -> <<"StatefulSet", "-postgres">>
      [] step = "Deployment"       -> <<"Deployment", "">>
      [] step = "PostgresService"  -> <<"Service", PostgresService(d).name>>
      [] step = "EngineService"    -> <<"Service", EngineService(d).name>>
      [] step = "GatewayService"   -> <<"Service", GatewayService(d).name>>
      [] step = "UIService"        -> <<"Service", UIService(d).name>>
      [] step = "Ingress"          -> <<"Ingress", "">>
      [] step = "APMENetworkPolicy"     -> <<"NetworkPolicy", "-engine">>
      [] step = "PostgresNetworkPolicy" -> <<"NetworkPolicy", "-postgres">>

Services(d) ==
    {EngineService(d), GatewayService(d)}
    \cup When(d.UI, {UIService(d)})
    \cup When(d.GeneratePostgres, {PostgresService(d)})
=============================================================================
