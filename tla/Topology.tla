------------------------------ MODULE Topology ------------------------------
(***************************************************************************)
(* The operands of a CR fit together, whatever the user toggles: the user  *)
(* edits the spec one field at a time, and what is built for each spec is  *)
(* looked at as a whole.                                                   *)
(***************************************************************************)
EXTENDS Manifests

CONSTANTS EmptySpec,   \* the spec of a CR that sets nothing
          Choices      \* per field the user edits, the values it may take

ASSUME ChoicesAssumption == DOMAIN Choices \subseteq DOMAIN EmptySpec

ValuesOf(f) == {EmptySpec[f]} \cup When(f \in DOMAIN Choices, Choices[f])

\* The fields that name an object of the user, and the names the operator gives
\* its own Secrets and ConfigMaps.  Nothing in the code keeps them apart.
NameFields == {"connectionSecret", "postgresTLS", "abbenayToken", "galaxyCA",
               "abbenayConfig"}

OperatorNames == {"-postgres", "-postgres-tls", "-postgres-ssl", "-abbenay",
                  "-abbenay-config", "-proxy-admin"}

ASSUME NamesAssumption ==
    /\ NameFields \cup {"plugins"} \subseteq DOMAIN EmptySpec
    /\ \A f \in NameFields : ValuesOf(f) \cap OperatorNames = {}
    /\ \A list \in ValuesOf("plugins") : \A i \in DOMAIN list :
           list[i].config \notin OperatorNames

\* Plugins are as the CRD admits them, not more than there are ports for them,
\* and called like none of the other volumes of the pod.
ASSUME PluginsAssumption ==
    /\ pluginPortMin > 50060
    /\ \A list \in ValuesOf("plugins") :
          /\ Admitted(list) /\ Len(list) <= pluginPortMax - pluginPortMin + 1
          /\ \A i \in DOMAIN list :
                PluginConfigVolumeName(list[i]) \notin
                    {"sessions", "proxy-cache", "galaxy-ca", "galaxy-ca-bundle",
                     "db-ca", "db-ca-bundle", "nginx-cache", "nginx-run",
                     "nginx-conf", "abbenay-config-seed", "abbenay-run",
                     "abbenay-config"}
          /\ \A i, j \in DOMAIN list :
                PluginConfigVolumeName(list[i]) = PluginConfigVolumeName(list[j])
                => i = j

VARIABLE spec

Init == spec = EmptySpec

EditField(f, value) ==
    /\ spec[f] # value
    /\ spec' = [spec EXCEPT ![f] = value]

Next == \E f \in DOMAIN Choices : \E value \in Choices[f] : EditField(f, value)

Spec == Init /\ [][Next]_spec

d == From(spec)

-----------------------------------------------------------------------------

\* Containers of one pod share one network: no two may listen on a port.  The
\* ports of the sidecars are literals in a dozen functions, those of the plugins
\* are computed.
OnePortOneContainer ==
    \A c, e \in Containers(d) : c # e => c.listens \cap e.listens = {}

\* Every address a container of the pod is told to call (..._GRPC_ADDRESS,
\* APME_GALAXY_PROXY_URL, APME_PLUGIN_<NAME>_ADDRESS, ...) is one some container
\* of the pod listens on, whichever components are switched off.
CallsAreAnswered ==
    \A c \in Containers(d) :
        c.dials \subseteq UNION {e.listens : e \in Containers(d)}

\* Every mount, of the init containers too, names a volume of the pod, and no
\* two volumes share a name.  The API server refuses the Deployment otherwise,
\* and no reconcile would ever succeed.
MountsHaveVolumes ==
    /\ Mounts(d) \subseteq VolumeNames(d)
    /\ \A v, w \in Volumes(d) : v.name = w.name => v = w

\* What the user may have created himself, by the names in the spec.
UserNamed ==
    {<<"Secret", spec.connectionSecret>>, <<"Secret", spec.postgresTLS>>,
     <<"Secret", spec.abbenayToken>>, <<"ConfigMap", spec.galaxyCA>>,
     <<"ConfigMap", spec.abbenayConfig>>}
    \cup {<<"ConfigMap", p.config>> : p \in d.Plugins}

\* Every object a pod cannot start without is one the user named, or one that
\* this very spec makes ensureAll create, in a step before the workload's own.
NeedsAreEnsured ==
    LET before(w) == {Object(d, n) : n \in {m \in StepsOf(d) \cap Owned : Pos[m] < Pos[w]}}
    IN  /\ DeploymentNeeds(d) \subseteq UserNamed \cup before("Deployment")
        /\ d.GeneratePostgres =>
               StatefulSetNeeds(d) \subseteq UserNamed \cup before("StatefulSet")

\* No two steps write the same object, and none writes one the user named.
StepsOwnTheirObjects ==
    LET mine == StepsOf(d) \cap Owned
    IN  /\ \A m, n \in mine : m # n => Object(d, m) # Object(d, n)
        /\ \A m \in mine : Object(d, m) \notin UserNamed

Reaches(b) ==
    /\ \E s \in Services(d) :
          /\ s.name = b.service /\ b.port \in s.ports /\ s.selects = "engine"
    /\ \E c \in Containers(d) : b.port \in c.listens
    /\ d.NetworkPolicy => b.port \in APMENetworkPolicy(d)

\* What the Ingress and the Routes expose gets through: to a Service of this
\* spec, past its NetworkPolicy, to a port that is listened on; and their paths
\* tell UI and API apart.
ExposedIsReachable ==
    LET routes == When(d.RouteEnabled,
                         {APIRoute(d)} \cup When(d.UI, {UIRoute(d)}))
    IN  /\ \A b \in When(d.IngressEnabled, Ingress(d)) \cup routes : Reaches(b)
        /\ \A a, b \in routes : a.path = b.path => a = b
        /\ \E b \in Ingress(d) : b.path = "/"

\* "Managed Postgres always serves TLS so the Gateway can connect with
\* sslmode=verify-full": the URL the Gateway reads leads to the Postgres pod, past
\* its Service and NetworkPolicy; the CA it is given comes from the very Secret
\* Postgres serves with, the user's or a generated one; and a generated
\* certificate has the URL's host among its names.
DatabaseIsTrusted ==
    d.GeneratePostgres =>
        LET url == NewSecret(d)
            policy == PostgresNetworkPolicy(d)
        IN  /\ url.name \in Gateway(d).secrets
            /\ \E s \in Services(d) :
                  s.name = url.host[1] /\ url.port \in s.ports /\ s.selects = "postgres"
            /\ d.NetworkPolicy => policy.from = "engine" /\ url.port \in policy.ports
            /\ \E v \in Volumes(d), i \in DOMAIN InitContainers(d) :
                  /\ v.source = <<"Secret", d.PostgresTLSSecretName>>
                  /\ v.source \in StatefulSetNeeds(d)
                  /\ v.name \in InitContainers(d)[i].from
                  /\ InitContainers(d)[i].to \in Gateway(d).mounts
            /\ d.GeneratePostgresTLS => url.host \in NewTLSSecret(d).hosts
=============================================================================
