--------------------------- MODULE TopologyProofs ---------------------------
(***************************************************************************)
(* The operands of a CR fit together for every spec the assumptions of     *)
(* Topology admit: any toggles, names, plugins and range of ports.         *)
(***************************************************************************)
EXTENDS Topology, ManifestsProofs

-----------------------------------------------------------------------------
(* The spec holds what the user may choose.                                 *)

Chosen ==
    /\ DOMAIN spec = DOMAIN EmptySpec
    /\ \A f \in DOMAIN spec : spec[f] \in ValuesOf(f)

LEMMA FieldsAreChosen == Spec => []Chosen
<1>1. Init => Chosen
  BY DEF Init, Chosen, ValuesOf
<1>2. ASSUME Chosen, Next PROVE Chosen'
  <2>1. PICK f \in DOMAIN Choices : \E value \in Choices[f] : EditField(f, value)
    BY <1>2 DEF Next
  <2>2. PICK value \in Choices[f] : spec' = [spec EXCEPT ![f] = value]
    BY <2>1 DEF EditField
  <2>3. value \in ValuesOf(f)
    BY <2>1 DEF ValuesOf, When
  <2>4. DOMAIN spec' = DOMAIN spec
    BY <2>2
  <2>5. ASSUME NEW g \in DOMAIN spec PROVE spec'[g] \in ValuesOf(g)
    BY <1>2, <2>2, <2>3 DEF Chosen
  <2> QED
    BY <1>2, <2>4, <2>5 DEF Chosen
<1>3. Chosen /\ UNCHANGED spec => Chosen'
  BY DEF Chosen
<1> QED
  BY <1>1, <1>2, <1>3, PTL DEF Spec

\* What the defaults make of the spec.
LEMMA DesiredIs ==
    /\ d.GeneratePostgres = ~External(spec)
    /\ d.GeneratePostgresTLS = (~External(spec) /\ spec.postgresTLS = "")
    /\ d.DatabaseSecretName = IF External(spec) THEN spec.connectionSecret ELSE "-postgres"
    /\ ~External(spec) =>
         d.PostgresTLSSecretName =
             IF spec.postgresTLS = "" THEN "-postgres-tls" ELSE spec.postgresTLS
    /\ d.Abbenay = spec.abbenay
    /\ d.GenerateAbbenayToken = (spec.abbenay /\ spec.abbenayToken = "")
    /\ spec.abbenay =>
         d.AbbenayTokenName =
             IF spec.abbenayToken = "" THEN "-abbenay" ELSE spec.abbenayToken
    /\ d.AbbenayConfigMap = spec.abbenayConfig
    /\ d.AbbenayPersist = (spec.abbenay /\ defaultTrue(spec.abbenayPersist))
    /\ d.GalaxyCAConfigMap = spec.galaxyCA
    /\ d.ProxyAdminTokenName = "-proxy-admin"
    /\ d.Plugins = resolvePlugins(spec.plugins)
BY DEF d, From, External, GenerateTLS, OrDefault

\* The names of the user's objects are his own.
LEMMA NamesAreApart ==
    ASSUME Chosen
    PROVE  /\ spec.connectionSecret \notin OperatorNames
           /\ spec.postgresTLS \notin OperatorNames
           /\ spec.abbenayToken \notin OperatorNames
           /\ spec.galaxyCA \notin OperatorNames
           /\ spec.abbenayConfig \notin OperatorNames
           /\ \A p \in d.Plugins : p.config \notin OperatorNames
<1>1. ASSUME NEW f \in NameFields PROVE spec[f] \notin OperatorNames
  BY NamesAssumption DEF Chosen
<1>2. spec.plugins \in ValuesOf("plugins")
  BY NamesAssumption DEF Chosen
<1>3. ASSUME NEW p \in d.Plugins PROVE p.config \notin OperatorNames
  <2>1. PICK i \in DOMAIN spec.plugins : p = Resolved(spec.plugins, i)
    BY DesiredIs DEF resolvePlugins
  <2>2. spec.plugins[i] \in PluginSpec
    BY <1>2, PluginsAssumption, ListIs
  <2>3. p.config = spec.plugins[i].config
    BY <2>1, <2>2 DEF Resolved, PluginSpec
  <2> QED
    BY <1>2, <2>3, NamesAssumption
<1> QED
  BY <1>1, <1>3 DEF NameFields

-----------------------------------------------------------------------------
(* Ports.                                                                   *)

Heard == UNION {c.listens : c \in Containers(d)}

\* What each container listens on, under the toggles that make it.
LEMMA PortsHeard ==
    /\ {50051, 50055, 50054, 50053, 8765, 50060, 8080} \subseteq Heard
    /\ d.Gitleaks => 50056 \in Heard
    /\ d.CollectionHealth => 50058 \in Heard
    /\ d.DepAudit => 50059 \in Heard
    /\ d.UI => 8081 \in Heard
    /\ d.Abbenay => 8787 \in Heard
    /\ PluginPortsOf(d) \subseteq Heard
<1>1. ASSUME NEW c \in Containers(d), NEW p \in c.listens PROVE p \in Heard
  BY DEF Heard
<1>2. {50051, 50055, 50054, 50053, 8765, 50060, 8080} \subseteq Heard
  <2>1. {Engine(d), Native(d), OPA(d), Ansible(d), GalaxyProxy(d), Gateway(d)}
          \subseteq Containers(d)
    BY DEF Containers
  <2>2. /\ 50051 \in Engine(d).listens /\ 50055 \in Native(d).listens
        /\ 50054 \in OPA(d).listens /\ 50053 \in Ansible(d).listens
        /\ 8765 \in GalaxyProxy(d).listens
        /\ {50060, 8080} \subseteq Gateway(d).listens
    BY DEF Container, Engine, Native, OPA, Ansible, GalaxyProxy, Gateway
  <2> QED
    BY <1>1, <2>1, <2>2
<1>3. d.Gitleaks => 50056 \in Heard
  <2>1. d.Gitleaks => Gitleaks(d) \in Containers(d)
    BY DEF Containers, When
  <2> QED
    BY <1>1, <2>1 DEF Gitleaks, Container
<1>4. d.CollectionHealth => 50058 \in Heard
  <2>1. d.CollectionHealth => CollectionHealth(d) \in Containers(d)
    BY DEF Containers, When
  <2> QED
    BY <1>1, <2>1 DEF CollectionHealth, Container
<1>5. d.DepAudit => 50059 \in Heard
  <2>1. d.DepAudit => DepAudit(d) \in Containers(d)
    BY DEF Containers, When
  <2> QED
    BY <1>1, <2>1 DEF DepAudit, Container
<1>6. d.UI => 8081 \in Heard
  <2>1. d.UI => UI(d) \in Containers(d)
    BY DEF Containers, When
  <2> QED
    BY <1>1, <2>1 DEF UI, Container
<1>7. d.Abbenay => 8787 \in Heard
  <2>1. d.Abbenay => Abbenay(d) \in Containers(d)
    BY DEF Containers, When
  <2> QED
    BY <1>1, <2>1 DEF Abbenay, Container
<1>8. PluginPortsOf(d) \subseteq Heard
  <2>1. ASSUME NEW p \in d.Plugins PROVE p.port \in Heard
    <3>1. Plugin(p) \in Containers(d)
      BY DEF Containers
    <3>2. p.port \in Plugin(p).listens
      BY DEF Plugin, Container
    <3> QED
      BY <1>1, <3>1, <3>2
  <2> QED
    BY <2>1 DEF PluginPortsOf
<1> QED
  BY <1>2, <1>3, <1>4, <1>5, <1>6, <1>7, <1>8

\* Every loopback address a container is given is answered by a container of the
\* pod, whichever components are switched off.
THEOREM CallsFindSomeone == Spec => []CallsAreAnswered
<1>1. CallsAreAnswered
  <2> SUFFICES ASSUME NEW c \in Containers(d), NEW p \in c.dials
               PROVE  p \in Heard
    BY DEF CallsAreAnswered, Heard
  <2>1. OptionalValidators(d) \subseteq Heard
    BY PortsHeard DEF OptionalValidators, When
  <2>2. CASE c = Engine(d)
    <3>1. p \in {50055, 50054, 50053, 8765, 50060} \cup When(d.Gitleaks, {50056})
                \cup OptionalValidators(d) \cup PluginPortsOf(d)
      BY <2>2 DEF Engine, Container
    <3> QED
      BY <2>1, <3>1, PortsHeard DEF When
  <2>3. CASE c = Ansible(d)
    BY <2>3, PortsHeard DEF Ansible, Container
  <2>4. CASE c = Gateway(d)
    <3>1. p \in {50051} \cup OptionalValidators(d) \cup When(d.Abbenay, {8787})
      BY <2>4 DEF Gateway, Container
    <3> QED
      BY <2>1, <3>1, PortsHeard DEF When
  <2>5. CASE c = UI(d)
    BY <2>5, PortsHeard DEF UI, Container
  <2>6. CASE c \in {Native(d), OPA(d), GalaxyProxy(d), Gitleaks(d),
                    CollectionHealth(d), DepAudit(d), Abbenay(d)}
    <3>1. Native(d).dials = {} /\ OPA(d).dials = {} /\ Gitleaks(d).dials = {}
      BY DEF Native, OPA, Gitleaks, Container
    <3>2. CollectionHealth(d).dials = {} /\ DepAudit(d).dials = {}
      BY DEF CollectionHealth, DepAudit, Container
    <3>3. GalaxyProxy(d).dials = {} /\ Abbenay(d).dials = {}
      BY DEF GalaxyProxy, Abbenay, Container
    <3> QED
      BY <2>6, <3>1, <3>2, <3>3
  <2>7. ASSUME NEW q \in d.Plugins, c = Plugin(q) PROVE FALSE
    BY <2>7 DEF Plugin, Container
  <2> QED
    BY <2>2, <2>3, <2>4, <2>5, <2>6, <2>7 DEF Containers, When
<1> QED
  BY <1>1, PTL

\* What a container listens on.
LEMMA PortsOfContainers ==
    /\ Engine(d).listens = {50051} /\ Native(d).listens = {50055}
    /\ OPA(d).listens = {50054} /\ Ansible(d).listens = {50053}
    /\ GalaxyProxy(d).listens = {8765} /\ Gateway(d).listens = {50060, 8080}
    /\ Gitleaks(d).listens = {50056} /\ CollectionHealth(d).listens = {50058}
    /\ DepAudit(d).listens = {50059} /\ UI(d).listens = {8081}
    /\ Abbenay(d).listens = {8787, 50057}
    /\ \A p \in d.Plugins : Plugin(p).listens = {p.port}
<1>1. /\ Engine(d).listens = {50051} /\ Native(d).listens = {50055}
      /\ OPA(d).listens = {50054} /\ Ansible(d).listens = {50053}
  BY DEF Engine, Native, OPA, Ansible, Container
<1>2. /\ GalaxyProxy(d).listens = {8765} /\ Gateway(d).listens = {50060, 8080}
  BY DEF GalaxyProxy, Gateway, Container
<1>3. /\ Gitleaks(d).listens = {50056} /\ CollectionHealth(d).listens = {50058}
      /\ DepAudit(d).listens = {50059}
  BY DEF Gitleaks, CollectionHealth, DepAudit, Container
<1>4. UI(d).listens = {8081} /\ Abbenay(d).listens = {8787, 50057}
  BY DEF UI, Abbenay, Container
<1>5. \A p \in d.Plugins : Plugin(p).listens = {p.port}
  BY DEF Plugin, Container
<1> QED
  BY <1>1, <1>2, <1>3, <1>4, <1>5

\* The containers that are not plugins.
Fixed == {Engine(d), Native(d), OPA(d), Ansible(d), GalaxyProxy(d), Gateway(d),
          Gitleaks(d), CollectionHealth(d), DepAudit(d), UI(d), Abbenay(d)}

\* No port of the range is one the operator's own containers use.
LowPorts == {p \in Nat : p <= 50060}

LEMMA RangeIsHigher ==
    ASSUME NEW q, q \in pluginPortMin .. pluginPortMax
    PROVE  q \notin LowPorts
<1>1. pluginPortMin > 50060
  BY PluginsAssumption
<1>2. pluginPortMin \in Nat /\ pluginPortMax \in Nat
  BY PluginPortAssumption
<1>3. q \in Nat /\ q >= pluginPortMin
  BY <1>2
<1>4. ~(q <= 50060)
  BY <1>1, <1>2, <1>3
<1> QED
  BY <1>3, <1>4 DEF LowPorts

LEMMA FixedAreLow ==
    ASSUME NEW b \in Fixed
    PROVE  b.listens \subseteq LowPorts
BY PortsOfContainers DEF Fixed, LowPorts

\* Two plugins are on two ports, and both on ports of the range.
LEMMA PluginsAreApart ==
    ASSUME Chosen, NEW p \in d.Plugins
    PROVE  /\ p.port \in pluginPortMin .. pluginPortMax
           /\ \A q \in d.Plugins : p.port = q.port => p = q
<1>1. spec.plugins \in ValuesOf("plugins")
  BY NamesAssumption DEF Chosen
<1>2. Admitted(spec.plugins)
      /\ Len(spec.plugins) <= pluginPortMax - pluginPortMin + 1
  BY <1>1, PluginsAssumption
<1>3. PICK i \in DOMAIN spec.plugins : p = Resolved(spec.plugins, i)
  BY DesiredIs DEF resolvePlugins
<1>4. ASSUME NEW q \in d.Plugins, p.port = q.port PROVE p = q
  <2>1. PICK j \in DOMAIN spec.plugins : q = Resolved(spec.plugins, j)
    BY DesiredIs DEF resolvePlugins
  <2>2. i = j
    BY <1>2, <1>3, <1>4, <2>1, PluginsArePlacedApart
  <2> QED
    BY <1>3, <2>1, <2>2
<1> QED
  BY <1>2, <1>3, <1>4, PluginsArePlaced

\* Sidecars and plugins share one network: no two containers of the pod listen on
\* the same port, whatever ports the plugins ask for or are given.
THEOREM PortsHaveOneOwner == Spec => []OnePortOneContainer
<1>1. Chosen => OnePortOneContainer
  <2> SUFFICES ASSUME Chosen, NEW c \in Containers(d), NEW e \in Containers(d),
                      NEW x, x \in c.listens, x \in e.listens
               PROVE  c = e
    BY DEF OnePortOneContainer
  <2>1. ASSUME NEW b \in Containers(d)
        PROVE  b \in Fixed \/ \E p \in d.Plugins : b = Plugin(p)
    BY DEF Containers, When, Fixed
  <2>4. CASE c \in Fixed /\ e \in Fixed
    BY <2>4, PortsOfContainers DEF Fixed
  <2>5. ASSUME NEW p \in d.Plugins, NEW q \in d.Plugins, c = Plugin(p), e = Plugin(q)
        PROVE  c = e
    <3>1. p.port = q.port
      BY <2>5, PortsOfContainers
    <3> QED
      BY <2>5, <3>1, PluginsAreApart
  <2>6. ASSUME NEW p \in d.Plugins, NEW b \in Fixed, x \in Plugin(p).listens, x \in b.listens
        PROVE  FALSE
    <3>1. x = p.port
      BY <2>6, PortsOfContainers
    <3>2. x \in LowPorts
      BY <2>6, FixedAreLow
    <3> QED
      BY <3>1, <3>2, PluginsAreApart, RangeIsHigher
  <2> QED
    BY <2>1, <2>4, <2>5, <2>6
<1> QED
  BY <1>1, FieldsAreChosen, PTL

-----------------------------------------------------------------------------
(* Volumes.                                                                 *)

\* The volumes that are not a plugin's, under the toggles that make them.
FixedVolumes ==
    {pvcVol("sessions", "-sessions"), pvcVol("proxy-cache", "-proxy-cache"),
     Volume("galaxy-ca", <<"ConfigMap", d.GalaxyCAConfigMap>>),
     emptyVol("galaxy-ca-bundle"),
     Volume("db-ca", DatabaseCA(d)), emptyVol("db-ca-bundle"),
     emptyVol("nginx-cache"), emptyVol("nginx-run"), emptyVol("nginx-conf"),
     Volume("abbenay-config-seed", Seed(d)), emptyVol("abbenay-run"),
     IF d.AbbenayPersist THEN pvcVol("abbenay-config", "-abbenay-config")
     ELSE emptyVol("abbenay-config")}

FixedVolumeNames ==
    {"sessions", "proxy-cache", "galaxy-ca", "galaxy-ca-bundle", "db-ca",
     "db-ca-bundle", "nginx-cache", "nginx-run", "nginx-conf",
     "abbenay-config-seed", "abbenay-run", "abbenay-config"}

PluginVolume(p) == Volume(PluginConfigVolumeName(p), <<"ConfigMap", p.config>>)

LEMMA VolumesAre ==
    ASSUME NEW v \in Volumes(d)
    PROVE  v \in FixedVolumes \/ \E p \in d.Plugins : p.config # "" /\ v = PluginVolume(p)
BY DEF Volumes, When, FixedVolumes, PluginVolume

LEMMA VolumesByName ==
    /\ {"sessions", "proxy-cache"} \subseteq VolumeNames(d)
    /\ d.GalaxyCAConfigMap # "" => {"galaxy-ca", "galaxy-ca-bundle"} \subseteq VolumeNames(d)
    /\ d.GeneratePostgres => {"db-ca", "db-ca-bundle"} \subseteq VolumeNames(d)
    /\ d.UI => {"nginx-cache", "nginx-run", "nginx-conf"} \subseteq VolumeNames(d)
    /\ d.Abbenay => {"abbenay-config-seed", "abbenay-run", "abbenay-config"}
                        \subseteq VolumeNames(d)
    /\ \A p \in d.Plugins : p.config # "" => PluginConfigVolumeName(p) \in VolumeNames(d)
<1>1. ASSUME NEW v \in Volumes(d) PROVE v.name \in VolumeNames(d)
  BY DEF VolumeNames
<1>2. /\ pvcVol("sessions", "-sessions").name = "sessions"
      /\ pvcVol("proxy-cache", "-proxy-cache").name = "proxy-cache"
      /\ \A n, x : Volume(n, x).name = n
      /\ \A n : emptyVol(n).name = n
      /\ \A n, x : pvcVol(n, x).name = n
  BY DEF pvcVol, emptyVol, Volume
<1>3. {"sessions", "proxy-cache"} \subseteq VolumeNames(d)
  <2>1. {pvcVol("sessions", "-sessions"), pvcVol("proxy-cache", "-proxy-cache")}
           \subseteq Volumes(d)
    BY DEF Volumes
  <2> QED
    BY <1>1, <1>2, <2>1
<1>4. d.GalaxyCAConfigMap # "" => {"galaxy-ca", "galaxy-ca-bundle"} \subseteq VolumeNames(d)
  <2>1. d.GalaxyCAConfigMap # "" =>
          {Volume("galaxy-ca", <<"ConfigMap", d.GalaxyCAConfigMap>>),
           emptyVol("galaxy-ca-bundle")} \subseteq Volumes(d)
    BY DEF Volumes, When
  <2>2. Volume("galaxy-ca", <<"ConfigMap", d.GalaxyCAConfigMap>>).name = "galaxy-ca"
        /\ emptyVol("galaxy-ca-bundle").name = "galaxy-ca-bundle"
    BY <1>2
  <2> QED
    BY <1>1, <2>1, <2>2
<1>5. d.GeneratePostgres => {"db-ca", "db-ca-bundle"} \subseteq VolumeNames(d)
  <2>1. d.GeneratePostgres =>
          {Volume("db-ca", DatabaseCA(d)), emptyVol("db-ca-bundle")} \subseteq Volumes(d)
    BY DEF Volumes, When
  <2> QED
    BY <1>1, <1>2, <2>1
<1>6. d.UI => {"nginx-cache", "nginx-run", "nginx-conf"} \subseteq VolumeNames(d)
  <2>1. d.UI => {emptyVol("nginx-cache"), emptyVol("nginx-run"), emptyVol("nginx-conf")}
                   \subseteq Volumes(d)
    BY DEF Volumes, When
  <2> QED
    BY <1>1, <1>2, <2>1
<1>7. d.Abbenay => {"abbenay-config-seed", "abbenay-run", "abbenay-config"}
                      \subseteq VolumeNames(d)
  <2> DEFINE claim == IF d.AbbenayPersist THEN pvcVol("abbenay-config", "-abbenay-config")
                      ELSE emptyVol("abbenay-config")
  <2>1. d.Abbenay => {Volume("abbenay-config-seed", Seed(d)), emptyVol("abbenay-run"), claim}
                        \subseteq Volumes(d)
    BY DEF Volumes, When
  <2>2. claim.name = "abbenay-config"
    BY <1>2
  <2> HIDE DEF claim
  <2> QED
    BY <1>1, <1>2, <2>1, <2>2
<1>8. ASSUME NEW p \in d.Plugins, p.config # ""
      PROVE  PluginConfigVolumeName(p) \in VolumeNames(d)
  <2>1. PluginVolume(p) \in Volumes(d)
    BY <1>8 DEF Volumes, PluginVolume
  <2> QED
    BY <1>1, <1>2, <2>1 DEF PluginVolume
<1> QED
  BY <1>3, <1>4, <1>5, <1>6, <1>7, <1>8

\* What a container mounts.
LEMMA MountsOfContainers ==
    /\ Engine(d).mounts = {"sessions"} \cup When(d.Abbenay, {"abbenay-run"})
    /\ Native(d).mounts = {} /\ OPA(d).mounts = {} /\ Gitleaks(d).mounts = {}
    /\ Ansible(d).mounts = {"sessions"} /\ CollectionHealth(d).mounts = {"sessions"}
    /\ DepAudit(d).mounts = {"sessions"}
    /\ GalaxyProxy(d).mounts =
          {"proxy-cache"} \cup When(d.GalaxyCAConfigMap # "", {"galaxy-ca-bundle"})
    /\ Gateway(d).mounts = When(d.GeneratePostgres, {"db-ca-bundle"})
                                \cup When(d.Abbenay, {"abbenay-run"})
    /\ UI(d).mounts = {"nginx-cache", "nginx-run", "nginx-conf"}
    /\ Abbenay(d).mounts = {"abbenay-config", "abbenay-run"}
    /\ \A p \in d.Plugins :
          Plugin(p).mounts = When(p.config # "", {PluginConfigVolumeName(p)})
<1>1. Engine(d).mounts = {"sessions"} \cup When(d.Abbenay, {"abbenay-run"})
  BY DEF Engine, Container, AbbenaySocket
<1>2. Native(d).mounts = {} /\ OPA(d).mounts = {} /\ Gitleaks(d).mounts = {}
  BY DEF Native, OPA, Gitleaks, Container
<1>3. /\ Ansible(d).mounts = {"sessions"} /\ CollectionHealth(d).mounts = {"sessions"}
      /\ DepAudit(d).mounts = {"sessions"}
  BY DEF Ansible, CollectionHealth, DepAudit, Container
<1>4. GalaxyProxy(d).mounts =
        {"proxy-cache"} \cup When(d.GalaxyCAConfigMap # "", {"galaxy-ca-bundle"})
  BY DEF GalaxyProxy, Container
<1>5. Gateway(d).mounts = When(d.GeneratePostgres, {"db-ca-bundle"})
                              \cup When(d.Abbenay, {"abbenay-run"})
  BY DEF Gateway, Container, AbbenaySocket
<1>6. UI(d).mounts = {"nginx-cache", "nginx-run", "nginx-conf"}
      /\ Abbenay(d).mounts = {"abbenay-config", "abbenay-run"}
  BY DEF UI, Abbenay, Container
<1>7. \A p \in d.Plugins :
          Plugin(p).mounts = When(p.config # "", {PluginConfigVolumeName(p)})
  BY DEF Plugin, Container
<1> QED
  BY <1>1, <1>2, <1>3, <1>4, <1>5, <1>6, <1>7

\* Volumes of plugins have names of their own.
LEMMA PluginVolumesAreApart ==
    ASSUME Chosen, NEW p \in d.Plugins
    PROVE  /\ PluginConfigVolumeName(p) \notin FixedVolumeNames
           /\ \A q \in d.Plugins :
                 PluginConfigVolumeName(p) = PluginConfigVolumeName(q) => p = q
<1> DEFINE list == spec.plugins
<1>1. list \in ValuesOf("plugins")
  BY NamesAssumption DEF Chosen
<1>2. ASSUME NEW i \in DOMAIN list
      PROVE  PluginConfigVolumeName(Resolved(list, i)) = PluginConfigVolumeName(list[i])
  <2>1. list[i] \in PluginSpec
    BY <1>1, PluginsAssumption, ListIs
  <2>2. Resolved(list, i).name = list[i].name
    BY <2>1 DEF Resolved, PluginSpec
  <2> QED
    BY <2>2 DEF PluginConfigVolumeName
<1>3. \A q \in d.Plugins : \E i \in DOMAIN list : q = Resolved(list, i)
  BY DesiredIs DEF resolvePlugins
<1>4. /\ \A i \in DOMAIN list : PluginConfigVolumeName(list[i]) \notin FixedVolumeNames
      /\ \A i, j \in DOMAIN list :
            PluginConfigVolumeName(list[i]) = PluginConfigVolumeName(list[j]) => i = j
  BY <1>1, PluginsAssumption DEF FixedVolumeNames
<1> HIDE DEF list
<1> QED
  BY <1>2, <1>3, <1>4

\* Every mount of every container, the init containers too, names a volume of the
\* pod, and no two volumes share a name.
THEOREM MountsFindVolumes == Spec => []MountsHaveVolumes
<1>1. Mounts(d) \subseteq VolumeNames(d)
  <2>1. ASSUME NEW c \in Containers(d) PROVE c.mounts \subseteq VolumeNames(d)
    <3> DEFINE names == VolumeNames(d)
               proxyMounts ==
                  {"proxy-cache"} \cup When(d.GalaxyCAConfigMap # "", {"galaxy-ca-bundle"})
    <3>1. Engine(d).mounts \subseteq names
      BY MountsOfContainers, VolumesByName DEF When
    <3>2. Gateway(d).mounts \subseteq names
      BY MountsOfContainers, VolumesByName DEF When
    <3>3. GalaxyProxy(d).mounts \subseteq names
      <4>1. proxyMounts \subseteq names
        BY VolumesByName DEF When
      <4> QED
        BY <4>1, MountsOfContainers
    <3>4. /\ Native(d).mounts \subseteq names /\ OPA(d).mounts \subseteq names
          /\ Gitleaks(d).mounts \subseteq names /\ Ansible(d).mounts \subseteq names
          /\ CollectionHealth(d).mounts \subseteq names
          /\ DepAudit(d).mounts \subseteq names
      BY MountsOfContainers, VolumesByName
    <3>5. d.UI => UI(d).mounts \subseteq names
      BY MountsOfContainers, VolumesByName
    <3>6. d.Abbenay => Abbenay(d).mounts \subseteq names
      BY MountsOfContainers, VolumesByName
    <3>7. ASSUME NEW p \in d.Plugins PROVE Plugin(p).mounts \subseteq names
      <4>1. Plugin(p).mounts = When(p.config # "", {PluginConfigVolumeName(p)})
        BY MountsOfContainers
      <4>2. p.config # "" => PluginConfigVolumeName(p) \in names
        BY VolumesByName
      <4> QED
        BY <4>1, <4>2 DEF When
    <3> QED
      BY <3>1, <3>2, <3>3, <3>4, <3>5, <3>6, <3>7 DEF Containers, When
  <2>2. ASSUME NEW x \in Inits(d) PROVE x.from \cup {x.to} \subseteq VolumeNames(d)
    <3>1. CASE d.GalaxyCAConfigMap # "" /\ x = InitGalaxyCABundle
      BY <3>1, VolumesByName DEF InitGalaxyCABundle, InitContainer
    <3>2. CASE d.GeneratePostgres /\ x = InitDBCABundle
      BY <3>2, VolumesByName DEF InitDBCABundle, InitContainer
    <3>3. CASE d.UI /\ x = InitNginx
      BY <3>3, VolumesByName DEF InitNginx, InitContainer
    <3>4. CASE d.Abbenay /\ x = InitAbbenayConfig
      BY <3>4, VolumesByName DEF InitAbbenayConfig, InitContainer
    <3> QED
      BY <3>1, <3>2, <3>3, <3>4 DEF Inits, When
  <2>3. \A i \in DOMAIN InitContainers(d) : InitContainers(d)[i] \in Inits(d)
    BY InitContainersAre DEF Elements
  <2>4. UNION {c.mounts : c \in Containers(d)} \subseteq VolumeNames(d)
    BY <2>1
  <2>5. UNION {InitContainers(d)[i].from \cup {InitContainers(d)[i].to} :
                 i \in DOMAIN InitContainers(d)} \subseteq VolumeNames(d)
    BY <2>2, <2>3
  <2> QED
    BY <2>4, <2>5 DEF Mounts
<1>2. ASSUME Chosen, NEW v \in Volumes(d), NEW w \in Volumes(d), v.name = w.name
      PROVE  v = w
  <2>1. ASSUME NEW x \in FixedVolumes PROVE x.name \in FixedVolumeNames
    BY DEF FixedVolumes, FixedVolumeNames, Volume, pvcVol, emptyVol
  <2>2. CASE v \in FixedVolumes /\ w \in FixedVolumes
    BY <1>2, <2>2 DEF FixedVolumes, Volume, pvcVol, emptyVol
  <2>3. \A p : PluginVolume(p).name = PluginConfigVolumeName(p)
    BY DEF PluginVolume, Volume
  <2>4. CASE v \in FixedVolumes /\ w \notin FixedVolumes
    BY <1>2, <2>1, <2>3, <2>4, VolumesAre, PluginVolumesAreApart
  <2>5. CASE v \notin FixedVolumes /\ w \in FixedVolumes
    BY <1>2, <2>1, <2>3, <2>5, VolumesAre, PluginVolumesAreApart
  <2>6. CASE v \notin FixedVolumes /\ w \notin FixedVolumes
    BY <1>2, <2>3, <2>6, VolumesAre, PluginVolumesAreApart
  <2> QED
    BY <2>2, <2>4, <2>5, <2>6
<1>3. Chosen => MountsHaveVolumes
  BY <1>1, <1>2 DEF MountsHaveVolumes
<1> QED
  BY <1>3, FieldsAreChosen, PTL

-----------------------------------------------------------------------------
(* What is exposed, and the database.                                       *)

LEMMA ServicesAre ==
    /\ GatewayService(d) \in Services(d)
    /\ d.UI => UIService(d) \in Services(d)
    /\ d.GeneratePostgres => PostgresService(d) \in Services(d)
    /\ GatewayService(d).name = "-gateway" /\ GatewayService(d).selects = "engine"
    /\ GatewayService(d).ports = {8080}
    /\ UIService(d).name = "-ui" /\ UIService(d).selects = "engine"
    /\ UIService(d).ports = {8081}
    /\ PostgresService(d).name = "-postgres" /\ PostgresService(d).selects = "postgres"
    /\ PostgresService(d).ports = {5432}
<1>1. /\ GatewayService(d) \in Services(d)
      /\ d.UI => UIService(d) \in Services(d)
      /\ d.GeneratePostgres => PostgresService(d) \in Services(d)
  BY DEF Services, When
<1>2. /\ GatewayService(d).name = "-gateway" /\ GatewayService(d).selects = "engine"
      /\ GatewayService(d).ports = {8080}
  BY DEF GatewayService, Service
<1>3. /\ UIService(d).name = "-ui" /\ UIService(d).selects = "engine"
      /\ UIService(d).ports = {8081}
  BY DEF UIService, Service
<1>4. /\ PostgresService(d).name = "-postgres" /\ PostgresService(d).selects = "postgres"
      /\ PostgresService(d).ports = {5432}
  BY DEF PostgresService, Service
<1> QED
  BY <1>1, <1>2, <1>3, <1>4

\* A backend that names the Gateway's Service, or the UI's while there is one, is
\* reached: past the NetworkPolicy, at a container that listens.
LEMMA BackendsAreReached ==
    ASSUME NEW b,
           \/ b.service = "-gateway" /\ b.port = 8080
           \/ d.UI /\ b.service = "-ui" /\ b.port = 8081
    PROVE  Reaches(b)
<1>1. \E s \in Services(d) :
         s.name = b.service /\ b.port \in s.ports /\ s.selects = "engine"
  BY ServicesAre
<1>2. b.port \in Heard
  BY PortsHeard
<1>3. \E c \in Containers(d) : b.port \in c.listens
  BY <1>2 DEF Heard
<1>4. b.port \in APMENetworkPolicy(d)
  BY DEF APMENetworkPolicy, When
<1> QED
  BY <1>1, <1>3, <1>4 DEF Reaches

\* Whatever Ingress and Routes expose gets through, and two Routes of a CR never
\* claim the same path.
THEOREM ExposedGetsThrough == Spec => []ExposedIsReachable
<1> DEFINE routes == When(d.RouteEnabled, {APIRoute(d)} \cup When(d.UI, {UIRoute(d)}))
<1>1. ASSUME NEW b \in When(d.IngressEnabled, Ingress(d)) \cup routes
      PROVE  Reaches(b)
  <2>1. CASE b \in Ingress(d) /\ d.UI
    BY <2>1, BackendsAreReached DEF Ingress, Backend
  <2>2. CASE b \in Ingress(d) /\ ~d.UI
    BY <2>2, BackendsAreReached DEF Ingress, Backend
  <2>3. CASE b = APIRoute(d)
    BY <2>3, BackendsAreReached DEF APIRoute, Backend
  <2>4. CASE b = UIRoute(d) /\ d.UI
    BY <2>4, BackendsAreReached DEF UIRoute, Backend
  <2> QED
    BY <2>1, <2>2, <2>3, <2>4 DEF When
<1>2. ASSUME NEW a \in routes, NEW b \in routes, a.path = b.path
      PROVE  a = b
  <2>1. d.UI => APIRoute(d).path = "/api" /\ UIRoute(d).path = "/"
    BY DEF APIRoute, UIRoute, Backend
  <2> QED
    BY <1>2, <2>1 DEF When
<1>3. \E b \in Ingress(d) : b.path = "/"
  <2>1. \A service, port : Backend("/", service, port).path = "/"
    BY DEF Backend
  <2>2. Backend("/", "-ui", 8081) \in Ingress(d) \/ Backend("/", "-gateway", 8080) \in Ingress(d)
    BY DEF Ingress
  <2> QED
    BY <2>1, <2>2
<1>4. ExposedIsReachable
  BY <1>1, <1>2, <1>3 DEF ExposedIsReachable
<1> QED
  BY <1>4, PTL

\* verify-full to the managed Postgres works: the URL, the Service, the policy, the
\* CA the Gateway is given and the names in the certificate agree.
THEOREM DatabaseCanBeTrusted == Spec => []DatabaseIsTrusted
<1>1. ASSUME d.GeneratePostgres PROVE DatabaseIsTrusted
  <2> DEFINE url == NewSecret(d)
             policy == PostgresNetworkPolicy(d)
             ca == Volume("db-ca", DatabaseCA(d))
  <2>1. /\ url.name = d.DatabaseSecretName /\ url.host = <<"-postgres", "namespace.svc">>
        /\ url.port = 5432 /\ url.host[1] = "-postgres"
    BY DEF NewSecret
  <2>2. url.name \in Gateway(d).secrets
    BY <2>1 DEF Gateway, Container
  <2>3. \E s \in Services(d) :
           s.name = url.host[1] /\ url.port \in s.ports /\ s.selects = "postgres"
    BY <1>1, <2>1, ServicesAre
  <2>4. policy.from = "engine" /\ url.port \in policy.ports
    BY <2>1 DEF PostgresNetworkPolicy
  <2>5. /\ ca \in Volumes(d) /\ ca.name = "db-ca"
        /\ ca.source = <<"Secret", d.PostgresTLSSecretName>>
    BY <1>1 DEF Volumes, When, Volume, DatabaseCA
  <2>6. ca.source \in StatefulSetNeeds(d)
    BY <2>5 DEF StatefulSetNeeds
  <2>7. PICK i \in DOMAIN InitContainers(d) : InitContainers(d)[i] = InitDBCABundle
    <3>1. InitDBCABundle \in Elements(InitContainers(d))
      BY <1>1, InitContainersAre DEF Inits, When
    <3> QED
      BY <3>1 DEF Elements
  <2>8. ca.name \in InitContainers(d)[i].from /\ InitContainers(d)[i].to \in Gateway(d).mounts
    <3>1. InitDBCABundle.from = {"db-ca"} /\ InitDBCABundle.to = "db-ca-bundle"
      BY DEF InitDBCABundle, InitContainer
    <3>2. "db-ca-bundle" \in Gateway(d).mounts
      BY <1>1, MountsOfContainers DEF When
    <3> QED
      BY <2>5, <2>7, <3>1, <3>2
  <2>9. url.host \in NewTLSSecret(d).hosts
    <3>1. NewTLSSecret(d).hosts = ServiceHostnames(d)
      BY DEF NewTLSSecret
    <3>2. <<"-postgres", "namespace.svc">> \in ServiceHostnames(d)
      BY DEF ServiceHostnames
    <3> QED
      BY <2>1, <3>1, <3>2
  <2> HIDE DEF url, policy, ca
  <2> QED
    BY <2>2, <2>3, <2>4, <2>5, <2>6, <2>8, <2>9 DEF DatabaseIsTrusted, url, policy
<1>2. DatabaseIsTrusted
  BY <1>1 DEF DatabaseIsTrusted
<1> QED
  BY <1>2, PTL

-----------------------------------------------------------------------------
(* Steps and the objects they create.                                       *)

Mine == StepsOf(d) \cap Owned

\* A step that is taken creates an object of the operator's own, and no other
\* step creates that one.
OwnObject(m) ==
    CASE m = "ServiceAccount"   -> <<"ServiceAccount", "">>
      [] m = "SessionsPVC"      -> <<"PersistentVolumeClaim", "-sessions">>
      [] m = "ProxyCachePVC"    -> <<"PersistentVolumeClaim", "-proxy-cache">>
      [] m = "AbbenayPVC"       -> <<"PersistentVolumeClaim", "-abbenay-config">>
      [] m = "PostgresTLS"      -> <<"Secret", "-postgres-tls">>
      [] m = "PostgresSecret"   -> <<"Secret", "-postgres">>
      [] m = "AbbenayToken"     -> <<"Secret", "-abbenay">>
      [] m = "ProxyAdminToken"  -> <<"Secret", "-proxy-admin">>
      [] m = "SSLConfigMap"     -> <<"ConfigMap", "-postgres-ssl">>
      [] m = "AbbenayConfigMap" -> <<"ConfigMap", "-abbenay-config">>
      [] m = "StatefulSet"      -> <<"StatefulSet", "-postgres">>
      [] m = "Deployment"       -> <<"Deployment", "">>
      [] m = "PostgresService"  -> <<"Service", "-postgres">>
      [] m = "EngineService"    -> <<"Service", "-engine">>
      [] m = "GatewayService"   -> <<"Service", "-gateway">>
      [] m = "UIService"        -> <<"Service", "-ui">>
      [] m = "Ingress"          -> <<"Ingress", "">>
      [] m = "APMENetworkPolicy"     -> <<"NetworkPolicy", "-engine">>
      [] m = "PostgresNetworkPolicy" -> <<"NetworkPolicy", "-postgres">>

OwnedNames ==
    {"ServiceAccount", "SessionsPVC", "ProxyCachePVC", "AbbenayPVC", "PostgresTLS",
     "PostgresSecret", "AbbenayToken", "ProxyAdminToken", "SSLConfigMap",
     "AbbenayConfigMap", "StatefulSet", "Deployment", "PostgresService",
     "EngineService", "GatewayService", "UIService", "Ingress",
     "APMENetworkPolicy", "PostgresNetworkPolicy"}

LEMMA OwnedAre == Owned = OwnedNames
BY DEF Owned, Credentials, Applied, Workloads, OwnedNames

LEMMA ObjectsAreOwn ==
    ASSUME NEW m \in Mine
    PROVE  Object(d, m) = OwnObject(m)
<1>1. m \in OwnedNames /\ m \notin Skipped(d)
  BY OwnedAre DEF Mine, StepsOf
<1>2. m = "PostgresTLS" => d.PostgresTLSSecretName = "-postgres-tls"
  BY <1>1, DesiredIs DEF Skipped, Unless
<1>3. m = "PostgresSecret" => d.DatabaseSecretName = "-postgres"
  BY <1>1, DesiredIs DEF Skipped, Unless
<1>4. d.ProxyAdminTokenName = "-proxy-admin"
  BY DesiredIs
<1>5. EngineService(d).name = "-engine"
  BY DEF EngineService, Service
<1> QED
  BY <1>1, <1>2, <1>3, <1>4, <1>5, ServicesAre DEF Object, OwnObject, OwnedNames

LEMMA OwnObjectsDiffer ==
    ASSUME NEW m \in OwnedNames, NEW n \in OwnedNames, OwnObject(m) = OwnObject(n)
    PROVE  m = n
<1> DEFINE claims   == {"SessionsPVC", "ProxyCachePVC", "AbbenayPVC"}
           secrets  == {"PostgresTLS", "PostgresSecret", "AbbenayToken", "ProxyAdminToken"}
           configs  == {"SSLConfigMap", "AbbenayConfigMap"}
           services == {"PostgresService", "EngineService", "GatewayService", "UIService"}
           policies == {"APMENetworkPolicy", "PostgresNetworkPolicy"}
<1>1. ASSUME NEW k \in OwnedNames
      PROVE  /\ OwnObject(k)[1] = "PersistentVolumeClaim" <=> k \in claims
             /\ OwnObject(k)[1] = "Secret" <=> k \in secrets
             /\ OwnObject(k)[1] = "ConfigMap" <=> k \in configs
             /\ OwnObject(k)[1] = "Service" <=> k \in services
             /\ OwnObject(k)[1] = "NetworkPolicy" <=> k \in policies
             /\ k \in claims \cup secrets \cup configs \cup services \cup policies
                \/ OwnObject(k)[1] = k
  BY DEF OwnObject, OwnedNames
<1>2. CASE m \in claims
  <2>1. n \in claims
    BY <1>1, <1>2
  <2>2. /\ OwnObject("SessionsPVC")[2] = "-sessions"
        /\ OwnObject("ProxyCachePVC")[2] = "-proxy-cache"
        /\ OwnObject("AbbenayPVC")[2] = "-abbenay-config"
    BY DEF OwnObject
  <2>3. OwnObject(m)[2] = OwnObject(n)[2]
    OBVIOUS
  <2> QED
    BY <1>2, <2>1, <2>2, <2>3
<1>3. CASE m \in secrets
  <2>1. n \in secrets
    BY <1>1, <1>3
  <2>2. /\ OwnObject("PostgresTLS")[2] = "-postgres-tls"
        /\ OwnObject("PostgresSecret")[2] = "-postgres"
        /\ OwnObject("AbbenayToken")[2] = "-abbenay"
        /\ OwnObject("ProxyAdminToken")[2] = "-proxy-admin"
    BY DEF OwnObject
  <2>3. OwnObject(m)[2] = OwnObject(n)[2]
    OBVIOUS
  <2> QED
    BY <1>3, <2>1, <2>2, <2>3
<1>4. CASE m \in configs
  <2>1. n \in configs
    BY <1>1, <1>4
  <2>2. /\ OwnObject("SSLConfigMap")[2] = "-postgres-ssl"
        /\ OwnObject("AbbenayConfigMap")[2] = "-abbenay-config"
    BY DEF OwnObject
  <2>3. OwnObject(m)[2] = OwnObject(n)[2]
    OBVIOUS
  <2> QED
    BY <1>4, <2>1, <2>2, <2>3
<1>5. CASE m \in services
  <2>1. n \in services
    BY <1>1, <1>5
  <2>2. /\ OwnObject("PostgresService")[2] = "-postgres"
        /\ OwnObject("EngineService")[2] = "-engine"
        /\ OwnObject("GatewayService")[2] = "-gateway"
        /\ OwnObject("UIService")[2] = "-ui"
    BY DEF OwnObject
  <2>3. OwnObject(m)[2] = OwnObject(n)[2]
    OBVIOUS
  <2> QED
    BY <1>5, <2>1, <2>2, <2>3
<1>6. CASE m \in policies
  <2>1. n \in policies
    BY <1>1, <1>6
  <2>2. /\ OwnObject("APMENetworkPolicy")[2] = "-engine"
        /\ OwnObject("PostgresNetworkPolicy")[2] = "-postgres"
    BY DEF OwnObject
  <2>3. OwnObject(m)[2] = OwnObject(n)[2]
    OBVIOUS
  <2> QED
    BY <1>6, <2>1, <2>2, <2>3
<1>7. CASE m \notin claims \cup secrets \cup configs \cup services \cup policies
  <2>1. n \notin claims \cup secrets \cup configs \cup services \cup policies
    BY <1>1, <1>7
  <2> HIDE DEF claims, secrets, configs, services, policies
  <2> QED
    BY <1>1, <1>7, <2>1
<1> QED
  BY <1>2, <1>3, <1>4, <1>5, <1>6, <1>7

LEMMA OwnNames ==
    ASSUME NEW m \in OwnedNames, OwnObject(m)[1] \in {"Secret", "ConfigMap"}
    PROVE  OwnObject(m)[2] \in OperatorNames
BY DEF OwnObject, OwnedNames, OperatorNames

\* No two steps write one object, and none writes one of the user's.
THEOREM StepsDoNotShare == Spec => []StepsOwnTheirObjects
<1>1. ASSUME Chosen PROVE StepsOwnTheirObjects
  <2>1. ASSUME NEW m \in Mine, NEW n \in Mine, m # n
        PROVE  Object(d, m) # Object(d, n)
    BY <2>1, ObjectsAreOwn, OwnObjectsDiffer, OwnedAre DEF Mine
  <2>2. ASSUME NEW m \in Mine, Object(d, m) \in UserNamed PROVE FALSE
    <3>1. /\ Object(d, m)[1] \in {"Secret", "ConfigMap"}
          /\ Object(d, m)[2] \notin OperatorNames
      BY <1>1, <2>2, NamesAreApart DEF UserNamed
    <3> QED
      BY <3>1, ObjectsAreOwn, OwnNames, OwnedAre DEF Mine
  <2> QED
    BY <2>1, <2>2 DEF StepsOwnTheirObjects, Mine
<1> QED
  BY <1>1, FieldsAreChosen, PTL

-----------------------------------------------------------------------------
(* What a pod needs before it starts.                                       *)

MadeBefore(w) == {Object(d, n) : n \in {m \in StepsOf(d) \cap Owned : Pos[m] < Pos[w]}}

\* The steps taken, under the toggles that ask for them.
LEMMA StepsTaken ==
    /\ {"ServiceAccount", "SessionsPVC", "ProxyCachePVC", "ProxyAdminToken"} \subseteq Mine
    /\ d.GeneratePostgres => {"PostgresSecret", "SSLConfigMap"} \subseteq Mine
    /\ d.GeneratePostgresTLS => "PostgresTLS" \in Mine
    /\ d.GenerateAbbenayToken => "AbbenayToken" \in Mine
    /\ d.Abbenay /\ d.AbbenayConfigMap = "" => "AbbenayConfigMap" \in Mine
    /\ d.AbbenayPersist => "AbbenayPVC" \in Mine
<1>1. ASSUME NEW m \in OwnedNames, m \notin Skipped(d) PROVE m \in Mine
  BY <1>1, OwnedAre, StepsAreNamed DEF Mine, StepsOf
<1>2. {"ServiceAccount", "SessionsPVC", "ProxyCachePVC", "ProxyAdminToken"}
          \cap Skipped(d) = {}
  <2>1. "ServiceAccount" \notin Skipped(d)
    BY DEF Skipped, Unless
  <2>2. "SessionsPVC" \notin Skipped(d)
    BY DEF Skipped, Unless
  <2>3. "ProxyCachePVC" \notin Skipped(d)
    BY DEF Skipped, Unless
  <2>4. "ProxyAdminToken" \notin Skipped(d)
    BY DEF Skipped, Unless
  <2> QED
    BY <2>1, <2>2, <2>3, <2>4
<1>3. d.GeneratePostgres => {"PostgresSecret", "SSLConfigMap"} \cap Skipped(d) = {}
  <2>1. d.GeneratePostgres => "PostgresSecret" \notin Skipped(d)
    BY DEF Skipped, Unless
  <2>2. d.GeneratePostgres => "SSLConfigMap" \notin Skipped(d)
    BY DEF Skipped, Unless
  <2> QED
    BY <2>1, <2>2
<1>4. d.GeneratePostgresTLS => "PostgresTLS" \notin Skipped(d)
  BY DEF Skipped, Unless
<1>5. d.GenerateAbbenayToken => "AbbenayToken" \notin Skipped(d)
  BY DEF Skipped, Unless
<1>6. d.Abbenay /\ d.AbbenayConfigMap = "" => "AbbenayConfigMap" \notin Skipped(d)
  BY DEF Skipped, Unless
<1>7. d.AbbenayPersist => "AbbenayPVC" \notin Skipped(d)
  BY DEF Skipped, Unless
<1>8. {"ServiceAccount", "SessionsPVC", "ProxyCachePVC", "ProxyAdminToken",
       "PostgresSecret", "SSLConfigMap", "PostgresTLS", "AbbenayToken",
       "AbbenayConfigMap", "AbbenayPVC"} \subseteq OwnedNames
  BY DEF OwnedNames
<1> QED
  BY <1>1, <1>2, <1>3, <1>4, <1>5, <1>6, <1>7, <1>8

\* A step before the workload's makes its object before it.
LEMMA MadeInTime ==
    ASSUME NEW m \in Mine, NEW w,
           \/ /\ w = "Deployment"
              /\ m \in {"ServiceAccount", "SessionsPVC", "ProxyCachePVC", "PostgresTLS",
                        "PostgresSecret", "SSLConfigMap", "AbbenayToken",
                        "AbbenayConfigMap", "AbbenayPVC", "ProxyAdminToken"}
           \/ /\ w = "StatefulSet"
              /\ m \in {"PostgresTLS", "PostgresSecret", "SSLConfigMap"}
    PROVE  OwnObject(m) \in MadeBefore(w)
<1>1. Pos[m] < Pos[w]
  BY PosIs
<1> QED
  BY <1>1, ObjectsAreOwn DEF MadeBefore, Mine

\* The claims, Secrets and ConfigMaps a pod may need, whoever makes them.
LEMMA ObjectsThereInTime ==
    LET there(w) == UserNamed \cup MadeBefore(w)
    IN  /\ <<"ServiceAccount", "">> \in there("Deployment")
        /\ <<"PersistentVolumeClaim", "-sessions">> \in there("Deployment")
        /\ <<"PersistentVolumeClaim", "-proxy-cache">> \in there("Deployment")
        /\ d.AbbenayPersist =>
             <<"PersistentVolumeClaim", "-abbenay-config">> \in there("Deployment")
        /\ <<"Secret", d.ProxyAdminTokenName>> \in there("Deployment")
        /\ <<"Secret", d.DatabaseSecretName>> \in there("Deployment")
        /\ d.Abbenay => <<"Secret", d.AbbenayTokenName>> \in there("Deployment")
        /\ d.Abbenay => Seed(d) \in there("Deployment")
        /\ <<"ConfigMap", d.GalaxyCAConfigMap>> \in there("Deployment")
        /\ \A p \in d.Plugins : <<"ConfigMap", p.config>> \in there("Deployment")
        /\ d.GeneratePostgres =>
             /\ <<"Secret", d.PostgresTLSSecretName>> \in there("Deployment")
             /\ <<"Secret", d.PostgresTLSSecretName>> \in there("StatefulSet")
             /\ <<"Secret", d.DatabaseSecretName>> \in there("StatefulSet")
             /\ <<"ConfigMap", "-postgres-ssl">> \in there("StatefulSet")
<1> DEFINE there(w) == UserNamed \cup MadeBefore(w)
           deployment == "Deployment"
           statefulSet == "StatefulSet"
<1>1. /\ OwnObject("ServiceAccount") = <<"ServiceAccount", "">>
      /\ OwnObject("SessionsPVC") = <<"PersistentVolumeClaim", "-sessions">>
      /\ OwnObject("ProxyCachePVC") = <<"PersistentVolumeClaim", "-proxy-cache">>
      /\ OwnObject("AbbenayPVC") = <<"PersistentVolumeClaim", "-abbenay-config">>
      /\ OwnObject("PostgresTLS") = <<"Secret", "-postgres-tls">>
      /\ OwnObject("PostgresSecret") = <<"Secret", "-postgres">>
      /\ OwnObject("AbbenayToken") = <<"Secret", "-abbenay">>
      /\ OwnObject("ProxyAdminToken") = <<"Secret", "-proxy-admin">>
      /\ OwnObject("SSLConfigMap") = <<"ConfigMap", "-postgres-ssl">>
      /\ OwnObject("AbbenayConfigMap") = <<"ConfigMap", "-abbenay-config">>
  BY DEF OwnObject
<1>2. /\ <<"Secret", spec.connectionSecret>> \in UserNamed
      /\ <<"Secret", spec.postgresTLS>> \in UserNamed
      /\ <<"Secret", spec.abbenayToken>> \in UserNamed
      /\ <<"ConfigMap", spec.galaxyCA>> \in UserNamed
      /\ <<"ConfigMap", spec.abbenayConfig>> \in UserNamed
      /\ \A p \in d.Plugins : <<"ConfigMap", p.config>> \in UserNamed
  BY DEF UserNamed
<1>3. /\ <<"ServiceAccount", "">> \in MadeBefore(deployment)
      /\ <<"PersistentVolumeClaim", "-sessions">> \in MadeBefore(deployment)
      /\ <<"PersistentVolumeClaim", "-proxy-cache">> \in MadeBefore(deployment)
      /\ <<"Secret", "-proxy-admin">> \in MadeBefore(deployment)
  BY <1>1, StepsTaken, MadeInTime
<1>4. d.AbbenayPersist =>
         <<"PersistentVolumeClaim", "-abbenay-config">> \in MadeBefore(deployment)
  BY <1>1, StepsTaken, MadeInTime
<1>5. <<"Secret", d.ProxyAdminTokenName>> \in there(deployment)
  BY <1>3, DesiredIs
<1>6. /\ <<"Secret", d.DatabaseSecretName>> \in there(deployment)
      /\ d.GeneratePostgres => <<"Secret", d.DatabaseSecretName>> \in there(statefulSet)
  <2>1. CASE External(spec)
    <3>1. d.DatabaseSecretName = spec.connectionSecret /\ ~d.GeneratePostgres
      BY <2>1, DesiredIs
    <3> QED
      BY <3>1, <1>2
  <2>2. CASE ~External(spec)
    <3>1. d.DatabaseSecretName = "-postgres" /\ "PostgresSecret" \in Mine
      BY <2>2, DesiredIs, StepsTaken
    <3>2. OwnObject("PostgresSecret") \in MadeBefore(deployment)
          /\ OwnObject("PostgresSecret") \in MadeBefore(statefulSet)
      BY <3>1, MadeInTime
    <3> QED
      BY <3>1, <3>2, <1>1
  <2> QED
    BY <2>1, <2>2
<1>7. d.GeneratePostgres =>
         /\ <<"Secret", d.PostgresTLSSecretName>> \in there(deployment)
         /\ <<"Secret", d.PostgresTLSSecretName>> \in there(statefulSet)
         /\ <<"ConfigMap", "-postgres-ssl">> \in there(statefulSet)
  <2> SUFFICES ASSUME d.GeneratePostgres
               PROVE  /\ <<"Secret", d.PostgresTLSSecretName>> \in there(deployment)
                      /\ <<"Secret", d.PostgresTLSSecretName>> \in there(statefulSet)
                      /\ <<"ConfigMap", "-postgres-ssl">> \in there(statefulSet)
    OBVIOUS
  <2>1. OwnObject("SSLConfigMap") \in MadeBefore(statefulSet)
    BY StepsTaken, MadeInTime
  <2>2. CASE spec.postgresTLS = ""
    <3>1. d.PostgresTLSSecretName = "-postgres-tls" /\ "PostgresTLS" \in Mine
      BY <2>2, DesiredIs, StepsTaken
    <3>2. OwnObject("PostgresTLS") \in MadeBefore(deployment)
          /\ OwnObject("PostgresTLS") \in MadeBefore(statefulSet)
      BY <3>1, MadeInTime
    <3> QED
      BY <2>1, <3>1, <3>2, <1>1
  <2>3. CASE spec.postgresTLS # ""
    <3>1. d.PostgresTLSSecretName = spec.postgresTLS
      BY <2>3, DesiredIs
    <3> QED
      BY <2>1, <3>1, <1>1, <1>2
  <2> QED
    BY <2>2, <2>3
<1>8. d.Abbenay => <<"Secret", d.AbbenayTokenName>> \in there(deployment)
  <2>1. CASE d.Abbenay /\ spec.abbenayToken = ""
    <3>1. d.AbbenayTokenName = "-abbenay" /\ "AbbenayToken" \in Mine
      BY <2>1, DesiredIs, StepsTaken
    <3> QED
      BY <3>1, <1>1, MadeInTime
  <2>2. CASE d.Abbenay /\ spec.abbenayToken # ""
    BY <1>2, <2>2, DesiredIs
  <2> QED
    BY <2>1, <2>2
<1>9. d.Abbenay => Seed(d) \in there(deployment)
  <2>1. CASE d.Abbenay /\ d.AbbenayConfigMap = ""
    <3>1. Seed(d) = <<"ConfigMap", "-abbenay-config">> /\ "AbbenayConfigMap" \in Mine
      BY <2>1, StepsTaken DEF Seed
    <3> QED
      BY <3>1, <1>1, MadeInTime
  <2>2. CASE d.Abbenay /\ d.AbbenayConfigMap # ""
    <3>1. Seed(d) = <<"ConfigMap", spec.abbenayConfig>>
      BY <2>2, DesiredIs DEF Seed
    <3> QED
      BY <3>1, <1>2
  <2> QED
    BY <2>1, <2>2
<1>10. <<"ConfigMap", d.GalaxyCAConfigMap>> \in UserNamed
  BY <1>2, DesiredIs
<1> QED
  BY <1>2, <1>3, <1>4, <1>5, <1>6, <1>7, <1>8, <1>9, <1>10

\* The Secrets the containers of the pod read.
LEMMA SecretsRead ==
    ASSUME NEW c \in Containers(d), NEW s \in c.secrets
    PROVE  \/ s \in {d.DatabaseSecretName, d.ProxyAdminTokenName}
           \/ d.Abbenay /\ s = d.AbbenayTokenName
<1>1. CASE c = Engine(d)
  BY <1>1 DEF Engine, Container, AbbenayToken, When
<1>2. CASE c = Gateway(d)
  BY <1>2 DEF Gateway, Container, AbbenayToken, When
<1>3. CASE c = GalaxyProxy(d)
  <2>1. GalaxyProxy(d).secrets = {d.ProxyAdminTokenName}
    BY DEF GalaxyProxy, Container
  <2> QED
    BY <1>3, <2>1
<1>4. CASE d.Abbenay /\ c = Abbenay(d)
  BY <1>4 DEF Abbenay, Container
<1>5. CASE c \in {Native(d), OPA(d), Ansible(d), Gitleaks(d)}
  BY <1>5 DEF Native, OPA, Ansible, Gitleaks, Container
<1>6. CASE c \in {CollectionHealth(d), DepAudit(d), UI(d)}
  BY <1>6 DEF CollectionHealth, DepAudit, UI, Container
<1>7. ASSUME NEW p \in d.Plugins, c = Plugin(p) PROVE FALSE
  BY <1>7 DEF Plugin, Container
<1> QED
  BY <1>1, <1>2, <1>3, <1>4, <1>5, <1>6, <1>7 DEF Containers, When

\* Every object the pods cannot start without is one the user named, or one that
\* an earlier step of this very spec creates.
THEOREM NeedsAreMet == Spec => []NeedsAreEnsured
<1> DEFINE there(w) == UserNamed \cup MadeBefore(w)
           deployment == "Deployment"
<1>1. ASSUME NEW v \in Volumes(d), v.source[1] # "empty"
      PROVE  v.source \in there(deployment)
  <2>1. /\ \A n, x : Volume(n, x).source = x
        /\ \A n, claim : pvcVol(n, claim).source = <<"PersistentVolumeClaim", claim>>
        /\ \A n : emptyVol(n).source[1] = "empty"
    BY DEF Volume, pvcVol, emptyVol
  <2>2. CASE v \in {pvcVol("sessions", "-sessions"), pvcVol("proxy-cache", "-proxy-cache")}
    <3>1. v.source \in {<<"PersistentVolumeClaim", "-sessions">>,
                        <<"PersistentVolumeClaim", "-proxy-cache">>}
      BY <2>1, <2>2
    <3> QED
      BY <3>1, ObjectsThereInTime
  <2>3. CASE v = Volume("galaxy-ca", <<"ConfigMap", d.GalaxyCAConfigMap>>)
    BY <2>1, <2>3, ObjectsThereInTime
  <2>4. ASSUME NEW p \in d.Plugins,
               v = Volume(PluginConfigVolumeName(p), <<"ConfigMap", p.config>>)
        PROVE  v.source \in there(deployment)
    <3>1. v.source = <<"ConfigMap", p.config>>
      BY <2>1, <2>4
    <3> QED
      BY <3>1, <2>4, ObjectsThereInTime
  <2>5. CASE d.GeneratePostgres /\ v = Volume("db-ca", DatabaseCA(d))
    <3>1. v.source = <<"Secret", d.PostgresTLSSecretName>>
      BY <2>1, <2>5 DEF DatabaseCA
    <3> QED
      BY <3>1, <2>5, ObjectsThereInTime
  <2>6. CASE d.Abbenay /\ v = Volume("abbenay-config-seed", Seed(d))
    <3>1. v.source = Seed(d)
      BY <2>1, <2>6
    <3> QED
      BY <3>1, <2>6, ObjectsThereInTime
  <2>7. CASE d.AbbenayPersist /\ v = pvcVol("abbenay-config", "-abbenay-config")
    <3>1. v.source = <<"PersistentVolumeClaim", "-abbenay-config">>
      BY <2>1, <2>7
    <3> QED
      BY <3>1, <2>7, ObjectsThereInTime
  <2>8. ASSUME NEW n, v = emptyVol(n) PROVE FALSE
    BY <1>1, <2>1, <2>8
  <2> HIDE DEF there, deployment
  <2> QED
    BY <2>2, <2>3, <2>4, <2>5, <2>6, <2>7, <2>8 DEF Volumes, When
<1>2. ASSUME NEW c \in Containers(d), NEW s \in c.secrets
      PROVE  <<"Secret", s>> \in there(deployment)
  BY SecretsRead, ObjectsThereInTime
<1>3. <<"ServiceAccount", "">> \in there(deployment)
  BY ObjectsThereInTime
<1>4. DeploymentNeeds(d) \subseteq there(deployment)
  <2> HIDE DEF there, deployment
  <2> QED
    BY <1>1, <1>2, <1>3 DEF DeploymentNeeds
<1>5. d.GeneratePostgres => StatefulSetNeeds(d) \subseteq there("StatefulSet")
  BY ObjectsThereInTime DEF StatefulSetNeeds
<1>6. NeedsAreEnsured
  BY <1>4, <1>5 DEF NeedsAreEnsured, MadeBefore
<1> QED
  BY <1>6, PTL
=============================================================================
