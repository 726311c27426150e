--------------------------- MODULE PodStartProofs ---------------------------
(***************************************************************************)
(* The init containers leave whole trust bundles and spare what the user   *)
(* saved, however often they are killed and run again: for every spec,     *)
(* whatever the user may edit, and for all bounds.                         *)
(***************************************************************************)
EXTENDS PodStart, ManifestsProofs, SequenceTheorems

\* A spec with plugins the user may choose.
Admissible(s) ==
    DOMAIN s = DOMAIN FirstSpec /\ s.plugins \in ValuesOf("plugins")

IInv ==
    /\ DOMAIN disk = Disks
    /\ \E S : todo \in Seq(S)
    /\ Admissible(spec)
    /\ pod # None \/ todo # << >> => Admissible(pod)
    /\ PodInv

-----------------------------------------------------------------------------
(* Volumes and the disks behind them.                                       *)

LEMMA PluginVolumesAre ==
    ASSUME NEW s, Admissible(s), NEW p \in From(s).Plugins
    PROVE  PluginConfigVolumeName(p) \notin InitVolumes
<1>1. From(s).Plugins = resolvePlugins(s.plugins)
  BY DEF From
<1>2. PICK i \in DOMAIN s.plugins : p = Resolved(s.plugins, i)
  BY <1>1 DEF resolvePlugins
<1>3. Admitted(s.plugins) /\ PluginConfigVolumeName(s.plugins[i]) \notin InitVolumes
  BY PodStartAssumption DEF Admissible
<1>4. s.plugins[i] \in PluginSpec
  BY <1>3, ListIs
<1>5. p.name = s.plugins[i].name
  BY <1>2, <1>4 DEF Resolved, PluginSpec
<1> QED
  BY <1>3, <1>5 DEF PluginConfigVolumeName

\* A volume init containers write to is an emptyDir of that name, or the claim.
LEMMA WrittenVolumesAre ==
    ASSUME NEW s, Admissible(s), NEW v \in Volumes(From(s)), v.name \in InitVolumes
    PROVE  \/ v.source = <<"empty", v.name>>
           \/ v.source = Claim /\ v.name = "abbenay-config"
<1> DEFINE e == From(s)
<1>1. /\ \A n, x : Volume(n, x).name = n /\ Volume(n, x).source = x
      /\ \A n, c : pvcVol(n, c).name = n
                   /\ pvcVol(n, c).source = <<"PersistentVolumeClaim", c>>
      /\ \A n : emptyVol(n).name = n /\ emptyVol(n).source = <<"empty", n>>
  BY DEF Volume, pvcVol, emptyVol
<1>2. CASE v \in {pvcVol("sessions", "-sessions"), pvcVol("proxy-cache", "-proxy-cache")}
  BY <1>1, <1>2 DEF InitVolumes
<1>3. ASSUME NEW n \in {"galaxy-ca", "db-ca", "abbenay-config-seed"}, NEW x,
             v = Volume(n, x)
      PROVE  FALSE
  BY <1>1, <1>3 DEF InitVolumes
<1>4. ASSUME NEW p \in e.Plugins, NEW x, v = Volume(PluginConfigVolumeName(p), x)
      PROVE  FALSE
  BY <1>1, <1>4, PluginVolumesAre
<1>5. ASSUME NEW n, v = emptyVol(n)
      PROVE  v.source = <<"empty", v.name>>
  BY <1>1, <1>5
<1>6. CASE v = pvcVol("abbenay-config", "-abbenay-config")
  BY <1>1, <1>6 DEF Claim
<1> HIDE DEF e
<1> QED
  BY <1>2, <1>3, <1>4, <1>5, <1>6 DEF Volumes, When, e

\* Where the files are.
LEMMA DisksAre ==
    ASSUME NEW s, Admissible(s)
    PROVE  LET e == From(s)
           IN  /\ e.GalaxyCAConfigMap # "" =>
                     DiskOf(e, "galaxy-ca-bundle") = <<"empty", "galaxy-ca-bundle">>
               /\ e.GeneratePostgres =>
                     DiskOf(e, "db-ca-bundle") = <<"empty", "db-ca-bundle">>
               /\ e.UI => DiskOf(e, "nginx-conf") = <<"empty", "nginx-conf">>
               /\ e.Abbenay =>
                     DiskOf(e, "abbenay-config") \in {Claim, <<"empty", "abbenay-config">>}
<1> DEFINE e == From(s)
<1>1. ASSUME NEW n \in InitVolumes, \E v \in Volumes(e) : v.name = n
      PROVE  DiskOf(e, n) \in {<<"empty", n>>} \cup When(n = "abbenay-config", {Claim})
  <2> DEFINE w == CHOOSE v \in Volumes(e) : v.name = n
  <2>1. w \in Volumes(e) /\ w.name = n
    BY <1>1
  <2>2. DiskOf(e, n) = w.source
    BY DEF DiskOf
  <2> HIDE DEF w
  <2> QED
    BY <2>1, <2>2, WrittenVolumesAre DEF When
<1>2. /\ \A n : emptyVol(n).name = n
      /\ \A n, c : pvcVol(n, c).name = n
  BY DEF Volume, pvcVol, emptyVol
<1>3. e.GalaxyCAConfigMap # "" => emptyVol("galaxy-ca-bundle") \in Volumes(e)
  BY DEF Volumes, When
<1>4. e.GeneratePostgres => emptyVol("db-ca-bundle") \in Volumes(e)
  BY DEF Volumes, When
<1>5. e.UI => emptyVol("nginx-conf") \in Volumes(e)
  BY DEF Volumes, When
<1>6. e.Abbenay => \/ emptyVol("abbenay-config") \in Volumes(e)
                   \/ pvcVol("abbenay-config", "-abbenay-config") \in Volumes(e)
  BY DEF Volumes, When
<1>7. InitVolumes = {"galaxy-ca-bundle", "db-ca-bundle", "nginx-conf", "abbenay-config"}
  BY DEF InitVolumes
<1> HIDE DEF e
<1>8. e.GalaxyCAConfigMap # "" =>
         DiskOf(e, "galaxy-ca-bundle") = <<"empty", "galaxy-ca-bundle">>
  BY <1>1, <1>2, <1>3, <1>7 DEF When
<1>9. e.GeneratePostgres => DiskOf(e, "db-ca-bundle") = <<"empty", "db-ca-bundle">>
  BY <1>1, <1>2, <1>4, <1>7 DEF When
<1>10. e.UI => DiskOf(e, "nginx-conf") = <<"empty", "nginx-conf">>
  BY <1>1, <1>2, <1>5, <1>7 DEF When
<1>11. e.Abbenay =>
         DiskOf(e, "abbenay-config") \in {Claim, <<"empty", "abbenay-config">>}
  BY <1>1, <1>2, <1>6, <1>7 DEF When
<1> QED
  BY <1>8, <1>9, <1>10, <1>11 DEF e

\* What the next init container writes to, and that no other does.
LEMMA TargetIs ==
    ASSUME IInv, todo # << >>
    PROVE  /\ todo[1] \in Left /\ Target \in Disks
           /\ todo[1] = InitGalaxyCABundle => Target = <<"empty", "galaxy-ca-bundle">>
           /\ todo[1] = InitDBCABundle => Target = <<"empty", "db-ca-bundle">>
           /\ todo[1] = InitNginx => Target = <<"empty", "nginx-conf">>
           /\ todo[1] = InitAbbenayConfig =>
                 From(pod).Abbenay /\ Target \in {Claim, <<"empty", "abbenay-config">>}
           /\ todo[1] \in {InitGalaxyCABundle, InitDBCABundle, InitNginx, InitAbbenayConfig}
           /\ DOMAIN todo = 1 .. Len(todo) /\ Len(todo) \in Nat \ {0}
<1> DEFINE e == From(pod)
<1>1. DOMAIN todo = 1 .. Len(todo) /\ Len(todo) \in Nat \ {0}
  BY DEF IInv
<1>2. todo[1] \in Left
  BY <1>1 DEF Left
<1>3. todo[1] \in Inits(e)
  BY <1>2, InitContainersAre DEF IInv, PodInv, Planned, Elements
<1>4. Admissible(pod)
  BY DEF IInv
<1>5. /\ InitGalaxyCABundle.to = "galaxy-ca-bundle" /\ InitDBCABundle.to = "db-ca-bundle"
      /\ InitNginx.to = "nginx-conf" /\ InitAbbenayConfig.to = "abbenay-config"
  BY DEF InitGalaxyCABundle, InitDBCABundle, InitNginx, InitAbbenayConfig, InitContainer
<1>6. \/ e.GalaxyCAConfigMap # "" /\ todo[1] = InitGalaxyCABundle
      \/ e.GeneratePostgres /\ todo[1] = InitDBCABundle
      \/ e.UI /\ todo[1] = InitNginx
      \/ e.Abbenay /\ todo[1] = InitAbbenayConfig
  BY <1>3 DEF Inits, When
<1>7. {Claim, <<"empty", "galaxy-ca-bundle">>, <<"empty", "db-ca-bundle">>,
       <<"empty", "nginx-conf">>, <<"empty", "abbenay-config">>} \subseteq Disks
  BY DEF Disks, InitVolumes
<1>8. /\ e.GalaxyCAConfigMap # "" =>
            DiskOf(e, "galaxy-ca-bundle") = <<"empty", "galaxy-ca-bundle">>
      /\ e.GeneratePostgres => DiskOf(e, "db-ca-bundle") = <<"empty", "db-ca-bundle">>
      /\ e.UI => DiskOf(e, "nginx-conf") = <<"empty", "nginx-conf">>
      /\ e.Abbenay => DiskOf(e, "abbenay-config") \in {Claim, <<"empty", "abbenay-config">>}
  BY <1>4, DisksAre
<1>9. Target = DiskOf(e, todo[1].to)
  BY DEF Target
<1> HIDE DEF e
<1> QED
  BY <1>1, <1>2, <1>5, <1>6, <1>7, <1>8, <1>9 DEF e

-----------------------------------------------------------------------------
(* The lines of the scripts.                                                *)

LEMMA Lines ==
    /\ Remove.op = "remove"
    /\ \A w : Copy(w).op = "copy" /\ Copy(w).what = w
    /\ \A w : AppendTo(w).op = "append" /\ AppendTo(w).what = w
BY DEF Remove, Copy, AppendTo

LEMMA Tails ==
    /\ \A a, b, c : /\ <<a, b, c>> # << >> /\ <<a, b, c>>[1] = a
                    /\ Tail(<<a, b, c>>) = <<b, c>>
    /\ \A a, b : <<a, b>> # << >> /\ <<a, b>>[1] = a /\ Tail(<<a, b>>) = <<b>>
    /\ \A a : <<a>> # << >> /\ <<a>>[1] = a /\ Tail(<<a>>) = << >>
<1>1. ASSUME NEW a, NEW b, NEW c
      PROVE  <<a, b, c>> # << >> /\ <<a, b, c>>[1] = a /\ Tail(<<a, b, c>>) = <<b, c>>
  OBVIOUS
<1>2. ASSUME NEW a, NEW b
      PROVE  <<a, b>> # << >> /\ <<a, b>>[1] = a /\ Tail(<<a, b>>) = <<b>>
  OBVIOUS
<1>3. ASSUME NEW a
      PROVE  <<a>> # << >> /\ <<a>>[1] = a /\ Tail(<<a>>) = << >>
  OBVIOUS
<1> QED
  BY <1>1, <1>2, <1>3

LEMMA Appended ==
    ASSUME NEW a, NEW b
    PROVE  Append(<<a>>, b) = <<a, b>>
<1> DEFINE S == {a, b}
<1>1. /\ <<a>> \in Seq(S) /\ Len(<<a>>) = 1 /\ <<a>>[1] = a
      /\ <<a, b>> \in Seq(S) /\ Len(<<a, b>>) = 2
      /\ <<a, b>>[1] = a /\ <<a, b>>[2] = b
  OBVIOUS
<1>2. b \in S
  OBVIOUS
<1> HIDE DEF S
<1>3. ASSUME NEW s, s \in Seq(S), Len(s) = 1
      PROVE  /\ Append(s, b) \in Seq(S) /\ Len(Append(s, b)) = 2
             /\ Append(s, b)[1] = s[1] /\ Append(s, b)[2] = b
  <2>1. /\ Append(s, b) \in Seq(S) /\ Len(Append(s, b)) = Len(s) + 1
        /\ \A i \in 1 .. Len(s) : Append(s, b)[i] = s[i]
        /\ Append(s, b)[Len(s) + 1] = b
    <3>1. \A t \in Seq(S) : \A e \in S :
             /\ Append(t, e) \in Seq(S) /\ Len(Append(t, e)) = Len(t) + 1
             /\ Append(t, e)[Len(t) + 1] = e
             /\ \A i \in 1 .. Len(t) : Append(t, e)[i] = t[i]
      BY AppendProperties
    <3> QED
      BY <1>2, <1>3, <3>1, Zenon
  <2>2. Len(s) = 1 /\ Len(s) + 1 = 2 /\ 1 \in 1 .. Len(s)
    BY <1>3
  <2> QED
    BY <2>1, <2>2, Zenon
<1>4. ASSUME NEW s, NEW t, s \in Seq(S), t \in Seq(S), Len(s) = 2, Len(t) = 2,
             s[1] = t[1], s[2] = t[2]
      PROVE  s = t
  <2>1. \A i \in 1 .. Len(s) : s[i] = t[i]
    BY <1>4
  <2> QED
    BY <1>4, <2>1, SeqEqual
<1> QED
  BY <1>1, <1>3, <1>4, Zenon

LEMMA InitsDiffer ==
    /\ InitGalaxyCABundle # InitDBCABundle /\ InitGalaxyCABundle # InitNginx
    /\ InitGalaxyCABundle # InitAbbenayConfig /\ InitDBCABundle # InitNginx
    /\ InitDBCABundle # InitAbbenayConfig /\ InitNginx # InitAbbenayConfig
<1>1. /\ InitGalaxyCABundle.to = "galaxy-ca-bundle" /\ InitDBCABundle.to = "db-ca-bundle"
      /\ InitNginx.to = "nginx-conf" /\ InitAbbenayConfig.to = "abbenay-config"
  BY DEF InitGalaxyCABundle, InitDBCABundle, InitNginx, InitAbbenayConfig, InitContainer
<1> QED
  BY <1>1

\* The CA a bundle is made with.
CAOf(e, init) ==
    IF init = InitGalaxyCABundle THEN e.GalaxyCAConfigMap ELSE e.PostgresTLSSecretName

\* A script that runs, and what it has made of its file.
LEMMA ScriptIs ==
    ASSUME IInv, script # None
    PROVE  LET ca == CAOf(From(pod), todo[1])
               seed == Seed(From(pod))[2]
               file == disk[Target]
           IN  /\ todo # << >>
               /\ \/ /\ todo[1] \in {InitGalaxyCABundle, InitDBCABundle}
                     /\ \/ script = <<Remove, Copy("system"), AppendTo(ca)>> /\ ~copying
                        \/ /\ script = <<Copy("system"), AppendTo(ca)>>
                           /\ copying => file = <<"torn">>
                        \/ /\ script = <<AppendTo(ca)>>
                           /\ file = IF copying THEN <<"system", "torn">> ELSE <<"system">>
                        \/ script = << >> /\ ~copying /\ file = <<"system", ca>>
                  \/ todo[1] = InitNginx /\ CopyUnderway(file, "stock")
                  \/ todo[1] = InitAbbenayConfig /\ SeedUnderway(file, seed)
<1>1. Underway
  BY DEF IInv, PodInv
<1>2. ASSUME NEW file, NEW ca, BundleUnderway(file, ca)
      PROVE  \/ script = <<Remove, Copy("system"), AppendTo(ca)>> /\ ~copying
             \/ /\ script = <<Copy("system"), AppendTo(ca)>>
                /\ copying => file = <<"torn">>
             \/ /\ script = <<AppendTo(ca)>>
                /\ file = IF copying THEN <<"system", "torn">> ELSE <<"system">>
             \/ script = << >> /\ ~copying /\ file = <<"system", ca>>
  BY <1>2 DEF BundleUnderway, Bundle
<1>3. CASE todo[1] = InitGalaxyCABundle
  <2>1. CAOf(From(pod), todo[1]) = From(pod).GalaxyCAConfigMap
    BY <1>3 DEF CAOf
  <2>2. todo # << >> /\ BundleUnderway(disk[Target], From(pod).GalaxyCAConfigMap)
    BY <1>1, <1>3, InitsDiffer DEF Underway
  <2> QED
    BY <1>2, <1>3, <2>1, <2>2
<1>4. CASE todo[1] = InitDBCABundle
  <2>1. CAOf(From(pod), todo[1]) = From(pod).PostgresTLSSecretName
    BY <1>4, InitsDiffer DEF CAOf
  <2>2. todo # << >> /\ BundleUnderway(disk[Target], From(pod).PostgresTLSSecretName)
    BY <1>1, <1>4, InitsDiffer DEF Underway
  <2> QED
    BY <1>2, <1>4, <2>1, <2>2
<1>5. CASE todo[1] \notin {InitGalaxyCABundle, InitDBCABundle}
  BY <1>1, <1>5 DEF Underway
<1> QED
  BY <1>3, <1>4, <1>5

-----------------------------------------------------------------------------
(* The steps.                                                               *)

\* A step of a script leaves what the other init containers have done.
LEMMA OthersStayFinished ==
    ASSUME IInv, todo # << >>, pod' = pod, todo' = todo,
           \A x \in Disks : x # Target => disk'[x] = disk[x]
    PROVE  Finished'
<1> DEFINE e == From(pod)
<1>1. Left' = Left /\ From(pod)' = e
  BY DEF Left
<1>2. todo[1] \in Left
  BY TargetIs
<1>3. /\ <<"empty", "galaxy-ca-bundle">> \in Disks /\ <<"empty", "db-ca-bundle">> \in Disks
      /\ <<"empty", "nginx-conf">> \in Disks
  BY DEF Disks, InitVolumes
<1>4. /\ \A v, w : <<"empty", v>> = <<"empty", w>> => v = w
      /\ \A v : <<"empty", v>> # Claim
  BY DEF Claim
<1>5. /\ InitGalaxyCABundle \notin Left => Target # <<"empty", "galaxy-ca-bundle">>
      /\ InitDBCABundle \notin Left => Target # <<"empty", "db-ca-bundle">>
      /\ InitNginx \notin Left => Target # <<"empty", "nginx-conf">>
  BY <1>2, <1>4, TargetIs
<1>6. Finished
  BY DEF IInv, PodInv
<1> HIDE DEF e
<1> QED
  BY <1>1, <1>3, <1>5, <1>6 DEF Finished, e

LEMMA InitHolds == Init => IInv
<1> SUFFICES ASSUME Init PROVE IInv
  OBVIOUS
<1>1. DOMAIN disk = Disks
  BY DEF Init
<1>2. todo = << >> /\ \E S : todo \in Seq(S)
  <2>1. << >> \in Seq({})
    OBVIOUS
  <2> QED
    BY <2>1 DEF Init
<1>3. Admissible(spec)
  BY PodStartAssumption DEF Init, Admissible, ValuesOf
<1>4. pod = None /\ script = None /\ ~copying
  BY DEF Init
<1> QED
  BY <1>1, <1>2, <1>3, <1>4 DEF IInv, PodInv, Planned, Underway, Finished

LEMMA EditKeeps ==
    ASSUME IInv, NEW f \in DOMAIN Choices, NEW value \in Choices[f], EditField(f, value)
    PROVE  IInv'
<1>1. spec' = [spec EXCEPT ![f] = value] /\ UNCHANGED <<podVars, disk>>
  BY DEF EditField
<1>2. Admissible(spec')
  <2>1. DOMAIN spec = DOMAIN FirstSpec /\ spec.plugins \in ValuesOf("plugins")
    BY DEF IInv, Admissible
  <2>2. DOMAIN spec' = DOMAIN FirstSpec
    BY <1>1, <2>1
  <2>3. CASE f = "plugins"
    <3>1. value \in ValuesOf("plugins")
      BY <2>3 DEF ValuesOf, When
    <3>2. spec'["plugins"] = value
      BY <1>1, <2>1, <2>3, PodStartAssumption
    <3> QED
      BY <2>2, <3>1, <3>2 DEF Admissible
  <2>4. CASE f # "plugins"
    BY <1>1, <2>1, <2>2, <2>4 DEF Admissible
  <2> QED
    BY <2>3, <2>4
<1>3. pod' = pod /\ todo' = todo /\ script' = script /\ copying' = copying /\ disk' = disk
  BY <1>1 DEF podVars
<1>4. (Planned /\ Underway /\ Finished)'
  BY <1>3 DEF IInv, PodInv, Planned, Underway, Finished, Left, BundleUnderway,
              CopyUnderway, SeedUnderway, Target
<1> QED
  BY <1>2, <1>3, <1>4 DEF IInv, PodInv

\* The plan of a pod that (re)starts.
LEMMA PlansAre ==
    ASSUME NEW e
    PROVE  /\ \E S : InitContainers(e) \in Seq(S)
           /\ e.GalaxyCAConfigMap # "" => InitGalaxyCABundle \in Elements(InitContainers(e))
           /\ e.GeneratePostgres => InitDBCABundle \in Elements(InitContainers(e))
           /\ e.UI => InitNginx \in Elements(InitContainers(e))
BY InitContainersAre DEF Inits, When

LEMMA PlanHolds ==
    ASSUME IInv, todo' = InitContainers(From(pod')), script' = None, ~copying'
    PROVE  (Planned /\ Underway /\ Finished)'
<1>1. Left' = Elements(InitContainers(From(pod')))
  BY DEF Left, Elements
<1>2. Planned'
  BY <1>1 DEF Planned, Elements
<1>3. Underway'
  BY DEF Underway
<1>4. Finished'
  BY <1>1, PlansAre DEF Finished
<1> QED
  BY <1>2, <1>3, <1>4

LEMMA CreateKeeps ==
    ASSUME IInv, CreatePod
    PROVE  IInv'
<1>1. /\ pod' = spec /\ spec' = spec /\ todo' = InitContainers(From(pod'))
      /\ script' = None /\ ~copying'
      /\ disk' = [x \in Disks |-> IF x[1] = "empty" THEN << >> ELSE disk[x]]
  BY DEF CreatePod
<1>2. (Planned /\ Underway /\ Finished)'
  BY <1>1, PlanHolds
<1>3. Admissible(spec') /\ Admissible(pod')
  BY <1>1 DEF IInv
<1>4. DOMAIN disk' = Disks
  BY <1>1
<1>5. \E S : todo' \in Seq(S)
  BY <1>1, PlansAre
<1> QED
  BY <1>2, <1>3, <1>4, <1>5 DEF IInv, PodInv

LEMMA RestartKeeps ==
    ASSUME IInv, RestartPod
    PROVE  IInv'
<1>1. /\ pod' = pod /\ pod # None /\ spec' = spec /\ todo' = InitContainers(From(pod'))
      /\ script' = None /\ ~copying' /\ disk' = disk
  BY DEF RestartPod
<1>2. (Planned /\ Underway /\ Finished)'
  BY <1>1, PlanHolds
<1>3. Admissible(spec') /\ Admissible(pod')
  BY <1>1 DEF IInv
<1>4. DOMAIN disk' = Disks
  BY <1>1 DEF IInv
<1>5. \E S : todo' \in Seq(S)
  BY <1>1, PlansAre
<1> QED
  BY <1>2, <1>3, <1>4, <1>5 DEF IInv, PodInv

LEMMA StopKeeps ==
    ASSUME IInv, StopPod
    PROVE  IInv'
<1>1. /\ pod' = None /\ todo' = << >> /\ script' = None /\ ~copying'
      /\ spec' = spec /\ disk' = disk
  BY DEF StopPod
<1>2. \E S : todo' \in Seq(S)
  <2>1. << >> \in Seq({})
    OBVIOUS
  <2> QED
    BY <1>1, <2>1
<1>3. (Planned /\ Underway /\ Finished)'
  BY <1>1 DEF Planned, Underway, Finished
<1> QED
  BY <1>1, <1>2, <1>3 DEF IInv, PodInv

LEMMA KillKeeps ==
    ASSUME IInv, KillInit
    PROVE  IInv'
<1>1. /\ script' = None /\ ~copying' /\ pod' = pod /\ todo' = todo
      /\ spec' = spec /\ disk' = disk
  BY DEF KillInit
<1>2. (Planned /\ Underway /\ Finished)'
  BY <1>1 DEF IInv, PodInv, Planned, Underway, Finished, Left
<1> QED
  BY <1>1, <1>2 DEF IInv, PodInv

LEMMA SaveKeeps ==
    ASSUME IInv, SaveSettings
    PROVE  IInv'
<1> DEFINE x == DiskOf(From(pod), "abbenay-config")
<1>1. /\ pod # None /\ todo = << >> /\ From(pod).Abbenay
      /\ disk' = [disk EXCEPT ![x] = <<"settings">>]
      /\ spec' = spec /\ UNCHANGED podVars
  BY DEF SaveSettings, Up
<1>2. pod' = pod /\ todo' = todo /\ script' = script /\ copying' = copying
  BY <1>1 DEF podVars
<1>3. x \in {Claim, <<"empty", "abbenay-config">>}
  BY <1>1, DisksAre DEF IInv
<1> HIDE DEF x
<1>4. /\ disk'[<<"empty", "galaxy-ca-bundle">>] = disk[<<"empty", "galaxy-ca-bundle">>]
      /\ disk'[<<"empty", "db-ca-bundle">>] = disk[<<"empty", "db-ca-bundle">>]
      /\ disk'[<<"empty", "nginx-conf">>] = disk[<<"empty", "nginx-conf">>]
  <2>1. /\ x # <<"empty", "galaxy-ca-bundle">> /\ x # <<"empty", "db-ca-bundle">>
        /\ x # <<"empty", "nginx-conf">>
    BY <1>3 DEF Claim
  <2>2. /\ <<"empty", "galaxy-ca-bundle">> \in Disks /\ <<"empty", "db-ca-bundle">> \in Disks
        /\ <<"empty", "nginx-conf">> \in Disks /\ DOMAIN disk = Disks
    BY DEF Disks, InitVolumes, IInv
  <2> QED
    BY <1>1, <2>1, <2>2
<1>5. script = None
  BY <1>1 DEF IInv, PodInv, Underway
<1>6. (Planned /\ Underway)'
  BY <1>1, <1>2, <1>5 DEF IInv, PodInv, Planned, Underway
<1>7. Finished'
  BY <1>2, <1>4 DEF IInv, PodInv, Finished, Left
<1>8. DOMAIN disk' = Disks
  BY <1>1 DEF IInv
<1> QED
  BY <1>1, <1>2, <1>6, <1>7, <1>8 DEF IInv, PodInv

LEMMA RestKeeps ==
    ASSUME IInv, spec' = spec, pod' = pod, todo' = todo, DOMAIN disk' = Disks,
           Underway', Finished'
    PROVE  IInv'
<1>1. Planned'
  BY DEF IInv, PodInv, Planned, Left
<1> QED
  BY <1>1 DEF IInv, PodInv

LEMMA StartKeeps ==
    ASSUME IInv, StartInit
    PROVE  IInv'
<1> DEFINE e == From(pod)
           file == disk[Target]
<1>1. /\ spec' = spec /\ pod' = pod /\ todo' = todo /\ disk' = disk
      /\ todo # << >> /\ script = None /\ copying' = copying
      /\ script' = Script(e, todo[1], file)
  BY DEF StartInit
<1>2. ~copying'
  BY <1>1 DEF IInv, PodInv, Underway
<1>3. Target' = Target /\ disk'[Target'] = file /\ From(pod)' = e
  BY <1>1 DEF Target
<1>4. todo[1] \in {InitGalaxyCABundle, InitDBCABundle, InitNginx, InitAbbenayConfig}
  BY <1>1, TargetIs
<1> HIDE DEF e, file
<1>5. \/ todo'[1] = InitGalaxyCABundle /\ script' = Bundle(file, e.GalaxyCAConfigMap)
      \/ todo'[1] = InitDBCABundle /\ script' = Bundle(file, e.PostgresTLSSecretName)
      \/ todo'[1] = InitNginx /\ script' = <<Copy("stock")>>
      \/ todo'[1] = InitAbbenayConfig /\ script' = SeedOnce(file, Seed(e)[2])
  BY <1>1, <1>4, InitsDiffer DEF Script
<1>6. Underway'
  <2>1. \A a, b, ca : Bundle(a, ca) = Bundle(b, ca)
    BY DEF Bundle
  <2>2. CASE todo'[1] = InitAbbenayConfig /\ script' = SeedOnce(file, Seed(e)[2])
    <3>1. SeedUnderway(file, Seed(e)[2])'
      BY <1>2, <1>3, <2>2 DEF SeedUnderway, SeedOnce, e, file
    <3> QED
      BY <1>1, <1>2, <1>3, <2>2, <3>1 DEF Underway, e, file
  <2>3. CASE todo'[1] = InitNginx /\ script' = <<Copy("stock")>>
    BY <1>1, <1>2, <2>3 DEF Underway, CopyUnderway
  <2>4. CASE todo'[1] = InitGalaxyCABundle /\ script' = Bundle(file, e.GalaxyCAConfigMap)
    BY <1>1, <1>2, <1>3, <2>4 DEF Underway, BundleUnderway, e, file
  <2>5. CASE todo'[1] = InitDBCABundle /\ script' = Bundle(file, e.PostgresTLSSecretName)
    BY <1>1, <1>2, <1>3, <2>5 DEF Underway, BundleUnderway, e, file
  <2> QED
    BY <1>5, <2>2, <2>3, <2>4, <2>5
<1>7. Finished'
  BY <1>1, OthersStayFinished
<1>8. DOMAIN disk' = Disks
  BY <1>1 DEF IInv
<1> QED
  BY <1>1, <1>6, <1>7, <1>8, RestKeeps

\* A step that writes to the file of the running init container.
LEMMA WriteKeeps ==
    ASSUME IInv, todo # << >>, spec' = spec, pod' = pod, todo' = todo,
           NEW content, disk' = [disk EXCEPT ![Target] = content],
           Underway'
    PROVE  IInv'
<1>1. Target \in Disks /\ DOMAIN disk = Disks
  BY TargetIs DEF IInv
<1>2. DOMAIN disk' = Disks /\ \A x \in Disks : x # Target => disk'[x] = disk[x]
  BY <1>1
<1>3. Finished'
  BY <1>2, OthersStayFinished
<1> QED
  BY <1>2, <1>3, RestKeeps

LEMMA WrittenFile ==
    ASSUME IInv, todo # << >>, pod' = pod, todo' = todo,
           NEW content, disk' = [disk EXCEPT ![Target] = content]
    PROVE  disk'[Target'] = content
<1>1. Target \in DOMAIN disk
  BY TargetIs DEF IInv
<1>2. Target' = Target
  BY DEF Target
<1> QED
  BY <1>1, <1>2

LEMMA RemoveKeeps ==
    ASSUME IInv, RemoveFile
    PROVE  IInv'
<1> DEFINE ca == CAOf(From(pod), todo[1])
<1>1. /\ script \notin {None, << >>} /\ script[1].op = "remove"
      /\ disk' = [disk EXCEPT ![Target] = << >>] /\ script' = Tail(script)
      /\ spec' = spec /\ pod' = pod /\ todo' = todo /\ copying' = copying
  BY DEF RemoveFile, Running
<1>2. /\ todo # << >> /\ todo[1] \in {InitGalaxyCABundle, InitDBCABundle}
      /\ script = <<Remove, Copy("system"), AppendTo(ca)>> /\ ~copying
  BY <1>1, ScriptIs, Lines, Tails DEF CopyUnderway, SeedUnderway
<1> HIDE DEF ca
<1>3. script' = <<Copy("system"), AppendTo(ca)>> /\ ~copying'
  BY <1>1, <1>2, Tails
<1>4. Underway'
  <2>1. CASE todo[1] = InitGalaxyCABundle
    <3>1. ca = From(pod').GalaxyCAConfigMap
      BY <1>1, <2>1 DEF ca, CAOf
    <3> QED
      BY <1>1, <1>2, <1>3, <2>1, <3>1 DEF Underway, BundleUnderway
  <2>2. CASE todo[1] = InitDBCABundle
    <3>1. ca = From(pod').PostgresTLSSecretName
      BY <1>1, <2>2, InitsDiffer DEF ca, CAOf
    <3> QED
      BY <1>1, <1>2, <1>3, <2>2, <3>1 DEF Underway, BundleUnderway
  <2> QED
    BY <1>2, <2>1, <2>2
<1> QED
  BY <1>1, <1>2, <1>4, WriteKeeps

LEMMA BeginKeeps ==
    ASSUME IInv, BeginCopy
    PROVE  IInv'
<1> DEFINE ca == CAOf(From(pod), todo[1])
           content == IF script[1].op = "append" THEN Append(disk[Target], "torn")
                      ELSE <<"torn">>
<1>1. /\ script \notin {None, << >>} /\ script[1].op \in {"copy", "append"}
      /\ ~copying /\ copying' = TRUE
      /\ script' = script /\ spec' = spec /\ pod' = pod /\ todo' = todo
  BY DEF BeginCopy, Running
<1>2. disk' = [disk EXCEPT ![Target] = content]
  <2>1. Target \in DOMAIN disk
    BY <1>1, ScriptIs, TargetIs DEF IInv
  <2> QED
    BY <2>1 DEF BeginCopy
<1>3. todo # << >>
  BY <1>1, ScriptIs
<1>4. \/ /\ todo[1] \in {InitGalaxyCABundle, InitDBCABundle}
         /\ \/ script = <<Copy("system"), AppendTo(ca)>> /\ content = <<"torn">>
            \/ script = <<AppendTo(ca)>> /\ content = <<"system", "torn">>
      \/ /\ todo[1] = InitNginx
         /\ script = <<Copy("stock")>> /\ content = <<"torn">>
      \/ /\ todo[1] = InitAbbenayConfig
         /\ script = <<Copy(Seed(From(pod))[2])>> /\ content = <<"torn">>
  <2>1. \/ /\ todo[1] \in {InitGalaxyCABundle, InitDBCABundle}
           /\ \/ script = <<Copy("system"), AppendTo(ca)>>
              \/ script = <<AppendTo(ca)>> /\ disk[Target] = <<"system">>
        \/ /\ todo[1] = InitNginx /\ script = <<Copy("stock")>>
        \/ /\ todo[1] = InitAbbenayConfig
           /\ script = <<Copy(Seed(From(pod))[2])>>
    BY <1>1, ScriptIs, Lines, Tails DEF CopyUnderway, SeedUnderway
  <2>2. CASE script = <<AppendTo(ca)>> /\ disk[Target] = <<"system">>
    <3>1. script[1].op = "append"
      BY <2>2, Lines, Tails
    <3>2. Append(<<"system">>, "torn") = <<"system", "torn">>
      BY Appended
    <3> QED
      BY <2>1, <2>2, <3>1, <3>2, Lines, Tails
  <2>3. CASE script[1].op = "copy"
    BY <2>1, <2>3, Lines, Tails
  <2> HIDE DEF ca, content
  <2> QED
    BY <1>1, <2>1, <2>2, <2>3, Lines, Tails
<1> HIDE DEF ca, content
<1>5. disk'[Target'] = content
  BY <1>1, <1>2, <1>3, WrittenFile
<1>6. script' # None /\ todo' # << >> /\ copying' /\ script' = script /\ todo' = todo
  BY <1>1, <1>3
<1>7. Underway'
  <2>1. CASE todo[1] = InitGalaxyCABundle
    <3>1. ca = From(pod').GalaxyCAConfigMap
      BY <1>1, <2>1 DEF ca, CAOf
    <3> QED
      BY <1>4, <1>5, <1>6, <2>1, <3>1, InitsDiffer DEF Underway, BundleUnderway
  <2>2. CASE todo[1] = InitDBCABundle
    <3>1. ca = From(pod').PostgresTLSSecretName
      BY <1>1, <2>2, InitsDiffer DEF ca, CAOf
    <3> QED
      BY <1>4, <1>5, <1>6, <2>2, <3>1, InitsDiffer DEF Underway, BundleUnderway
  <2>3. CASE todo[1] = InitNginx
    BY <1>4, <1>5, <1>6, <2>3, InitsDiffer DEF Underway, CopyUnderway
  <2>4. CASE todo[1] = InitAbbenayConfig
    BY <1>1, <1>4, <1>5, <1>6, <2>4, InitsDiffer DEF Underway, SeedUnderway
  <2> QED
    BY <1>4, <2>1, <2>2, <2>3, <2>4
<1> QED
  BY <1>1, <1>2, <1>3, <1>7, WriteKeeps

\* A copy that ends: its file has one entry more that is whole.
LEMMA LastReplaced ==
    /\ \A w : [<<"torn">> EXCEPT ![Len(<<"torn">>)] = w] = <<w>>
    /\ \A w : [<<"system", "torn">> EXCEPT ![Len(<<"system", "torn">>)] = w] = <<"system", w>>
<1>1. Len(<<"torn">>) = 1 /\ Len(<<"system", "torn">>) = 2
  OBVIOUS
<1>2. ASSUME NEW w PROVE [<<"torn">> EXCEPT ![1] = w] = <<w>>
  OBVIOUS
<1>3. ASSUME NEW w PROVE [<<"system", "torn">> EXCEPT ![2] = w] = <<"system", w>>
  OBVIOUS
<1> QED
  BY <1>1, <1>2, <1>3

LEMMA FinishKeeps ==
    ASSUME IInv, FinishCopy, script # None
    PROVE  IInv'
<1> DEFINE ca == CAOf(From(pod), todo[1])
           file == disk[Target]
           content == [file EXCEPT ![Len(file)] = script[1].what]
<1>1. /\ copying /\ copying' = FALSE
      /\ script' = Tail(script) /\ spec' = spec /\ pod' = pod /\ todo' = todo
  BY DEF FinishCopy
<1>2. disk' = [disk EXCEPT ![Target] = content]
  <2>1. Target \in DOMAIN disk
    BY ScriptIs, TargetIs DEF IInv
  <2> QED
    BY <2>1 DEF FinishCopy
<1>3. todo # << >>
  BY ScriptIs
<1>4. \/ /\ todo[1] \in {InitGalaxyCABundle, InitDBCABundle}
         /\ \/ script = <<Copy("system"), AppendTo(ca)>> /\ file = <<"torn">>
            \/ script = <<AppendTo(ca)>> /\ file = <<"system", "torn">>
      \/ todo[1] = InitNginx /\ script = <<Copy("stock")>> /\ file = <<"torn">>
      \/ todo[1] = InitAbbenayConfig /\ \E seed : script = <<Copy(seed)>>
  BY <1>1, ScriptIs DEF CopyUnderway, SeedUnderway
<1>5. \/ /\ todo[1] \in {InitGalaxyCABundle, InitDBCABundle}
         /\ \/ script' = <<AppendTo(ca)>> /\ content = <<"system">>
            \/ script' = << >> /\ content = <<"system", ca>>
      \/ todo[1] = InitNginx /\ script' = << >> /\ content = <<"stock">>
      \/ todo[1] = InitAbbenayConfig /\ script' = << >>
  <2>1. CASE script = <<Copy("system"), AppendTo(ca)>> /\ file = <<"torn">>
             /\ todo[1] \in {InitGalaxyCABundle, InitDBCABundle}
    <3>1. script[1].what = "system" /\ script' = <<AppendTo(ca)>>
      BY <1>1, <2>1, Lines, Tails
    <3>2. content = <<"system">>
      BY <2>1, <3>1, LastReplaced
    <3> QED
      BY <2>1, <3>1, <3>2
  <2>2. CASE script = <<AppendTo(ca)>> /\ file = <<"system", "torn">>
             /\ todo[1] \in {InitGalaxyCABundle, InitDBCABundle}
    <3>1. script[1].what = ca /\ script' = << >>
      BY <1>1, <2>2, Lines, Tails
    <3>2. content = <<"system", ca>>
      BY <2>2, <3>1, LastReplaced
    <3> QED
      BY <2>2, <3>1, <3>2
  <2>3. CASE todo[1] = InitNginx /\ script = <<Copy("stock")>> /\ file = <<"torn">>
    <3>1. script[1].what = "stock" /\ script' = << >>
      BY <1>1, <2>3, Lines, Tails
    <3>2. content = <<"stock">>
      BY <2>3, <3>1, LastReplaced
    <3> QED
      BY <2>3, <3>1, <3>2
  <2>4. ASSUME NEW seed, todo[1] = InitAbbenayConfig, script = <<Copy(seed)>>
        PROVE  script' = << >>
    BY <1>1, <2>4, Tails
  <2> HIDE DEF ca, file, content
  <2> QED
    BY <1>4, <2>1, <2>2, <2>3, <2>4
<1> HIDE DEF ca, file, content
<1>6. disk'[Target'] = content
  BY <1>1, <1>2, <1>3, WrittenFile
<1>7. todo' # << >> /\ ~copying' /\ todo' = todo
  BY <1>1, <1>3
<1>8. Underway'
  <2>1. CASE todo[1] = InitGalaxyCABundle
    <3>1. ca = From(pod').GalaxyCAConfigMap
      BY <1>1, <2>1 DEF ca, CAOf
    <3> QED
      BY <1>5, <1>6, <1>7, <2>1, <3>1, InitsDiffer DEF Underway, BundleUnderway
  <2>2. CASE todo[1] = InitDBCABundle
    <3>1. ca = From(pod').PostgresTLSSecretName
      BY <1>1, <2>2, InitsDiffer DEF ca, CAOf
    <3> QED
      BY <1>5, <1>6, <1>7, <2>2, <3>1, InitsDiffer DEF Underway, BundleUnderway
  <2>3. CASE todo[1] = InitNginx
    BY <1>5, <1>6, <1>7, <2>3, InitsDiffer DEF Underway, CopyUnderway
  <2>4. CASE todo[1] = InitAbbenayConfig
    BY <1>5, <1>7, <2>4, InitsDiffer DEF Underway, SeedUnderway
  <2> QED
    BY <1>5, <2>1, <2>2, <2>3, <2>4
<1> QED
  BY <1>1, <1>2, <1>3, <1>8, WriteKeeps

LEMMA SucceedKeeps ==
    ASSUME IInv, InitSucceeds
    PROVE  IInv'
<1>1. /\ script = << >> /\ script # None /\ script' = None /\ copying' = copying
      /\ todo' = Tail(todo) /\ spec' = spec /\ pod' = pod /\ disk' = disk
  BY PodStartAssumption DEF InitSucceeds
<1>2. /\ todo # << >> /\ ~copying
      /\ \/ /\ todo[1] \in {InitGalaxyCABundle, InitDBCABundle}
            /\ disk[Target] = <<"system", CAOf(From(pod), todo[1])>>
         \/ todo[1] = InitNginx /\ disk[Target] = <<"stock">>
         \/ todo[1] = InitAbbenayConfig
  BY <1>1, ScriptIs, Tails DEF CopyUnderway, SeedUnderway
<1>3. /\ \E S : todo' \in Seq(S)
      /\ DOMAIN todo' = 1 .. Len(todo) - 1
      /\ \A i \in 1 .. Len(todo) - 1 : todo'[i] = todo[i + 1]
  <2>1. PICK S : todo \in Seq(S)
    BY DEF IInv
  <2>2. /\ Tail(todo) \in Seq(S) /\ DOMAIN Tail(todo) = 1 .. Len(todo) - 1
        /\ \A i \in 1 .. Len(todo) - 1 : Tail(todo)[i] = todo[i + 1]
    BY <1>2, <2>1
  <2> QED
    BY <1>1, <2>2
<1>4. Left' \subseteq Left /\ Left \subseteq Left' \cup {todo[1]}
  <2>1. DOMAIN todo = 1 .. Len(todo) /\ Len(todo) \in Nat \ {0}
    BY <1>2, TargetIs
  <2>2. ASSUME NEW i \in DOMAIN todo'
        PROVE  i + 1 \in DOMAIN todo /\ todo'[i] = todo[i + 1]
    BY <1>3, <2>1
  <2>3. ASSUME NEW i \in DOMAIN todo, i # 1
        PROVE  i - 1 \in DOMAIN todo' /\ todo'[i - 1] = todo[i]
    BY <1>3, <2>1, <2>3
  <2> QED
    BY <2>2, <2>3 DEF Left
<1>5. Planned'
  BY <1>1, <1>2, <1>4 DEF IInv, PodInv, Planned
<1>6. Underway'
  BY <1>1, <1>2 DEF Underway
<1>7. Finished'
  <2> DEFINE e == From(pod)
  <2>1. e.GalaxyCAConfigMap # "" /\ InitGalaxyCABundle = todo[1] =>
           disk[<<"empty", "galaxy-ca-bundle">>] = <<"system", e.GalaxyCAConfigMap>>
    BY <1>2, TargetIs, InitsDiffer DEF CAOf
  <2>2. e.GeneratePostgres /\ InitDBCABundle = todo[1] =>
           disk[<<"empty", "db-ca-bundle">>] = <<"system", e.PostgresTLSSecretName>>
    BY <1>2, TargetIs, InitsDiffer DEF CAOf
  <2>3. e.UI /\ InitNginx = todo[1] => disk[<<"empty", "nginx-conf">>] = <<"stock">>
    BY <1>2, TargetIs, InitsDiffer
  <2>4. Finished
    BY DEF IInv, PodInv
  <2>5. From(pod)' = e /\ disk' = disk /\ pod' = pod
    BY <1>1
  <2> HIDE DEF e
  <2> QED
    BY <1>4, <2>1, <2>2, <2>3, <2>4, <2>5 DEF Finished, e
<1>8. Admissible(spec') /\ (pod' # None \/ todo' # << >> => Admissible(pod'))
  BY <1>1, <1>2 DEF IInv
<1>9. DOMAIN disk' = Disks
  BY <1>1 DEF IInv
<1> QED
  BY <1>3, <1>5, <1>6, <1>7, <1>8, <1>9 DEF IInv, PodInv

LEMMA InvHolds == Spec => []IInv
<1>1. Init => IInv
  BY InitHolds
<1>2. IInv /\ [Next]_vars => IInv'
  <2> SUFFICES ASSUME IInv, [Next]_vars PROVE IInv'
    OBVIOUS
  <2>1. CASE CreatePod
    BY <2>1, CreateKeeps
  <2>2. CASE StartInit
    BY <2>2, StartKeeps
  <2>3. CASE RemoveFile
    BY <2>3, RemoveKeeps
  <2>4. CASE BeginCopy
    BY <2>4, BeginKeeps
  <2>5. CASE FinishCopy
    <3>1. script # None
      BY <2>5 DEF FinishCopy, IInv, PodInv, Underway
    <3> QED
      BY <2>5, <3>1, FinishKeeps
  <2>6. CASE InitSucceeds
    BY <2>6, SucceedKeeps
  <2>7. CASE StopPod
    BY <2>7, StopKeeps
  <2>8. CASE KillInit
    BY <2>8, KillKeeps
  <2>9. CASE RestartPod
    BY <2>9, RestartKeeps
  <2>10. CASE SaveSettings
    BY <2>10, SaveKeeps
  <2>11. ASSUME NEW f \in DOMAIN Choices, NEW value \in Choices[f], EditField(f, value)
         PROVE  IInv'
    BY <2>11, EditKeeps
  <2>12. CASE UNCHANGED vars
    BY <2>12 DEF vars, podVars, IInv, PodInv, Planned, Underway, Finished, Left,
                 BundleUnderway, CopyUnderway, SeedUnderway, Target
  <2> QED
    BY <2>1, <2>2, <2>3, <2>4, <2>5, <2>6, <2>7, <2>8, <2>9, <2>10, <2>11, <2>12
       DEF Next, Kubelet
<1> QED
  BY <1>1, <1>2, PTL DEF Spec

\* A script that runs has done to its file what its lines say, through kills,
\* restarts and edits, and those that have succeeded have left theirs complete.
THEOREM PodInductive == Spec => []PodInv
<1>1. IInv => PodInv
  BY DEF IInv
<1> QED
  BY <1>1, InvHolds, PTL

-----------------------------------------------------------------------------
(* What follows.                                                            *)

\* The trust bundles a pod starts with are whole.
THEOREM TrustIsWhole == Spec => []TrustIsComplete
<1>1. IInv => TrustIsComplete
  <2> SUFFICES ASSUME IInv, Up PROVE TrustIsComplete
    BY DEF TrustIsComplete
  <2>1. pod # None /\ Left = {}
    <3>1. DOMAIN << >> = {}
      OBVIOUS
    <3> QED
      BY <3>1 DEF Up, Left
  <2> QED
    BY <2>1 DEF IInv, PodInv, Finished, TrustIsComplete
<1> QED
  BY <1>1, InvHolds, PTL

\* What the user saved on the claim is never written over.
THEOREM SettingsAreSpared == Spec => SettingsSurvive
<1>1. IInv /\ [Next]_vars => (disk[Claim] = <<"settings">> => disk'[Claim] = <<"settings">>)
  <2> SUFFICES ASSUME IInv, [Next]_vars, disk[Claim] = <<"settings">>
               PROVE  disk'[Claim] = <<"settings">>
    OBVIOUS
  <2>1. Claim \in Disks /\ DOMAIN disk = Disks /\ Claim[1] # "empty"
        /\ \A v : Claim # <<"empty", v>>
    BY DEF Disks, Claim, IInv
  <2>2. <<"settings">> # << >> /\ <<"settings">> # <<"torn">>
    OBVIOUS
  <2>3. CASE disk' = disk
    BY <2>3
  <2>4. CASE CreatePod
    BY <2>1, <2>4 DEF CreatePod
  <2>5. CASE RemoveFile
    <3>1. todo # << >> /\ todo[1] \in {InitGalaxyCABundle, InitDBCABundle}
      BY <2>5, ScriptIs, Lines, Tails DEF RemoveFile, Running, CopyUnderway, SeedUnderway
    <3>2. Target # Claim
      BY <2>1, <3>1, TargetIs
    <3> QED
      BY <2>1, <2>5, <3>2 DEF RemoveFile
  <2>6. CASE BeginCopy
    <3>1. script \notin {None, << >>} /\ ~copying
      BY <2>6 DEF BeginCopy, Running
    <3>2. Target # Claim
      <4>1. ASSUME todo[1] = InitAbbenayConfig PROVE disk[Target] = << >>
        BY <3>1, <4>1, ScriptIs, InitsDiffer DEF SeedUnderway
      <4>2. todo # << >>
        BY <3>1, ScriptIs
      <4> QED
        BY <2>1, <2>2, <4>1, <4>2, TargetIs
    <3> QED
      BY <2>1, <2>6, <3>2 DEF BeginCopy
  <2>7. CASE FinishCopy
    <3>1. script # None /\ copying
      BY <2>7 DEF FinishCopy, IInv, PodInv, Underway
    <3>2. Target # Claim
      <4>1. ASSUME todo[1] = InitAbbenayConfig PROVE disk[Target] = <<"torn">>
        BY <3>1, <4>1, ScriptIs, InitsDiffer DEF SeedUnderway
      <4>2. todo # << >>
        BY <3>1, ScriptIs
      <4> QED
        BY <2>1, <2>2, <4>1, <4>2, TargetIs
    <3> QED
      BY <2>1, <2>7, <3>2 DEF FinishCopy
  <2>8. CASE SaveSettings
    BY <2>1, <2>8 DEF SaveSettings
  <2> QED
    BY <2>3, <2>4, <2>5, <2>6, <2>7, <2>8 DEF Next, Kubelet, EditField, StartInit,
       InitSucceeds, StopPod, KillInit, RestartPod, vars
<1> QED
  BY <1>1, InvHolds, PTL DEF Spec, SettingsSurvive
=============================================================================
