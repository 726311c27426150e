------------------------------ MODULE PodStart ------------------------------
(***************************************************************************)
(* What the init containers leave on the volumes of the engine pod, when   *)
(* they are killed and run again, the pod is replaced, and the user edits  *)
(* the spec or, through Abbenay, the file an init container has written.   *)
(*                                                                         *)
(* Each init container writes one file.  The file is the sequence of what  *)
(* was copied into it; << >> is no file, and "torn" is a copy that was not *)
(* finished.                                                               *)
(***************************************************************************)
EXTENDS Manifests

CONSTANTS FirstSpec,
          Choices,              \* per field the user edits, the values it may take
          None,
          MaxEdits,             \* bound: edits of the spec
          MaxKills              \* bound: containers and pods killed

ValuesOf(f) == {FirstSpec[f]} \cup When(f \in DOMAIN Choices, Choices[f])

\* The volumes init containers write to.
InitVolumes == {"galaxy-ca-bundle", "db-ca-bundle", "nginx-conf", "abbenay-config"}

\* Plugins are as the CRD admits them, and none of their volumes ("plugin-...")
\* is called like one of those.
ASSUME PodStartAssumption ==
    /\ DOMAIN Choices \subseteq DOMAIN FirstSpec
    /\ MaxEdits \in Nat /\ MaxKills \in Nat
    /\ None # << >>
    /\ "plugins" \in DOMAIN FirstSpec
    /\ \A list \in ValuesOf("plugins") :
          /\ Admitted(list)
          /\ \A i \in DOMAIN list : PluginConfigVolumeName(list[i]) \notin InitVolumes

VARIABLES
    spec,      \* what the Deployment was last applied from
    pod,       \* what the pod was created from, or None
    todo,      \* its init containers that have not succeeded
    script,    \* what the first of them still has to do; None: not running
    copying,   \* it is in the middle of a copy
    disk,      \* the file on each volume an init container writes to
    edits, kills

podVars == <<pod, todo, script, copying>>
vars == <<spec, podVars, disk, edits, kills>>

Claim == <<"PersistentVolumeClaim", "-abbenay-config">>

Disks == {Claim} \cup {<<"empty", v>> : v \in InitVolumes}

DiskOf(d, volume) == (CHOOSE v \in Volumes(d) : v.name = volume).source

-----------------------------------------------------------------------------
(* The shell scripts of the init containers.  A copy starts the file anew,   *)
(* an append does not.                                                       *)

Remove       == [op |-> "remove", what |-> ""]
Copy(what)   == [op |-> "copy", what |-> what]
AppendTo(what) == [op |-> "append", what |-> what]

\* (mutants: the bundle is appended to without a fresh start; it is made with
\* cp, which leaves a read-only file that no later run can write)
BundleAppended(file, ca) == <<AppendTo("system"), AppendTo(ca)>>

BundleByCp(file, ca) ==
    IF file = << >> THEN <<Copy("system"), AppendTo(ca)>>
    ELSE <<[op |-> "refused", what |-> ""]>>

Bundle(file, ca) == <<Remove, Copy("system"), AppendTo(ca)>>

\* (mutant: the seed is copied each time)
SeedAlways(file, seed) == <<Copy(seed)>>

SeedOnce(file, seed) == IF file = << >> THEN <<Copy(seed)>> ELSE << >>

Script(d, init, file) ==
    CASE init = InitGalaxyCABundle -> Bundle(file, d.GalaxyCAConfigMap)
      [] init = InitDBCABundle     -> Bundle(file, d.PostgresTLSSecretName)
      [] init = InitNginx          -> <<Copy("stock")>>
      [] init = InitAbbenayConfig  -> SeedOnce(file, Seed(d)[2])

-----------------------------------------------------------------------------

Init ==
    /\ spec = FirstSpec
    /\ pod = None /\ todo = << >> /\ script = None /\ copying = FALSE
    /\ disk = [x \in Disks |-> << >>]
    /\ edits = 0 /\ kills = 0

EditField(f, value) ==
    /\ edits < MaxEdits /\ edits' = edits + 1
    /\ spec[f] # value
    /\ spec' = [spec EXCEPT ![f] = value]
    /\ UNCHANGED <<podVars, disk, kills>>

\* A new pod has new emptyDirs, and the claims of the former one.
CreatePod ==
    /\ pod = None
    /\ pod' = spec
    /\ todo' = InitContainers(From(spec))
    /\ script' = None /\ copying' = FALSE
    /\ disk' = [x \in Disks |-> IF x[1] = "empty" THEN << >> ELSE disk[x]]
    /\ UNCHANGED <<spec, edits, kills>>

Kill == kills < MaxKills /\ kills' = kills + 1

\* The strategy is Recreate: a pod of a former spec goes before the next comes.
StopPod ==
    /\ pod # None
    /\ \/ pod # spec /\ UNCHANGED kills
       \/ Kill
    /\ pod' = None /\ todo' = << >> /\ script' = None /\ copying' = FALSE
    /\ UNCHANGED <<spec, disk, edits>>

\* An init container dies and runs again from its first line; the volumes stay.
KillInit ==
    /\ script # None /\ Kill
    /\ script' = None /\ copying' = FALSE
    /\ UNCHANGED <<spec, pod, todo, disk, edits>>

\* The node restarts: all init containers run again, on the same volumes.
RestartPod ==
    /\ pod # None /\ Kill
    /\ todo' = InitContainers(From(pod))
    /\ script' = None /\ copying' = FALSE
    /\ UNCHANGED <<spec, pod, disk, edits>>

Target == DiskOf(From(pod), todo[1].to)

StartInit ==
    /\ todo # << >> /\ script = None
    /\ script' = Script(From(pod), todo[1], disk[Target])
    /\ UNCHANGED <<spec, pod, todo, copying, disk, edits, kills>>

Running(op) == script \notin {None, << >>} /\ script[1].op = op

RemoveFile ==
    /\ Running("remove")
    /\ disk' = [disk EXCEPT ![Target] = << >>]
    /\ script' = Tail(script)
    /\ UNCHANGED <<spec, pod, todo, copying, edits, kills>>

BeginCopy ==
    /\ Running("copy") \/ Running("append")
    /\ ~copying /\ copying' = TRUE
    /\ disk' = [disk EXCEPT ![Target] =
                    IF script[1].op = "append" THEN Append(@, "torn") ELSE <<"torn">>]
    /\ UNCHANGED <<spec, pod, todo, script, edits, kills>>

FinishCopy ==
    /\ copying /\ copying' = FALSE
    /\ disk' = [disk EXCEPT ![Target] = [@ EXCEPT ![Len(@)] = script[1].what]]
    /\ script' = Tail(script)
    /\ UNCHANGED <<spec, pod, todo, edits, kills>>

InitSucceeds ==
    /\ script = << >>
    /\ todo' = Tail(todo) /\ script' = None
    /\ UNCHANGED <<spec, pod, copying, disk, edits, kills>>

Up == pod # None /\ todo = << >>

\* Abbenay's settings interface rewrites its config.yaml.
SaveSettings ==
    /\ Up /\ From(pod).Abbenay
    /\ disk' = [disk EXCEPT ![DiskOf(From(pod), "abbenay-config")] = <<"settings">>]
    /\ UNCHANGED <<spec, podVars, edits, kills>>

Kubelet ==
    CreatePod \/ StartInit \/ RemoveFile \/ BeginCopy \/ FinishCopy \/ InitSucceeds

Next ==
    \/ \E f \in DOMAIN Choices : \E value \in Choices[f] : EditField(f, value)
    \/ Kubelet
    \/ StopPod
    \/ KillInit
    \/ RestartPod
    \/ SaveSettings

Spec == Init /\ [][Next]_vars

\* The kubelet goes on with a pod that is not up, and the Deployment controller
\* replaces one of a former spec.
FairSpec == Spec /\ WF_vars(Kubelet) /\ WF_vars(pod # spec /\ StopPod)

-----------------------------------------------------------------------------

\* When its containers start, the file SSL_CERT_FILE and PGSSLROOTCERT name holds
\* the system's roots and the one CA the spec asks for, each once and whole,
\* however often the init containers were killed before; and nginx has its
\* configuration.
TrustIsComplete ==
    Up => LET d == From(pod)
          IN  /\ d.GalaxyCAConfigMap # "" =>
                     disk[<<"empty", "galaxy-ca-bundle">>] =
                         <<"system", d.GalaxyCAConfigMap>>
              /\ d.GeneratePostgres =>
                     disk[<<"empty", "db-ca-bundle">>] =
                         <<"system", d.PostgresTLSSecretName>>
              /\ d.UI => disk[<<"empty", "nginx-conf">>] = <<"stock">>

Left == {todo[i] : i \in DOMAIN todo}

\* What a script that makes a bundle, that copies a file, or that seeds one has
\* done to its file by the time it has come to what is left of it.
BundleUnderway(file, ca) ==
    \/ script = Bundle(file, ca) /\ ~copying
    \/ /\ script = <<Copy("system"), AppendTo(ca)>>
       /\ copying => file = <<"torn">>
    \/ /\ script = <<AppendTo(ca)>>
       /\ file = IF copying THEN <<"system", "torn">> ELSE <<"system">>
    \/ script = << >> /\ ~copying /\ file = <<"system", ca>>

CopyUnderway(file, what) ==
    \/ script = <<Copy(what)>> /\ (copying => file = <<"torn">>)
    \/ script = << >> /\ ~copying /\ file = <<what>>

SeedUnderway(file, seed) ==
    \/ script = <<Copy(seed)>> /\ file = IF copying THEN <<"torn">> ELSE << >>
    \/ script = << >> /\ ~copying

\* Only init containers of the pod are left to run.
Planned ==
    todo # << >> => LET list == InitContainers(From(pod))
                    IN  Left \subseteq {list[i] : i \in DOMAIN list}

Underway ==
    LET d == From(pod)
        file == disk[Target]
    IN  /\ script = None => ~copying
        /\ script # None =>
             /\ todo # << >>
             /\ \/ todo[1] = InitGalaxyCABundle /\ BundleUnderway(file, d.GalaxyCAConfigMap)
                \/ todo[1] = InitDBCABundle /\ BundleUnderway(file, d.PostgresTLSSecretName)
                \/ todo[1] = InitNginx /\ CopyUnderway(file, "stock")
                \/ todo[1] = InitAbbenayConfig /\ SeedUnderway(file, Seed(d)[2])

Finished ==
    pod # None =>
        LET d == From(pod)
        IN  /\ d.GalaxyCAConfigMap # "" /\ InitGalaxyCABundle \notin Left =>
                   disk[<<"empty", "galaxy-ca-bundle">>] = <<"system", d.GalaxyCAConfigMap>>
            /\ d.GeneratePostgres /\ InitDBCABundle \notin Left =>
                   disk[<<"empty", "db-ca-bundle">>] = <<"system", d.PostgresTLSSecretName>>
            /\ d.UI /\ InitNginx \notin Left =>
                   disk[<<"empty", "nginx-conf">>] = <<"stock">>

\* Why TrustIsComplete and SettingsSurvive hold: a script that runs has done to
\* its file what its lines say and nothing else, on whatever an earlier run left
\* there, and an init container that has succeeded has left its file complete.
PodInv == Planned /\ Underway /\ Finished

\* "Updating the seed ConfigMap does not replace an existing configuration":
\* what the user saved on the claim outlives restarts, new pods, a change of the
\* seed, and Abbenay or its persistence being switched off and on.
SettingsSurvive ==
    [][disk[Claim] = <<"settings">> => disk'[Claim] = <<"settings">>]_vars

\* A pod of the current spec comes up: a run that was killed leaves nothing
\* behind that makes the next one fail.
PodComesUp == <>[](Up /\ pod = spec)

-----------------------------------------------------------------------------

\* "InitAbbenayConfig copies seed config.yaml once onto the config volume": what
\* Abbenay starts with is not a part of a seed.
ConfigIsWhole ==
    (Up /\ From(pod).Abbenay) =>
        disk[DiskOf(From(pod), "abbenay-config")] # <<"torn">>
=============================================================================
