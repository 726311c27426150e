---------------------------- MODULE PluginPorts ----------------------------
(***************************************************************************)
(* resolvePlugins, loop by loop: explicit plugin ports win, the others     *)
(* take the lowest free ports in the order of their names.  Desired has    *)
(* the same as a function; this module is the check that the loops compute *)
(* it, for every list the CRD admits.                                      *)
(***************************************************************************)
EXTENDS Desired

CONSTANT Inputs   \* the lists of plugins a spec may hold

ASSUME InputsAssumption == \A in \in Inputs : Admitted(in)

VARIABLES in, out, used,
          pending,   \* the indexes in needAssign that have had no turn yet
          next, phase

vars == <<in, out, used, pending, next, phase>>

Init ==
    /\ in \in Inputs
    /\ out = << >> /\ used = {} /\ pending = {}
    /\ next = pluginPortMin
    /\ phase = "scan"

\* The first loop, and the sort of needAssign: pending is taken by name below.
Scan ==
    /\ phase = "scan"
    /\ out' = in
    /\ used' = ExplicitPorts(in)
    /\ pending' = {i \in DOMAIN in : in[i].port = 0}
    /\ phase' = "assign"
    /\ UNCHANGED <<in, next>>

Taken == next \in used

Turn(i) == i \in pending /\ \A j \in pending : in[i].name <= in[j].name

\* (mutant: the loop steps over the port after a taken one)
ProbeTwo ==
    /\ phase = "assign" /\ pending # {}
    /\ Taken \/ next > pluginPortMax
    /\ next' = next + 2
    /\ phase' = IF next + 2 > pluginPortMax THEN "sort" ELSE phase
    /\ UNCHANGED <<in, out, used, pending>>

\* (mutant: the inner loop leaves only on a free port)
ProbeOnlyTaken ==
    /\ phase = "assign" /\ pending # {}
    /\ Taken
    /\ next' = next + 1
    /\ UNCHANGED <<in, out, used, pending, phase>>

\* The inner loop moves on; past the last port it ends both loops.
Probe ==
    /\ phase = "assign" /\ pending # {}
    /\ Taken \/ next > pluginPortMax
    /\ next' = next + 1
    /\ phase' = IF next + 1 > pluginPortMax THEN "sort" ELSE phase
    /\ UNCHANGED <<in, out, used, pending>>

\* (mutant: the free port is not looked up again after a turn)
AssignWithoutMark(i) ==
    /\ phase = "assign" /\ Turn(i)
    /\ ~Taken /\ next <= pluginPortMax
    /\ out' = [out EXCEPT ![i].port = next]
    /\ pending' = pending \ {i}
    /\ UNCHANGED <<in, used, next, phase>>

\* (mutant: the plugins are served in the order of the list)
AssignInListOrder(i) ==
    /\ phase = "assign" /\ i \in pending /\ \A j \in pending : i <= j
    /\ ~Taken /\ next <= pluginPortMax
    /\ out' = [out EXCEPT ![i].port = next]
    /\ used' = used \cup {next}
    /\ next' = next + 1
    /\ pending' = pending \ {i}
    /\ UNCHANGED <<in, phase>>

Assign(i) ==
    /\ phase = "assign" /\ Turn(i)
    /\ ~Taken /\ next <= pluginPortMax
    /\ out' = [out EXCEPT ![i].port = next]
    /\ used' = used \cup {next}
    /\ next' = next + 1
    /\ pending' = pending \ {i}
    /\ UNCHANGED <<in, phase>>

AllAssigned ==
    /\ phase = "assign" /\ pending = {}
    /\ phase' = "sort"
    /\ UNCHANGED <<in, out, used, pending, next>>

\* The last sort, by name; names differ.
SortByName ==
    /\ phase = "sort"
    /\ \E at \in [DOMAIN out -> DOMAIN out] :
          /\ \A j, k \in DOMAIN out : j < k => out[at[j]].name < out[at[k]].name
          /\ out' = [k \in DOMAIN out |-> out[at[k]]]
    /\ phase' = "done"
    /\ UNCHANGED <<in, used, pending, next>>

Next ==
    \/ Scan
    \/ Probe
    \/ \E i \in DOMAIN in : Assign(i)
    \/ AllAssigned
    \/ SortByName

Spec == Init /\ [][Next]_vars

\* resolvePlugins is a sequential function: it runs on.
FairSpec == Spec /\ WF_vars(Next)

-----------------------------------------------------------------------------

\* The plugins that have had their turn, and the free ports the search is past.
Served == {i \in DOMAIN in : in[i].port = 0} \ pending
Passed == {f \in FreePorts(in) : f < next}

\* While the loops run they have served the first plugins by name, each with the
\* port the function gives it, and passed as many free ports as they served
\* plugins; `used` is what the list asks for and what they passed.
LoopInv ==
    phase = "assign" =>
        /\ DOMAIN out = DOMAIN in
        /\ \A i \in DOMAIN in :
              out[i] = IF i \in Served THEN Resolved(in, i) ELSE in[i]
        /\ pending \subseteq {i \in DOMAIN in : in[i].port = 0}
        /\ \A i \in Served, j \in pending : in[i].name < in[j].name
        /\ Cardinality(Served) = Cardinality(Passed)
        /\ used = ExplicitPorts(in) \cup Passed

\* No two plugins of the pod listen on the same port, at any time.
PortsDistinct ==
    \A i, j \in DOMAIN out :
        (i # j /\ out[i].port = out[j].port) => out[i].port = 0

\* "stable ports": the outcome is a function of the plugins, not of their order
\* in the list, and is the one Desired uses.
MatchesReference ==
    phase = "done" => {out[i] : i \in DOMAIN out} = resolvePlugins(in)

\* "should not happen": a plugin is left without a port only when there are
\* more plugins than ports.
NobodyLeftOut ==
    (phase = "done" /\ Len(in) <= pluginPortMax - pluginPortMin + 1) =>
        \A i \in DOMAIN out : out[i].port # 0

\* The loops end, although the bound is tested after the increment only.
Terminates == <>(phase = "done")
=============================================================================
