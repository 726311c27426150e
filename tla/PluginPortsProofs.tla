------------------------- MODULE PluginPortsProofs -------------------------
(***************************************************************************)
(* The loops of resolvePlugins keep ports apart and compute the function   *)
(* resolvePlugins of Desired, for every list the CRD admits and every      *)
(* range of ports.                                                         *)
(***************************************************************************)
EXTENDS PluginPorts, ManifestsProofs

\* The code's set `used` covers every port given out, until the list is
\* complete; that is what keeps the next one apart from them.
PortsInv ==
    /\ in \in Inputs
    /\ next \in Nat /\ next >= pluginPortMin
    /\ phase \in {"scan", "assign", "sort", "done"}
    /\ phase = "scan" => out = << >> /\ next = pluginPortMin
    /\ phase # "scan" => out \in [DOMAIN in -> PluginSpec]
    /\ phase = "assign" => \A i \in DOMAIN out : out[i].port \in used \cup {0}
    /\ PortsDistinct

\* resolvePlugins starts with nothing assigned.
LEMMA PortsInvInit == Init => PortsInv
  <1> SUFFICES ASSUME Init PROVE PortsInv
    OBVIOUS
  <1>1. DOMAIN out = {}
    BY DEF Init
  <1>2. PortsDistinct
    BY <1>1 DEF PortsDistinct
  <1> QED
    BY <1>2, PluginPortAssumption DEF Init, PortsInv

\* The first loop takes the explicit ports, which differ, and marks them.
LEMMA ScanKeeps == PortsInv /\ Scan => PortsInv'
  <1> SUFFICES ASSUME PortsInv, Scan PROVE PortsInv'
    OBVIOUS
  <1>1. Admitted(in)
    BY InputsAssumption DEF PortsInv
  <1>2. out' = in /\ in' = in /\ next' = next /\ phase' = "assign"
        /\ used' = ExplicitPorts(in)
    BY DEF Scan
  <1>3. in \in [DOMAIN in -> PluginSpec]
    BY <1>1 DEF Admitted
  <1>4. \A i \in DOMAIN in : in[i].port \in ExplicitPorts(in) \cup {0}
    BY DEF ExplicitPorts
  <1>5. PortsDistinct'
    BY <1>1, <1>2 DEF PortsDistinct, Admitted
  <1> QED
    BY <1>2, <1>3, <1>4, <1>5 DEF PortsInv

\* A port given out was not in use, and is marked.
LEMMA AssignKeeps == ASSUME PortsInv, NEW i \in DOMAIN in, Assign(i)
                     PROVE  PortsInv'
  <1>1. /\ phase = "assign" /\ phase' = "assign" /\ in' = in
        /\ next \notin used /\ next <= pluginPortMax /\ next' = next + 1
        /\ used' = used \cup {next}
        /\ out' = [out EXCEPT ![i].port = next]
    BY DEF Assign, Taken
  <1>2. /\ out \in [DOMAIN in -> PluginSpec]
        /\ next \in Nat /\ next >= pluginPortMin
        /\ \A j \in DOMAIN out : out[j].port \in used \cup {0}
    BY <1>1 DEF PortsInv
  <1>3. next \in pluginPortMin .. pluginPortMax /\ next # 0
    BY <1>1, <1>2, PluginPortAssumption
  <1>4. /\ out' \in [DOMAIN in -> PluginSpec]
        /\ out'[i].port = next
        /\ \A j \in DOMAIN in \ {i} : out'[j] = out[j]
    <2>1. out[i] \in PluginSpec
      BY <1>2
    <2>2. [out[i] EXCEPT !.port = next] \in PluginSpec
      BY <2>1, <1>3 DEF PluginSpec
    <2>3. [out[i] EXCEPT !.port = next].port = next
      BY <2>1 DEF PluginSpec
    <2> QED
      BY <1>1, <1>2, <2>2, <2>3
  <1>5. DOMAIN out = DOMAIN in /\ DOMAIN out' = DOMAIN in
    BY <1>2, <1>4
  <1>6. \A j \in DOMAIN out' : out'[j].port \in used' \cup {0}
    BY <1>1, <1>2, <1>4, <1>5
  <1>7. PortsDistinct'
    <2> SUFFICES ASSUME NEW j \in DOMAIN in, NEW k \in DOMAIN in, j # k,
                        out'[j].port = out'[k].port
                 PROVE  out'[j].port = 0
      BY <1>5 DEF PortsDistinct
    <2>1. j # i /\ k # i
      BY <1>1, <1>2, <1>3, <1>4, <1>5
    <2> QED
      BY <2>1, <1>4, <1>5 DEF PortsInv, PortsDistinct
  <1> QED
    BY PluginPortAssumption, <1>1, <1>2, <1>4, <1>6, <1>7 DEF PortsInv

\* The last sort only moves plugins.
LEMMA SortKeeps == PortsInv /\ SortByName => PortsInv'
  <1> SUFFICES ASSUME PortsInv, SortByName PROVE PortsInv'
    OBVIOUS
  <1>1. /\ phase = "sort" /\ phase' = "done" /\ in' = in /\ next' = next
        /\ out \in [DOMAIN in -> PluginSpec]
    BY DEF SortByName, PortsInv
  <1>2. PICK at \in [DOMAIN out -> DOMAIN out] :
            /\ \A j, k \in DOMAIN out :
                  j < k => out[at[j]].name < out[at[k]].name
            /\ out' = [k \in DOMAIN out |-> out[at[k]]]
    BY DEF SortByName
  <1>3. Admitted(in)
    BY InputsAssumption DEF PortsInv
  <1>4. DOMAIN in \subseteq Nat /\ DOMAIN out = DOMAIN in
    BY <1>1, <1>3 DEF Admitted
  <1>5. out' \in [DOMAIN in -> PluginSpec]
    BY <1>1, <1>2, <1>4
  <1>6. \A j, k \in DOMAIN out : j # k => at[j] # at[k]
    <2> SUFFICES ASSUME NEW j \in DOMAIN out, NEW k \in DOMAIN out, j # k,
                        at[j] = at[k]
                 PROVE  FALSE
      OBVIOUS
    <2>1. out[at[j]].name \in Nat
      BY <1>1, <1>2 DEF PluginSpec
    <2>2. j < k \/ k < j
      BY <1>4
    <2> QED
      BY <1>2, <2>1, <2>2
  <1>7. PortsDistinct'
    BY <1>2, <1>6 DEF PortsDistinct, PortsInv
  <1> QED
    BY <1>1, <1>5, <1>7 DEF PortsInv

\* Every step of resolvePlugins keeps the ports apart.
LEMMA PortsInvStep == PortsInv /\ [Next]_vars => PortsInv'
  <1> SUFFICES ASSUME PortsInv, [Next]_vars PROVE PortsInv'
    OBVIOUS
  <1>1. CASE Scan
    BY <1>1, ScanKeeps
  <1>2. CASE Probe
    BY <1>2, PluginPortAssumption DEF Probe, PortsInv, PortsDistinct
  <1>3. ASSUME NEW i \in DOMAIN in, Assign(i) PROVE PortsInv'
    BY <1>3, AssignKeeps
  <1>4. CASE AllAssigned
    BY <1>4 DEF AllAssigned, PortsInv, PortsDistinct
  <1>5. CASE SortByName
    BY <1>5, SortKeeps
  <1>6. CASE UNCHANGED vars
    BY <1>6 DEF vars, PortsInv, PortsDistinct
  <1> QED
    BY <1>1, <1>2, <1>3, <1>4, <1>5, <1>6 DEF Next

\* No two plugins of the pod listen on the same port, at any time.
THEOREM PortsStayDistinct == Spec => []PortsDistinct
  <1>1. PortsInv => PortsDistinct
    BY DEF PortsInv
  <1> QED
    BY <1>1, PortsInvInit, PortsInvStep, PTL DEF Spec

-----------------------------------------------------------------------------
(* The loops compute the function.                                          *)

\* LoopInv, and what is left of it when the loops have ended.
ResultInv ==
    /\ PortsInv
    /\ LoopInv
    /\ phase = "sort" =>
          DOMAIN out = DOMAIN in /\ \A i \in DOMAIN in : out[i] = Resolved(in, i)
    /\ MatchesReference

LEMMA PassedIsBelow == Passed = Below(FreePorts(in), next)
BY DEF Passed, Below

\* A plugin with a port of its own keeps it.
LEMMA ExplicitStays ==
    ASSUME PortsInv, NEW i \in DOMAIN in, in[i].port # 0
    PROVE  Resolved(in, i) = in[i]
<1>1. in[i] \in PluginSpec
  BY InputsAssumption, ListIs DEF PortsInv
<1> QED
  BY <1>1 DEF Resolved, PluginSpec

LEMMA ScanComputes ==
    ASSUME ResultInv, Scan
    PROVE  ResultInv'
<1>1. /\ out' = in /\ in' = in /\ next' = next /\ phase' = "assign"
      /\ used' = ExplicitPorts(in)
      /\ pending' = {i \in DOMAIN in : in[i].port = 0}
      /\ next = pluginPortMin
  <2>1. phase = "scan"
    BY DEF Scan
  <2> QED
    BY <2>1 DEF Scan, ResultInv, PortsInv
<1>2. PortsInv'
  BY ScanKeeps DEF ResultInv
<1>3. Served' = {}
  BY <1>1 DEF Served
<1>4. Passed' = {}
  <2>1. ASSUME NEW f \in FreePorts(in), f < pluginPortMin PROVE FALSE
    BY <2>1, PluginPortAssumption DEF FreePorts
  <2> QED
    BY <1>1, <2>1 DEF Passed
<1>5. LoopInv'
  BY <1>1, <1>3, <1>4 DEF LoopInv
<1> QED
  BY <1>1, <1>2, <1>5 DEF ResultInv, MatchesReference

\* A port that is in use is nobody's free port that the search has yet to pass.
LEMMA TakenIsNotFree ==
    ASSUME PortsInv, LoopInv, phase = "assign", Taken \/ next > pluginPortMax
    PROVE  next \notin FreePorts(in)
<1>1. next \in Nat
  BY DEF PortsInv
<1>2. CASE next > pluginPortMax
  <2>1. next \notin pluginPortMin .. pluginPortMax
    BY <1>1, <1>2, PluginPortAssumption
  <2> QED
    BY <2>1, FreePortsAre
<1>3. CASE Taken
  <2>1. next \notin Passed
    BY <1>1 DEF Passed
  <2>2. next \in ExplicitPorts(in)
    BY <1>3, <2>1 DEF Taken, LoopInv
  <2> QED
    BY <2>2 DEF FreePorts
<1> QED
  BY <1>2, <1>3

\* When the search is past all free ports, whoever is left has no port to expect.
LEMMA ExhaustedIsNone ==
    ASSUME PortsInv, LoopInv, phase = "assign", Passed = FreePorts(in),
           NEW i \in pending
    PROVE  Resolved(in, i) = in[i]
<1>1. Admitted(in)
  BY InputsAssumption DEF PortsInv
<1>2. /\ i \in Portless(in) /\ i \in DOMAIN in /\ in[i].port = 0
      /\ \A k \in Served : in[k].name < in[i].name
      /\ Cardinality(Served) = Cardinality(FreePorts(in))
  BY DEF LoopInv, Portless
<1> DEFINE before == {x \in DOMAIN in : in[x].port = 0 /\ in[x].name < in[i].name}
<1>3. Served \in SUBSET before
  BY <1>2 DEF Served
<1>4. before \in SUBSET DOMAIN in
  OBVIOUS
<1>5. IsFiniteSet(before)
  <2> HIDE DEF before
  <2> QED
    BY <1>1, <1>4, ListIs, FS_Subset
<1>6. Cardinality(Served) <= Cardinality(before)
  <2> HIDE DEF before
  <2> QED
    BY <1>3, <1>5, FS_Subset
<1>7. Cardinality(before) = TurnOf(in, in[i].name)
  BY DEF TurnOf
<1>8. TurnOf(in, in[i].name) \in Nat
  BY <1>1, <1>2, TurnsAreFew
<1>9. NthFreePort(in, TurnOf(in, in[i].name)) = 0
  <2> HIDE DEF before
  <2>1. Cardinality(FreePorts(in)) \in Nat
    BY FreePortsAre, FS_CardinalityType
  <2>2. TurnOf(in, in[i].name) >= Cardinality(FreePorts(in))
    BY <1>2, <1>6, <1>7, <1>8, <2>1
  <2> QED
    BY <1>8, <2>2, NoMoreFreePorts
<1>10. in[i] \in PluginSpec
  BY <1>1, <1>2, ListIs
<1> QED
  BY <1>2, <1>9, <1>10 DEF Resolved, PluginSpec

LEMMA ProbeComputes ==
    ASSUME ResultInv, Probe
    PROVE  ResultInv'
<1>1. /\ phase = "assign" /\ next' = next + 1
      /\ Taken \/ next > pluginPortMax
      /\ in' = in /\ out' = out /\ used' = used /\ pending' = pending
      /\ phase' = IF next + 1 > pluginPortMax THEN "sort" ELSE "assign"
  BY DEF Probe
<1>2. PortsInv /\ LoopInv /\ next \in Nat
  BY DEF ResultInv, PortsInv
<1>3. PortsInv'
  BY <1>2, PortsInvStep DEF Next
<1>4. next \notin FreePorts(in)
  BY <1>1, <1>2, TakenIsNotFree
<1>5. \A f \in FreePorts(in) : f < next + 1 <=> f < next
  <2> SUFFICES ASSUME NEW f \in FreePorts(in) PROVE f < next + 1 <=> f < next
    OBVIOUS
  <2>1. f \in Nat /\ f # next
    BY <1>4, FreePortsAre
  <2> QED
    BY <1>2, <2>1
<1>6. Passed' = Passed /\ Served' = Served
  BY <1>1, <1>5 DEF Passed, Served
<1>7. LoopInv'
  BY <1>1, <1>2, <1>6 DEF LoopInv
<1>8. ASSUME phase' = "sort"
      PROVE  DOMAIN out = DOMAIN in /\ \A i \in DOMAIN in : out[i] = Resolved(in, i)
  <2>1. next + 1 > pluginPortMax
    BY <1>1, <1>8
  <2>2. Passed = FreePorts(in)
    <3>1. ASSUME NEW f \in FreePorts(in) PROVE f < next
      <4>1. f \in Nat /\ f \in pluginPortMin .. pluginPortMax
        BY FreePortsAre
      <4>2. f < next + 1
        BY <1>2, <2>1, <4>1, PluginPortAssumption
      <4> QED
        BY <1>5, <4>2
    <3> QED
      BY <3>1 DEF Passed
  <2>3. ASSUME NEW i \in DOMAIN in PROVE out[i] = Resolved(in, i)
    <3>1. out[i] = IF i \in Served THEN Resolved(in, i) ELSE in[i]
      BY <1>1, <1>2 DEF LoopInv
    <3>2. CASE i \in Served
      BY <3>1, <3>2
    <3>3. CASE i \in pending
      BY <1>1, <1>2, <2>2, <3>1, <3>3, ExhaustedIsNone DEF Served
    <3>4. CASE in[i].port # 0
      BY <1>2, <3>1, <3>4, ExplicitStays DEF Served
    <3> QED
      BY <3>2, <3>3, <3>4 DEF Served
  <2> QED
    BY <1>1, <1>2, <2>3 DEF LoopInv
<1> QED
  BY <1>1, <1>3, <1>7, <1>8 DEF ResultInv, MatchesReference

\* The plugin whose turn it is gets the port the function gives it.
LEMMA TurnIsNth ==
    ASSUME PortsInv, LoopInv, NEW i \in DOMAIN in, Assign(i)
    PROVE  /\ next \in FreePorts(in) /\ i \in Portless(in) /\ i \notin Served
           /\ Resolved(in, i) = [in[i] EXCEPT !.port = next]
<1>1. /\ phase = "assign" /\ i \in pending /\ next \notin used /\ next <= pluginPortMax
      /\ \A j \in pending : in[i].name <= in[j].name
  BY DEF Assign, Taken, Turn
<1>2. Admitted(in) /\ next \in Nat /\ next >= pluginPortMin
  BY InputsAssumption DEF PortsInv
<1>3. next \in FreePorts(in)
  <2>1. next \in pluginPortMin .. pluginPortMax
    BY <1>1, <1>2, PluginPortAssumption
  <2>2. next \notin ExplicitPorts(in)
    BY <1>1 DEF LoopInv
  <2> QED
    BY <2>1, <2>2 DEF FreePorts
<1>4. i \in DOMAIN in /\ in[i].port = 0 /\ pending \subseteq DOMAIN in
  BY <1>1 DEF LoopInv
<1> DEFINE before == {x \in DOMAIN in : in[x].port = 0 /\ in[x].name < in[i].name}
<1>5. before = Served
  <2>0. \A x \in DOMAIN in : in[x].name \in Nat
    BY <1>2, ListIs DEF PluginSpec
  <2>1. ASSUME NEW x \in DOMAIN in, x \in pending
        PROVE  ~(in[x].name < in[i].name)
    BY <1>1, <1>4, <2>0, <2>1
  <2>2. ASSUME NEW x \in Served PROVE in[x].name < in[i].name
    BY <1>1 DEF LoopInv
  <2> QED
    BY <2>1, <2>2 DEF Served
<1>6. TurnOf(in, in[i].name) = Cardinality(Below(FreePorts(in), next))
  BY <1>1, <1>5, PassedIsBelow DEF TurnOf, LoopInv
<1>7. NthFreePort(in, TurnOf(in, in[i].name)) = next
  BY <1>3, <1>6, NthFreePortIs
<1>8. in[i] \in PluginSpec
  BY <1>2, <1>4, ListIs
<1>9. Resolved(in, i) = [in[i] EXCEPT !.port = next]
  BY <1>4, <1>7, <1>8 DEF Resolved, PluginSpec
<1> QED
  BY <1>1, <1>3, <1>4, <1>9 DEF Served, Portless

LEMMA AssignComputes ==
    ASSUME ResultInv, NEW i \in DOMAIN in, Assign(i)
    PROVE  ResultInv'
<1>1. /\ phase = "assign" /\ phase' = "assign" /\ in' = in
      /\ next' = next + 1
      /\ used' = used \cup {next}
      /\ pending' = pending \ {i} /\ i \in pending
      /\ out' = [out EXCEPT ![i].port = next]
      /\ \A j \in pending : in[i].name <= in[j].name
  BY DEF Assign, Turn
<1>2. PortsInv /\ LoopInv /\ Admitted(in) /\ next \in Nat
  BY InputsAssumption DEF ResultInv, PortsInv
<1>3. PortsInv'
  BY <1>2, AssignKeeps
<1>4. /\ next \in FreePorts(in) /\ i \in Portless(in) /\ i \notin Served
      /\ Resolved(in, i) = [in[i] EXCEPT !.port = next]
  BY <1>2, TurnIsNth
<1>5. Served' = Served \cup {i}
  BY <1>1, <1>4 DEF Served, Portless
<1>6. Passed' = Passed \cup {next} /\ next \notin Passed
  <2>1. ASSUME NEW f \in FreePorts(in) PROVE f < next + 1 <=> f < next \/ f = next
    <3>1. f \in Nat
      BY FreePortsAre
    <3> QED
      BY <1>2, <3>1
  <2>2. ~(next < next)
    BY <1>2
  <2> QED
    BY <1>1, <1>4, <2>1, <2>2 DEF Passed
<1>7. Cardinality(Served') = Cardinality(Passed')
  <2>1. IsFiniteSet(Passed)
    BY PassedIsBelow, FreePortsAre, BelowIsFinite
  <2>2. IsFiniteSet(Served)
    <3>1. Served \in SUBSET DOMAIN in
      BY DEF Served
    <3> QED
      BY <1>2, <3>1, ListIs, FS_Subset
  <2>3. Cardinality(Served \cup {i}) = Cardinality(Served) + 1
    BY <1>4, <2>2, FS_AddElement
  <2>4. Cardinality(Passed \cup {next}) = Cardinality(Passed) + 1
    BY <1>6, <2>1, FS_AddElement
  <2>5. Cardinality(Served) = Cardinality(Passed)
    BY <1>1, <1>2 DEF LoopInv
  <2> QED
    BY <1>5, <1>6, <2>3, <2>4, <2>5
<1>8. DOMAIN out = DOMAIN in /\ out[i] = in[i]
      /\ \A j \in DOMAIN in : out[j] = IF j \in Served THEN Resolved(in, j) ELSE in[j]
  BY <1>1, <1>2, <1>4 DEF LoopInv
<1>9. DOMAIN out' = DOMAIN in
      /\ \A j \in DOMAIN in : out'[j] = IF j \in Served' THEN Resolved(in, j) ELSE in[j]
  <2>1. DOMAIN out' = DOMAIN out /\ out'[i] = [out[i] EXCEPT !.port = next]
        /\ \A j \in DOMAIN in \ {i} : out'[j] = out[j]
    <3>1. out \in [DOMAIN in -> PluginSpec]
      BY <1>1, <1>2 DEF PortsInv
    <3> QED
      BY <1>1, <3>1
  <2> QED
    BY <1>4, <1>5, <1>8, <2>1
<1>10. ASSUME NEW k \in Served', NEW j \in pending' PROVE in[k].name < in[j].name
  <2>1. j \in pending /\ j # i /\ j \in DOMAIN in
    BY <1>1, <1>2 DEF LoopInv
  <2>2. CASE k \in Served
    BY <1>1, <1>2, <2>1, <2>2 DEF LoopInv
  <2>3. CASE k = i
    <3>1. in[i].name # in[j].name
      BY <1>2, <2>1 DEF Admitted
    <3>2. in[i].name \in Nat /\ in[j].name \in Nat
      BY <1>2, <2>1, ListIs DEF PluginSpec
    <3>3. in[i].name <= in[j].name
      BY <1>1, <2>1
    <3> QED
      BY <2>3, <3>1, <3>2, <3>3
  <2> QED
    BY <1>5, <2>2, <2>3
<1>11. used' = ExplicitPorts(in) \cup Passed'
  BY <1>1, <1>2, <1>6 DEF LoopInv
<1>12. pending' \subseteq {k \in DOMAIN in : in[k].port = 0}
  BY <1>1, <1>2 DEF LoopInv
<1>13. LoopInv'
  BY <1>1, <1>7, <1>9, <1>10, <1>11, <1>12 DEF LoopInv
<1> QED
  BY <1>1, <1>3, <1>13 DEF ResultInv, MatchesReference

LEMMA AllAssignedComputes ==
    ASSUME ResultInv, AllAssigned
    PROVE  ResultInv'
<1>1. /\ phase = "assign" /\ pending = {} /\ phase' = "sort"
      /\ UNCHANGED <<in, out, used, pending, next>>
  BY DEF AllAssigned
<1>2. PortsInv /\ LoopInv /\ PortsInv'
  BY PortsInvStep DEF ResultInv, Next
<1>3. ASSUME NEW i \in DOMAIN in PROVE out[i] = Resolved(in, i)
  <2>1. out[i] = IF i \in Served THEN Resolved(in, i) ELSE in[i]
    BY <1>1, <1>2 DEF LoopInv
  <2>2. in[i].port # 0 => Resolved(in, i) = in[i]
    BY <1>2, ExplicitStays
  <2> QED
    BY <1>1, <2>1, <2>2 DEF Served
<1>4. DOMAIN out = DOMAIN in
  BY <1>1, <1>2 DEF LoopInv
<1> QED
  BY <1>1, <1>2, <1>3, <1>4 DEF ResultInv, LoopInv, MatchesReference

\* The last sort takes every plugin once: the names differ.
LEMMA SortComputes ==
    ASSUME ResultInv, SortByName
    PROVE  ResultInv'
<1>1. /\ phase = "sort" /\ phase' = "done" /\ in' = in
      /\ out \in [DOMAIN in -> PluginSpec]
      /\ DOMAIN out = DOMAIN in /\ \A i \in DOMAIN in : out[i] = Resolved(in, i)
  BY DEF SortByName, ResultInv, PortsInv
<1>2. PICK at \in [DOMAIN out -> DOMAIN out] :
          /\ \A j, k \in DOMAIN out : j < k => out[at[j]].name < out[at[k]].name
          /\ out' = [k \in DOMAIN out |-> out[at[k]]]
  BY DEF SortByName
<1>3. Admitted(in)
  BY InputsAssumption DEF ResultInv, PortsInv
<1>4. DOMAIN in \subseteq Nat /\ IsFiniteSet(DOMAIN out)
  BY <1>1, <1>3, ListIs
<1>5. at \in Injection(DOMAIN out, DOMAIN out)
  <2> SUFFICES ASSUME NEW j \in DOMAIN out, NEW k \in DOMAIN out, j # k,
                      at[j] = at[k]
               PROVE  FALSE
    BY DEF Injection, IsInjective
  <2>1. out[at[j]].name \in Nat
    BY <1>1, <1>2 DEF PluginSpec
  <2>2. j < k \/ k < j
    BY <1>1, <1>4
  <2> QED
    BY <1>2, <2>1, <2>2
<1>6. at \in Surjection(DOMAIN out, DOMAIN out)
  BY <1>4, <1>5, FS_Injection
<1>7. \A i \in DOMAIN out : \E k \in DOMAIN out : at[k] = i
  BY <1>6 DEF Surjection
<1>8. {out'[k] : k \in DOMAIN out'} = {out[i] : i \in DOMAIN out}
  BY <1>2, <1>7
<1>9. {out[i] : i \in DOMAIN out} = resolvePlugins(in)
  BY <1>1 DEF resolvePlugins
<1>10. PortsInv'
  BY PortsInvStep DEF ResultInv, Next
<1> QED
  BY <1>1, <1>8, <1>9, <1>10 DEF ResultInv, LoopInv, MatchesReference

LEMMA ResultStep == ResultInv /\ [Next]_vars => ResultInv'
<1> SUFFICES ASSUME ResultInv, [Next]_vars PROVE ResultInv'
  OBVIOUS
<1>1. CASE UNCHANGED vars
  BY <1>1 DEF vars, ResultInv, PortsInv, PortsDistinct, LoopInv, Served, Passed,
              MatchesReference
<1> QED
  BY <1>1, ScanComputes, ProbeComputes, AssignComputes, AllAssignedComputes,
     SortComputes DEF Next

\* Half way through the loops, the plugins served are the first by name, the free
\* ports passed are as many, and each has the port the function gives it.
THEOREM LoopInductive == Spec => []LoopInv
<1>1. Init => ResultInv
  BY PortsInvInit DEF Init, ResultInv, LoopInv, MatchesReference
<1>2. ResultInv => LoopInv
  BY DEF ResultInv
<1> QED
  BY <1>1, <1>2, ResultStep, PTL DEF Spec

\* "stable ports": what the loops end with is the function of the list that
\* every other module uses, in which the order of the list plays no part.
THEOREM LoopsMatchReference == Spec => []MatchesReference
<1>1. Init => ResultInv
  BY PortsInvInit DEF Init, ResultInv, LoopInv, MatchesReference
<1>2. ResultInv => MatchesReference
  BY DEF ResultInv
<1> QED
  BY <1>1, <1>2, ResultStep, PTL DEF Spec

\* "should not happen": nobody is left without a port while the list is not
\* longer than the range, whatever ports it asks for.
THEOREM EveryoneIsPlaced == Spec => []NobodyLeftOut
<1>1. Init => ResultInv
  BY PortsInvInit DEF Init, ResultInv, LoopInv, MatchesReference
<1>2. ResultInv => NobodyLeftOut
  <2> SUFFICES ASSUME ResultInv, phase = "done",
                      Len(in) <= pluginPortMax - pluginPortMin + 1,
                      NEW i \in DOMAIN out
               PROVE  out[i].port # 0
    BY DEF NobodyLeftOut
  <2>1. Admitted(in)
    BY InputsAssumption DEF ResultInv, PortsInv
  <2>2. PICK k \in DOMAIN in : out[i] = Resolved(in, k)
    BY DEF ResultInv, MatchesReference, resolvePlugins
  <2>3. out[i].port \in pluginPortMin .. pluginPortMax
    BY <2>1, <2>2, PluginsArePlaced
  <2> QED
    BY <2>3, PluginPortAssumption
<1> QED
  BY <1>1, <1>2, ResultStep, PTL DEF Spec
=============================================================================
