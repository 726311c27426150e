-------------------------- MODULE ManifestsProofs ---------------------------
(***************************************************************************)
(* Facts about the ports of plugins, the steps of ensureAll, their order,  *)
(* and the objects built, for every desired state.                         *)
(***************************************************************************)
EXTENDS Manifests, FiniteSetTheorems, TLAPS

-----------------------------------------------------------------------------
(* The free ports, counted from below.                                      *)

Below(T, q) == {x \in T : x < q}
Above(T, q) == {x \in T : x > q}

LEMMA BelowNested ==
    ASSUME NEW T, T \subseteq Nat, NEW q \in T, NEW r \in T, r < q
    PROVE  Below(T, r) \subseteq Below(T, q) /\ r \in Below(T, q) /\ r \notin Below(T, r)
<1>1. \A y \in T : y \in Nat
  OBVIOUS
<1>2. ASSUME NEW y \in Below(T, r) PROVE y \in Below(T, q)
  <2>1. y \in T /\ y < r
    BY DEF Below
  <2>2. y < q
    BY <1>1, <2>1
  <2> QED
    BY <2>1, <2>2 DEF Below
<1>3. r \in Below(T, q) /\ r \notin Below(T, r)
  BY <1>1 DEF Below
<1> QED
  BY <1>2, <1>3

LEMMA AboveNested ==
    ASSUME NEW T, T \subseteq Nat, NEW q \in T, NEW r \in T, r > q
    PROVE  Above(T, r) \subseteq Above(T, q) /\ r \in Above(T, q) /\ r \notin Above(T, r)
<1>1. \A y \in T : y \in Nat
  OBVIOUS
<1>2. ASSUME NEW y \in Above(T, r) PROVE y \in Above(T, q)
  <2>1. y \in T /\ y > r
    BY DEF Above
  <2>2. y > q
    BY <1>1, <2>1
  <2> QED
    BY <2>1, <2>2 DEF Above
<1>3. r \in Above(T, q) /\ r \notin Above(T, r)
  BY <1>1 DEF Above
<1> QED
  BY <1>2, <1>3

\* A finite set of ports has a lowest and a highest: its parts are well-founded.
LEMMA LowestIs ==
    ASSUME NEW T, IsFiniteSet(T), T \subseteq Nat, T # {}
    PROVE  \E q \in T : \A x \in T : q <= x
<1> DEFINE parts == {Below(T, q) : q \in T}
<1>1. parts \subseteq FiniteSubsetsOf(T) /\ parts # {}
  <2>1. \A q \in T : Below(T, q) \in SUBSET T
    BY DEF Below
  <2> QED
    BY <2>1, FS_FiniteSubsetsOfFinite
<1>2. \E B \in parts : \A C \in parts : ~(<<C, B>> \in StrictSubsetOrdering(T))
  <2> HIDE DEF parts
  <2> QED
    BY <1>1, WFMin, FS_StrictSubsetOrderingWellFounded
<1>3. PICK q \in T : \A x \in T : ~(<<Below(T, x), Below(T, q)>> \in StrictSubsetOrdering(T))
  BY <1>2
<1>4. ASSUME NEW x \in T, x < q PROVE FALSE
  <2>1. Below(T, x) \subseteq Below(T, q) /\ x \in Below(T, q) /\ x \notin Below(T, x)
    BY <1>4, BelowNested
  <2>2. Below(T, x) \subseteq T /\ Below(T, q) \subseteq T
    BY DEF Below
  <2> QED
    BY <1>3, <2>1, <2>2 DEF StrictSubsetOrdering
<1> QED
  BY <1>4

LEMMA HighestIs ==
    ASSUME NEW T, IsFiniteSet(T), T \subseteq Nat, T # {}
    PROVE  \E q \in T : \A x \in T : x <= q
<1> DEFINE parts == {Above(T, q) : q \in T}
<1>1. parts \subseteq FiniteSubsetsOf(T) /\ parts # {}
  <2>1. \A q \in T : Above(T, q) \in SUBSET T
    BY DEF Above
  <2> QED
    BY <2>1, FS_FiniteSubsetsOfFinite
<1>2. \E B \in parts : \A C \in parts : ~(<<C, B>> \in StrictSubsetOrdering(T))
  <2> HIDE DEF parts
  <2> QED
    BY <1>1, WFMin, FS_StrictSubsetOrderingWellFounded
<1>3. PICK q \in T : \A x \in T : ~(<<Above(T, x), Above(T, q)>> \in StrictSubsetOrdering(T))
  BY <1>2
<1>4. ASSUME NEW x \in T, x > q PROVE FALSE
  <2>1. Above(T, x) \subseteq Above(T, q) /\ x \in Above(T, q) /\ x \notin Above(T, x)
    BY <1>4, AboveNested
  <2>2. Above(T, x) \subseteq T /\ Above(T, q) \subseteq T
    BY DEF Above
  <2> QED
    BY <1>3, <2>1, <2>2 DEF StrictSubsetOrdering
<1> QED
  BY <1>4

LEMMA BelowIsFinite ==
    ASSUME NEW T, IsFiniteSet(T), NEW q
    PROVE  /\ IsFiniteSet(Below(T, q)) /\ Below(T, q) \subseteq T
           /\ Cardinality(Below(T, q)) \in Nat
           /\ Cardinality(Below(T, q)) <= Cardinality(T)
<1>1. Below(T, q) \in SUBSET T
  BY DEF Below
<1> QED
  BY <1>1, FS_Subset, FS_CardinalityType

\* Of two ports the lower one has fewer below it.
LEMMA FewerBelow ==
    ASSUME NEW T, IsFiniteSet(T), T \subseteq Nat, NEW q \in T, NEW r \in T, q < r
    PROVE  Cardinality(Below(T, q)) < Cardinality(Below(T, r))
<1>1. Below(T, q) \in SUBSET Below(T, r) /\ q \in Below(T, r) /\ q \notin Below(T, q)
  BY BelowNested
<1>2. IsFiniteSet(Below(T, r)) /\ Cardinality(Below(T, q)) \in Nat
      /\ Cardinality(Below(T, r)) \in Nat
  BY BelowIsFinite
<1>3. /\ Cardinality(Below(T, q)) <= Cardinality(Below(T, r))
      /\ Cardinality(Below(T, r)) = Cardinality(Below(T, q)) => Below(T, r) = Below(T, q)
  BY <1>1, <1>2, FS_Subset
<1> QED
  BY <1>1, <1>2, <1>3

\* The highest port of a set has all the others below it.
LEMMA AllButOneBelow ==
    ASSUME NEW T, IsFiniteSet(T), T \subseteq Nat, NEW q \in T, \A x \in T : x <= q
    PROVE  Cardinality(Below(T, q)) = Cardinality(T) - 1
<1>1. Below(T, q) = T \ {q}
  <2>1. ASSUME NEW x \in T PROVE x \in Below(T, q) <=> x # q
    <3>1. x \in Nat /\ q \in Nat /\ x <= q
      OBVIOUS
    <3> QED
      BY <3>1 DEF Below
  <2> QED
    BY <2>1 DEF Below
<1> QED
  BY <1>1, FS_RemoveElement

\* For every number of ports there is a port with that many below it.
LEMMA RankIsTaken ==
    ASSUME NEW T, IsFiniteSet(T), T \subseteq Nat,
           NEW n \in Nat, n < Cardinality(T)
    PROVE  \E q \in T : Cardinality(Below(T, q)) = n
<1> DEFINE R == {q \in T : Cardinality(Below(T, q)) >= n}
<1>1. T # {} /\ Cardinality(T) \in Nat
  BY FS_EmptySet, FS_CardinalityType
<1>2. PICK top \in T : \A x \in T : x <= top
  BY <1>1, HighestIs
<1>3. top \in R
  <2>1. Cardinality(Below(T, top)) = Cardinality(T) - 1
    BY <1>2, AllButOneBelow
  <2> QED
    BY <1>1, <2>1
<1>4. IsFiniteSet(R) /\ R \subseteq Nat
  <2>1. R \in SUBSET T
    OBVIOUS
  <2> QED
    BY <2>1, FS_Subset
<1>5. PICK q \in R : \A x \in R : q <= x
  <2> HIDE DEF R
  <2> QED
    BY <1>3, <1>4, LowestIs
<1>6. /\ IsFiniteSet(Below(T, q)) /\ Below(T, q) \subseteq T
      /\ Cardinality(Below(T, q)) \in Nat
  BY BelowIsFinite
<1>7. ASSUME Cardinality(Below(T, q)) > n PROVE FALSE
  <2>1. Below(T, q) # {}
    BY <1>6, <1>7, FS_EmptySet
  <2>2. PICK r \in Below(T, q) : \A x \in Below(T, q) : x <= r
    BY <1>6, <2>1, HighestIs
  <2>3. r \in T /\ r < q /\ Below(Below(T, q), r) = Below(T, r)
    <3>1. r \in T /\ r < q
      BY DEF Below
    <3>2. Below(T, r) \subseteq Below(T, q)
      BY <3>1, BelowNested
    <3> QED
      BY <3>1, <3>2 DEF Below
  <2>4. Cardinality(Below(T, r)) = Cardinality(Below(T, q)) - 1
    BY <1>6, <2>2, <2>3, AllButOneBelow
  <2>5. r \in R
    BY <1>6, <1>7, <2>3, <2>4
  <2> QED
    BY <1>5, <2>3, <2>5
<1> QED
  BY <1>5, <1>6, <1>7

LEMMA FreePortsAre ==
    ASSUME NEW list
    PROVE  /\ FreePorts(list) \subseteq Nat \ {0} /\ IsFiniteSet(FreePorts(list))
           /\ FreePorts(list) \subseteq pluginPortMin .. pluginPortMax
<1>1. FreePorts(list) \in SUBSET (pluginPortMin .. pluginPortMax)
  BY DEF FreePorts
<1>2. IsFiniteSet(pluginPortMin .. pluginPortMax)
  BY PluginPortAssumption, FS_Interval
<1>3. \A q \in pluginPortMin .. pluginPortMax : q \in Nat \ {0}
  BY PluginPortAssumption
<1> QED
  BY <1>1, <1>2, <1>3, FS_Subset

\* A port with n free ports below it is the one NthFreePort finds.
LEMMA NthFreePortIs ==
    ASSUME NEW list, NEW q \in FreePorts(list)
    PROVE  NthFreePort(list, Cardinality(Below(FreePorts(list), q))) = q
<1> DEFINE T == FreePorts(list)
           n == Cardinality(Below(T, q))
           hits == {x \in T : Cardinality({f \in T : f < x}) = n}
<1>1. \A x \in T : {f \in T : f < x} = Below(T, x)
  BY DEF Below
<1>2. ASSUME NEW x \in hits PROVE x = q
  <2>1. T \subseteq Nat /\ IsFiniteSet(T) /\ x \in T
    BY FreePortsAre
  <2>2. Cardinality(Below(T, x)) = Cardinality(Below(T, q))
    BY <1>1, <1>2
  <2>3. Cardinality(Below(T, x)) \in Nat /\ Cardinality(Below(T, q)) \in Nat
    BY <2>1, BelowIsFinite
  <2>4. ~(x < q)
    <3>1. x < q => Cardinality(Below(T, x)) < Cardinality(Below(T, q))
      BY <2>1, FewerBelow
    <3> QED
      BY <2>2, <2>3, <3>1
  <2>5. ~(q < x)
    <3>1. q < x => Cardinality(Below(T, q)) < Cardinality(Below(T, x))
      BY <2>1, FewerBelow
    <3> QED
      BY <2>2, <2>3, <3>1
  <2> QED
    BY <2>1, <2>4, <2>5
<1>3. hits = {q}
  BY <1>1, <1>2
<1> QED
  BY <1>3 DEF NthFreePort

\* There is one for every n less than the number of free ports, and none else.
LEMMA NthFreePortIsFree ==
    ASSUME NEW list, NEW n \in Nat, n < Cardinality(FreePorts(list))
    PROVE  /\ NthFreePort(list, n) \in FreePorts(list)
           /\ Cardinality(Below(FreePorts(list), NthFreePort(list, n))) = n
<1>1. PICK q \in FreePorts(list) : Cardinality(Below(FreePorts(list), q)) = n
  BY FreePortsAre, RankIsTaken
<1> QED
  BY <1>1, NthFreePortIs

LEMMA NoMoreFreePorts ==
    ASSUME NEW list, NEW n \in Nat, n >= Cardinality(FreePorts(list))
    PROVE  NthFreePort(list, n) = 0
<1> DEFINE T == FreePorts(list)
<1>1. ASSUME NEW q \in T, Cardinality({f \in T : f < q}) = n PROVE FALSE
  <2>1. Below(T, q) = {f \in T : f < q} /\ q \notin Below(T, q)
    <3>1. q \in Nat
      BY FreePortsAre
    <3> QED
      BY <3>1 DEF Below
  <2>2. Below(T, q) \in SUBSET T /\ Below(T, q) # T
    BY <2>1
  <2>3. IsFiniteSet(T) /\ Cardinality(T) \in Nat
    BY FreePortsAre, FS_CardinalityType
  <2>4. Cardinality(Below(T, q)) <= Cardinality(T) /\ Cardinality(Below(T, q)) # Cardinality(T)
    BY <2>2, <2>3, FS_Subset
  <2> QED
    BY <1>1, <2>1, <2>3, <2>4
<1>2. {q \in T : Cardinality({f \in T : f < q}) = n} = {}
  BY <1>1
<1> QED
  BY <1>2 DEF NthFreePort

-----------------------------------------------------------------------------
(* The plugins of a list the CRD admits.                                    *)

Portless(list) == {i \in DOMAIN list : list[i].port = 0}

LEMMA ListIs ==
    ASSUME NEW list, Admitted(list)
    PROVE  /\ DOMAIN list \subseteq Nat /\ IsFiniteSet(DOMAIN list)
           /\ Cardinality(DOMAIN list) = Len(list) /\ Len(list) \in Nat
           /\ list \in [DOMAIN list -> PluginSpec]
           /\ IsFiniteSet(Portless(list)) /\ Cardinality(Portless(list)) \in Nat
<1>1. list \in Seq(PluginSpec)
  BY DEF Admitted
<1>2. /\ DOMAIN list = 1 .. Len(list) /\ Len(list) \in Nat
      /\ list \in [DOMAIN list -> PluginSpec]
  BY <1>1
<1>3. IsFiniteSet(1 .. Len(list)) /\ Cardinality(1 .. Len(list)) = Len(list)
  <2>1. /\ IsFiniteSet(1 .. Len(list))
        /\ Cardinality(1 .. Len(list)) = IF 1 > Len(list) THEN 0 ELSE Len(list) - 1 + 1
    <3>1. 1 \in Int /\ Len(list) \in Int
      BY <1>2
    <3> QED
      BY <3>1, FS_Interval, Zenon
  <2> QED
    BY <1>2, <2>1
<1>4. Portless(list) \in SUBSET DOMAIN list
  BY DEF Portless
<1> QED
  BY <1>2, <1>3, <1>4, FS_Subset, FS_CardinalityType

\* Of two plugins without a port, the later one by name has its turn later.
LEMMA TurnsInOrder ==
    ASSUME NEW list, Admitted(list),
           NEW i \in Portless(list), NEW j \in Portless(list),
           list[i].name < list[j].name
    PROVE  TurnOf(list, list[i].name) < TurnOf(list, list[j].name)
<1> DEFINE before(k) == {x \in DOMAIN list : list[x].port = 0 /\ list[x].name < list[k].name}
<1>1. \A k \in DOMAIN list : list[k].name \in Nat
  BY ListIs DEF PluginSpec
<1>2. i \in DOMAIN list /\ j \in DOMAIN list /\ list[i].port = 0
  BY DEF Portless
<1>3. before(i) \subseteq before(j)
  <2>1. ASSUME NEW x \in DOMAIN list, list[x].name < list[i].name
        PROVE  list[x].name < list[j].name
    BY <1>1, <1>2, <2>1
  <2> QED
    BY <2>1
<1>4. i \in before(j) /\ i \notin before(i)
  BY <1>1, <1>2
<1>5. before(j) \in SUBSET DOMAIN list
  OBVIOUS
<1>6. IsFiniteSet(before(j)) /\ IsFiniteSet(before(i))
  BY <1>3, <1>5, ListIs, FS_Subset
<1>7. /\ Cardinality(before(i)) <= Cardinality(before(j))
      /\ Cardinality(before(j)) = Cardinality(before(i)) => before(j) = before(i)
  <2> HIDE DEF before
  <2>1. before(i) \in SUBSET before(j)
    BY <1>3
  <2> QED
    BY <1>6, <2>1, FS_Subset
<1>8. Cardinality(before(j)) \in Nat /\ Cardinality(before(i)) \in Nat
  BY <1>6, FS_CardinalityType
<1>9. Cardinality(before(i)) < Cardinality(before(j))
  <2> HIDE DEF before
  <2> QED
    BY <1>4, <1>7, <1>8
<1> QED
  BY <1>9 DEF TurnOf

LEMMA TurnsDiffer ==
    ASSUME NEW list, Admitted(list),
           NEW i \in Portless(list), NEW j \in Portless(list), i # j
    PROVE  TurnOf(list, list[i].name) # TurnOf(list, list[j].name)
<1>1. i \in DOMAIN list /\ j \in DOMAIN list
  BY DEF Portless
<1>2. list[i].name \in Nat /\ list[j].name \in Nat /\ list[i].name # list[j].name
  BY <1>1, ListIs DEF PluginSpec, Admitted
<1>3. list[i].name < list[j].name \/ list[j].name < list[i].name
  BY <1>2
<1>4. TurnOf(list, list[i].name) \in Nat /\ TurnOf(list, list[j].name) \in Nat
  <2>1. ASSUME NEW n PROVE TurnOf(list, n) \in Nat
    <3>1. {x \in DOMAIN list : list[x].port = 0 /\ list[x].name < n} \in SUBSET DOMAIN list
      OBVIOUS
    <3> QED
      BY <3>1, ListIs, FS_Subset, FS_CardinalityType DEF TurnOf
  <2> QED
    BY <2>1
<1> QED
  BY <1>3, <1>4, TurnsInOrder

\* Everyone's turn comes before as many turns as there are plugins without port.
LEMMA TurnsAreFew ==
    ASSUME NEW list, Admitted(list), NEW i \in Portless(list)
    PROVE  /\ TurnOf(list, list[i].name) \in Nat
           /\ TurnOf(list, list[i].name) < Cardinality(Portless(list))
<1> DEFINE before == {x \in DOMAIN list : list[x].port = 0 /\ list[x].name < list[i].name}
<1>1. list[i].name \in Nat
  BY ListIs DEF PluginSpec, Portless
<1>2. before \in SUBSET Portless(list) /\ i \notin before
  BY <1>1 DEF Portless
<1>3. IsFiniteSet(Portless(list)) /\ Cardinality(Portless(list)) \in Nat
  BY ListIs
<1>4. /\ IsFiniteSet(before) /\ Cardinality(before) <= Cardinality(Portless(list))
      /\ Cardinality(Portless(list)) = Cardinality(before) => Portless(list) = before
  <2> HIDE DEF before
  <2> QED
    BY <1>2, <1>3, FS_Subset
<1>5. Cardinality(before) \in Nat
  BY <1>4, FS_CardinalityType
<1>6. Cardinality(before) < Cardinality(Portless(list))
  <2> HIDE DEF before
  <2> QED
    BY <1>2, <1>3, <1>4, <1>5
<1> QED
  BY <1>5, <1>6 DEF TurnOf

\* What a list that is not longer than the range leaves free is enough for it.
LEMMA PortsSuffice ==
    ASSUME NEW list, Admitted(list), Len(list) <= pluginPortMax - pluginPortMin + 1
    PROVE  Cardinality(Portless(list)) <= Cardinality(FreePorts(list))
<1> DEFINE range == pluginPortMin .. pluginPortMax
           asking == DOMAIN list \ Portless(list)
           asked == ExplicitPorts(list)
<1>1. /\ IsFiniteSet(range) /\ Cardinality(range) = pluginPortMax - pluginPortMin + 1
      /\ Cardinality(range) \in Nat
  <2>1. ~(pluginPortMin > pluginPortMax)
    BY PluginPortAssumption
  <2>2. pluginPortMax - pluginPortMin + 1 \in Nat
    BY PluginPortAssumption
  <2>3. /\ IsFiniteSet(range)
        /\ Cardinality(range) = IF pluginPortMin > pluginPortMax THEN 0
                                 ELSE pluginPortMax - pluginPortMin + 1
    BY PluginPortAssumption, FS_Interval
  <2> QED
    BY <2>1, <2>2, <2>3
<1>2. /\ IsFiniteSet(DOMAIN list) /\ Cardinality(DOMAIN list) = Len(list)
      /\ IsFiniteSet(Portless(list)) /\ Cardinality(Portless(list)) \in Nat
      /\ Len(list) \in Nat
  BY ListIs
<1>3. IsFiniteSet(asking) /\ Cardinality(asking) = Len(list) - Cardinality(Portless(list))
      /\ Cardinality(asking) \in Nat
  <2>1. Portless(list) \cup asking = DOMAIN list /\ Portless(list) \cap asking = {}
    BY DEF Portless
  <2>2. IsFiniteSet(asking)
    BY <1>2, FS_Difference
  <2>3. Cardinality(asking) \in Nat
    BY <2>2, FS_CardinalityType
  <2>4. Cardinality({}) = 0
    BY FS_EmptySet
  <2>5. Cardinality(Portless(list) \cup asking) =
          Cardinality(Portless(list)) + Cardinality(asking)
              - Cardinality(Portless(list) \cap asking)
    BY <1>2, <2>2, FS_Union
  <2>6. Len(list) = Cardinality(Portless(list)) + Cardinality(asking) - 0
    <3> HIDE DEF asking
    <3> QED
      BY <1>2, <2>1, <2>4, <2>5
  <2> QED
    <3> HIDE DEF asking
    <3> QED
      BY <1>2, <2>2, <2>3, <2>6
<1>4. IsFiniteSet(asked) /\ Cardinality(asked) <= Cardinality(asking)
  <2> DEFINE f == [i \in asking |-> list[i].port]
  <2>1. f \in Surjection(asking, asked)
    BY DEF Surjection, ExplicitPorts, Portless
  <2> QED
    BY <1>3, <2>1, FS_Surjection
<1>5. asked \in SUBSET range
  <2>1. \A i \in DOMAIN list : list[i].port \in {0} \cup range
    BY ListIs DEF PluginSpec
  <2> QED
    BY <2>1 DEF ExplicitPorts
<1>6. /\ IsFiniteSet(range \ asked)
      /\ Cardinality(range) = Cardinality(range \ asked) + Cardinality(asked)
  <2>1. (range \ asked) \cup asked = range /\ (range \ asked) \cap asked = {}
    BY <1>5
  <2>2. IsFiniteSet(range \ asked)
    BY <1>1, FS_Difference
  <2>3. /\ Cardinality(range \ asked) \in Nat /\ Cardinality(asked) \in Nat
        /\ Cardinality({}) = 0
    BY <1>4, <2>2, FS_CardinalityType, FS_EmptySet
  <2>4. Cardinality((range \ asked) \cup asked) =
          Cardinality(range \ asked) + Cardinality(asked)
              - Cardinality((range \ asked) \cap asked)
    BY <1>4, <2>2, FS_Union
  <2>5. Cardinality(range) = Cardinality(range \ asked) + Cardinality(asked) - 0
    <3> HIDE DEF range, asked
    <3> QED
      BY <2>1, <2>3, <2>4
  <2> QED
    <3> HIDE DEF range, asked
    <3> QED
      BY <2>2, <2>3, <2>5
<1>7. FreePorts(list) = range \ asked
  BY DEF FreePorts
<1>8. Cardinality(range \ asked) \in Nat /\ Cardinality(asked) \in Nat
  BY <1>4, <1>6, FS_CardinalityType
<1>9. Cardinality(range) >= Len(list)
  BY <1>1
<1> QED
  <2> HIDE DEF range, asked, asking
  <2> QED
    BY <1>1, <1>2, <1>3, <1>4, <1>6, <1>7, <1>8, <1>9

\* Every plugin gets a port of the range, and no two the same.
LEMMA PluginsArePlaced ==
    ASSUME NEW list, Admitted(list), Len(list) <= pluginPortMax - pluginPortMin + 1,
           NEW i \in DOMAIN list
    PROVE  Resolved(list, i).port \in pluginPortMin .. pluginPortMax
<1>1. list[i] \in PluginSpec
  BY ListIs
<1>2. CASE list[i].port # 0
  BY <1>1, <1>2 DEF PluginSpec, Resolved
<1>3. CASE list[i].port = 0
  <2>1. TurnOf(list, list[i].name) \in Nat
        /\ TurnOf(list, list[i].name) < Cardinality(Portless(list))
    BY <1>3, TurnsAreFew DEF Portless
  <2>2. Cardinality(Portless(list)) \in Nat /\ Cardinality(FreePorts(list)) \in Nat
    BY ListIs, FreePortsAre, FS_CardinalityType
  <2>3. TurnOf(list, list[i].name) < Cardinality(FreePorts(list))
    BY <2>1, <2>2, PortsSuffice
  <2>4. NthFreePort(list, TurnOf(list, list[i].name)) \in FreePorts(list)
    BY <2>1, <2>3, NthFreePortIsFree
  <2>5. Resolved(list, i).port = NthFreePort(list, TurnOf(list, list[i].name))
    BY <1>1, <1>3 DEF PluginSpec, Resolved
  <2> QED
    BY <2>4, <2>5, FreePortsAre
<1> QED
  BY <1>2, <1>3

LEMMA PluginsArePlacedApart ==
    ASSUME NEW list, Admitted(list), Len(list) <= pluginPortMax - pluginPortMin + 1,
           NEW i \in DOMAIN list, NEW j \in DOMAIN list, i # j
    PROVE  Resolved(list, i).port # Resolved(list, j).port
<1>1. ASSUME NEW k \in DOMAIN list
      PROVE  IF list[k].port = 0
             THEN /\ TurnOf(list, list[k].name) \in Nat
                  /\ Resolved(list, k).port \in FreePorts(list)
                  /\ Cardinality(Below(FreePorts(list), Resolved(list, k).port)) =
                         TurnOf(list, list[k].name)
             ELSE /\ Resolved(list, k).port = list[k].port
                  /\ Resolved(list, k).port \in ExplicitPorts(list)
  <2>1. list[k] \in PluginSpec
    BY ListIs
  <2>2. CASE list[k].port # 0
    BY <2>1, <2>2 DEF PluginSpec, Resolved, ExplicitPorts
  <2>3. CASE list[k].port = 0
    <3>1. TurnOf(list, list[k].name) \in Nat
          /\ TurnOf(list, list[k].name) < Cardinality(Portless(list))
      BY <2>3, TurnsAreFew DEF Portless
    <3>2. Cardinality(Portless(list)) \in Nat /\ Cardinality(FreePorts(list)) \in Nat
      BY ListIs, FreePortsAre, FS_CardinalityType
    <3>3. TurnOf(list, list[k].name) < Cardinality(FreePorts(list))
      BY <3>1, <3>2, PortsSuffice
    <3>4. Resolved(list, k).port = NthFreePort(list, TurnOf(list, list[k].name))
      BY <2>1, <2>3 DEF PluginSpec, Resolved
    <3> QED
      BY <2>3, <3>1, <3>3, <3>4, NthFreePortIsFree
  <2> QED
    BY <2>2, <2>3
<1>2. CASE list[i].port = 0 /\ list[j].port = 0
  <2>1. TurnOf(list, list[i].name) # TurnOf(list, list[j].name)
    BY <1>2, TurnsDiffer DEF Portless
  <2> QED
    BY <1>1, <1>2, <2>1
<1>3. CASE list[i].port # 0 /\ list[j].port # 0
  BY <1>1, <1>3 DEF Admitted
<1>4. CASE (list[i].port = 0) # (list[j].port = 0)
  BY <1>1, <1>4 DEF FreePorts
<1> QED
  BY <1>2, <1>3, <1>4

-----------------------------------------------------------------------------
(* The order of the steps.                                                  *)

\* Every operand has its place among the steps of ensureAll.
LEMMA StepsAreNamed ==
    /\ Owned \subseteq StepNames
    /\ "Status" \in StepNames /\ "ServiceAccount" \in StepNames
<1> DEFINE S == {"ServiceAccount", "SessionsPVC", "ProxyCachePVC",
            "UserPostgresTLS", "PostgresTLS", "PostgresSecret",
            "SSLConfigMap", "StatefulSet", "PostgresService",
            "PostgresNetworkPolicy", "Leftover",
            "AbbenayToken", "AbbenayConfigMap", "AbbenayPVC",
            "ProxyAdminToken", "WorkloadInputs",
            "Deployment", "EngineService", "GatewayService",
            "UIService", "Ingress", "APMENetworkPolicy", "Status"}
<1>1. DOMAIN Steps = 1 .. 23
  BY DEF Steps
<1>2. /\ Steps[1] = "ServiceAccount" /\ Steps[2] = "SessionsPVC"
      /\ Steps[3] = "ProxyCachePVC" /\ Steps[4] = "UserPostgresTLS"
      /\ Steps[5] = "PostgresTLS" /\ Steps[6] = "PostgresSecret"
      /\ Steps[7] = "SSLConfigMap" /\ Steps[8] = "StatefulSet"
      /\ Steps[9] = "PostgresService" /\ Steps[10] = "PostgresNetworkPolicy"
      /\ Steps[11] = "Leftover" /\ Steps[12] = "AbbenayToken"
      /\ Steps[13] = "AbbenayConfigMap" /\ Steps[14] = "AbbenayPVC"
      /\ Steps[15] = "ProxyAdminToken" /\ Steps[16] = "WorkloadInputs"
      /\ Steps[17] = "Deployment" /\ Steps[18] = "EngineService"
      /\ Steps[19] = "GatewayService" /\ Steps[20] = "UIService"
      /\ Steps[21] = "Ingress" /\ Steps[22] = "APMENetworkPolicy"
      /\ Steps[23] = "Status"
  BY DEF Steps
<1>3. S \subseteq StepNames
  <2> SUFFICES ASSUME NEW n \in S PROVE \E i \in DOMAIN Steps : Steps[i] = n
    BY DEF StepNames
  <2> QED
    BY <1>1, <1>2
<1>4. Owned \subseteq S
  BY DEF Owned, Credentials, Applied, Workloads
<1> QED
  BY <1>3, <1>4

\* No operand is named like a worker at rest.
LEMMA OwnedAreSteps == "Idle" \notin StepNames /\ "Idle" \notin Owned
<1>1. "Idle" \notin StepNames
  <2> SUFFICES ASSUME NEW i \in DOMAIN Steps PROVE Steps[i] # "Idle"
    BY DEF StepNames
  <2>1. i \in 1 .. 23
    BY DEF Steps
  <2> QED
    BY <2>1 DEF Steps
<1> QED
  BY <1>1, StepsAreNamed

\* A step has one place in ensureAll.
LEMMA PosOfSteps ==
    ASSUME NEW m \in StepNames, NEW n \in StepNames
    PROVE  /\ Pos[m] \in Nat
           /\ Pos[m] = Pos[n] => m = n
<1>1. ASSUME NEW k \in StepNames
      PROVE  Pos[k] \in DOMAIN Steps /\ Steps[Pos[k]] = k
  <2>1. \E i \in DOMAIN Steps : Steps[i] = k
    BY DEF StepNames
  <2> QED
    BY <2>1 DEF Pos
<1>2. DOMAIN Steps = 1 .. 23
  BY DEF Steps
<1> QED
  BY <1>1, <1>2

\* Nothing comes before the first step.
LEMMA FirstStep ==
    ASSUME NEW m \in StepNames
    PROVE  ~(Pos[m] < Pos["ServiceAccount"])
<1>1. ASSUME NEW i \in DOMAIN Steps, Steps[i] = "ServiceAccount" PROVE i = 1
  <2>1. i \in 1 .. 23
    BY DEF Steps
  <2> QED
    BY <1>1, <2>1 DEF Steps
<1>2. Pos["ServiceAccount"] \in DOMAIN Steps
      /\ Steps[Pos["ServiceAccount"]] = "ServiceAccount"
  <2>1. \E i \in DOMAIN Steps : Steps[i] = "ServiceAccount"
    BY StepsAreNamed DEF StepNames
  <2> QED
    BY <2>1, StepsAreNamed DEF Pos
<1>3. Pos[m] \in DOMAIN Steps
  <2>1. \E i \in DOMAIN Steps : Steps[i] = m
    BY DEF StepNames
  <2> QED
    BY <2>1 DEF Pos
<1>4. DOMAIN Steps = 1 .. 23
  BY DEF Steps
<1> QED
  BY <1>1, <1>2, <1>3, <1>4

\* The status comes last.
LEMMA LastStep ==
    ASSUME NEW m \in StepNames, m # "Status"
    PROVE  Pos[m] < Pos["Status"]
<1>1. ASSUME NEW k \in StepNames
      PROVE  Pos[k] \in 1 .. 23 /\ Steps[Pos[k]] = k
  <2>1. \E i \in DOMAIN Steps : Steps[i] = k
    BY DEF StepNames
  <2>2. DOMAIN Steps = 1 .. 23
    BY DEF Steps
  <2> QED
    BY <2>1, <2>2 DEF Pos
<1>2. ASSUME NEW i \in 1 .. 23, Steps[i] = "Status" PROVE i = 23
  BY <1>2 DEF Steps
<1>3. Steps[23] = "Status"
  BY DEF Steps
<1> QED
  BY <1>1, <1>2, <1>3, StepsAreNamed

\* A step's position is where Steps has it.
LEMMA PosIs ==
    /\ Pos["ServiceAccount"] = 1 /\ Pos["SessionsPVC"] = 2 /\ Pos["ProxyCachePVC"] = 3
    /\ Pos["PostgresTLS"] = 5 /\ Pos["PostgresSecret"] = 6
    /\ Pos["SSLConfigMap"] = 7 /\ Pos["StatefulSet"] = 8
    /\ Pos["PostgresService"] = 9 /\ Pos["PostgresNetworkPolicy"] = 10
    /\ Pos["AbbenayToken"] = 12 /\ Pos["AbbenayConfigMap"] = 13
    /\ Pos["AbbenayPVC"] = 14 /\ Pos["ProxyAdminToken"] = 15
    /\ Pos["Deployment"] = 17
<1>1. ASSUME NEW k \in StepNames
      PROVE  Pos[k] \in 1 .. 23 /\ Steps[Pos[k]] = k
  <2>1. \E i \in DOMAIN Steps : Steps[i] = k
    BY DEF StepNames
  <2>2. DOMAIN Steps = 1 .. 23
    BY DEF Steps
  <2> QED
    BY <2>1, <2>2 DEF Pos
<1>2. Owned \subseteq StepNames
  BY StepsAreNamed
<1>3. ASSUME NEW k \in Owned, NEW i \in 1 .. 23, Steps[i] = k
      PROVE  Pos[k] = i
  <2>1. Pos[k] \in 1 .. 23 /\ Steps[Pos[k]] = Steps[i]
    BY <1>1, <1>2, <1>3
  <2>2. ASSUME NEW a \in 1 .. 23, NEW b \in 1 .. 23, Steps[a] = Steps[b]
        PROVE  a = b
    BY <2>2 DEF Steps
  <2> QED
    BY <2>1, <2>2
<1>4. /\ Steps[1] = "ServiceAccount" /\ Steps[2] = "SessionsPVC"
      /\ Steps[3] = "ProxyCachePVC"
      /\ Steps[5] = "PostgresTLS" /\ Steps[6] = "PostgresSecret"
      /\ Steps[7] = "SSLConfigMap" /\ Steps[8] = "StatefulSet"
      /\ Steps[9] = "PostgresService" /\ Steps[10] = "PostgresNetworkPolicy"
      /\ Steps[12] = "AbbenayToken"
      /\ Steps[13] = "AbbenayConfigMap" /\ Steps[14] = "AbbenayPVC"
      /\ Steps[15] = "ProxyAdminToken" /\ Steps[17] = "Deployment"
  BY DEF Steps
<1>5. {"ServiceAccount", "SessionsPVC", "ProxyCachePVC", "PostgresTLS",
       "PostgresSecret", "SSLConfigMap", "StatefulSet", "PostgresService",
       "PostgresNetworkPolicy", "AbbenayToken", "AbbenayConfigMap",
       "AbbenayPVC", "ProxyAdminToken", "Deployment"} \subseteq Owned
  BY DEF Owned, Applied, Credentials, Workloads
<1> QED
  BY <1>3, <1>4, <1>5

-----------------------------------------------------------------------------
(* What pods load.                                                          *)

\* What can be mounted into a pod or read by it.
Loadable == {"ServiceAccount", "PersistentVolumeClaim", "Secret", "ConfigMap"}

\* The pod of the Deployment needs nothing else.
LEMMA DeploymentLoads ==
    ASSUME NEW d, NEW x \in DeploymentNeeds(d)
    PROVE  x[1] \in Loadable
<1>1. ASSUME NEW v \in Volumes(d)
      PROVE  v.source[1] \in Loadable \cup {"empty"}
  <2>1. CASE v \in {pvcVol("sessions", "-sessions"), pvcVol("proxy-cache", "-proxy-cache")}
    BY <2>1 DEF pvcVol, Volume, Loadable
  <2>2. CASE v \in {Volume("galaxy-ca", <<"ConfigMap", d.GalaxyCAConfigMap>>),
                    emptyVol("galaxy-ca-bundle")}
    BY <2>2 DEF emptyVol, Volume, Loadable
  <2>3. CASE v \in {Volume(PluginConfigVolumeName(p), <<"ConfigMap", p.config>>) :
                      p \in {q \in d.Plugins : q.config # ""}}
    <3>1. PICK p : v = Volume(PluginConfigVolumeName(p), <<"ConfigMap", p.config>>)
      BY <2>3
    <3> QED
      BY <3>1 DEF Volume, Loadable
  <2>4. CASE v \in {Volume("db-ca", DatabaseCA(d)), emptyVol("db-ca-bundle")}
    BY <2>4 DEF DatabaseCA, emptyVol, Volume, Loadable
  <2>5. CASE v \in {emptyVol("nginx-cache"), emptyVol("nginx-run"), emptyVol("nginx-conf")}
    BY <2>5 DEF emptyVol, Volume, Loadable
  <2>6. CASE v \in {Volume("abbenay-config-seed", Seed(d)), emptyVol("abbenay-run"),
                    IF d.AbbenayPersist THEN pvcVol("abbenay-config", "-abbenay-config")
                    ELSE emptyVol("abbenay-config")}
    <3>1. Seed(d)[1] = "ConfigMap"
      BY DEF Seed
    <3> QED
      BY <2>6, <3>1 DEF pvcVol, emptyVol, Volume, Loadable
  <2> QED
    BY <2>1, <2>2, <2>3, <2>4, <2>5, <2>6 DEF Volumes, When
<1> QED
  <2>1. CASE x = <<"ServiceAccount", "">>
    BY <2>1 DEF Loadable
  <2>2. CASE \E v \in Volumes(d) : x = v.source /\ v.source[1] # "empty"
    BY <1>1, <2>2
  <2>3. CASE \E s : x = <<"Secret", s>>
    BY <2>3 DEF Loadable
  <2> QED
    BY <2>1, <2>2, <2>3 DEF DeploymentNeeds

\* What is applied with or after the Deployment is nothing a pod loads.
LEMMA LaterIsNotLoaded ==
    ASSUME NEW d,
           NEW m \in {"Deployment", "EngineService", "GatewayService",
                      "UIService", "Ingress", "APMENetworkPolicy"}
    PROVE  Object(d, m)[1] \notin Loadable
BY DEF Object, Loadable

-----------------------------------------------------------------------------
(* Init containers.                                                         *)

\* The init containers of the pod, in whatever order.
Inits(d) ==
    When(d.GalaxyCAConfigMap # "", {InitGalaxyCABundle})
    \cup When(d.GeneratePostgres, {InitDBCABundle})
    \cup When(d.UI, {InitNginx})
    \cup When(d.Abbenay, {InitAbbenayConfig})

Elements(s) == {s[i] : i \in DOMAIN s}

\* The elements of a concatenation are those of its parts.
LEMMA ConcatElements ==
    ASSUME NEW S, NEW s \in Seq(S), NEW t \in Seq(S)
    PROVE  /\ s \o t \in Seq(S)
           /\ Elements(s \o t) = Elements(s) \cup Elements(t)
<1>1. /\ s \o t \in Seq(S) /\ Len(s) \in Nat /\ Len(t) \in Nat
      /\ DOMAIN s = 1 .. Len(s) /\ DOMAIN t = 1 .. Len(t)
      /\ DOMAIN (s \o t) = 1 .. Len(s) + Len(t)
      /\ \A i \in 1 .. Len(s) + Len(t) :
             (s \o t)[i] = IF i <= Len(s) THEN s[i] ELSE t[i - Len(s)]
  OBVIOUS
<1>2. ASSUME NEW i \in DOMAIN s PROVE i \in DOMAIN (s \o t) /\ (s \o t)[i] = s[i]
  BY <1>1
<1>3. ASSUME NEW i \in DOMAIN t
      PROVE  Len(s) + i \in DOMAIN (s \o t) /\ (s \o t)[Len(s) + i] = t[i]
  BY <1>1
<1>4. ASSUME NEW i \in DOMAIN (s \o t)
      PROVE  \/ i \in DOMAIN s /\ (s \o t)[i] = s[i]
             \/ i - Len(s) \in DOMAIN t /\ (s \o t)[i] = t[i - Len(s)]
  BY <1>1
<1>5. {(s \o t)[i] : i \in DOMAIN (s \o t)} \subseteq
          {s[i] : i \in DOMAIN s} \cup {t[i] : i \in DOMAIN t}
  BY <1>4
<1>6. {s[i] : i \in DOMAIN s} \cup {t[i] : i \in DOMAIN t} \subseteq
          {(s \o t)[i] : i \in DOMAIN (s \o t)}
  BY <1>2, <1>3
<1> QED
  BY <1>1, <1>5, <1>6 DEF Elements

\* The init containers are those the toggles ask for.
LEMMA InitContainersAre ==
    ASSUME NEW d
    PROVE  /\ Elements(InitContainers(d)) = Inits(d)
           /\ \E S : InitContainers(d) \in Seq(S)
<1> DEFINE S == {InitGalaxyCABundle, InitDBCABundle, InitNginx, InitAbbenayConfig}
           one(b, x) == IF b THEN <<x>> ELSE << >>
           A == one(d.GalaxyCAConfigMap # "", InitGalaxyCABundle)
           B == one(d.GeneratePostgres, InitDBCABundle)
           C == one(d.UI, InitNginx)
           D == one(d.Abbenay, InitAbbenayConfig)
<1>1. ASSUME NEW b, NEW x \in S
      PROVE  one(b, x) \in Seq(S) /\ Elements(one(b, x)) = When(b, {x})
  <2>1. CASE b
    <3>1. one(b, x) = <<x>>
      BY <2>1
    <3>2. <<x>> \in Seq(S) /\ DOMAIN <<x>> = {1} /\ <<x>>[1] = x
      <4> HIDE DEF S
      <4> QED
        OBVIOUS
    <3>3. Elements(<<x>>) = {x}
      BY <3>2 DEF Elements
    <3>4. When(b, {x}) = {x}
      BY <2>1 DEF When
    <3> QED
      BY <3>1, <3>2, <3>3, <3>4
  <2>2. CASE ~b
    <3>1. one(b, x) = << >>
      BY <2>2
    <3>2. << >> \in Seq(S) /\ DOMAIN << >> = {}
      <4> HIDE DEF S
      <4> QED
        OBVIOUS
    <3>3. Elements(<< >>) = {}
      BY <3>2 DEF Elements
    <3>4. When(b, {x}) = {}
      BY <2>2 DEF When
    <3> QED
      BY <3>1, <3>2, <3>3, <3>4
  <2> QED
    BY <2>1, <2>2
<1>2. /\ A \in Seq(S) /\ Elements(A) = When(d.GalaxyCAConfigMap # "", {InitGalaxyCABundle})
      /\ B \in Seq(S) /\ Elements(B) = When(d.GeneratePostgres, {InitDBCABundle})
      /\ C \in Seq(S) /\ Elements(C) = When(d.UI, {InitNginx})
      /\ D \in Seq(S) /\ Elements(D) = When(d.Abbenay, {InitAbbenayConfig})
  <2> HIDE DEF one
  <2> QED
    BY <1>1
<1>3. InitContainers(d) = ((A \o B) \o C) \o D
  BY DEF InitContainers
<1> HIDE DEF A, B, C, D, S
<1>c. \A s, t \in Seq(S) :
          s \o t \in Seq(S) /\ Elements(s \o t) = Elements(s) \cup Elements(t)
  BY ConcatElements, Zenon
<1>4. A \o B \in Seq(S) /\ Elements(A \o B) = Elements(A) \cup Elements(B)
  BY <1>2, <1>c, Zenon
<1>5. (A \o B) \o C \in Seq(S)
      /\ Elements((A \o B) \o C) = Elements(A \o B) \cup Elements(C)
  BY <1>2, <1>4, <1>c, Zenon
<1>6. /\ ((A \o B) \o C) \o D \in Seq(S)
      /\ Elements(((A \o B) \o C) \o D) = Elements((A \o B) \o C) \cup Elements(D)
  BY <1>2, <1>5, <1>c, Zenon
<1>7. Elements(InitContainers(d)) = Inits(d)
  BY <1>2, <1>3, <1>4, <1>5, <1>6 DEF Inits
<1>8. InitContainers(d) \in Seq(S)
  BY <1>3, <1>6, Zenon
<1> QED
  BY <1>7, <1>8
=============================================================================
