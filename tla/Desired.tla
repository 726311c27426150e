------------------------------ MODULE Desired ------------------------------
(***************************************************************************)
(* internal/resolve: the defaulted view of an Apme spec that every         *)
(* manifest builder and every reconcile step works from.                   *)
(*                                                                         *)
(* A spec is a flat record.  "" is an empty string field, "nil" an unset   *)
(* *bool ("true" and "false" are the set ones), and an object name is one  *)
(* of a few strings: what the user calls it, or, for an object the         *)
(* operator names after the CR, the suffix it appends to the CR's name.    *)
(* Quantities, images other than the version, and resource requests are    *)
(* passed through by the code and left out.                                *)
(***************************************************************************)
EXTENDS Naturals, FiniteSets, Sequences

CONSTANTS pluginPortMin,   \* lowest port given to a plugin (50100)
          pluginPortMax    \* highest one (50199)

ASSUME PluginPortAssumption ==
    /\ pluginPortMin \in Nat \ {0}
    /\ pluginPortMax \in Nat
    /\ pluginPortMin <= pluginPortMax

\* defaultTrue: an unset *bool counts as true.
defaultTrue(p) == p # "false"

OrDefault(value, default) == IF value = "" THEN default ELSE value

-----------------------------------------------------------------------------
(* resolvePlugins as a function of the list, whatever its order: explicit   *)
(* ports are kept, and the plugins without one take, in the order of their  *)
(* names, the lowest ports nobody asked for.  Port 0 is "no port".  Names   *)
(* are numbers that stand for their place in the alphabetical order.        *)
(* Module PluginPorts has the code's loop, and the check that it computes   *)
(* this.                                                                    *)

PluginSpec == [name : Nat, port : {0} \cup (pluginPortMin .. pluginPortMax),
               config : STRING]

\* What the CRD's validation rules admit.
Admitted(in) ==
    /\ in \in Seq(PluginSpec)
    /\ \A i, j \in DOMAIN in :
          i # j => /\ in[i].name # in[j].name
                   /\ in[i].port = in[j].port => in[i].port = 0

ExplicitPorts(in) == {in[i].port : i \in DOMAIN in} \ {0}

\* (mutant: a port somebody asked for counts as free)
AllPorts(in) == pluginPortMin .. pluginPortMax

FreePorts(in) == (pluginPortMin .. pluginPortMax) \ ExplicitPorts(in)

\* How many plugins without a port come before name in alphabetical order.
TurnOf(in, name) ==
    Cardinality({i \in DOMAIN in : in[i].port = 0 /\ in[i].name < name})

\* The free port that has exactly n free ports below it; 0 if there is none.
NthFreePort(in, n) ==
    LET hits == {q \in FreePorts(in) :
                    Cardinality({f \in FreePorts(in) : f < q}) = n}
    IN  IF hits = {} THEN 0 ELSE CHOOSE q \in hits : TRUE

Resolved(in, i) ==
    [in[i] EXCEPT !.port =
        IF @ # 0 THEN @ ELSE NthFreePort(in, TurnOf(in, in[i].name))]

resolvePlugins(in) == {Resolved(in, i) : i \in DOMAIN in}

-----------------------------------------------------------------------------
(* From applies the defaults.                                               *)

External(spec) == spec.connectionSecret # ""

\* (mutant: certificates are generated over those the user brings)
AlwaysGenerateTLS(spec) == ~External(spec)

GenerateTLS(spec) == ~External(spec) /\ spec.postgresTLS = ""

From(spec) ==
    LET managed == ~External(spec)
    IN  [ Version              |-> OrDefault(spec.version, "2026.8.10"),
          Gitleaks             |-> defaultTrue(spec.gitleaks),
          CollectionHealth     |-> defaultTrue(spec.collectionHealth),
          DepAudit             |-> defaultTrue(spec.depAudit),
          UI                   |-> defaultTrue(spec.ui),
          NetworkPolicy        |-> defaultTrue(spec.networkPolicy),
          RouteEnabled         |-> defaultTrue(spec.route),
          RouteHost            |-> spec.routeHost,
          IngressEnabled       |-> spec.ingress,
          IngressHost          |-> spec.ingressHost,
          GalaxyCAConfigMap    |-> spec.galaxyCA,
          ProxyAdminTokenName  |-> "-proxy-admin",
          DatabaseMode         |-> IF managed THEN "Managed" ELSE "External",
          GeneratePostgres     |-> managed,
          DatabaseSecretName   |-> OrDefault(spec.connectionSecret, "-postgres"),
          PostgresTLSSecretName |->
              IF managed THEN OrDefault(spec.postgresTLS, "-postgres-tls")
              ELSE "",
          GeneratePostgresTLS  |-> GenerateTLS(spec),
          Abbenay              |-> spec.abbenay,
          AbbenayTokenName     |->
              IF spec.abbenay THEN OrDefault(spec.abbenayToken, "-abbenay")
              ELSE spec.abbenayToken,
          GenerateAbbenayToken |-> spec.abbenay /\ spec.abbenayToken = "",
          AbbenayConfigMap     |-> spec.abbenayConfig,
          AbbenayPersist       |-> spec.abbenay /\ defaultTrue(spec.abbenayPersist),
          Plugins              |-> resolvePlugins(spec.plugins) ]
=============================================================================
