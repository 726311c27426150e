---------------------------- MODULE Provisioning ----------------------------
(***************************************************************************)
(* What the operator promises of one CR, in terms a user could check: what *)
(* is built, from which spec, and what the status claims.  There are no    *)
(* caches, passes, retries or errors here.                                 *)
(***************************************************************************)
CONSTANTS Specs, Objects,
          Asks,    \* per spec, the objects it asks for
          Needs,   \* per spec and object, the objects its pods cannot do without
          Once,    \* objects that are made once and then kept as they are
          None, Made

VARIABLES wanted,  \* the spec the CR has, or None
          built,   \* per object, None, the spec it was built from, or Made
          says     \* the status claims the present spec is Available

vars == <<wanted, built, says>>

Init ==
    /\ wanted = None
    /\ built = [n \in Objects |-> None]
    /\ says = FALSE

Ask(s) == wanted' = s /\ says' = FALSE /\ UNCHANGED built

Withdraw == wanted' = None /\ says' = FALSE /\ UNCHANGED built

InPlace(n, s) == built[n] = IF n \in Once THEN Made ELSE s

\* An object is built, possibly from a spec the CR no longer has: never before
\* the objects it needs, as that spec has them, and never from another spec once
\* the present one is claimed to be available.
Build(n, s) ==
    /\ n \in Asks[s]
    /\ n \in Once => built[n] = None
    /\ wanted # None => \A m \in Needs[s][n] : InPlace(m, s)
    /\ says => s = wanted
    /\ built' = [built EXCEPT ![n] = IF n \in Once THEN Made ELSE s]
    /\ UNCHANGED <<wanted, says>>

Claim ==
    /\ wanted # None /\ \A n \in Asks[wanted] : InPlace(n, wanted)
    /\ says' = TRUE
    /\ UNCHANGED <<wanted, built>>

Unclaim == says' = FALSE /\ UNCHANGED <<wanted, built>>

\* Once the CR is gone, and only then, objects go.
TakeAway ==
    /\ wanted = None
    /\ built' = [n \in Objects |-> IF built'[n] = None THEN None ELSE built[n]]
    /\ UNCHANGED <<wanted, says>>

Next ==
    \/ \E s \in Specs : Ask(s)
    \/ Withdraw
    \/ \E s \in Specs, n \in Objects : Build(n, s)
    \/ Claim
    \/ Unclaim
    \/ TakeAway

Spec == Init /\ [][Next]_vars
=============================================================================
