----------------------------- MODULE WriteOnce ------------------------------
(***************************************************************************)
(* What the operator promises about a credential it generates: it writes a *)
(* value only where there is none, and every value is new.  The user may   *)
(* put a value of his own in its place or take it away, and then it is the *)
(* user's value, or none, that stays until the next of these steps.        *)
(***************************************************************************)
EXTENDS Naturals

CONSTANT None

VARIABLES value,   \* [by, n]: who made it, as which one; or None
          made     \* how many values there have been

Init ==
    \/ value = None /\ made = 0
    \/ value \in [by : {"operator", "user"}, n : {1}] /\ made = 1

New(who) ==
    /\ value' = [by |-> who, n |-> made + 1]
    /\ made' = made + 1

Generate == value = None /\ New("operator")

Replace == New("user")

Remove == value' = None /\ UNCHANGED made

Next == Generate \/ Replace \/ Remove

Spec == Init /\ [][Next]_<<value, made>>
=============================================================================
