------------------------------ MODULE Consent ------------------------------
(***************************************************************************)
(* What a list promises about who is on it: a seat (one address on one     *)
(* list) is taken only when both sides agreed, the person behind the       *)
(* address and an admin of the list, in either order; and whoever has left *)
(* or was removed stays off.                                               *)
(***************************************************************************)
CONSTANT Seat

VARIABLES yes,     \* seats whose person agreed
          letIn,   \* seats an admin agreed to
          seat     \* seat[s]: "out", "in" or "gone"

vars == <<yes, letIn, seat>>

Init ==
    /\ yes = {}
    /\ letIn = {}
    /\ seat = [s \in Seat |-> "out"]

SayYes(s) ==
    /\ yes' = yes \cup {s}
    /\ UNCHANGED <<letIn, seat>>

LetIn(s) ==
    /\ letIn' = letIn \cup {s}
    /\ UNCHANGED <<yes, seat>>

\* The yes may be said in the same step, by following a link.
Enter(s) ==
    /\ seat[s] = "out"
    /\ s \in letIn
    /\ s \in yes'
    /\ yes' \in {yes, yes \cup {s}}
    /\ seat' = [seat EXCEPT ![s] = "in"]
    /\ UNCHANGED letIn

Go(s) ==
    /\ seat[s] # "gone"
    /\ seat' = [seat EXCEPT ![s] = "gone"]
    /\ UNCHANGED <<yes, letIn>>

Next == \E s \in Seat : SayYes(s) \/ LetIn(s) \/ Enter(s) \/ Go(s)

Spec == Init /\ [][Next]_vars
=============================================================================
