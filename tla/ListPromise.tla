---------------------------- MODULE ListPromise ----------------------------
(***************************************************************************)
(* What a mailing list promises about one copy of one message for one      *)
(* member, with no queue, no database and no worker in sight.              *)
(*                                                                         *)
(* A copy becomes owed when the list takes the message on for that member. *)
(* While it is owed it may be handed to the mail provider, at most Budget  *)
(* times; once settled it is never handed over again.  Someone who has     *)
(* left the list gets at most one copy more of each message: the one that  *)
(* was already on its way.                                                 *)
(***************************************************************************)
EXTENDS Naturals

CONSTANTS Msg,      \* the messages accepted by the list
          Member,   \* the people a copy can be owed to
          Budget    \* how often one copy may be handed to the provider

VARIABLES owed,     \* owed[m][r]: is r's copy of m owed, and is it settled?
          handed,   \* handed[m][r]: times that copy went to the provider
          late,     \* late[m][r]: how many of them went after r had left
          gone      \* the members who have left the list

vars == <<owed, handed, late, gone>>

Init ==
    /\ owed = [m \in Msg |-> [r \in Member |-> "none"]]
    /\ handed = [m \in Msg |-> [r \in Member |-> 0]]
    /\ late = [m \in Msg |-> [r \in Member |-> 0]]
    /\ gone = {}

Owe(m, r) ==
    /\ owed[m][r] = "none"
    /\ owed' = [owed EXCEPT ![m][r] = "owed"]
    /\ UNCHANGED <<handed, late, gone>>

Hand(m, r) ==
    /\ owed[m][r] = "owed"
    /\ handed[m][r] < Budget
    /\ r \in gone => late[m][r] = 0
    /\ handed' = [handed EXCEPT ![m][r] = @ + 1]
    /\ late' = IF r \in gone THEN [late EXCEPT ![m][r] = @ + 1] ELSE late
    /\ UNCHANGED <<owed, gone>>

\* A failing batch can settle several copies at once.
Settle(D) ==
    /\ \A d \in D : owed[d[1]][d[2]] = "owed"
    /\ owed' = [m \in Msg |-> [r \in Member |->
                   IF <<m, r>> \in D THEN "settled" ELSE owed[m][r]]]
    /\ UNCHANGED <<handed, late, gone>>

Leave(r) ==
    /\ r \notin gone
    /\ gone' = gone \cup {r}
    /\ UNCHANGED <<owed, handed, late>>

Next ==
    \/ \E m \in Msg, r \in Member : Owe(m, r) \/ Hand(m, r)
    \/ \E D \in SUBSET (Msg \X Member) : Settle(D)
    \/ \E r \in Member : Leave(r)

\* The promise with no timing in it.
Safety == Init /\ [][Next]_vars

\* What is owed is settled in the end.
EverythingSettles ==
    \A m \in Msg, r \in Member : owed[m][r] = "owed" ~> owed[m][r] = "settled"

Spec == Safety /\ EverythingSettles
=============================================================================
