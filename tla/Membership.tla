----------------------------- MODULE Membership -----------------------------
(***************************************************************************)
(* How an address gets on a list and off it again: join requests and the   *)
(* admins who decide them (server/routes/tenant.ts,                        *)
(* server/routes/admin/pending.ts), members added by an admin and the      *)
(* confirmation link they are sent (server/routes/admin/members.ts,        *)
(* server/routes/confirm.ts), and leaving (server/routes/unsub.ts).        *)
(*                                                                         *)
(* A seat is one address on one list: the key UNIQUE(group_id, email) of   *)
(* the members table.  Every request handler runs as its sequence of       *)
(* database calls, interleaved with all the others.                        *)
(*                                                                         *)
(* A definition commented "Mutation" is a faulty form of one that follows  *)
(* it; no action of the specification uses it.                             *)
(***************************************************************************)
EXTENDS Naturals

CONSTANTS
    Seat,        \* (list, address) pairs
    Req,         \* submissions of the public join form
    Decision,    \* clicks of admins on approve or reject
    MaxFaults    \* bound: handlers a behaviour may lose half-way

ASSUME MembershipAssumption == MaxFaults \in Nat

VARIABLES
    member,     \* member[s]: members.status, "none" without a row
    token,      \* token[s]: does the row have an unsub_tokens row?
    mail,       \* mail[s]: the confirmation mail to somebody an admin added
    join,       \* join[i]: how far the join handler of submission i is
    reqSeat,    \* reqSeat[i]: the seat submission i asks for
    reqState,   \* reqState[i]: subscription_requests.state, "none" before INSERT
    seen,       \* history: requests that existed when i was checked for one
    dec,        \* dec[d]: how far the handler of click d is
    decReq,     \* decReq[d]: the request it decides
    verdict,    \* verdict[d]: "approve" or "reject"
    added,      \* history: seats an admin added
    confirmed,  \* history: seats whose confirmation link was followed
    faults      \* history: faults so far

reqVars == <<join, reqSeat, reqState, seen>>
decVars == <<dec, decReq, verdict>>
vars == <<member, token, mail, reqVars, decVars, added, confirmed, faults>>

TypeOK ==
    /\ member \in [Seat -> {"none", "pending_confirmation", "active", "unsubscribed"}]
    /\ token \in [Seat -> BOOLEAN]
    /\ mail \in [Seat -> {"none", "find", "minting", "ready", "sent", "lost"}]
    /\ join \in [Req -> {"idle", "refused", "checked", "dropped", "clear", "inserted"}]
    /\ reqSeat \in [Req -> Seat]
    /\ reqState \in [Req -> {"none", "pending", "approved", "rejected"}]
    /\ seen \in [Req -> SUBSET Req]
    /\ dec \in [Decision -> {"idle", "loaded", "refused", "claimed", "done", "died"}]
    /\ decReq \in [Decision -> Req]
    /\ verdict \in [Decision -> {"approve", "reject"}]
    /\ added \in SUBSET Seat
    /\ confirmed \in SUBSET Seat
    /\ faults \in 0 .. MaxFaults

\* reqSeat, decReq and verdict say what somebody is going to ask for.
Init ==
    /\ member = [s \in Seat |-> "none"]
    /\ token = [s \in Seat |-> FALSE]
    /\ mail = [s \in Seat |-> "none"]
    /\ join = [i \in Req |-> "idle"]
    /\ reqSeat \in [Req -> Seat]
    /\ reqState = [i \in Req |-> "none"]
    /\ seen = [i \in Req |-> {}]
    /\ dec = [d \in Decision |-> "idle"]
    /\ decReq \in [Decision -> Req]
    /\ verdict \in [Decision -> {"approve", "reject"}]
    /\ added = {}
    /\ confirmed = {}
    /\ faults = 0

-----------------------------------------------------------------------------
(* The public join form.                                                   *)

\* handleJoinSubmit looks for an active member first.
SubmitJoin(i) ==
    /\ join[i] = "idle"
    /\ join' = [join EXCEPT ![i] =
           IF member[reqSeat[i]] = "active" THEN "refused" ELSE "checked"]
    /\ UNCHANGED <<member, token, mail, reqSeat, reqState, seen, decVars, added,
                   confirmed, faults>>

PendingFor(s) == {j \in Req : reqSeat[j] = s /\ reqState[j] = "pending"}

\* Mutation: no look for a pending request of the same address.
NoDuplicateCheck(i) ==
    /\ join[i] = "checked"
    /\ join' = [join EXCEPT ![i] = "clear"]
    /\ seen' = [seen EXCEPT ![i] = {j \in Req : reqState[j] # "none"}]
    /\ UNCHANGED <<member, token, mail, reqSeat, reqState, decVars, added,
                   confirmed, faults>>

\* The SELECT of insertSubscriptionRequest: one pending request per seat.
CheckPending(i) ==
    /\ join[i] = "checked"
    /\ join' = [join EXCEPT ![i] =
           IF PendingFor(reqSeat[i]) # {} THEN "dropped" ELSE "clear"]
    /\ seen' = [seen EXCEPT ![i] = {j \in Req : reqState[j] # "none"}]
    /\ UNCHANGED <<member, token, mail, reqSeat, reqState, decVars, added,
                   confirmed, faults>>

\* Its INSERT; no constraint of the table backs the check.
InsertRequest(i) ==
    /\ join[i] = "clear"
    /\ join' = [join EXCEPT ![i] = "inserted"]
    /\ reqState' = [reqState EXCEPT ![i] = "pending"]
    /\ UNCHANGED <<member, token, mail, reqSeat, seen, decVars, added, confirmed,
                   faults>>

-----------------------------------------------------------------------------
(* An admin approves or rejects.                                           *)

\* getSubscriptionRequest and the state test.
LoadRequest(d) ==
    /\ dec[d] = "idle"
    /\ reqState[decReq[d]] # "none"
    /\ dec' = [dec EXCEPT ![d] =
           IF reqState[decReq[d]] = "pending" THEN "loaded" ELSE "refused"]
    /\ UNCHANGED <<member, token, mail, reqVars, decReq, verdict, added,
                   confirmed, faults>>

\* Mutation: the verb of the route is stored as the state.
StoresVerb(v) == v

Decided(v) == IF v = "approve" THEN "approved" ELSE "rejected"

\* Mutation: the UPDATE lacks its state = 'pending' condition.
ClaimUnconditionally(d) ==
    /\ dec[d] = "loaded"
    /\ reqState' = [reqState EXCEPT ![decReq[d]] = Decided(verdict[d])]
    /\ dec' = [dec EXCEPT ![d] = IF verdict[d] = "approve" THEN "claimed" ELSE "done"]
    /\ UNCHANGED <<member, token, mail, join, reqSeat, seen, decReq, verdict,
                   added, confirmed, faults>>

\* Mutation: both verdicts end where a rejection ends.
ClaimAndForget(d) ==
    /\ dec[d] = "loaded"
    /\ reqState[decReq[d]] = "pending"
    /\ reqState' = [reqState EXCEPT ![decReq[d]] = Decided(verdict[d])]
    /\ dec' = [dec EXCEPT ![d] = "done"]
    /\ UNCHANGED <<member, token, mail, join, reqSeat, seen, decReq, verdict,
                   added, confirmed, faults>>

\* decideSubscriptionRequest: one UPDATE with its condition, so one of two
\* concurrent clicks wins.  A rejection ends here.
Claim(d) ==
    /\ dec[d] = "loaded"
    /\ IF reqState[decReq[d]] = "pending"
       THEN /\ reqState' = [reqState EXCEPT ![decReq[d]] = Decided(verdict[d])]
            /\ dec' = [dec EXCEPT ![d] =
                   IF verdict[d] = "approve" THEN "claimed" ELSE "done"]
       ELSE /\ dec' = [dec EXCEPT ![d] = "refused"]
            /\ UNCHANGED reqState
    /\ UNCHANGED <<member, token, mail, join, reqSeat, seen, decReq, verdict,
                   added, confirmed, faults>>

\* insertMember(status: "active"); a row that is there already is left as it is.
InsertApproved(d) ==
    LET s == reqSeat[decReq[d]]
    IN  /\ dec[d] = "claimed"
        /\ dec' = [dec EXCEPT ![d] = "done"]
        /\ member' = IF member[s] = "none" THEN [member EXCEPT ![s] = "active"]
                     ELSE member
        /\ UNCHANGED <<token, mail, reqVars, decReq, verdict, added, confirmed,
                       faults>>

\* The handler throws or dies between the decision and the INSERT.
DecisionFault(d) ==
    /\ faults < MaxFaults
    /\ dec[d] = "claimed"
    /\ dec' = [dec EXCEPT ![d] = "died"]
    /\ faults' = faults + 1
    /\ UNCHANGED <<member, token, mail, reqVars, decReq, verdict, added,
                   confirmed>>

-----------------------------------------------------------------------------
(* An admin adds somebody, who has to confirm.                             *)

\* Mutation: the row is inserted active, no confirmation is waited for.
AddActive(s) ==
    /\ member[s] = "none"
    /\ member' = [member EXCEPT ![s] = "active"]
    /\ mail' = [mail EXCEPT ![s] = "find"]
    /\ added' = added \cup {s}
    /\ UNCHANGED <<token, reqVars, decVars, confirmed, faults>>

\* insertMember with its default status, one address or one of a bulk import.
\* The mail to the new member is sent after the response.
AddMember(s) ==
    /\ member[s] = "none"
    /\ member' = [member EXCEPT ![s] = "pending_confirmation"]
    /\ mail' = [mail EXCEPT ![s] = "find"]
    /\ added' = added \cup {s}
    /\ UNCHANGED <<token, reqVars, decVars, confirmed, faults>>

\* sendConfirmationEmail, the SELECT of getOrCreateUnsubToken.
FindToken(s) ==
    /\ mail[s] = "find"
    /\ mail' = [mail EXCEPT ![s] = IF token[s] THEN "ready" ELSE "minting"]
    /\ UNCHANGED <<member, token, reqVars, decVars, added, confirmed, faults>>

\* Its INSERT: losing to another one throws, and nothing sends the mail again.
MintToken(s) ==
    /\ mail[s] = "minting"
    /\ mail' = [mail EXCEPT ![s] = IF token[s] THEN "lost" ELSE "ready"]
    /\ token' = [token EXCEPT ![s] = TRUE]
    /\ UNCHANGED <<member, reqVars, decVars, added, confirmed, faults>>

SendLink(s) ==
    /\ mail[s] = "ready"
    /\ mail' = [mail EXCEPT ![s] = "sent"]
    /\ UNCHANGED <<member, token, reqVars, decVars, added, confirmed, faults>>

\* The mail fails, and its error is only logged; or the isolate is gone.
MailFault(s) ==
    /\ faults < MaxFaults
    /\ mail[s] \in {"find", "minting", "ready"}
    /\ mail' = [mail EXCEPT ![s] = "lost"]
    /\ faults' = faults + 1
    /\ UNCHANGED <<member, token, reqVars, decVars, added, confirmed>>

\* The sender and the digests mint tokens for active members.
MintElsewhere(s) ==
    /\ member[s] = "active"
    /\ ~token[s]
    /\ token' = [token EXCEPT ![s] = TRUE]
    /\ UNCHANGED <<member, mail, reqVars, decVars, added, confirmed, faults>>

\* Mutation: the UPDATE lacks its status = 'pending_confirmation' condition.
ConfirmAny(s) ==
    /\ mail[s] = "sent"
    /\ member' = [member EXCEPT ![s] = "active"]
    /\ confirmed' = confirmed \cup {s}
    /\ UNCHANGED <<token, mail, reqVars, decVars, added, faults>>

\* confirmMember, by following the link of the mail.
Confirm(s) ==
    /\ mail[s] = "sent"
    /\ member[s] = "pending_confirmation"
    /\ member' = [member EXCEPT ![s] = "active"]
    /\ confirmed' = confirmed \cup {s}
    /\ UNCHANGED <<token, mail, reqVars, decVars, added, faults>>

-----------------------------------------------------------------------------
(* Leaving.                                                                *)

GoOff(s) ==
    /\ member[s] \notin {"none", "unsubscribed"}
    /\ member' = [member EXCEPT ![s] = "unsubscribed"]
    /\ UNCHANGED <<token, mail, reqVars, decVars, added, confirmed, faults>>

\* unsubscribeByToken: the link is in the confirmation mail and in list mail.
Unsubscribe(s) ==
    /\ token[s]
    /\ mail[s] = "sent" \/ member[s] = "active"
    /\ GoOff(s)

\* setMemberStatus(..., "unsubscribed"), by an admin.
Remove(s) == GoOff(s)

-----------------------------------------------------------------------------
JoinHandler(i) == SubmitJoin(i) \/ CheckPending(i) \/ InsertRequest(i)

DecisionHandler(d) == LoadRequest(d) \/ Claim(d) \/ InsertApproved(d)

Mailer(s) == FindToken(s) \/ MintToken(s) \/ SendLink(s)

Next ==
    \/ \E i \in Req : JoinHandler(i)
    \/ \E d \in Decision : DecisionHandler(d) \/ DecisionFault(d)
    \/ \E s \in Seat : \/ AddMember(s)
                       \/ Mailer(s)
                       \/ MailFault(s)
                       \/ MintElsewhere(s)
                       \/ Confirm(s)
                       \/ Unsubscribe(s)
                       \/ Remove(s)

Spec == Init /\ [][Next]_vars

\* A handler that has started runs on; nobody has to click or to answer.
Fairness ==
    /\ \A d \in Decision : WF_vars(dec[d] # "idle" /\ DecisionHandler(d))
    /\ \A s \in Seat : WF_vars(Mailer(s))

FairSpec == Spec /\ Fairness

-----------------------------------------------------------------------------
(* Safety.                                                                 *)

\* However many admins click, one of them decides a request, and the state
\* tells which: the others are told that it was decided already.
Winners(i) == {d \in Decision : decReq[d] = i /\ dec[d] \in {"claimed", "done", "died"}}

OneDecision ==
    \A i \in Req :
        /\ \A d, e \in Winners(i) : d = e
        /\ reqState[i] \in {"approved", "rejected"} =>
               \E d \in Winners(i) : reqState[i] = Decided(verdict[d])

\* Two requests for one seat are pending together only if the submissions
\* overlapped: neither was in the table when the other one looked.
DuplicatesOverlap ==
    \A i, j \in Req :
        i # j /\ reqSeat[i] = reqSeat[j]
              /\ reqState[i] = "pending" /\ reqState[j] = "pending" =>
            i \notin seen[j] /\ j \notin seen[i]

\* A confirmation mail is never lost to the race for the token: whoever still
\* waits for it is not active, and tokens are minted elsewhere for active
\* members alone.
LinkLostOnlyToFaults ==
    \A s \in Seat : mail[s] = "lost" => faults > 0

-----------------------------------------------------------------------------
(* The inductive invariant behind the theorems of MembershipProofs.        *)

\* A request is in the table once its handler is through.
InsertedIsStored ==
    \A i \in Req : reqState[i] # "none" <=> join[i] = "inserted"

\* What a submission saw of its own seat when it looked had been decided.
SeenWasDecided ==
    \A i, j \in Req :
        join[i] \in {"clear", "inserted"} /\ j \in seen[i] /\ reqSeat[i] = reqSeat[j] =>
            j # i /\ reqState[j] \in {"approved", "rejected"}

\* The click that won wrote its verdict, and a rejection is done with that.
WinnerDecided ==
    \A d \in Decision :
        dec[d] \in {"claimed", "done", "died"} =>
            /\ reqState[decReq[d]] = Decided(verdict[d])
            /\ dec[d] = "claimed" => verdict[d] = "approve"

\* Until the confirmation mail has its token nobody else mints one: the row is
\* not active, and before there is a row there is neither mail nor token.
MailBeforeToken ==
    \A s \in Seat :
        /\ member[s] = "none" => mail[s] = "none" /\ ~token[s]
        /\ member[s] = "pending_confirmation" => s \in added
        /\ mail[s] \in {"find", "minting", "ready", "lost"} => member[s] # "active"
        /\ mail[s] \in {"find", "minting"} => ~token[s]

IInv ==
    /\ TypeOK
    /\ InsertedIsStored
    /\ SeenWasDecided
    /\ WinnerDecided
    /\ OneDecision
    /\ MailBeforeToken
    /\ LinkLostOnlyToFaults

-----------------------------------------------------------------------------
(* The promise about who is on a list.                                     *)

yes == {s \in Seat : \E i \in Req : reqSeat[i] = s /\ reqState[i] # "none"}
           \cup confirmed

letIn == {s \in Seat : \E i \in Req : reqSeat[i] = s /\ reqState[i] = "approved"}
             \cup added

seat == [s \in Seat |-> CASE member[s] = "unsubscribed" -> "gone"
                          [] member[s] = "active" -> "in"
                          [] OTHER -> "out"]

Promise == INSTANCE Consent

\* Nobody is on a list without the person's yes and an admin's, and leaving is
\* for good, whatever links are followed and requests approved afterwards.
KeepsConsent == Promise!Spec

\* The handler that claimed the request died before its INSERT: the request stays
\* approved, and no other click will carry it out.
ClaimLost(i) == \E d \in Decision : decReq[d] = i /\ dec[d] = "died"

\* An approval gives the seat a member row, whatever other handlers are lost: only
\* the death of the one that claimed the request can undo it.
ApprovalTakesEffect ==
    \A i \in Req :
        reqState[i] = "approved" ~> member[reqSeat[i]] # "none" \/ ClaimLost(i)

-----------------------------------------------------------------------------
(* What the pages say, and the code does not do.                           *)

\* "After approval you'll start receiving messages": the approval leaves the
\* seat active.
ApprovedReceives ==
    [][\A d \in Decision :
          dec[d] = "claimed" /\ dec'[d] = "done" =>
              member'[reqSeat[decReq[d]]] = "active"]_vars
=============================================================================
