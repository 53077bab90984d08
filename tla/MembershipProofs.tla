-------------------------- MODULE MembershipProofs --------------------------
(***************************************************************************)
(* Theorems about Membership, for every number of lists, addresses,        *)
(* submissions and clicks: types, one decision per request, the invariants *)
(* on duplicates and confirmation mails, and that it implements Consent.   *)
(***************************************************************************)
EXTENDS Membership, TLAPS

\* Types, action by action.
LEMMA TypeStep ==
    TypeOK
        /\ [Next]_vars => TypeOK'
  <1> SUFFICES ASSUME TypeOK, [Next]_vars
               PROVE  TypeOK'
    OBVIOUS
  <1> USE MembershipAssumption DEF reqVars, decVars, TypeOK
  <1>1. CASE UNCHANGED vars
    BY <1>1 DEF vars
  <1>2. ASSUME NEW i \in Req, SubmitJoin(i)
        PROVE  TypeOK'
    BY <1>2 DEF SubmitJoin
  <1>3. ASSUME NEW i \in Req, CheckPending(i)
        PROVE  TypeOK'
    BY <1>3 DEF CheckPending, PendingFor
  <1>4. ASSUME NEW i \in Req, InsertRequest(i)
        PROVE  TypeOK'
    BY <1>4 DEF InsertRequest
  <1>5. ASSUME NEW d \in Decision, LoadRequest(d)
        PROVE  TypeOK'
    BY <1>5 DEF LoadRequest
  <1>6. ASSUME NEW d \in Decision, Claim(d)
        PROVE  TypeOK'
    BY <1>6 DEF Claim, Decided
  <1>7. ASSUME NEW d \in Decision, InsertApproved(d)
        PROVE  TypeOK'
    BY <1>7 DEF InsertApproved
  <1>8. ASSUME NEW d \in Decision, DecisionFault(d)
        PROVE  TypeOK'
    BY <1>8 DEF DecisionFault
  <1>9. ASSUME NEW s \in Seat, AddMember(s)
        PROVE  TypeOK'
    BY <1>9 DEF AddMember
  <1>10. ASSUME NEW s \in Seat, FindToken(s)
        PROVE  TypeOK'
    BY <1>10 DEF FindToken
  <1>11. ASSUME NEW s \in Seat, MintToken(s)
        PROVE  TypeOK'
    BY <1>11 DEF MintToken
  <1>12. ASSUME NEW s \in Seat, SendLink(s)
        PROVE  TypeOK'
    BY <1>12 DEF SendLink
  <1>13. ASSUME NEW s \in Seat, MailFault(s)
        PROVE  TypeOK'
    BY <1>13 DEF MailFault
  <1>14. ASSUME NEW s \in Seat, MintElsewhere(s)
        PROVE  TypeOK'
    BY <1>14 DEF MintElsewhere
  <1>15. ASSUME NEW s \in Seat, Confirm(s)
        PROVE  TypeOK'
    BY <1>15 DEF Confirm
  <1>16. ASSUME NEW s \in Seat, Unsubscribe(s)
        PROVE  TypeOK'
    BY <1>16 DEF Unsubscribe, GoOff
  <1>17. ASSUME NEW s \in Seat, Remove(s)
        PROVE  TypeOK'
    BY <1>17 DEF Remove, GoOff
  <1> QED
    BY <1>1, <1>2, <1>3, <1>4, <1>5, <1>6, <1>7, <1>8, <1>9, <1>10,
       <1>11, <1>12, <1>13, <1>14, <1>15, <1>16, <1>17
       DEF Next, JoinHandler, DecisionHandler, Mailer

\* Only InsertRequest makes a row, and no row is deleted.
LEMMA InsertedIsStoredStep ==
    TypeOK /\ InsertedIsStored
        /\ [Next]_vars => InsertedIsStored'
  <1> SUFFICES ASSUME TypeOK, InsertedIsStored, [Next]_vars
               PROVE  InsertedIsStored'
    OBVIOUS
  <1> USE MembershipAssumption DEF reqVars, decVars, TypeOK, InsertedIsStored,
        Decided
  <1>1. CASE UNCHANGED vars
    BY <1>1 DEF vars
  <1>2. ASSUME NEW i \in Req, SubmitJoin(i)
        PROVE  InsertedIsStored'
    BY <1>2 DEF SubmitJoin
  <1>3. ASSUME NEW i \in Req, CheckPending(i)
        PROVE  InsertedIsStored'
    BY <1>3 DEF CheckPending, PendingFor
  <1>4. ASSUME NEW i \in Req, InsertRequest(i)
        PROVE  InsertedIsStored'
    BY <1>4 DEF InsertRequest
  <1>5. ASSUME NEW d \in Decision, Claim(d)
        PROVE  InsertedIsStored'
    BY <1>5 DEF Claim, Decided
  <1>6. ASSUME NEW d \in Decision,
               LoadRequest(d) \/ InsertApproved(d) \/ DecisionFault(d)
        PROVE  InsertedIsStored'
    BY <1>6 DEF LoadRequest, InsertApproved, DecisionFault
  <1>7. ASSUME NEW s \in Seat,
               AddMember(s) \/ FindToken(s) \/ MintToken(s) \/
               SendLink(s) \/ MailFault(s) \/ MintElsewhere(s) \/
               Confirm(s) \/ Unsubscribe(s) \/ Remove(s)
        PROVE  InsertedIsStored'
    BY <1>7 DEF AddMember, FindToken, MintToken, SendLink, MailFault,
        MintElsewhere, Confirm, Unsubscribe, Remove, GoOff
  <1> QED
    BY <1>1, <1>2, <1>3, <1>4, <1>5, <1>6, <1>7
       DEF Next, JoinHandler, DecisionHandler, Mailer

\* CheckPending goes on only if no pending request of the seat is seen, and a
\* decision is never taken back.
LEMMA SeenWasDecidedStep ==
    TypeOK /\ InsertedIsStored /\ SeenWasDecided
        /\ [Next]_vars => SeenWasDecided'
  <1> SUFFICES ASSUME TypeOK, InsertedIsStored, SeenWasDecided, [Next]_vars
               PROVE  SeenWasDecided'
    OBVIOUS
  <1> USE MembershipAssumption DEF reqVars, decVars, TypeOK, InsertedIsStored,
        SeenWasDecided
  <1>1. CASE UNCHANGED vars
    BY <1>1 DEF vars
  <1>2. ASSUME NEW i \in Req, SubmitJoin(i)
        PROVE  SeenWasDecided'
    BY <1>2 DEF SubmitJoin
  <1>3. ASSUME NEW i \in Req, CheckPending(i)
        PROVE  SeenWasDecided'
    BY <1>3 DEF CheckPending, PendingFor
  <1>4. ASSUME NEW i \in Req, InsertRequest(i)
        PROVE  SeenWasDecided'
    BY <1>4 DEF InsertRequest
  <1>5. ASSUME NEW d \in Decision, Claim(d)
        PROVE  SeenWasDecided'
    BY <1>5 DEF Claim, Decided
  <1>6. ASSUME NEW d \in Decision,
               LoadRequest(d) \/ InsertApproved(d) \/ DecisionFault(d)
        PROVE  SeenWasDecided'
    BY <1>6 DEF LoadRequest, InsertApproved, DecisionFault
  <1>7. ASSUME NEW s \in Seat,
               AddMember(s) \/ FindToken(s) \/ MintToken(s) \/
               SendLink(s) \/ MailFault(s) \/ MintElsewhere(s) \/
               Confirm(s) \/ Unsubscribe(s) \/ Remove(s)
        PROVE  SeenWasDecided'
    BY <1>7 DEF AddMember, FindToken, MintToken, SendLink, MailFault,
        MintElsewhere, Confirm, Unsubscribe, Remove, GoOff
  <1> QED
    BY <1>1, <1>2, <1>3, <1>4, <1>5, <1>6, <1>7
       DEF Next, JoinHandler, DecisionHandler, Mailer

\* The state that Claim writes is not pending, so no later click changes it.
LEMMA WinnerDecidedStep ==
    TypeOK /\ InsertedIsStored /\ WinnerDecided
        /\ [Next]_vars => WinnerDecided'
  <1> SUFFICES ASSUME TypeOK, InsertedIsStored, WinnerDecided, [Next]_vars
               PROVE  WinnerDecided'
    OBVIOUS
  <1> USE MembershipAssumption DEF reqVars, decVars, TypeOK, InsertedIsStored,
        WinnerDecided, Decided
  <1>1. CASE UNCHANGED vars
    BY <1>1 DEF vars
  <1>2. ASSUME NEW i \in Req, InsertRequest(i)
        PROVE  WinnerDecided'
    BY <1>2 DEF InsertRequest
  <1>3. ASSUME NEW d \in Decision, LoadRequest(d)
        PROVE  WinnerDecided'
    BY <1>3 DEF LoadRequest
  <1>4. ASSUME NEW d \in Decision, Claim(d)
        PROVE  WinnerDecided'
    BY <1>4 DEF Claim, Decided
  <1>5. ASSUME NEW d \in Decision, InsertApproved(d)
        PROVE  WinnerDecided'
    BY <1>5 DEF InsertApproved
  <1>6. ASSUME NEW d \in Decision, DecisionFault(d)
        PROVE  WinnerDecided'
    BY <1>6 DEF DecisionFault
  <1>7. ASSUME NEW i \in Req,
               SubmitJoin(i) \/ CheckPending(i)
        PROVE  WinnerDecided'
    BY <1>7 DEF SubmitJoin, CheckPending, PendingFor
  <1>8. ASSUME NEW s \in Seat,
               AddMember(s) \/ FindToken(s) \/ MintToken(s) \/
               SendLink(s) \/ MailFault(s) \/ MintElsewhere(s) \/
               Confirm(s) \/ Unsubscribe(s) \/ Remove(s)
        PROVE  WinnerDecided'
    BY <1>8 DEF AddMember, FindToken, MintToken, SendLink, MailFault,
        MintElsewhere, Confirm, Unsubscribe, Remove, GoOff
  <1> QED
    BY <1>1, <1>2, <1>3, <1>4, <1>5, <1>6, <1>7, <1>8
       DEF Next, JoinHandler, DecisionHandler, Mailer

\* A request that can be claimed has no winner yet.
LEMMA OneDecisionStep ==
    TypeOK /\ InsertedIsStored /\ WinnerDecided /\ OneDecision
        /\ [Next]_vars => OneDecision'
  <1> SUFFICES ASSUME TypeOK, InsertedIsStored, WinnerDecided, OneDecision,
                      [Next]_vars
               PROVE  OneDecision'
    OBVIOUS
  <1> USE MembershipAssumption DEF reqVars, decVars, TypeOK, InsertedIsStored,
        WinnerDecided, OneDecision, Winners, Decided
  <1>1. CASE UNCHANGED vars
    BY <1>1 DEF vars
  <1>2. ASSUME NEW i \in Req, InsertRequest(i)
        PROVE  OneDecision'
    BY <1>2 DEF InsertRequest
  <1>3. ASSUME NEW d \in Decision, LoadRequest(d)
        PROVE  OneDecision'
    BY <1>3 DEF LoadRequest
  <1>4. ASSUME NEW d \in Decision, Claim(d)
        PROVE  OneDecision'
    BY <1>4 DEF Claim, Decided
  <1>5. ASSUME NEW d \in Decision, InsertApproved(d)
        PROVE  OneDecision'
    BY <1>5 DEF InsertApproved
  <1>6. ASSUME NEW d \in Decision, DecisionFault(d)
        PROVE  OneDecision'
    BY <1>6 DEF DecisionFault
  <1>7. ASSUME NEW i \in Req,
               SubmitJoin(i) \/ CheckPending(i)
        PROVE  OneDecision'
    BY <1>7 DEF SubmitJoin, CheckPending, PendingFor
  <1>8. ASSUME NEW s \in Seat,
               AddMember(s) \/ FindToken(s) \/ MintToken(s) \/
               SendLink(s) \/ MailFault(s) \/ MintElsewhere(s) \/
               Confirm(s) \/ Unsubscribe(s) \/ Remove(s)
        PROVE  OneDecision'
    BY <1>8 DEF AddMember, FindToken, MintToken, SendLink, MailFault,
        MintElsewhere, Confirm, Unsubscribe, Remove, GoOff
  <1> QED
    BY <1>1, <1>2, <1>3, <1>4, <1>5, <1>6, <1>7, <1>8
       DEF Next, JoinHandler, DecisionHandler, Mailer

\* A row that waits for its mail is 'pending_confirmation' or has been removed.
LEMMA MailBeforeTokenStep ==
    TypeOK /\ MailBeforeToken
        /\ [Next]_vars => MailBeforeToken'
  <1> SUFFICES ASSUME TypeOK, MailBeforeToken, [Next]_vars
               PROVE  MailBeforeToken'
    OBVIOUS
  <1> USE MembershipAssumption DEF reqVars, decVars, TypeOK, MailBeforeToken
  <1>1. CASE UNCHANGED vars
    BY <1>1 DEF vars
  <1>2. ASSUME NEW d \in Decision, InsertApproved(d)
        PROVE  MailBeforeToken'
    BY <1>2 DEF InsertApproved
  <1>3. ASSUME NEW s \in Seat, AddMember(s)
        PROVE  MailBeforeToken'
    BY <1>3 DEF AddMember
  <1>4. ASSUME NEW s \in Seat, FindToken(s)
        PROVE  MailBeforeToken'
    BY <1>4 DEF FindToken
  <1>5. ASSUME NEW s \in Seat, MintToken(s)
        PROVE  MailBeforeToken'
    BY <1>5 DEF MintToken
  <1>6. ASSUME NEW s \in Seat, SendLink(s)
        PROVE  MailBeforeToken'
    BY <1>6 DEF SendLink
  <1>7. ASSUME NEW s \in Seat, MailFault(s)
        PROVE  MailBeforeToken'
    BY <1>7 DEF MailFault
  <1>8. ASSUME NEW s \in Seat, MintElsewhere(s)
        PROVE  MailBeforeToken'
    BY <1>8 DEF MintElsewhere
  <1>9. ASSUME NEW s \in Seat, Confirm(s)
        PROVE  MailBeforeToken'
    BY <1>9 DEF Confirm
  <1>10. ASSUME NEW s \in Seat, Unsubscribe(s)
        PROVE  MailBeforeToken'
    BY <1>10 DEF Unsubscribe, GoOff
  <1>11. ASSUME NEW s \in Seat, Remove(s)
        PROVE  MailBeforeToken'
    BY <1>11 DEF Remove, GoOff
  <1>12. ASSUME NEW i \in Req,
               SubmitJoin(i) \/ CheckPending(i) \/ InsertRequest(i)
        PROVE  MailBeforeToken'
    BY <1>12 DEF SubmitJoin, CheckPending, InsertRequest, PendingFor
  <1>13. ASSUME NEW d \in Decision,
               LoadRequest(d) \/ Claim(d) \/ DecisionFault(d)
        PROVE  MailBeforeToken'
    BY <1>13 DEF LoadRequest, Claim, DecisionFault, Decided
  <1> QED
    BY <1>1, <1>2, <1>3, <1>4, <1>5, <1>6, <1>7, <1>8, <1>9, <1>10,
       <1>11, <1>12, <1>13
       DEF Next, JoinHandler, DecisionHandler, Mailer

\* MintToken finds no token in its way.
LEMMA LinkStep ==
    TypeOK /\ MailBeforeToken /\ LinkLostOnlyToFaults
        /\ [Next]_vars => LinkLostOnlyToFaults'
  <1> SUFFICES ASSUME TypeOK, MailBeforeToken, LinkLostOnlyToFaults,
                      [Next]_vars
               PROVE  LinkLostOnlyToFaults'
    OBVIOUS
  <1> USE MembershipAssumption DEF reqVars, decVars, TypeOK, MailBeforeToken,
        LinkLostOnlyToFaults
  <1>1. CASE UNCHANGED vars
    BY <1>1 DEF vars
  <1>2. ASSUME NEW d \in Decision, DecisionFault(d)
        PROVE  LinkLostOnlyToFaults'
    BY <1>2 DEF DecisionFault
  <1>3. ASSUME NEW s \in Seat, AddMember(s)
        PROVE  LinkLostOnlyToFaults'
    BY <1>3 DEF AddMember
  <1>4. ASSUME NEW s \in Seat, FindToken(s)
        PROVE  LinkLostOnlyToFaults'
    BY <1>4 DEF FindToken
  <1>5. ASSUME NEW s \in Seat, MintToken(s)
        PROVE  LinkLostOnlyToFaults'
    BY <1>5 DEF MintToken
  <1>6. ASSUME NEW s \in Seat, SendLink(s)
        PROVE  LinkLostOnlyToFaults'
    BY <1>6 DEF SendLink
  <1>7. ASSUME NEW s \in Seat, MailFault(s)
        PROVE  LinkLostOnlyToFaults'
    BY <1>7 DEF MailFault
  <1>8. ASSUME NEW i \in Req,
               SubmitJoin(i) \/ CheckPending(i) \/ InsertRequest(i)
        PROVE  LinkLostOnlyToFaults'
    BY <1>8 DEF SubmitJoin, CheckPending, InsertRequest, PendingFor
  <1>9. ASSUME NEW d \in Decision,
               LoadRequest(d) \/ Claim(d) \/ InsertApproved(d)
        PROVE  LinkLostOnlyToFaults'
    BY <1>9 DEF LoadRequest, Claim, InsertApproved, Decided
  <1>10. ASSUME NEW s \in Seat,
               MintElsewhere(s) \/ Confirm(s) \/ Unsubscribe(s) \/
               Remove(s)
        PROVE  LinkLostOnlyToFaults'
    BY <1>10 DEF MintElsewhere, Confirm, Unsubscribe, Remove, GoOff
  <1> QED
    BY <1>1, <1>2, <1>3, <1>4, <1>5, <1>6, <1>7, <1>8, <1>9, <1>10
       DEF Next, JoinHandler, DecisionHandler, Mailer

-----------------------------------------------------------------------------
LEMMA InitInductive == Init => IInv
  BY MembershipAssumption
  DEF Init, IInv, TypeOK, InsertedIsStored, SeenWasDecided, WinnerDecided,
      OneDecision, Winners, MailBeforeToken, LinkLostOnlyToFaults

LEMMA Inductive == IInv /\ [Next]_vars => IInv'
  BY TypeStep, InsertedIsStoredStep, SeenWasDecidedStep, WinnerDecidedStep,
     OneDecisionStep, MailBeforeTokenStep, LinkStep
  DEF IInv

LEMMA Invariance == Spec => []IInv
  BY InitInductive, Inductive, PTL DEF Spec

\* Every variable keeps its type.
THEOREM MembershipTyped == Spec => []TypeOK
  <1>1. IInv => TypeOK
    BY DEF IInv
  <1> QED
    BY <1>1, Invariance, PTL

\* However many clicks there are on a request, exactly one of them decides it.
THEOREM DecidedOnce == Spec => []OneDecision
  <1>1. IInv => OneDecision
    BY DEF IInv
  <1> QED
    BY <1>1, Invariance, PTL

\* Two requests for one seat can be pending only from overlapping submissions.
THEOREM DuplicatesNeedOverlap == Spec => []DuplicatesOverlap
  <1>1. IInv => DuplicatesOverlap
    BY DEF IInv, TypeOK, InsertedIsStored, SeenWasDecided, DuplicatesOverlap
  <1> QED
    BY <1>1, Invariance, PTL

\* No confirmation mail is lost to a race for the token.
THEOREM LinkLossNeedsFault == Spec => []LinkLostOnlyToFaults
  <1>1. IInv => LinkLostOnlyToFaults
    BY DEF IInv
  <1> QED
    BY <1>1, Invariance, PTL

-----------------------------------------------------------------------------
(* What an approval leaves behind, whatever the time it takes.             *)

\* A click that approved and is done has given the seat a row.
DoneIsSeated ==
    \A d \in Decision :
        dec[d] = "done" /\ verdict[d] = "approve" =>
            member[reqSeat[decReq[d]]] # "none"

\* Claim is done at once only with a rejection, and no row is ever taken away.
LEMMA DoneIsSeatedStep ==
    IInv /\ DoneIsSeated /\ [Next]_vars => DoneIsSeated'
  <1> SUFFICES ASSUME TypeOK, DoneIsSeated, [Next]_vars
               PROVE  DoneIsSeated'
    BY DEF IInv
  <1> USE MembershipAssumption DEF reqVars, decVars, TypeOK, DoneIsSeated
  <1>1. CASE UNCHANGED vars
    BY <1>1 DEF vars
  <1>2. ASSUME NEW i \in Req, JoinHandler(i)
        PROVE  DoneIsSeated'
    BY <1>2 DEF JoinHandler, SubmitJoin, CheckPending, InsertRequest
  <1>3. ASSUME NEW d \in Decision, LoadRequest(d)
        PROVE  DoneIsSeated'
    BY <1>3 DEF LoadRequest
  <1>4. ASSUME NEW d \in Decision, Claim(d)
        PROVE  DoneIsSeated'
    BY <1>4 DEF Claim
  <1>5. ASSUME NEW d \in Decision, InsertApproved(d)
        PROVE  DoneIsSeated'
    <2>1. /\ dec' = [dec EXCEPT ![d] = "done"]
          /\ UNCHANGED <<reqSeat, decReq, verdict, faults>>
      BY <1>5 DEF InsertApproved
    <2>2. member'[reqSeat[decReq[d]]] # "none"
      BY <1>5 DEF InsertApproved
    <2>3. \A s \in Seat : member[s] # "none" => member'[s] # "none"
      BY <1>5 DEF InsertApproved
    <2> QED
      BY <2>1, <2>2, <2>3
  <1>6. ASSUME NEW d \in Decision, DecisionFault(d)
        PROVE  DoneIsSeated'
    BY <1>6 DEF DecisionFault
  <1>7. ASSUME NEW s \in Seat, Mailer(s) \/ MintElsewhere(s) \/ MailFault(s)
        PROVE  DoneIsSeated'
    BY <1>7 DEF Mailer, FindToken, MintToken, SendLink, MintElsewhere, MailFault
  <1>8. ASSUME NEW s \in Seat,
               AddMember(s) \/ Confirm(s) \/ Unsubscribe(s) \/ Remove(s)
        PROVE  DoneIsSeated'
    <2>1. UNCHANGED <<dec, reqSeat, decReq, verdict, faults>>
      BY <1>8 DEF AddMember, Confirm, Unsubscribe, Remove, GoOff
    <2>2. \A t \in Seat : member[t] # "none" => member'[t] # "none"
      BY <1>8 DEF AddMember, Confirm, Unsubscribe, Remove, GoOff
    <2> QED
      BY <2>1, <2>2
  <1> QED
    BY <1>1, <1>2, <1>3, <1>4, <1>5, <1>6, <1>7, <1>8 DEF Next, DecisionHandler

\* What becomes of the seat of an approved request.
ApprovedIsSeated ==
    \A i \in Req :
        reqState[i] = "approved" =>
            \/ member[reqSeat[i]] \in {"active", "unsubscribed"}
            \/ member[reqSeat[i]] = "pending_confirmation" /\ reqSeat[i] \in added
            \/ \E d \in Decision : decReq[d] = i /\ dec[d] = "claimed"
            \/ ClaimLost(i)

\* An approved seat is on the list or has left it, waits for the confirmation that
\* an admin's addition asks for, or its INSERT is under way: only the death of the
\* handler that claimed the request loses an approval.
THEOREM ApprovalsAreKept == Spec => []ApprovedIsSeated
  <1>1. Init => DoneIsSeated
    BY DEF Init, DoneIsSeated
  <1>2. Spec => []DoneIsSeated
    BY <1>1, DoneIsSeatedStep, Invariance, PTL DEF Spec
  <1>3. IInv /\ DoneIsSeated => ApprovedIsSeated
    <2> SUFFICES ASSUME IInv, DoneIsSeated, NEW i \in Req, reqState[i] = "approved",
                        \A d \in Decision : ~(decReq[d] = i /\ dec[d] = "claimed"),
                        ~ClaimLost(i)
                 PROVE  \/ member[reqSeat[i]] \in {"active", "unsubscribed"}
                        \/ member[reqSeat[i]] = "pending_confirmation"
                               /\ reqSeat[i] \in added
      BY DEF ApprovedIsSeated
    <2>1. PICK d \in Winners(i) : reqState[i] = Decided(verdict[d])
      BY DEF IInv, OneDecision
    <2>2. d \in Decision /\ decReq[d] = i /\ dec[d] \in {"done", "died"}
      BY <2>1 DEF Winners
    <2>3. dec[d] = "done"
      BY <2>2 DEF ClaimLost
    <2>4. verdict[d] = "approve"
      BY <2>1 DEF Decided
    <2>5. member[reqSeat[i]] # "none"
      BY <2>2, <2>3, <2>4 DEF DoneIsSeated
    <2>6. reqSeat[i] \in Seat /\ member[reqSeat[i]] \in
              {"none", "pending_confirmation", "active", "unsubscribed"}
      BY DEF IInv, TypeOK
    <2>7. member[reqSeat[i]] = "pending_confirmation" => reqSeat[i] \in added
      BY <2>6 DEF IInv, MailBeforeToken
    <2> QED
      BY <2>5, <2>6, <2>7
  <1> QED
    BY <1>2, <1>3, Invariance, PTL

-----------------------------------------------------------------------------
(* Membership keeps the promise of Consent.                                *)

LEMMA ConsentInit == Init => Promise!Init
  BY DEF Init, Promise!Init, yes, letIn, seat

\* A submission or a followed link is the person's yes, an approval or an admin's
\* own addition the list's; rows are entered only when both are there.
LEMMA ConsentStep ==
    IInv /\ [Next]_vars => [Promise!Next]_(Promise!vars)
  <1> SUFFICES ASSUME IInv, [Next]_vars
               PROVE  [Promise!Next]_(Promise!vars)
    OBVIOUS
  <1> USE DEF reqVars, decVars, IInv, TypeOK, yes, letIn, seat, Promise!vars
  <1>1. CASE UNCHANGED vars
    BY <1>1 DEF vars
  <1>2. ASSUME NEW i \in Req,
               SubmitJoin(i) \/ CheckPending(i)
        PROVE  UNCHANGED Promise!vars
    BY <1>2 DEF SubmitJoin, CheckPending
  <1>3. ASSUME NEW i \in Req, InsertRequest(i)
        PROVE  \E s \in Seat : Promise!SayYes(s)
    <2> PICK s \in Seat : s = reqSeat[i]
      OBVIOUS
    <2>1. Promise!SayYes(s)
      BY <1>3 DEF InsertRequest, InsertedIsStored, Promise!SayYes
    <2> QED
      BY <2>1
  <1>4. ASSUME NEW d \in Decision,
               LoadRequest(d) \/ DecisionFault(d)
        PROVE  UNCHANGED Promise!vars
    BY <1>4 DEF LoadRequest, DecisionFault
  <1>5. ASSUME NEW d \in Decision, Claim(d)
        PROVE  Promise!Next \/ UNCHANGED Promise!vars
    <2> PICK s \in Seat : s = reqSeat[decReq[d]]
      OBVIOUS
    <2>1. CASE reqState[decReq[d]] = "pending" /\ verdict[d] = "approve"
      <3>1. Promise!LetIn(s)
        BY <1>5, <2>1 DEF Claim, Decided, Promise!LetIn
      <3> QED
        BY <3>1 DEF Promise!Next
    <2>2. CASE ~(reqState[decReq[d]] = "pending" /\ verdict[d] = "approve")
      BY <1>5, <2>2 DEF Claim, Decided
    <2> QED
      BY <2>1, <2>2
  <1>6. ASSUME NEW d \in Decision, InsertApproved(d)
        PROVE  Promise!Next \/ UNCHANGED Promise!vars
    <2> PICK s \in Seat : s = reqSeat[decReq[d]]
      OBVIOUS
    <2>1. CASE member[s] = "none"
      <3>1. reqState[decReq[d]] = "approved"
        BY <1>6 DEF InsertApproved, WinnerDecided, Decided
      <3>2. Promise!Enter(s)
        BY <1>6, <2>1, <3>1 DEF InsertApproved, Promise!Enter
      <3> QED
        BY <3>2 DEF Promise!Next
    <2>2. CASE member[s] # "none"
      BY <1>6, <2>2 DEF InsertApproved
    <2> QED
      BY <2>1, <2>2
  <1>7. ASSUME NEW s \in Seat,
               FindToken(s) \/ MintToken(s) \/ SendLink(s) \/
               MailFault(s) \/ MintElsewhere(s)
        PROVE  UNCHANGED Promise!vars
    BY <1>7 DEF FindToken, MintToken, SendLink, MailFault, MintElsewhere
  <1>8. ASSUME NEW s \in Seat, AddMember(s)
        PROVE  Promise!LetIn(s)
    BY <1>8 DEF AddMember, Promise!LetIn
  <1>9. ASSUME NEW s \in Seat, Confirm(s)
        PROVE  Promise!Enter(s)
    BY ZenonT(40), <1>9 DEF Confirm, MailBeforeToken, Promise!Enter
  <1>10. ASSUME NEW s \in Seat, Unsubscribe(s)
        PROVE  Promise!Go(s)
    BY ZenonT(40), <1>10 DEF Unsubscribe, GoOff, Promise!Go
  <1>11. ASSUME NEW s \in Seat, Remove(s)
        PROVE  Promise!Go(s)
    BY ZenonT(40), <1>11 DEF Remove, GoOff, Promise!Go
  <1> QED
    BY <1>1, <1>2, <1>3, <1>4, <1>5, <1>6, <1>7, <1>8, <1>9, <1>10,
       <1>11
       DEF Next, JoinHandler, DecisionHandler, Mailer, Promise!Next

\* Nobody is on a list without both consents, and leaving is for good.
THEOREM MembershipImplements == Spec => KeepsConsent
  BY ConsentInit, ConsentStep, Invariance, PTL
  DEF Spec, KeepsConsent, Promise!Spec
=============================================================================
