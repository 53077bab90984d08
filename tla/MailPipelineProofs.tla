------------------------- MODULE MailPipelineProofs -------------------------
(***************************************************************************)
(* Theorems about MailPipeline, for every list, every number of posts and  *)
(* members and every retry limit: types, the safety invariants, and that   *)
(* the pipeline implements ListPromise.                                    *)
(*                                                                         *)
(* Every lemma on a step has one leaf per action of Next; the inductive    *)
(* invariant is IInv of MailPipeline.                                      *)
(***************************************************************************)
EXTENDS MailPipeline, FiniteSetTheorems, WellFoundedInduction, TLAPS

\* The constants and the initial values have the types TypeOK gives them.
LEMMA TypeInit == Init => TypeOK
  BY PipelineAssumption
  DEF Init, TypeOK, MemberStatus, InboundState, JobState, Held, Unread, Cleared,
      Refused, Mailed

\* What SenderFault may do to one job: nothing, or cost it an attempt.
Loses(n, s) ==
    \/ job'[n][s] = job[n][s] /\ attempts'[n][s] = attempts[n][s]
    \/ /\ \/ job[n][s] \in Held /\ attempts'[n][s] = attempts[n][s]
          \/ job[n][s] = "pending" /\ attempts'[n][s] = attempts[n][s] + 1
       /\ job'[n][s] = AfterFailure(attempts'[n][s])

LEMMA LostAttempts ==
    ASSUME NEW m \in Msg, NEW r \in Member, NEW B \in SUBSET Pending,
           SenderFault(m, r, B), NEW n \in Msg, NEW s \in Member
    PROVE  Loses(n, s)
  <1>1. CASE n = m /\ s = r
    <2>1. job[n][s] \in Held /\ <<n, s>> \notin B
      BY <1>1 DEF SenderFault, Pending, Held, Unread, Cleared, Refused, Mailed
    <2> QED
      BY <1>1, <2>1 DEF SenderFault, LoseAttempts, Loses
  <1>2. CASE ~(n = m /\ s = r) /\ <<n, s>> \in B
    BY <1>2 DEF SenderFault, LoseAttempts, Loses, Pending
  <1>3. CASE ~(n = m /\ s = r) /\ <<n, s>> \notin B
    BY <1>3 DEF SenderFault, LoseAttempts, Loses
  <1> QED
    BY <1>1, <1>2, <1>3

\* Types.  The attempt that Lease starts is within the bound because a job still
\* in the queue has one left.
LEMMA TypeStep ==
    TypeOK /\ AttemptsPayForCopies
        /\ [Next]_vars => TypeOK'
  <1> SUFFICES ASSUME TypeOK, AttemptsPayForCopies, [Next]_vars
               PROVE  TypeOK'
    OBVIOUS
  <1> USE PipelineAssumption DEF inboundVars, jobVars, TypeOK, MemberStatus,
        InboundState, InboundBusy, JobState, Held, Unread, Cleared, Refused,
        Mailed, AttemptsPayForCopies, PaysForCopies
  <1>1. CASE UNCHANGED vars
    BY <1>1 DEF vars
  <1>2. ASSUME NEW r \in Member, Confirm(r)
        PROVE  TypeOK'
    BY <1>2 DEF Confirm
  <1>3. ASSUME NEW r \in Member, Leave(r)
        PROVE  TypeOK'
    BY <1>3 DEF Leave
  <1>4. ASSUME NEW r \in Member, MintElsewhere(r)
        PROVE  TypeOK'
    BY <1>4 DEF MintElsewhere
  <1>5. ASSUME NEW m \in Msg, Validate(m)
        PROVE  TypeOK'
    BY <1>5 DEF Validate
  <1>6. ASSUME NEW m \in Msg, StoreMessage(m)
        PROVE  TypeOK'
    BY <1>6 DEF StoreMessage
  <1>7. ASSUME NEW m \in Msg, SnapshotMembers(m)
        PROVE  TypeOK'
    BY <1>7 DEF SnapshotMembers, ListActiveMembers
  <1>8. ASSUME NEW m \in Msg, FinishFanout(m)
        PROVE  TypeOK'
    BY <1>8 DEF FinishFanout
  <1>9. ASSUME NEW m \in Msg, AppendAudit(m)
        PROVE  TypeOK'
    BY <1>9 DEF AppendAudit
  <1>10. ASSUME NEW m \in Msg, InboundFault(m)
        PROVE  TypeOK'
    BY <1>10 DEF InboundFault
  <1>11. ASSUME NEW m \in Msg, NEW r \in Member, InsertDelivery(m, r)
        PROVE  TypeOK'
    BY <1>11 DEF InsertDelivery
  <1>12. ASSUME NEW m \in Msg, NEW r \in Member, Enqueue(m, r)
        PROVE  TypeOK'
    BY <1>12 DEF Enqueue
  <1>13. ASSUME NEW m \in Msg, NEW r \in Member, Lease(m, r)
        PROVE  TypeOK'
    BY <1>13 DEF Lease, Step
  <1>14. ASSUME NEW m \in Msg, NEW r \in Member, LoadMember(m, r)
        PROVE  TypeOK'
    BY <1>14 DEF LoadMember, Step
  <1>15. ASSUME NEW m \in Msg, NEW r \in Member, MarkSuppressed(m, r)
        PROVE  TypeOK'
    BY <1>15 DEF MarkSuppressed, Step
  <1>16. ASSUME NEW m \in Msg, NEW r \in Member, RecordFailure(m, r)
        PROVE  TypeOK'
    BY <1>16 DEF RecordFailure
  <1>17. ASSUME NEW m \in Msg, NEW r \in Member, FindToken(m, r)
        PROVE  TypeOK'
    BY <1>17 DEF FindToken, Step
  <1>18. ASSUME NEW m \in Msg, NEW r \in Member, MintToken(m, r)
        PROVE  TypeOK'
    BY <1>18 DEF MintToken, AfterFailure, Step
  <1>19. ASSUME NEW m \in Msg, NEW r \in Member, RefuseOutbound(m, r)
        PROVE  TypeOK'
    BY <1>19 DEF RefuseOutbound, Step
  <1>20. ASSUME NEW m \in Msg, NEW r \in Member, Send(m, r)
        PROVE  TypeOK'
    BY <1>20 DEF Send, Step
  <1>21. ASSUME NEW m \in Msg, NEW r \in Member, RecordSent(m, r)
        PROVE  TypeOK'
    BY <1>21 DEF RecordSent, Step
  <1>22. ASSUME NEW m \in Msg, NEW r \in Member, MarkMessageSent(m, r)
        PROVE  TypeOK'
    BY <1>22 DEF MarkMessageSent, Step
  <1>23. ASSUME NEW m \in Msg, NEW r \in Member, Ack(m, r)
        PROVE  TypeOK'
    BY <1>23 DEF Ack, Step
  <1>24. ASSUME NEW m \in Msg, NEW r \in Member,
               NEW B \in SUBSET Pending, SenderFault(m, r, B)
        PROVE  TypeOK'
    BY <1>24 DEF SenderFault, LoseAttempts, AfterFailure, Pending
  <1> QED
    BY <1>1, <1>2, <1>3, <1>4, <1>5, <1>6, <1>7, <1>8, <1>9, <1>10,
       <1>11, <1>12, <1>13, <1>14, <1>15, <1>16, <1>17, <1>18, <1>19, <1>20,
       <1>21, <1>22, <1>23, <1>24
       DEF Next, People, Inbound, FanOut, Consume

\* Jobs are made by Enqueue alone, and it strikes the member off the snapshot.
LEMMA FanoutOnceStep ==
    TypeOK /\ FanoutOnce
        /\ [Next]_vars => FanoutOnce'
  <1> SUFFICES ASSUME TypeOK, FanoutOnce, [Next]_vars
               PROVE  FanoutOnce'
    OBVIOUS
  <1> USE PipelineAssumption DEF inboundVars, jobVars, TypeOK, InboundBusy,
        JobState, Held, Unread, Cleared, Refused, Mailed, FanoutOnce
  <1>1. CASE UNCHANGED vars
    BY <1>1 DEF vars
  <1>2. ASSUME NEW m \in Msg, Validate(m)
        PROVE  FanoutOnce'
    BY <1>2 DEF Validate
  <1>3. ASSUME NEW m \in Msg, StoreMessage(m)
        PROVE  FanoutOnce'
    BY <1>3 DEF StoreMessage
  <1>4. ASSUME NEW m \in Msg, SnapshotMembers(m)
        PROVE  FanoutOnce'
    BY <1>4 DEF SnapshotMembers, ListActiveMembers
  <1>5. ASSUME NEW m \in Msg, FinishFanout(m)
        PROVE  FanoutOnce'
    BY <1>5 DEF FinishFanout
  <1>6. ASSUME NEW m \in Msg, AppendAudit(m)
        PROVE  FanoutOnce'
    BY <1>6 DEF AppendAudit
  <1>7. ASSUME NEW m \in Msg, InboundFault(m)
        PROVE  FanoutOnce'
    BY <1>7 DEF InboundFault
  <1>8. ASSUME NEW m \in Msg, NEW r \in Member, InsertDelivery(m, r)
        PROVE  FanoutOnce'
    BY <1>8 DEF InsertDelivery
  <1>9. ASSUME NEW m \in Msg, NEW r \in Member, Enqueue(m, r)
        PROVE  FanoutOnce'
    BY <1>9 DEF Enqueue
  <1>10. ASSUME NEW m \in Msg, NEW r \in Member, Lease(m, r)
        PROVE  FanoutOnce'
    BY <1>10 DEF Lease, Step
  <1>11. ASSUME NEW m \in Msg, NEW r \in Member, LoadMember(m, r)
        PROVE  FanoutOnce'
    BY <1>11 DEF LoadMember, Step
  <1>12. ASSUME NEW m \in Msg, NEW r \in Member, MarkSuppressed(m, r)
        PROVE  FanoutOnce'
    BY <1>12 DEF MarkSuppressed, Step
  <1>13. ASSUME NEW m \in Msg, NEW r \in Member, RecordFailure(m, r)
        PROVE  FanoutOnce'
    BY <1>13 DEF RecordFailure
  <1>14. ASSUME NEW m \in Msg, NEW r \in Member, FindToken(m, r)
        PROVE  FanoutOnce'
    BY <1>14 DEF FindToken, Step
  <1>15. ASSUME NEW m \in Msg, NEW r \in Member, MintToken(m, r)
        PROVE  FanoutOnce'
    BY <1>15 DEF MintToken, AfterFailure, Step
  <1>16. ASSUME NEW m \in Msg, NEW r \in Member, RefuseOutbound(m, r)
        PROVE  FanoutOnce'
    BY <1>16 DEF RefuseOutbound, Step
  <1>17. ASSUME NEW m \in Msg, NEW r \in Member, Send(m, r)
        PROVE  FanoutOnce'
    BY <1>17 DEF Send, Step
  <1>18. ASSUME NEW m \in Msg, NEW r \in Member, RecordSent(m, r)
        PROVE  FanoutOnce'
    BY <1>18 DEF RecordSent, Step
  <1>19. ASSUME NEW m \in Msg, NEW r \in Member, MarkMessageSent(m, r)
        PROVE  FanoutOnce'
    BY <1>19 DEF MarkMessageSent, Step
  <1>20. ASSUME NEW m \in Msg, NEW r \in Member, Ack(m, r)
        PROVE  FanoutOnce'
    BY <1>20 DEF Ack, Step
  <1>21. ASSUME NEW m \in Msg, NEW r \in Member,
               NEW B \in SUBSET Pending, SenderFault(m, r, B)
        PROVE  FanoutOnce'
    <2>1. ASSUME NEW n \in Msg, NEW s \in Member
          PROVE  Loses(n, s)
      BY <1>21, LostAttempts
    <2> HIDE DEF TypeOK, JobState
    <2> QED
      BY <2>1, <1>21 DEF SenderFault, AfterFailure, Loses
  <1>22. ASSUME NEW r \in Member,
               Confirm(r) \/ Leave(r) \/ MintElsewhere(r)
        PROVE  FanoutOnce'
    BY <1>22 DEF Confirm, Leave, MintElsewhere
  <1> QED
    BY <1>1, <1>2, <1>3, <1>4, <1>5, <1>6, <1>7, <1>8, <1>9, <1>10,
       <1>11, <1>12, <1>13, <1>14, <1>15, <1>16, <1>17, <1>18, <1>19, <1>20,
       <1>21, <1>22
       DEF Next, People, Inbound, FanOut, Consume

\* The snapshot holds active members, and no status returns to 'pending'.
LEMMA ServesConfirmedStep ==
    TypeOK /\ ServesConfirmed
        /\ [Next]_vars => ServesConfirmed'
  <1> SUFFICES ASSUME TypeOK, ServesConfirmed, [Next]_vars
               PROVE  ServesConfirmed'
    OBVIOUS
  <1> USE PipelineAssumption DEF inboundVars, jobVars, TypeOK, MemberStatus,
        JobState, Held, Unread, Cleared, Refused, Mailed, ServesConfirmed
  <1>1. CASE UNCHANGED vars
    BY <1>1 DEF vars
  <1>2. ASSUME NEW r \in Member, Confirm(r)
        PROVE  ServesConfirmed'
    BY <1>2 DEF Confirm
  <1>3. ASSUME NEW r \in Member, Leave(r)
        PROVE  ServesConfirmed'
    BY <1>3 DEF Leave
  <1>4. ASSUME NEW r \in Member, MintElsewhere(r)
        PROVE  ServesConfirmed'
    BY <1>4 DEF MintElsewhere
  <1>5. ASSUME NEW m \in Msg, SnapshotMembers(m)
        PROVE  ServesConfirmed'
    BY <1>5 DEF SnapshotMembers, ListActiveMembers
  <1>6. ASSUME NEW m \in Msg, NEW r \in Member, InsertDelivery(m, r)
        PROVE  ServesConfirmed'
    BY <1>6 DEF InsertDelivery
  <1>7. ASSUME NEW m \in Msg, NEW r \in Member, Enqueue(m, r)
        PROVE  ServesConfirmed'
    BY <1>7 DEF Enqueue
  <1>8. ASSUME NEW m \in Msg, NEW r \in Member, Lease(m, r)
        PROVE  ServesConfirmed'
    BY <1>8 DEF Lease, Step
  <1>9. ASSUME NEW m \in Msg, NEW r \in Member, LoadMember(m, r)
        PROVE  ServesConfirmed'
    BY <1>9 DEF LoadMember, Step
  <1>10. ASSUME NEW m \in Msg, NEW r \in Member, MarkSuppressed(m, r)
        PROVE  ServesConfirmed'
    BY <1>10 DEF MarkSuppressed, Step
  <1>11. ASSUME NEW m \in Msg, NEW r \in Member, RecordFailure(m, r)
        PROVE  ServesConfirmed'
    BY <1>11 DEF RecordFailure
  <1>12. ASSUME NEW m \in Msg, NEW r \in Member, FindToken(m, r)
        PROVE  ServesConfirmed'
    BY <1>12 DEF FindToken, Step
  <1>13. ASSUME NEW m \in Msg, NEW r \in Member, MintToken(m, r)
        PROVE  ServesConfirmed'
    BY <1>13 DEF MintToken, AfterFailure, Step
  <1>14. ASSUME NEW m \in Msg, NEW r \in Member, RefuseOutbound(m, r)
        PROVE  ServesConfirmed'
    BY <1>14 DEF RefuseOutbound, Step
  <1>15. ASSUME NEW m \in Msg, NEW r \in Member, Send(m, r)
        PROVE  ServesConfirmed'
    BY <1>15 DEF Send, Step
  <1>16. ASSUME NEW m \in Msg, NEW r \in Member, RecordSent(m, r)
        PROVE  ServesConfirmed'
    BY <1>16 DEF RecordSent, Step
  <1>17. ASSUME NEW m \in Msg, NEW r \in Member, MarkMessageSent(m, r)
        PROVE  ServesConfirmed'
    BY <1>17 DEF MarkMessageSent, Step
  <1>18. ASSUME NEW m \in Msg, NEW r \in Member, Ack(m, r)
        PROVE  ServesConfirmed'
    BY <1>18 DEF Ack, Step
  <1>19. ASSUME NEW m \in Msg, NEW r \in Member,
               NEW B \in SUBSET Pending, SenderFault(m, r, B)
        PROVE  ServesConfirmed'
    <2>1. ASSUME NEW n \in Msg, NEW s \in Member
          PROVE  Loses(n, s)
      BY <1>19, LostAttempts
    <2> HIDE DEF TypeOK, JobState
    <2> QED
      BY <2>1, <1>19 DEF SenderFault, AfterFailure, Loses
  <1>20. ASSUME NEW m \in Msg,
               Validate(m) \/ StoreMessage(m) \/ FinishFanout(m) \/
               AppendAudit(m) \/ InboundFault(m)
        PROVE  ServesConfirmed'
    BY <1>20 DEF Validate, StoreMessage, FinishFanout, AppendAudit,
        InboundFault
  <1> QED
    BY <1>1, <1>2, <1>3, <1>4, <1>5, <1>6, <1>7, <1>8, <1>9, <1>10,
       <1>11, <1>12, <1>13, <1>14, <1>15, <1>16, <1>17, <1>18, <1>19, <1>20
       DEF Next, People, Inbound, FanOut, Consume

\* Lease opens an attempt before Send can use it.
LEMMA AttemptsPayForCopiesStep ==
    TypeOK /\ FanoutOnce /\ AttemptsPayForCopies
        /\ [Next]_vars => AttemptsPayForCopies'
  <1> SUFFICES ASSUME TypeOK, FanoutOnce, AttemptsPayForCopies, [Next]_vars
               PROVE  AttemptsPayForCopies'
    OBVIOUS
  <1> USE PipelineAssumption DEF inboundVars, jobVars, TypeOK, JobState, Held,
        Unread, Cleared, Refused, Mailed, FanoutOnce, AttemptsPayForCopies,
        PaysForCopies
  <1>1. CASE UNCHANGED vars
    BY <1>1 DEF vars
  <1>2. ASSUME NEW m \in Msg, NEW r \in Member, InsertDelivery(m, r)
        PROVE  AttemptsPayForCopies'
    BY <1>2 DEF InsertDelivery
  <1>3. ASSUME NEW m \in Msg, NEW r \in Member, Enqueue(m, r)
        PROVE  AttemptsPayForCopies'
    BY <1>3 DEF Enqueue
  <1>4. ASSUME NEW m \in Msg, NEW r \in Member, Lease(m, r)
        PROVE  AttemptsPayForCopies'
    BY <1>4 DEF Lease, Step
  <1>5. ASSUME NEW m \in Msg, NEW r \in Member, LoadMember(m, r)
        PROVE  AttemptsPayForCopies'
    BY <1>5 DEF LoadMember, Step
  <1>6. ASSUME NEW m \in Msg, NEW r \in Member, MarkSuppressed(m, r)
        PROVE  AttemptsPayForCopies'
    BY <1>6 DEF MarkSuppressed, Step
  <1>7. ASSUME NEW m \in Msg, NEW r \in Member, RecordFailure(m, r)
        PROVE  AttemptsPayForCopies'
    BY <1>7 DEF RecordFailure
  <1>8. ASSUME NEW m \in Msg, NEW r \in Member, FindToken(m, r)
        PROVE  AttemptsPayForCopies'
    BY <1>8 DEF FindToken, Step
  <1>9. ASSUME NEW m \in Msg, NEW r \in Member, MintToken(m, r)
        PROVE  AttemptsPayForCopies'
    BY <1>9 DEF MintToken, AfterFailure, Step
  <1>10. ASSUME NEW m \in Msg, NEW r \in Member, RefuseOutbound(m, r)
        PROVE  AttemptsPayForCopies'
    BY <1>10 DEF RefuseOutbound, Step
  <1>11. ASSUME NEW m \in Msg, NEW r \in Member, Send(m, r)
        PROVE  AttemptsPayForCopies'
    BY <1>11 DEF Send, Step
  <1>12. ASSUME NEW m \in Msg, NEW r \in Member, RecordSent(m, r)
        PROVE  AttemptsPayForCopies'
    BY <1>12 DEF RecordSent, Step
  <1>13. ASSUME NEW m \in Msg, NEW r \in Member, MarkMessageSent(m, r)
        PROVE  AttemptsPayForCopies'
    BY <1>13 DEF MarkMessageSent, Step
  <1>14. ASSUME NEW m \in Msg, NEW r \in Member, Ack(m, r)
        PROVE  AttemptsPayForCopies'
    BY <1>14 DEF Ack, Step
  <1>15. ASSUME NEW m \in Msg, NEW r \in Member,
               NEW B \in SUBSET Pending, SenderFault(m, r, B)
        PROVE  AttemptsPayForCopies'
    <2>1. ASSUME NEW n \in Msg, NEW s \in Member
          PROVE  PaysForCopies(n, s)'
      <3>1. Loses(n, s)
        BY <1>15, LostAttempts
      <3>2. /\ attempts[n][s] \in Nat /\ copies[n][s] \in Nat /\ faults \in Nat
            /\ copies' = copies /\ token' = token /\ faults' = faults + 1
        BY <1>15 DEF SenderFault
      <3>3. PaysForCopies(n, s)
        OBVIOUS
      <3> HIDE DEF TypeOK, JobState, FanoutOnce, AttemptsPayForCopies
      <3> QED
        BY <3>1, <3>2, <3>3 DEF AfterFailure, Loses
    <2> QED
      BY <2>1
  <1>16. ASSUME NEW r \in Member,
               Confirm(r) \/ Leave(r) \/ MintElsewhere(r)
        PROVE  AttemptsPayForCopies'
    BY <1>16 DEF Confirm, Leave, MintElsewhere
  <1>17. ASSUME NEW m \in Msg,
               Validate(m) \/ StoreMessage(m) \/ SnapshotMembers(m) \/
               FinishFanout(m) \/ AppendAudit(m) \/ InboundFault(m)
        PROVE  AttemptsPayForCopies'
    BY <1>17 DEF Validate, StoreMessage, SnapshotMembers, FinishFanout,
        AppendAudit, InboundFault
  <1> QED
    BY <1>1, <1>2, <1>3, <1>4, <1>5, <1>6, <1>7, <1>8, <1>9, <1>10,
       <1>11, <1>12, <1>13, <1>14, <1>15, <1>16, <1>17
       DEF Next, People, Inbound, FanOut, Consume

\* Send is late only for an attempt cleared before the member left; the next
\* attempt is not cleared.
LEMMA LateStep ==
    TypeOK /\ ServesConfirmed /\ LateIsLast /\ OneCopyAfterLeaving
        /\ [Next]_vars => (LateIsLast /\ OneCopyAfterLeaving)'
  <1> SUFFICES ASSUME TypeOK, ServesConfirmed, LateIsLast,
                      OneCopyAfterLeaving, [Next]_vars
               PROVE  (LateIsLast /\ OneCopyAfterLeaving)'
    OBVIOUS
  <1> USE PipelineAssumption DEF inboundVars, jobVars, TypeOK, MemberStatus,
        JobState, Held, Unread, Cleared, Refused, Mailed, ServesConfirmed,
        LateIsLast, OneCopyAfterLeaving
  <1>1. CASE UNCHANGED vars
    BY <1>1 DEF vars
  <1>2. ASSUME NEW r \in Member, Confirm(r)
        PROVE  (LateIsLast /\ OneCopyAfterLeaving)'
    BY <1>2 DEF Confirm
  <1>3. ASSUME NEW r \in Member, Leave(r)
        PROVE  (LateIsLast /\ OneCopyAfterLeaving)'
    BY <1>3 DEF Leave
  <1>4. ASSUME NEW r \in Member, MintElsewhere(r)
        PROVE  (LateIsLast /\ OneCopyAfterLeaving)'
    BY <1>4 DEF MintElsewhere
  <1>5. ASSUME NEW m \in Msg, NEW r \in Member, InsertDelivery(m, r)
        PROVE  (LateIsLast /\ OneCopyAfterLeaving)'
    BY <1>5 DEF InsertDelivery
  <1>6. ASSUME NEW m \in Msg, NEW r \in Member, Enqueue(m, r)
        PROVE  (LateIsLast /\ OneCopyAfterLeaving)'
    BY <1>6 DEF Enqueue
  <1>7. ASSUME NEW m \in Msg, NEW r \in Member, Lease(m, r)
        PROVE  (LateIsLast /\ OneCopyAfterLeaving)'
    BY <1>7 DEF Lease, Step
  <1>8. ASSUME NEW m \in Msg, NEW r \in Member, LoadMember(m, r)
        PROVE  (LateIsLast /\ OneCopyAfterLeaving)'
    BY <1>8 DEF LoadMember, Step
  <1>9. ASSUME NEW m \in Msg, NEW r \in Member, MarkSuppressed(m, r)
        PROVE  (LateIsLast /\ OneCopyAfterLeaving)'
    BY <1>9 DEF MarkSuppressed, Step
  <1>10. ASSUME NEW m \in Msg, NEW r \in Member, RecordFailure(m, r)
        PROVE  (LateIsLast /\ OneCopyAfterLeaving)'
    BY <1>10 DEF RecordFailure
  <1>11. ASSUME NEW m \in Msg, NEW r \in Member, FindToken(m, r)
        PROVE  (LateIsLast /\ OneCopyAfterLeaving)'
    BY <1>11 DEF FindToken, Step
  <1>12. ASSUME NEW m \in Msg, NEW r \in Member, MintToken(m, r)
        PROVE  (LateIsLast /\ OneCopyAfterLeaving)'
    BY <1>12 DEF MintToken, AfterFailure, Step
  <1>13. ASSUME NEW m \in Msg, NEW r \in Member, RefuseOutbound(m, r)
        PROVE  (LateIsLast /\ OneCopyAfterLeaving)'
    BY <1>13 DEF RefuseOutbound, Step
  <1>14. ASSUME NEW m \in Msg, NEW r \in Member, Send(m, r)
        PROVE  (LateIsLast /\ OneCopyAfterLeaving)'
    BY <1>14 DEF Send, Step
  <1>15. ASSUME NEW m \in Msg, NEW r \in Member, RecordSent(m, r)
        PROVE  (LateIsLast /\ OneCopyAfterLeaving)'
    BY <1>15 DEF RecordSent, Step
  <1>16. ASSUME NEW m \in Msg, NEW r \in Member, MarkMessageSent(m, r)
        PROVE  (LateIsLast /\ OneCopyAfterLeaving)'
    BY <1>16 DEF MarkMessageSent, Step
  <1>17. ASSUME NEW m \in Msg, NEW r \in Member, Ack(m, r)
        PROVE  (LateIsLast /\ OneCopyAfterLeaving)'
    BY <1>17 DEF Ack, Step
  <1>18. ASSUME NEW m \in Msg, NEW r \in Member,
               NEW B \in SUBSET Pending, SenderFault(m, r, B)
        PROVE  (LateIsLast /\ OneCopyAfterLeaving)'
    <2>1. ASSUME NEW n \in Msg, NEW s \in Member
          PROVE  Loses(n, s)
      BY <1>18, LostAttempts
    <2> HIDE DEF TypeOK, JobState
    <2> QED
      BY <2>1, <1>18 DEF SenderFault, AfterFailure, Loses
  <1>19. ASSUME NEW m \in Msg,
               Validate(m) \/ StoreMessage(m) \/ SnapshotMembers(m) \/
               FinishFanout(m) \/ AppendAudit(m) \/ InboundFault(m)
        PROVE  (LateIsLast /\ OneCopyAfterLeaving)'
    BY <1>19 DEF Validate, StoreMessage, SnapshotMembers, FinishFanout,
        AppendAudit, InboundFault
  <1> QED
    BY <1>1, <1>2, <1>3, <1>4, <1>5, <1>6, <1>7, <1>8, <1>9, <1>10,
       <1>11, <1>12, <1>13, <1>14, <1>15, <1>16, <1>17, <1>18, <1>19
       DEF Next, People, Inbound, FanOut, Consume

\* InsertDelivery opens the gap between row and job, Enqueue closes it.
LEMMA RowThenJobStep ==
    TypeOK /\ FanoutOnce /\ RowThenJob
        /\ [Next]_vars => RowThenJob'
  <1> SUFFICES ASSUME TypeOK, FanoutOnce, RowThenJob, [Next]_vars
               PROVE  RowThenJob'
    OBVIOUS
  <1> USE PipelineAssumption DEF inboundVars, jobVars, TypeOK, InboundBusy,
        JobState, Held, Unread, Cleared, Refused, Mailed, FanoutOnce,
        RowThenJob
  <1>1. CASE UNCHANGED vars
    BY <1>1 DEF vars
  <1>2. ASSUME NEW m \in Msg, Validate(m)
        PROVE  RowThenJob'
    BY <1>2 DEF Validate
  <1>3. ASSUME NEW m \in Msg, StoreMessage(m)
        PROVE  RowThenJob'
    BY <1>3 DEF StoreMessage
  <1>4. ASSUME NEW m \in Msg, SnapshotMembers(m)
        PROVE  RowThenJob'
    BY <1>4 DEF SnapshotMembers, ListActiveMembers
  <1>5. ASSUME NEW m \in Msg, FinishFanout(m)
        PROVE  RowThenJob'
    BY <1>5 DEF FinishFanout
  <1>6. ASSUME NEW m \in Msg, AppendAudit(m)
        PROVE  RowThenJob'
    BY <1>6 DEF AppendAudit
  <1>7. ASSUME NEW m \in Msg, InboundFault(m)
        PROVE  RowThenJob'
    BY <1>7 DEF InboundFault
  <1>8. ASSUME NEW m \in Msg, NEW r \in Member, InsertDelivery(m, r)
        PROVE  RowThenJob'
    BY <1>8 DEF InsertDelivery
  <1>9. ASSUME NEW m \in Msg, NEW r \in Member, Enqueue(m, r)
        PROVE  RowThenJob'
    BY <1>9 DEF Enqueue
  <1>10. ASSUME NEW m \in Msg, NEW r \in Member, Lease(m, r)
        PROVE  RowThenJob'
    BY <1>10 DEF Lease, Step
  <1>11. ASSUME NEW m \in Msg, NEW r \in Member, LoadMember(m, r)
        PROVE  RowThenJob'
    BY <1>11 DEF LoadMember, Step
  <1>12. ASSUME NEW m \in Msg, NEW r \in Member, MarkSuppressed(m, r)
        PROVE  RowThenJob'
    BY <1>12 DEF MarkSuppressed, Step
  <1>13. ASSUME NEW m \in Msg, NEW r \in Member, RecordFailure(m, r)
        PROVE  RowThenJob'
    BY <1>13 DEF RecordFailure
  <1>14. ASSUME NEW m \in Msg, NEW r \in Member, FindToken(m, r)
        PROVE  RowThenJob'
    BY <1>14 DEF FindToken, Step
  <1>15. ASSUME NEW m \in Msg, NEW r \in Member, MintToken(m, r)
        PROVE  RowThenJob'
    BY <1>15 DEF MintToken, AfterFailure, Step
  <1>16. ASSUME NEW m \in Msg, NEW r \in Member, RefuseOutbound(m, r)
        PROVE  RowThenJob'
    BY <1>16 DEF RefuseOutbound, Step
  <1>17. ASSUME NEW m \in Msg, NEW r \in Member, Send(m, r)
        PROVE  RowThenJob'
    BY <1>17 DEF Send, Step
  <1>18. ASSUME NEW m \in Msg, NEW r \in Member, RecordSent(m, r)
        PROVE  RowThenJob'
    BY <1>18 DEF RecordSent, Step
  <1>19. ASSUME NEW m \in Msg, NEW r \in Member, MarkMessageSent(m, r)
        PROVE  RowThenJob'
    BY <1>19 DEF MarkMessageSent, Step
  <1>20. ASSUME NEW m \in Msg, NEW r \in Member, Ack(m, r)
        PROVE  RowThenJob'
    BY <1>20 DEF Ack, Step
  <1>21. ASSUME NEW m \in Msg, NEW r \in Member,
               NEW B \in SUBSET Pending, SenderFault(m, r, B)
        PROVE  RowThenJob'
    <2>1. ASSUME NEW n \in Msg, NEW s \in Member
          PROVE  Loses(n, s)
      BY <1>21, LostAttempts
    <2> HIDE DEF TypeOK, JobState
    <2> QED
      BY <2>1, <1>21 DEF SenderFault, AfterFailure, Loses
  <1>22. ASSUME NEW r \in Member,
               Confirm(r) \/ Leave(r) \/ MintElsewhere(r)
        PROVE  RowThenJob'
    BY <1>22 DEF Confirm, Leave, MintElsewhere
  <1> QED
    BY <1>1, <1>2, <1>3, <1>4, <1>5, <1>6, <1>7, <1>8, <1>9, <1>10,
       <1>11, <1>12, <1>13, <1>14, <1>15, <1>16, <1>17, <1>18, <1>19, <1>20,
       <1>21, <1>22
       DEF Next, People, Inbound, FanOut, Consume

\* Only FinishFanout writes 'queued', and the snapshot is used up by then.
LEMMA QueuedIsLastStep ==
    TypeOK /\ QueuedIsLast
        /\ [Next]_vars => QueuedIsLast'
  <1> SUFFICES ASSUME TypeOK, QueuedIsLast, [Next]_vars
               PROVE  QueuedIsLast'
    OBVIOUS
  <1> USE PipelineAssumption DEF inboundVars, jobVars, TypeOK, InboundBusy,
        QueuedIsLast
  <1>1. CASE UNCHANGED vars
    BY <1>1 DEF vars
  <1>2. ASSUME NEW m \in Msg, Validate(m)
        PROVE  QueuedIsLast'
    BY <1>2 DEF Validate
  <1>3. ASSUME NEW m \in Msg, StoreMessage(m)
        PROVE  QueuedIsLast'
    BY <1>3 DEF StoreMessage
  <1>4. ASSUME NEW m \in Msg, SnapshotMembers(m)
        PROVE  QueuedIsLast'
    BY <1>4 DEF SnapshotMembers, ListActiveMembers
  <1>5. ASSUME NEW m \in Msg, FinishFanout(m)
        PROVE  QueuedIsLast'
    BY <1>5 DEF FinishFanout
  <1>6. ASSUME NEW m \in Msg, AppendAudit(m)
        PROVE  QueuedIsLast'
    BY <1>6 DEF AppendAudit
  <1>7. ASSUME NEW m \in Msg, InboundFault(m)
        PROVE  QueuedIsLast'
    BY <1>7 DEF InboundFault
  <1>8. ASSUME NEW m \in Msg, NEW r \in Member, InsertDelivery(m, r)
        PROVE  QueuedIsLast'
    BY <1>8 DEF InsertDelivery
  <1>9. ASSUME NEW m \in Msg, NEW r \in Member, Enqueue(m, r)
        PROVE  QueuedIsLast'
    BY <1>9 DEF Enqueue
  <1>10. ASSUME NEW m \in Msg, NEW r \in Member, MarkMessageSent(m, r)
        PROVE  QueuedIsLast'
    BY <1>10 DEF MarkMessageSent, Step
  <1>11. ASSUME NEW m \in Msg, NEW r \in Member,
               NEW B \in SUBSET Pending, SenderFault(m, r, B)
        PROVE  QueuedIsLast'
    BY <1>11 DEF SenderFault, LoseAttempts, AfterFailure, Pending
  <1>12. ASSUME NEW r \in Member,
               Confirm(r) \/ Leave(r) \/ MintElsewhere(r)
        PROVE  QueuedIsLast'
    BY <1>12 DEF Confirm, Leave, MintElsewhere
  <1>13. ASSUME NEW m \in Msg, NEW r \in Member,
               Lease(m, r) \/ LoadMember(m, r) \/ MarkSuppressed(m, r) \/
               RecordFailure(m, r) \/ FindToken(m, r) \/ MintToken(m, r) \/
               RefuseOutbound(m, r) \/ Send(m, r) \/ RecordSent(m, r) \/
               Ack(m, r)
        PROVE  QueuedIsLast'
    BY <1>13 DEF Lease, LoadMember, MarkSuppressed, RecordFailure, FindToken,
        MintToken, RefuseOutbound, Send, RecordSent, Ack, Step
  <1> QED
    BY <1>1, <1>2, <1>3, <1>4, <1>5, <1>6, <1>7, <1>8, <1>9, <1>10,
       <1>11, <1>12, <1>13
       DEF Next, People, Inbound, FanOut, Consume

\* Nobody who left comes back, and what a mail looks like never changes.
LEMMA DroppedForGoodStep ==
    TypeOK /\ FanoutOnce /\ ServesConfirmed /\ DroppedForGood
        /\ [Next]_vars => DroppedForGood'
  <1> SUFFICES ASSUME TypeOK, FanoutOnce, ServesConfirmed, DroppedForGood,
                      [Next]_vars
               PROVE  DroppedForGood'
    OBVIOUS
  <1> USE PipelineAssumption DEF inboundVars, jobVars, TypeOK, MemberStatus,
        JobState, Held, Unread, Cleared, Refused, Mailed, FanoutOnce,
        ServesConfirmed, DroppedForGood
  <1>1. CASE UNCHANGED vars
    BY <1>1 DEF vars
  <1>2. ASSUME NEW r \in Member, Confirm(r)
        PROVE  DroppedForGood'
    BY <1>2 DEF Confirm
  <1>3. ASSUME NEW r \in Member, Leave(r)
        PROVE  DroppedForGood'
    BY <1>3 DEF Leave
  <1>4. ASSUME NEW r \in Member, MintElsewhere(r)
        PROVE  DroppedForGood'
    BY <1>4 DEF MintElsewhere
  <1>5. ASSUME NEW m \in Msg, NEW r \in Member, InsertDelivery(m, r)
        PROVE  DroppedForGood'
    BY <1>5 DEF InsertDelivery
  <1>6. ASSUME NEW m \in Msg, NEW r \in Member, Enqueue(m, r)
        PROVE  DroppedForGood'
    BY <1>6 DEF Enqueue
  <1>7. ASSUME NEW m \in Msg, NEW r \in Member, Lease(m, r)
        PROVE  DroppedForGood'
    BY <1>7 DEF Lease, Step
  <1>8. ASSUME NEW m \in Msg, NEW r \in Member, LoadMember(m, r)
        PROVE  DroppedForGood'
    BY <1>8 DEF LoadMember, Step
  <1>9. ASSUME NEW m \in Msg, NEW r \in Member, MarkSuppressed(m, r)
        PROVE  DroppedForGood'
    BY <1>9 DEF MarkSuppressed, Step
  <1>10. ASSUME NEW m \in Msg, NEW r \in Member, RecordFailure(m, r)
        PROVE  DroppedForGood'
    BY <1>10 DEF RecordFailure
  <1>11. ASSUME NEW m \in Msg, NEW r \in Member, FindToken(m, r)
        PROVE  DroppedForGood'
    BY <1>11 DEF FindToken, Step
  <1>12. ASSUME NEW m \in Msg, NEW r \in Member, MintToken(m, r)
        PROVE  DroppedForGood'
    BY <1>12 DEF MintToken, AfterFailure, Step
  <1>13. ASSUME NEW m \in Msg, NEW r \in Member, RefuseOutbound(m, r)
        PROVE  DroppedForGood'
    BY <1>13 DEF RefuseOutbound, Step
  <1>14. ASSUME NEW m \in Msg, NEW r \in Member, Send(m, r)
        PROVE  DroppedForGood'
    BY <1>14 DEF Send, Step
  <1>15. ASSUME NEW m \in Msg, NEW r \in Member, RecordSent(m, r)
        PROVE  DroppedForGood'
    BY <1>15 DEF RecordSent, Step
  <1>16. ASSUME NEW m \in Msg, NEW r \in Member, MarkMessageSent(m, r)
        PROVE  DroppedForGood'
    BY <1>16 DEF MarkMessageSent, Step
  <1>17. ASSUME NEW m \in Msg, NEW r \in Member, Ack(m, r)
        PROVE  DroppedForGood'
    BY <1>17 DEF Ack, Step
  <1>18. ASSUME NEW m \in Msg, NEW r \in Member,
               NEW B \in SUBSET Pending, SenderFault(m, r, B)
        PROVE  DroppedForGood'
    <2>1. ASSUME NEW n \in Msg, NEW s \in Member
          PROVE  Loses(n, s)
      BY <1>18, LostAttempts
    <2> HIDE DEF TypeOK, JobState
    <2> QED
      BY <2>1, <1>18 DEF SenderFault, AfterFailure, Loses
  <1>19. ASSUME NEW m \in Msg,
               Validate(m) \/ StoreMessage(m) \/ SnapshotMembers(m) \/
               FinishFanout(m) \/ AppendAudit(m) \/ InboundFault(m)
        PROVE  DroppedForGood'
    BY <1>19 DEF Validate, StoreMessage, SnapshotMembers, FinishFanout,
        AppendAudit, InboundFault
  <1> QED
    BY <1>1, <1>2, <1>3, <1>4, <1>5, <1>6, <1>7, <1>8, <1>9, <1>10,
       <1>11, <1>12, <1>13, <1>14, <1>15, <1>16, <1>17, <1>18, <1>19
       DEF Next, People, Inbound, FanOut, Consume

\* SenderFault counts a fault for the attempt it ends; MintToken ends one
\* without a fault, and once a token exists nobody tries the INSERT again.
LEMMA AttemptsNeedFaultsStep ==
    TypeOK /\ FanoutOnce /\ AttemptsPayForCopies /\ AttemptsNeedFaults
        /\ [Next]_vars => AttemptsNeedFaults'
  <1> SUFFICES ASSUME TypeOK, FanoutOnce, AttemptsPayForCopies,
                      AttemptsNeedFaults, [Next]_vars
               PROVE  AttemptsNeedFaults'
    OBVIOUS
  <1> USE PipelineAssumption DEF inboundVars, jobVars, TypeOK, JobState, Held,
        Unread, Cleared, Refused, Mailed, FanoutOnce, AttemptsPayForCopies,
        PaysForCopies, AttemptsNeedFaults, NeedsFaults
  <1>1. CASE UNCHANGED vars
    BY <1>1 DEF vars
  <1>2. ASSUME NEW r \in Member, MintElsewhere(r)
        PROVE  AttemptsNeedFaults'
    BY <1>2 DEF MintElsewhere
  <1>3. ASSUME NEW m \in Msg, InboundFault(m)
        PROVE  AttemptsNeedFaults'
    BY <1>3 DEF InboundFault
  <1>4. ASSUME NEW m \in Msg, NEW r \in Member, InsertDelivery(m, r)
        PROVE  AttemptsNeedFaults'
    BY <1>4 DEF InsertDelivery
  <1>5. ASSUME NEW m \in Msg, NEW r \in Member, Enqueue(m, r)
        PROVE  AttemptsNeedFaults'
    BY <1>5 DEF Enqueue
  <1>6. ASSUME NEW m \in Msg, NEW r \in Member, Lease(m, r)
        PROVE  AttemptsNeedFaults'
    BY <1>6 DEF Lease, Step
  <1>7. ASSUME NEW m \in Msg, NEW r \in Member, LoadMember(m, r)
        PROVE  AttemptsNeedFaults'
    BY <1>7 DEF LoadMember, Step
  <1>8. ASSUME NEW m \in Msg, NEW r \in Member, MarkSuppressed(m, r)
        PROVE  AttemptsNeedFaults'
    BY <1>8 DEF MarkSuppressed, Step
  <1>9. ASSUME NEW m \in Msg, NEW r \in Member, RecordFailure(m, r)
        PROVE  AttemptsNeedFaults'
    BY <1>9 DEF RecordFailure
  <1>10. ASSUME NEW m \in Msg, NEW r \in Member, FindToken(m, r)
        PROVE  AttemptsNeedFaults'
    BY <1>10 DEF FindToken, Step
  <1>11. ASSUME NEW m \in Msg, NEW r \in Member, MintToken(m, r)
        PROVE  AttemptsNeedFaults'
    BY <1>11 DEF MintToken, AfterFailure, Step
  <1>12. ASSUME NEW m \in Msg, NEW r \in Member, RefuseOutbound(m, r)
        PROVE  AttemptsNeedFaults'
    BY <1>12 DEF RefuseOutbound, Step
  <1>13. ASSUME NEW m \in Msg, NEW r \in Member, Send(m, r)
        PROVE  AttemptsNeedFaults'
    BY <1>13 DEF Send, Step
  <1>14. ASSUME NEW m \in Msg, NEW r \in Member, RecordSent(m, r)
        PROVE  AttemptsNeedFaults'
    BY <1>14 DEF RecordSent, Step
  <1>15. ASSUME NEW m \in Msg, NEW r \in Member, MarkMessageSent(m, r)
        PROVE  AttemptsNeedFaults'
    BY <1>15 DEF MarkMessageSent, Step
  <1>16. ASSUME NEW m \in Msg, NEW r \in Member, Ack(m, r)
        PROVE  AttemptsNeedFaults'
    BY <1>16 DEF Ack, Step
  <1>17. ASSUME NEW m \in Msg, NEW r \in Member,
               NEW B \in SUBSET Pending, SenderFault(m, r, B)
        PROVE  AttemptsNeedFaults'
    <2>1. ASSUME NEW n \in Msg, NEW s \in Member
          PROVE  NeedsFaults(n, s)'
      <3>1. Loses(n, s)
        BY <1>17, LostAttempts
      <3>2. /\ attempts[n][s] \in Nat /\ copies[n][s] \in Nat /\ faults \in Nat
            /\ copies' = copies /\ token' = token /\ faults' = faults + 1
        BY <1>17 DEF SenderFault
      <3>3. NeedsFaults(n, s)
        OBVIOUS
      <3> HIDE DEF TypeOK, JobState, FanoutOnce, AttemptsPayForCopies, AttemptsNeedFaults
      <3> QED
        BY <3>1, <3>2, <3>3 DEF AfterFailure, Loses
    <2> QED
      BY <2>1
  <1>18. ASSUME NEW r \in Member,
               Confirm(r) \/ Leave(r)
        PROVE  AttemptsNeedFaults'
    BY <1>18 DEF Confirm, Leave
  <1>19. ASSUME NEW m \in Msg,
               Validate(m) \/ StoreMessage(m) \/ SnapshotMembers(m) \/
               FinishFanout(m) \/ AppendAudit(m)
        PROVE  AttemptsNeedFaults'
    BY <1>19 DEF Validate, StoreMessage, SnapshotMembers, FinishFanout,
        AppendAudit
  <1> QED
    BY <1>1, <1>2, <1>3, <1>4, <1>5, <1>6, <1>7, <1>8, <1>9, <1>10,
       <1>11, <1>12, <1>13, <1>14, <1>15, <1>16, <1>17, <1>18, <1>19
       DEF Next, People, Inbound, FanOut, Consume

\* Rows are never deleted.
LEMMA JobHasRowStep ==
    TypeOK /\ JobHasRow
        /\ [Next]_vars => JobHasRow'
  <1> SUFFICES ASSUME TypeOK, JobHasRow, [Next]_vars
               PROVE  JobHasRow'
    OBVIOUS
  <1> USE PipelineAssumption DEF inboundVars, jobVars, TypeOK, JobState, Held,
        Unread, Cleared, Refused, Mailed, JobHasRow
  <1>1. CASE UNCHANGED vars
    BY <1>1 DEF vars
  <1>2. ASSUME NEW m \in Msg, NEW r \in Member, InsertDelivery(m, r)
        PROVE  JobHasRow'
    BY <1>2 DEF InsertDelivery
  <1>3. ASSUME NEW m \in Msg, NEW r \in Member, Enqueue(m, r)
        PROVE  JobHasRow'
    BY <1>3 DEF Enqueue
  <1>4. ASSUME NEW m \in Msg, NEW r \in Member, Lease(m, r)
        PROVE  JobHasRow'
    BY <1>4 DEF Lease, Step
  <1>5. ASSUME NEW m \in Msg, NEW r \in Member, LoadMember(m, r)
        PROVE  JobHasRow'
    BY <1>5 DEF LoadMember, Step
  <1>6. ASSUME NEW m \in Msg, NEW r \in Member, MarkSuppressed(m, r)
        PROVE  JobHasRow'
    BY <1>6 DEF MarkSuppressed, Step
  <1>7. ASSUME NEW m \in Msg, NEW r \in Member, RecordFailure(m, r)
        PROVE  JobHasRow'
    BY <1>7 DEF RecordFailure
  <1>8. ASSUME NEW m \in Msg, NEW r \in Member, FindToken(m, r)
        PROVE  JobHasRow'
    BY <1>8 DEF FindToken, Step
  <1>9. ASSUME NEW m \in Msg, NEW r \in Member, MintToken(m, r)
        PROVE  JobHasRow'
    BY <1>9 DEF MintToken, AfterFailure, Step
  <1>10. ASSUME NEW m \in Msg, NEW r \in Member, RefuseOutbound(m, r)
        PROVE  JobHasRow'
    BY <1>10 DEF RefuseOutbound, Step
  <1>11. ASSUME NEW m \in Msg, NEW r \in Member, Send(m, r)
        PROVE  JobHasRow'
    BY <1>11 DEF Send, Step
  <1>12. ASSUME NEW m \in Msg, NEW r \in Member, RecordSent(m, r)
        PROVE  JobHasRow'
    BY <1>12 DEF RecordSent, Step
  <1>13. ASSUME NEW m \in Msg, NEW r \in Member, MarkMessageSent(m, r)
        PROVE  JobHasRow'
    BY <1>13 DEF MarkMessageSent, Step
  <1>14. ASSUME NEW m \in Msg, NEW r \in Member, Ack(m, r)
        PROVE  JobHasRow'
    BY <1>14 DEF Ack, Step
  <1>15. ASSUME NEW m \in Msg, NEW r \in Member,
               NEW B \in SUBSET Pending, SenderFault(m, r, B)
        PROVE  JobHasRow'
    <2>1. ASSUME NEW n \in Msg, NEW s \in Member
          PROVE  Loses(n, s)
      BY <1>15, LostAttempts
    <2> HIDE DEF TypeOK, JobState
    <2> QED
      BY <2>1, <1>15 DEF SenderFault, AfterFailure, Loses
  <1>16. ASSUME NEW r \in Member,
               Confirm(r) \/ Leave(r) \/ MintElsewhere(r)
        PROVE  JobHasRow'
    BY <1>16 DEF Confirm, Leave, MintElsewhere
  <1>17. ASSUME NEW m \in Msg,
               Validate(m) \/ StoreMessage(m) \/ SnapshotMembers(m) \/
               FinishFanout(m) \/ AppendAudit(m) \/ InboundFault(m)
        PROVE  JobHasRow'
    BY <1>17 DEF Validate, StoreMessage, SnapshotMembers, FinishFanout,
        AppendAudit, InboundFault
  <1> QED
    BY <1>1, <1>2, <1>3, <1>4, <1>5, <1>6, <1>7, <1>8, <1>9, <1>10,
       <1>11, <1>12, <1>13, <1>14, <1>15, <1>16, <1>17
       DEF Next, People, Inbound, FanOut, Consume

\* RecordSent and MarkMessageSent run in an attempt that has sent.
LEMMA SentWasMailedStep ==
    TypeOK /\ AttemptsPayForCopies /\ SentWasMailed
        /\ [Next]_vars => SentWasMailed'
  <1> SUFFICES ASSUME TypeOK, AttemptsPayForCopies, SentWasMailed, [Next]_vars
               PROVE  SentWasMailed'
    OBVIOUS
  <1> USE PipelineAssumption DEF inboundVars, jobVars, TypeOK, JobState, Held,
        Unread, Cleared, Refused, Mailed, AttemptsPayForCopies, PaysForCopies,
        SentWasMailed
  <1>1. CASE UNCHANGED vars
    BY <1>1 DEF vars
  <1>2. ASSUME NEW m \in Msg, StoreMessage(m)
        PROVE  SentWasMailed'
    BY <1>2 DEF StoreMessage
  <1>3. ASSUME NEW m \in Msg, FinishFanout(m)
        PROVE  SentWasMailed'
    BY <1>3 DEF FinishFanout
  <1>4. ASSUME NEW m \in Msg, NEW r \in Member, InsertDelivery(m, r)
        PROVE  SentWasMailed'
    BY <1>4 DEF InsertDelivery
  <1>5. ASSUME NEW m \in Msg, NEW r \in Member, MarkSuppressed(m, r)
        PROVE  SentWasMailed'
    BY <1>5 DEF MarkSuppressed, Step
  <1>6. ASSUME NEW m \in Msg, NEW r \in Member, RecordFailure(m, r)
        PROVE  SentWasMailed'
    BY <1>6 DEF RecordFailure
  <1>7. ASSUME NEW m \in Msg, NEW r \in Member, Send(m, r)
        PROVE  SentWasMailed'
    BY <1>7 DEF Send, Step
  <1>8. ASSUME NEW m \in Msg, NEW r \in Member, RecordSent(m, r)
        PROVE  SentWasMailed'
    BY <1>8 DEF RecordSent, Step
  <1>9. ASSUME NEW m \in Msg, NEW r \in Member, MarkMessageSent(m, r)
        PROVE  SentWasMailed'
    BY <1>9 DEF MarkMessageSent, Step
  <1>10. ASSUME NEW m \in Msg, NEW r \in Member,
               NEW B \in SUBSET Pending, SenderFault(m, r, B)
        PROVE  SentWasMailed'
    BY <1>10 DEF SenderFault, LoseAttempts, AfterFailure, Pending
  <1>11. ASSUME NEW r \in Member,
               Confirm(r) \/ Leave(r) \/ MintElsewhere(r)
        PROVE  SentWasMailed'
    BY <1>11 DEF Confirm, Leave, MintElsewhere
  <1>12. ASSUME NEW m \in Msg,
               Validate(m) \/ SnapshotMembers(m) \/ AppendAudit(m) \/
               InboundFault(m)
        PROVE  SentWasMailed'
    BY <1>12 DEF Validate, SnapshotMembers, AppendAudit, InboundFault
  <1>13. ASSUME NEW m \in Msg, NEW r \in Member,
               Enqueue(m, r) \/ Lease(m, r) \/ LoadMember(m, r) \/
               FindToken(m, r) \/ MintToken(m, r) \/ RefuseOutbound(m, r) \/
               Ack(m, r)
        PROVE  SentWasMailed'
    BY <1>13 DEF Enqueue, Lease, LoadMember, FindToken, MintToken,
        RefuseOutbound, Ack, Step
  <1> QED
    BY <1>1, <1>2, <1>3, <1>4, <1>5, <1>6, <1>7, <1>8, <1>9, <1>10,
       <1>11, <1>12, <1>13
       DEF Next, People, Inbound, FanOut, Consume

-----------------------------------------------------------------------------
(* Induction, and sums over a finite set.                                  *)

\* Induction with the property as a set, which the provers can instantiate.
LEMMA SetInduction ==
    ASSUME NEW S, 0 \in S, \A n \in Nat : n \in S => n + 1 \in S
    PROVE  Nat \subseteq S
  <1> SUFFICES ASSUME Nat \ S # {} PROVE FALSE
    OBVIOUS
  <1> DEFINE T == Nat \ S
             R == OpToRel(<, Nat)
  <1>1. PICK x \in T : \A y \in T : <<y, x>> \notin R
    <2>1. IsWellFoundedOn(R, Nat)
      BY NatLessThanWellFounded
    <2>2. T \subseteq Nat /\ T # {}
      OBVIOUS
    <2> HIDE DEF T, R
    <2> QED
      BY <2>1, <2>2, WFMin
  <1>2. x # 0 /\ x \in Nat
    OBVIOUS
  <1>3. x - 1 \in Nat
    BY <1>2
  <1>4. <<x - 1, x>> \in R
    BY <1>2, <1>3 DEF OpToRel
  <1>5. x - 1 \in S
    BY <1>1, <1>3, <1>4
  <1>6. (x - 1) + 1 = x
    BY <1>2
  <1> QED
    BY <1>3, <1>5, <1>6

\* The element that a sum takes from a set first, and what the equation says of it.
First(s) == CHOOSE i \in s : TRUE

Adds(g, f, D) ==
    g = [s \in D |-> IF s = {} THEN 0 ELSE f[First(s)] + g[s \ {First(s)}]]

UpTo(I, n) == {s \in SUBSET I : Cardinality(s) <= n}

LEMMA Smaller ==
    ASSUME NEW I, IsFiniteSet(I), NEW n \in Nat, NEW s \in UpTo(I, n + 1), s # {}
    PROVE  /\ First(s) \in s
           /\ s \ {First(s)} \in UpTo(I, n)
  <1>1. First(s) \in s
    BY DEF First
  <1>2. IsFiniteSet(s)
    BY FS_Subset DEF UpTo
  <1>3. Cardinality(s \ {First(s)}) = Cardinality(s) - 1
    BY <1>1, <1>2, FS_RemoveElement
  <1>4. Cardinality(s) \in Nat
    BY <1>2, FS_CardinalityType
  <1> QED
    BY <1>1, <1>3, <1>4 DEF UpTo

LEMMA AllSubsets ==
    ASSUME NEW I, IsFiniteSet(I)
    PROVE  Cardinality(I) \in Nat /\ UpTo(I, Cardinality(I)) = SUBSET I
  BY FS_CardinalityType, FS_Subset DEF UpTo

LEMMA UpToZero ==
    ASSUME NEW I, IsFiniteSet(I), NEW s \in UpTo(I, 0)
    PROVE  s = {}
  <1>1. IsFiniteSet(s)
    BY FS_Subset DEF UpTo
  <1>2. Cardinality(s) = 0
    BY <1>1, FS_CardinalityType DEF UpTo
  <1> QED
    BY <1>1, <1>2, FS_EmptySet

\* The recursion behind a sum has a solution.
LEMMA SumExists ==
    ASSUME NEW I, IsFiniteSet(I), NEW f
    PROVE  \E g : Adds(g, f, SUBSET I)
  <1> DEFINE S == {n \in Nat : \E g : Adds(g, f, UpTo(I, n))}
  <1>1. 0 \in S
    <2> DEFINE g == [s \in UpTo(I, 0) |-> 0]
    <2>1. \A s \in UpTo(I, 0) : s = {}
      BY UpToZero
    <2>2. Adds(g, f, UpTo(I, 0))
      BY <2>1 DEF Adds
    <2> QED
      BY <2>2
  <1>2. ASSUME NEW n \in Nat, n \in S
        PROVE  n + 1 \in S
    <2>1. PICK g : Adds(g, f, UpTo(I, n))
      BY <1>2
    <2> DEFINE D == UpTo(I, n + 1)
               h == [s \in D |-> IF s = {} THEN 0 ELSE f[First(s)] + g[s \ {First(s)}]]
    <2>2. ASSUME NEW s \in D, s # {}
          PROVE  h[s \ {First(s)}] = g[s \ {First(s)}]
      <3> DEFINE t == s \ {First(s)}
      <3>1. t \in UpTo(I, n)
        BY <2>2, Smaller
      <3>2. t \in D
        BY <2>2, Smaller, FS_Subset, FS_CardinalityType DEF UpTo
      <3>3. g[t] = IF t = {} THEN 0 ELSE f[First(t)] + g[t \ {First(t)}]
        BY <2>1, <3>1 DEF Adds
      <3> HIDE DEF t, D
      <3>4. h[t] = IF t = {} THEN 0 ELSE f[First(t)] + g[t \ {First(t)}]
        BY <3>2
      <3>5. h[t] = g[t]
        BY <3>3, <3>4
      <3> QED
        BY <3>5 DEF t
    <2>3. h = [s \in D |-> IF s = {} THEN 0 ELSE f[First(s)] + h[s \ {First(s)}]]
      <3> HIDE DEF D
      <3> SUFFICES ASSUME NEW s \in D
                   PROVE  h[s] = IF s = {} THEN 0 ELSE f[First(s)] + h[s \ {First(s)}]
        OBVIOUS
      <3> QED
        BY <2>2
    <2> HIDE DEF h
    <2>4. Adds(h, f, D)
      BY <2>3 DEF Adds
    <2> QED
      BY <2>4
  <1> HIDE DEF S
  <1>3. Cardinality(I) \in S
    BY <1>1, <1>2, AllSubsets, SetInduction
  <1> QED
    BY <1>3, AllSubsets DEF S

LEMMA SumAdds ==
    ASSUME NEW I, IsFiniteSet(I), NEW f
    PROVE  \E g : Adds(g, f, SUBSET I) /\ SumFunctionOnSet(f, I) = g[I]
  <1> DEFINE g == CHOOSE g : Adds(g, f, SUBSET I)
  <1>1. Adds(g, f, SUBSET I)
    BY SumExists
  <1>2. SumFunctionOnSet(f, I) = g[I]
    BY DEF SumFunctionOnSet, FoldFunctionOnSet, MapThenFoldSet, Adds, First
  <1> QED
    BY <1>1, <1>2

\* If f grows at one place by no more than d, its sum does not by more.
LEMMA SumGrows ==
    ASSUME NEW I, IsFiniteSet(I), NEW m, NEW d \in Nat, NEW f, NEW g,
           \A i \in I : f[i] \in Nat /\ g[i] \in Nat,
           \A i \in I \ {m} : g[i] <= f[i],
           m \in I => g[m] <= f[m] + d
    PROVE  /\ SumFunctionOnSet(f, I) \in Nat
           /\ SumFunctionOnSet(g, I) \in Nat
           /\ SumFunctionOnSet(g, I) <= SumFunctionOnSet(f, I) + d
  <1>1. PICK F : Adds(F, f, SUBSET I) /\ SumFunctionOnSet(f, I) = F[I]
    BY SumAdds
  <1>2. PICK G : Adds(G, g, SUBSET I) /\ SumFunctionOnSet(g, I) = G[I]
    BY SumAdds
  <1> DEFINE Good(s) == /\ F[s] \in Nat /\ G[s] \in Nat
                        /\ m \in s => G[s] <= F[s] + d
                        /\ m \notin s => G[s] <= F[s]
             S == {n \in Nat : \A s \in UpTo(I, n) : Good(s)}
  <1>3. Good({})
    BY <1>1, <1>2 DEF Adds
  <1>4. 0 \in S
    BY <1>3, UpToZero
  <1>5. ASSUME NEW n \in Nat, n \in S
        PROVE  n + 1 \in S
    <2>1. ASSUME NEW s \in UpTo(I, n + 1), s # {}
          PROVE  Good(s)
      <3> DEFINE x == First(s)
                 t == s \ {x}
      <3>1. x \in s /\ t \in UpTo(I, n) /\ s \in SUBSET I /\ t \in SUBSET I
        BY <2>1, Smaller DEF UpTo
      <3>2. Good(t)
        BY <1>5, <3>1
      <3>3. F[s] = f[x] + F[t] /\ G[s] = g[x] + G[t]
        BY <1>1, <1>2, <2>1, <3>1 DEF Adds
      <3>4. f[x] \in Nat /\ g[x] \in Nat /\ x \in I
        BY <3>1
      <3>5. CASE x = m
        BY <3>1, <3>2, <3>3, <3>4, <3>5
      <3>6. CASE x # m
        <4>1. g[x] <= f[x] /\ (m \in s <=> m \in t)
          BY <3>1, <3>4, <3>6
        <4> QED
          BY <3>2, <3>3, <3>4, <4>1
      <3> QED
        BY <3>5, <3>6
    <2> HIDE DEF Good
    <2>2. ASSUME NEW s \in UpTo(I, n + 1)
          PROVE  Good(s)
      <3>1. CASE s = {}
        BY <1>3, <3>1
      <3>2. CASE s # {}
        BY <2>1, <3>2
      <3> QED
        BY <3>1, <3>2
    <2> QED
      BY <2>2
  <1> HIDE DEF S
  <1>6. Cardinality(I) \in S
    BY <1>4, <1>5, AllSubsets, SetInduction
  <1>7. Good(I)
    BY <1>6, AllSubsets DEF S
  <1> QED
    BY <1>1, <1>2, <1>7

\* A sum is at least each of its terms.
LEMMA SumIncludes ==
    ASSUME NEW I, IsFiniteSet(I), NEW m \in I, NEW f, \A i \in I : f[i] \in Nat
    PROVE  f[m] <= SumFunctionOnSet(f, I) /\ SumFunctionOnSet(f, I) \in Nat
  <1>1. PICK F : Adds(F, f, SUBSET I) /\ SumFunctionOnSet(f, I) = F[I]
    BY SumAdds
  <1> DEFINE Good(s) == F[s] \in Nat /\ (m \in s => f[m] <= F[s])
             S == {n \in Nat : \A s \in UpTo(I, n) : Good(s)}
  <1>2. Good({})
    BY <1>1 DEF Adds
  <1>3. 0 \in S
    BY <1>2, UpToZero
  <1>4. ASSUME NEW n \in Nat, n \in S
        PROVE  n + 1 \in S
    <2>1. ASSUME NEW s \in UpTo(I, n + 1), s # {}
          PROVE  Good(s)
      <3> DEFINE x == First(s)
                 t == s \ {x}
      <3>1. x \in s /\ t \in UpTo(I, n) /\ s \in SUBSET I /\ t \in SUBSET I
        BY <2>1, Smaller DEF UpTo
      <3>2. Good(t)
        BY <1>4, <3>1
      <3>3. F[s] = f[x] + F[t]
        BY <1>1, <2>1, <3>1 DEF Adds
      <3>4. f[x] \in Nat /\ f[m] \in Nat
        BY <3>1
      <3>5. CASE x = m
        BY <3>2, <3>3, <3>4, <3>5
      <3>6. CASE x # m
        <4>1. m \in s <=> m \in t
          BY <3>1, <3>6
        <4> QED
          BY <3>2, <3>3, <3>4, <4>1
      <3> QED
        BY <3>5, <3>6
    <2> HIDE DEF Good
    <2>2. ASSUME NEW s \in UpTo(I, n + 1)
          PROVE  Good(s)
      <3>1. CASE s = {}
        BY <1>2, <3>1
      <3>2. CASE s # {}
        BY <2>1, <3>2
      <3> QED
        BY <3>1, <3>2
    <2> QED
      BY <2>2
  <1> HIDE DEF S
  <1>5. Cardinality(I) \in S
    BY <1>3, <1>4, AllSubsets, SetInduction
  <1>6. Good(I)
    BY <1>5, AllSubsets DEF S
  <1> QED
    BY <1>1, <1>6

LEMMA SumOfNothing ==
    ASSUME NEW I, IsFiniteSet(I), NEW f, \A i \in I : f[i] = 0
    PROVE  SumFunctionOnSet(f, I) = 0
  <1>1. PICK F : Adds(F, f, SUBSET I) /\ SumFunctionOnSet(f, I) = F[I]
    BY SumAdds
  <1> DEFINE S == {n \in Nat : \A s \in UpTo(I, n) : F[s] = 0}
  <1>2. F[{}] = 0
    BY <1>1 DEF Adds
  <1>3. 0 \in S
    BY <1>2, UpToZero
  <1>4. ASSUME NEW n \in Nat, n \in S
        PROVE  n + 1 \in S
    <2>1. ASSUME NEW s \in UpTo(I, n + 1), s # {}
          PROVE  F[s] = 0
      <3>1. /\ First(s) \in s /\ s \in SUBSET I
            /\ s \ {First(s)} \in UpTo(I, n) /\ s \ {First(s)} \in SUBSET I
        BY <2>1, Smaller DEF UpTo
      <3>2. F[s] = f[First(s)] + F[s \ {First(s)}]
        BY <1>1, <2>1, <3>1 DEF Adds
      <3>3. f[First(s)] = 0 /\ F[s \ {First(s)}] = 0
        BY <1>4, <3>1
      <3> QED
        BY <3>2, <3>3
    <2> QED
      BY <1>2, <2>1
  <1> HIDE DEF S
  <1>5. Cardinality(I) \in S
    BY <1>3, <1>4, AllSubsets, SetInduction
  <1> QED
    BY <1>1, <1>5, AllSubsets DEF S

-----------------------------------------------------------------------------
(* The invariant, and what follows from it.                                *)

LEMMA Inductive == IInv /\ [Next]_vars => IInv'
  BY TypeStep, FanoutOnceStep, ServesConfirmedStep, AttemptsPayForCopiesStep,
     LateStep, RowThenJobStep, QueuedIsLastStep, DroppedForGoodStep,
     AttemptsNeedFaultsStep, JobHasRowStep, SentWasMailedStep
  DEF IInv

LEMMA InitInductive == Init => IInv
  <1> SUFFICES ASSUME Init
               PROVE  IInv
    OBVIOUS
  <1>1. TypeOK
    BY TypeInit
  <1> QED
    BY <1>1, PipelineAssumption
    DEF Init, IInv, FanoutOnce, ServesConfirmed, AttemptsPayForCopies,
        LateIsLast, RowThenJob, QueuedIsLast, DroppedForGood, AttemptsNeedFaults, JobHasRow,
        PaysForCopies, NeedsFaults, SentWasMailed, OneCopyAfterLeaving, Held,
        Unread, Cleared, Refused, Mailed

\* The inductive invariant holds of every behaviour, so everything below may
\* use it.
THEOREM Invariance == Spec => []IInv
  BY InitInductive, Inductive, PTL DEF Spec

\* Every variable keeps its type: in particular the attempts of a job never
\* exceed MaxRetries + 1.
THEOREM Typed == Spec => []TypeOK
  <1>1. IInv => TypeOK
    BY DEF IInv
  <1> QED
    BY <1>1, Invariance, PTL

\* A job the queue holds always finds its delivery row.
THEOREM JobsHaveRows == Spec => []JobHasRow
  <1>1. IInv => JobHasRow
    BY DEF IInv
  <1> QED
    BY <1>1, Invariance, PTL

\* A delivery or message recorded 'sent' did go out.
THEOREM SentMeansMailed == Spec => []SentWasMailed
  <1>1. IInv => SentWasMailed
    BY DEF IInv
  <1> QED
    BY <1>1, Invariance, PTL

\* Somebody who left gets at most one late copy of a message, however often its
\* job is retried.
THEOREM AtMostOneLateCopy == Spec => []OneCopyAfterLeaving
  <1>1. IInv => OneCopyAfterLeaving
    BY DEF IInv
  <1> QED
    BY <1>1, Invariance, PTL

\* A message that shows 'queued' has all its jobs in the queue.
THEOREM QueuedIsComplete == Spec => []QueuedMeansEnqueued
  <1>1. IInv => QueuedMeansEnqueued
    BY DEF IInv, RowThenJob, QueuedIsLast, QueuedMeansEnqueued
  <1> QED
    BY <1>1, Invariance, PTL

\* A job reaches the dead letter queue only after MaxRetries faults.
THEOREM DeadLettersNeedFaults == Spec => []DeadLetterNeedsFaults
  <1>1. IInv => DeadLetterNeedsFaults
    <2> SUFFICES ASSUME IInv, NEW m \in Msg, NEW r \in Member,
                        job[m][r] = "dead"
                 PROVE  faults >= MaxRetries
      BY DEF DeadLetterNeedsFaults
    <2>1. job[m][r] \notin Held
      BY DEF Held, Unread, Cleared, Refused, Mailed
    <2>2. attempts[m][r] \in Nat /\ faults \in Nat /\ MaxRetries \in Nat
      BY PipelineAssumption DEF IInv, TypeOK
    <2>3. /\ attempts[m][r] > MaxRetries
          /\ attempts[m][r] <= faults + 0 + (IF token[r] THEN 1 ELSE 0)
      BY <2>1 DEF IInv, AttemptsNeedFaults, NeedsFaults
    <2> QED
      BY <2>2, <2>3
  <1> QED
    BY <1>1, Invariance, PTL

\* A dead-lettered copy that never went out is left showing 'queued'.
THEOREM DeadLettersStayQueued == Spec => []DeadLetterStaysQueued
  <1>1. IInv => DeadLetterStaysQueued
    <2> SUFFICES ASSUME IInv, NEW m \in Msg, NEW r \in Member,
                        job[m][r] = "dead", copies[m][r] = 0,
                        status[r] = "active"
                 PROVE  row[m][r] = "queued"
      BY DEF DeadLetterStaysQueued
    <2>1. row[m][r] \in {"none", "queued", "sent", "failed"}
      BY DEF IInv, TypeOK
    <2>2. row[m][r] # "none"
      BY DEF IInv, JobHasRow
    <2>3. row[m][r] # "sent"
      BY DEF IInv, TypeOK, SentWasMailed
    <2>4. row[m][r] # "failed"
      BY DEF IInv, DroppedForGood
    <2> QED
      BY <2>1, <2>2, <2>3, <2>4
  <1> QED
    BY <1>1, Invariance, PTL

\* What a step may do to a delivery recorded 'sent'.
Regress ==
    \A m \in Msg, r \in Member :
        (row[m][r] = "sent" /\ row'[m][r] # "sent") =>
            row'[m][r] = "failed" /\ status[r] = "unsubscribed"
-----------------------------------------------------------------------------
(* Duplicates.                                                             *)

\* For member s no copy of x comes to be expected ...
Quiet(x, s) ==
    /\ \A m \in HandoversOf(x) : Accounted(m, s)' <= Accounted(m, s)
    /\ Allowance(x)' >= Allowance(x)

\* ... or one does, and the budget grows with it.
Pays(x, s) ==
    \E m \in HandoversOf(x) :
        /\ \A n \in HandoversOf(x) \ {m} : Accounted(n, s)' <= Accounted(n, s)
        /\ Accounted(m, s)' <= Accounted(m, s) + 1
        /\ Allowance(x)' >= Allowance(x) + 1

LEMMA AccountedType ==
    ASSUME TypeOK, NEW m \in Msg, NEW s \in Member
    PROVE  Accounted(m, s) \in Nat
  BY DEF TypeOK, Accounted

LEMMA AllowanceType ==
    ASSUME TypeOK, NEW x \in Mail
    PROVE  Allowance(x) \in Nat
  BY PipelineAssumption DEF TypeOK, Allowance

LEMMA AllowanceTypeNext ==
    ASSUME TypeOK', NEW x \in Mail
    PROVE  Allowance(x)' \in Nat
  <1>1. PICK n \in Nat : n = faults'
    BY PipelineAssumption DEF TypeOK
  <1>2. Allowance(x)' = n + (IF UnderWay(x)' THEN 1 ELSE 0)
    BY <1>1 DEF Allowance
  <1> QED
    BY <1>2

\* The inbound worker goes on with m.
LEMMA GoesOn ==
    ASSUME TypeOK, NEW m \in Msg, NEW state \in InboundState \ {"idle", "failed"},
           inbound' = [inbound EXCEPT ![m] = state],
           faults' = faults, NEW x \in Mail
    PROVE  Allowance(x)' >= Allowance(x)
  <1>1. UnderWay(x) => UnderWay(x)'
    BY DEF TypeOK, UnderWay, HandoversOf
  <1> QED
    BY <1>1, PipelineAssumption DEF TypeOK, Allowance

LEMMA StaysUnderWay ==
    ASSUME inbound' = inbound, NEW x \in Mail
    PROVE  UnderWay(x)' = UnderWay(x)
  BY DEF UnderWay, HandoversOf

\* A step either leaves what is accounted for or pays: a new handover, which comes
\* only when none is under way, and a fault.
LEMMA CopiesStep ==
    ASSUME TypeOK, FanoutOnce, [Next]_vars, NEW x \in Mail, NEW s \in Member
    PROVE  Quiet(x, s) \/ Pays(x, s)
  <1> USE PipelineAssumption DEF inboundVars, jobVars, TypeOK, InboundBusy, Held,
        Unread, Cleared, Refused, Mailed
  <1>1. CASE UNCHANGED vars
    BY <1>1 DEF vars, Quiet, Accounted, Expected, Allowance, UnderWay, HandoversOf
  <1>2. ASSUME NEW r \in Member, Confirm(r) \/ Leave(r) \/ MintElsewhere(r)
        PROVE  Quiet(x, s)
    BY <1>2 DEF Confirm, Leave, MintElsewhere, Quiet, Accounted, Expected, Allowance,
       UnderWay, HandoversOf
  <1>3. ASSUME NEW m \in Msg, Validate(m)
        PROVE  Quiet(x, s) \/ Pays(x, s)
    <2>1. \A n \in Msg \ {m} : Accounted(n, s)' <= Accounted(n, s)
      BY <1>3 DEF Validate, Accounted, Expected
    <2>2. Accounted(m, s)' <= Accounted(m, s) + 1
      BY <1>3 DEF Validate, Accounted, Expected
    <2>3. CASE m \in HandoversOf(x)
      <3>1. ~UnderWay(x) /\ UnderWay(x)'
        BY <1>3, <2>3 DEF Validate, HandedOver, UnderWay, HandoversOf
      <3>2. Allowance(x)' >= Allowance(x) + 1
        BY <1>3, <3>1 DEF Validate, Allowance
      <3> QED
        BY <2>1, <2>2, <2>3, <3>2 DEF Pays, HandoversOf
    <2>4. CASE m \notin HandoversOf(x)
      <3>1. Allowance(x)' >= Allowance(x)
        BY <1>3, GoesOn DEF Validate, InboundState
      <3> QED
        BY <2>1, <2>4, <3>1 DEF Quiet, HandoversOf
    <2> QED
      BY <2>3, <2>4
  <1>4. ASSUME NEW m \in Msg,
               StoreMessage(m) \/ SnapshotMembers(m) \/ FinishFanout(m) \/ AppendAudit(m)
        PROVE  Quiet(x, s)
    <2>1. PICK state \in {"stored", "fanout", "audit", "accepted"} :
              inbound' = [inbound EXCEPT ![m] = state]
      BY <1>4 DEF StoreMessage, SnapshotMembers, FinishFanout, AppendAudit
    <2>2. inbound[m] \in InboundBusy /\ faults' = faults /\ job' = job /\ copies' = copies
      BY <1>4 DEF StoreMessage, SnapshotMembers, FinishFanout, AppendAudit
    <2>3. Allowance(x)' >= Allowance(x)
      BY <2>1, <2>2, GoesOn DEF InboundState
    <2>4. \A n \in Msg : Accounted(n, s)' <= Accounted(n, s)
      BY <2>1, <2>2 DEF Accounted, Expected
    <2> QED
      BY <2>3, <2>4 DEF Quiet, HandoversOf
  <1>5. ASSUME NEW m \in Msg, InboundFault(m)
        PROVE  Quiet(x, s)
    <2>1. Allowance(x)' >= Allowance(x)
      BY <1>5 DEF InboundFault, Allowance
    <2>2. \A n \in Msg : Accounted(n, s)' <= Accounted(n, s)
      BY <1>5 DEF InboundFault, Accounted, Expected
    <2> QED
      BY <2>1, <2>2 DEF Quiet, HandoversOf
  <1>6. ASSUME NEW m \in Msg, NEW r \in Member, InsertDelivery(m, r) \/ Enqueue(m, r)
        PROVE  Quiet(x, s)
    <2>1. PICK state \in {"enqueue", "fanout"} :
              inbound' = [inbound EXCEPT ![m] = state]
      BY <1>6 DEF InsertDelivery, Enqueue
    <2>2. /\ inbound[m] \in InboundBusy /\ faults' = faults /\ copies' = copies
          /\ job' = job \/ (job[m][r] = "none" /\ job' = [job EXCEPT ![m][r] = "pending"])
      BY <1>6 DEF InsertDelivery, Enqueue, FanoutOnce
    <2>3. Allowance(x)' >= Allowance(x)
      BY <2>1, <2>2, GoesOn DEF InboundState
    <2>4. \A n \in Msg : Accounted(n, s)' <= Accounted(n, s)
      BY <2>1, <2>2 DEF Accounted, Expected
    <2> QED
      BY <2>3, <2>4 DEF Quiet, HandoversOf
  <1>7. ASSUME NEW m \in Msg, NEW r \in Member, Consume(m, r)
        PROVE  Quiet(x, s)
    <2>1. inbound' = inbound /\ faults' = faults
      BY <1>7 DEF Consume, Lease, LoadMember, MarkSuppressed, RecordFailure, FindToken,
         MintToken, RefuseOutbound, Send, RecordSent, MarkMessageSent, Ack
    <2>2. PICK from \in JobState, to \in JobState :
              /\ job[m][r] = from
              /\ job' = [job EXCEPT ![m][r] = to]
              /\ from # "none" /\ to # "none"
              /\ to \in {"pending"} \cup Unread \cup Cleared =>
                     from \in {"pending"} \cup Unread \cup Cleared
              /\ \/ copies' = copies
                 \/ /\ copies' = [copies EXCEPT ![m][r] = @ + 1]
                    /\ from \in Cleared /\ to \in Mailed
      <3> USE DEF Step, JobState
      <3>1. CASE Lease(m, r)
        BY <3>1 DEF Lease
      <3>2. CASE LoadMember(m, r)
        BY <3>2 DEF LoadMember
      <3>3. CASE MarkSuppressed(m, r)
        BY <3>3 DEF MarkSuppressed
      <3>4. CASE RecordFailure(m, r)
        BY <3>4 DEF RecordFailure
      <3>5. CASE FindToken(m, r)
        BY <3>5 DEF FindToken
      <3>6. CASE MintToken(m, r)
        BY <3>6 DEF MintToken, AfterFailure
      <3>7. CASE RefuseOutbound(m, r)
        BY <3>7 DEF RefuseOutbound
      <3>8. CASE Send(m, r)
        BY <3>8 DEF Send
      <3>9. CASE RecordSent(m, r)
        BY <3>9 DEF RecordSent
      <3>10. CASE MarkMessageSent(m, r)
        BY <3>10 DEF MarkMessageSent
      <3>11. CASE Ack(m, r)
        BY <3>11 DEF Ack
      <3> QED
        BY <1>7, <3>1, <3>2, <3>3, <3>4, <3>5, <3>6, <3>7, <3>8, <3>9, <3>10, <3>11
           DEF Consume
    <2>3. Allowance(x)' >= Allowance(x)
      BY <2>1, StaysUnderWay DEF Allowance
    <2>4. ASSUME NEW n \in Msg
          PROVE  Accounted(n, s)' <= Accounted(n, s)
      <3>1. CASE n = m /\ s = r
        BY <2>1, <2>2, <3>1 DEF Accounted, Expected
      <3>2. CASE ~(n = m /\ s = r)
        <4>1. job'[n][s] = job[n][s] /\ copies'[n][s] = copies[n][s]
          BY <2>2, <3>2
        <4> QED
          BY <2>1, <4>1 DEF Accounted, Expected
      <3> QED
        BY <3>1, <3>2
    <2> QED
      BY <2>3, <2>4 DEF Quiet, HandoversOf
  <1>8. ASSUME NEW m \in Msg, NEW r \in Member, NEW B \in SUBSET Pending,
               SenderFault(m, r, B)
        PROVE  Quiet(x, s) \/ Pays(x, s)
    <2>1. inbound' = inbound /\ faults' = faults + 1 /\ copies' = copies
      BY <1>8 DEF SenderFault
    <2>2. Allowance(x)' = Allowance(x) + 1 /\ Allowance(x) \in Nat
      BY <2>1, StaysUnderWay, AllowanceType DEF Allowance
    <2>3. Accounted(m, s)' <= Accounted(m, s) + 1
      BY <2>1 DEF Accounted
    <2>4. ASSUME NEW n \in Msg \ {m}
          PROVE  Accounted(n, s)' <= Accounted(n, s)
      <3>1. job'[n][s] = job[n][s] \/ job[n][s] = "pending"
        BY <1>8 DEF SenderFault, LoseAttempts, Pending
      <3>2. job'[n][s] = "none" => job[n][s] = "none"
        BY <1>8 DEF SenderFault, LoseAttempts, AfterFailure
      <3> QED
        BY <2>1, <3>1, <3>2 DEF Accounted, Expected
    <2>5. CASE m \in HandoversOf(x)
      <3>1. Allowance(x)' >= Allowance(x) + 1
        BY <2>2
      <3> QED
        BY <2>3, <2>4, <2>5, <3>1 DEF Pays, HandoversOf
    <2>6. CASE m \notin HandoversOf(x)
      BY <2>2, <2>4, <2>6 DEF Quiet, HandoversOf
    <2> QED
      BY <2>5, <2>6
  <1> QED
    BY <1>1, <1>2, <1>3, <1>4, <1>5, <1>6, <1>7, <1>8 DEF Next, People, Inbound, FanOut

LEMMA CopiesInductive ==
    TypeOK /\ TypeOK' /\ FanoutOnce /\ CopiesNeedFaults /\ [Next]_vars => CopiesNeedFaults'
  <1> SUFFICES ASSUME TypeOK, TypeOK', FanoutOnce, CopiesNeedFaults, [Next]_vars,
                      NEW x \in Mail, NEW s \in Member
               PROVE  SumFunctionOnSet([m \in Msg |-> Accounted(m, s)'], HandoversOf(x))
                          <= Allowance(x)'
    BY DEF CopiesNeedFaults, HandoversOf
  <1> DEFINE f == [m \in Msg |-> Accounted(m, s)]
             g == [m \in Msg |-> Accounted(m, s)']
             I == HandoversOf(x)
  <1>1. IsFiniteSet(I)
    BY HandoversAssumption DEF HandoversOf
  <1>2. \A m \in I : f[m] = Accounted(m, s) /\ g[m] = Accounted(m, s)'
    BY DEF HandoversOf
  <1>3. \A m \in I : f[m] \in Nat /\ g[m] \in Nat
    <2> SUFFICES ASSUME NEW m \in I PROVE f[m] \in Nat /\ g[m] \in Nat
      OBVIOUS
    <2>1. m \in Msg
      BY DEF HandoversOf
    <2>2. Accounted(m, s) \in Nat
      BY <2>1, AccountedType
    <2>3. Accounted(m, s)' \in Nat
      BY <2>1 DEF TypeOK, Accounted
    <2> QED
      BY <1>2, <2>2, <2>3
  <1>4. SumFunctionOnSet(f, I) <= Allowance(x)
    BY DEF CopiesNeedFaults
  <1>5. Allowance(x) \in Nat /\ Allowance(x)' \in Nat
    <2>1. Allowance(x) \in Nat
      BY AllowanceType
    <2>2. Allowance(x)' \in Nat
      BY AllowanceTypeNext
    <2> QED
      BY <2>1, <2>2
  <1>6. CASE Quiet(x, s)
    <2>1. /\ \A m \in I : g[m] <= f[m]
          /\ Allowance(x)' >= Allowance(x)
      BY <1>2, <1>6 DEF Quiet
    <2> HIDE DEF f, g, I
    <2>2. /\ SumFunctionOnSet(f, I) \in Nat
          /\ SumFunctionOnSet(g, I) \in Nat
          /\ SumFunctionOnSet(g, I) <= SumFunctionOnSet(f, I) + 0
      BY <1>1, <1>3, <2>1, SumGrows
    <2>3. SumFunctionOnSet(g, I) <= Allowance(x)'
      BY <1>4, <1>5, <2>1, <2>2
    <2> QED
      BY <2>3 DEF g, I
  <1>7. CASE Pays(x, s)
    <2>1. PICK m \in I :
              /\ \A n \in I \ {m} : g[n] <= f[n]
              /\ g[m] <= f[m] + 1
              /\ Allowance(x)' >= Allowance(x) + 1
      BY <1>2, <1>7 DEF Pays
    <2> HIDE DEF f, g, I
    <2>2. /\ SumFunctionOnSet(f, I) \in Nat
          /\ SumFunctionOnSet(g, I) \in Nat
          /\ SumFunctionOnSet(g, I) <= SumFunctionOnSet(f, I) + 1
      BY <1>1, <1>3, <2>1, SumGrows
    <2>3. SumFunctionOnSet(g, I) <= Allowance(x)'
      BY <1>4, <1>5, <2>1, <2>2
    <2> QED
      BY <2>3 DEF g, I
  <1> QED
    BY <1>6, <1>7, CopiesStep

LEMMA CopiesInit == Init => CopiesNeedFaults
  <1> SUFFICES ASSUME Init, NEW x \in Mail, NEW s \in Member
               PROVE  SumFunctionOnSet([m \in Msg |-> Accounted(m, s)], HandoversOf(x))
                          <= Allowance(x)
    BY DEF CopiesNeedFaults
  <1> DEFINE f == [m \in Msg |-> Accounted(m, s)]
             I == HandoversOf(x)
  <1>1. IsFiniteSet(I)
    BY HandoversAssumption DEF HandoversOf
  <1>2. \A m \in I : f[m] = 0
    BY DEF Init, HandoversOf, Accounted, Expected, InboundBusy, Unread, Cleared
  <1>3. SumFunctionOnSet(f, I) = 0
    <2> HIDE DEF f, I
    <2> QED
      BY <1>1, <1>2, SumOfNothing
  <1>4. Allowance(x) \in Nat
    BY TypeInit, AllowanceType
  <1> QED
    BY <1>3, <1>4

\* Every duplicate is paid for by a fault, whatever the interleaving, the number of
\* handovers, of members and of retries.
THEOREM DuplicatesArePaidFor == Spec => []DuplicatesNeedFaults
  <1>1. Spec => []CopiesNeedFaults
    <2>1. IInv => TypeOK /\ FanoutOnce
      BY DEF IInv
    <2> QED
      BY <2>1, CopiesInit, CopiesInductive, Invariance, PTL DEF Spec
  <1>2. IInv /\ CopiesNeedFaults => DuplicatesNeedFaults
    <2> SUFFICES ASSUME IInv, CopiesNeedFaults, NEW x \in Mail, NEW s \in Member
                 PROVE  SumFunctionOnSet([m \in Msg |-> copies[m][s]],
                                         {m \in Msg : MailOf[m] = x}) <= 1 + faults
      BY DEF DuplicatesNeedFaults
    <2> DEFINE f == [m \in Msg |-> Accounted(m, s)]
               g == [m \in Msg |-> copies[m][s]]
               I == HandoversOf(x)
    <2>1. IsFiniteSet(I)
      BY HandoversAssumption DEF HandoversOf
    <2>2. \A m \in I : f[m] \in Nat /\ g[m] \in Nat /\ g[m] <= f[m]
      BY DEF IInv, TypeOK, HandoversOf, Accounted
    <2>3. SumFunctionOnSet(f, I) <= Allowance(x)
      BY DEF CopiesNeedFaults
    <2>4. faults \in Nat /\ Allowance(x) <= 1 + faults /\ Allowance(x) \in Nat
      BY PipelineAssumption DEF IInv, TypeOK, Allowance
    <2> HIDE DEF f, g, I
    <2>5. /\ SumFunctionOnSet(f, I) \in Nat
          /\ SumFunctionOnSet(g, I) \in Nat
          /\ SumFunctionOnSet(g, I) <= SumFunctionOnSet(f, I) + 0
      BY <2>1, <2>2, SumGrows
    <2>6. SumFunctionOnSet(g, I) <= 1 + faults
      BY <2>3, <2>4, <2>5
    <2> QED
      BY <2>6 DEF g, I, HandoversOf
  <1> QED
    BY <1>1, <1>2, Invariance, PTL

\* PRD section 12, invariant 3, holds as long as nothing fails: no member receives
\* the same mail twice.
THEOREM OneCopyWithoutFaults == Spec => [](faults = 0 => NoMemberReceivesTwice)
  <1>1. IInv /\ DuplicatesNeedFaults => (faults = 0 => NoMemberReceivesTwice)
    <2> SUFFICES ASSUME IInv, DuplicatesNeedFaults, faults = 0,
                        NEW m \in Msg, NEW s \in Member
                 PROVE  copies[m][s] <= 1
      BY DEF NoMemberReceivesTwice
    <2> DEFINE f == [n \in Msg |-> copies[n][s]]
               x == MailOf[m]
               I == {n \in Msg : MailOf[n] = x}
    <2>1. x \in Mail
      BY PipelineAssumption
    <2>2. IsFiniteSet(I)
      BY <2>1, HandoversAssumption
    <2>3. \A n \in I : f[n] \in Nat
      BY DEF IInv, TypeOK
    <2>4. f[m] = copies[m][s] /\ m \in I
      OBVIOUS
    <2>5. SumFunctionOnSet(f, I) <= 1 + faults
      BY <2>1 DEF DuplicatesNeedFaults
    <2> HIDE DEF f, I
    <2>6. f[m] <= SumFunctionOnSet(f, I) /\ SumFunctionOnSet(f, I) \in Nat
      BY <2>2, <2>3, <2>4, SumIncludes
    <2>7. f[m] \in Nat
      BY <2>3, <2>4
    <2> QED
      BY <2>4, <2>5, <2>6, <2>7
  <1> QED
    BY <1>1, DuplicatesArePaidFor, Invariance, PTL

-----------------------------------------------------------------------------
(* What remains of liveness without time: how a job ends, and that it does.*)

\* A job is acknowledged because a copy went out, its member has left or the mail
\* cannot be built.
AckedForAReason ==
    \A m \in Msg, r \in Member :
        job[m][r] = "acked" =>
            copies[m][r] > 0 \/ status[r] = "unsubscribed" \/ MailOf[m] \in refused

\* RecordFailure acknowledges what was skipped or refused, Ack what was mailed,
\* and none of the reasons is ever taken back.
LEMMA AckedStep ==
    IInv /\ AckedForAReason /\ [Next]_vars => AckedForAReason'
  <1> SUFFICES ASSUME TypeOK, AttemptsPayForCopies, DroppedForGood, AckedForAReason,
                      [Next]_vars
               PROVE  AckedForAReason'
    BY DEF IInv
  <1> USE PipelineAssumption DEF inboundVars, jobVars, TypeOK, AttemptsPayForCopies,
        PaysForCopies, DroppedForGood, AckedForAReason, Mailed
  <1>1. CASE UNCHANGED vars
    BY <1>1 DEF vars
  <1>2. ASSUME NEW r \in Member, People(r)
        PROVE  AckedForAReason'
    BY <1>2 DEF People, Confirm, Leave, MintElsewhere
  <1>3. ASSUME NEW m \in Msg, Inbound(m) \/ InboundFault(m)
        PROVE  AckedForAReason'
    BY <1>3 DEF Inbound, FanOut, Validate, StoreMessage, SnapshotMembers,
        FinishFanout, AppendAudit, InboundFault, InsertDelivery, Enqueue
  <1>4. ASSUME NEW m \in Msg, NEW r \in Member, Lease(m, r)
        PROVE  AckedForAReason'
    BY <1>4 DEF Lease, Step
  <1>10. ASSUME NEW m \in Msg, NEW r \in Member, LoadMember(m, r)
        PROVE  AckedForAReason'
    BY <1>10 DEF LoadMember, Step
  <1>11. ASSUME NEW m \in Msg, NEW r \in Member, MarkSuppressed(m, r)
        PROVE  AckedForAReason'
    BY <1>11 DEF MarkSuppressed, Step
  <1>12. ASSUME NEW m \in Msg, NEW r \in Member, FindToken(m, r)
        PROVE  AckedForAReason'
    BY <1>12 DEF FindToken, Step
  <1>13. ASSUME NEW m \in Msg, NEW r \in Member, RefuseOutbound(m, r)
        PROVE  AckedForAReason'
    BY <1>13 DEF RefuseOutbound, Step
  <1>14. ASSUME NEW m \in Msg, NEW r \in Member, RecordSent(m, r)
        PROVE  AckedForAReason'
    BY <1>14 DEF RecordSent, Step
  <1>15. ASSUME NEW m \in Msg, NEW r \in Member, MarkMessageSent(m, r)
        PROVE  AckedForAReason'
    BY <1>15 DEF MarkMessageSent, Step
  <1>5. ASSUME NEW m \in Msg, NEW r \in Member, RecordFailure(m, r)
        PROVE  AckedForAReason'
    BY <1>5 DEF RecordFailure
  <1>6. ASSUME NEW m \in Msg, NEW r \in Member, MintToken(m, r)
        PROVE  AckedForAReason'
    BY <1>6 DEF MintToken, AfterFailure, Step
  <1>7. ASSUME NEW m \in Msg, NEW r \in Member, Send(m, r)
        PROVE  AckedForAReason'
    BY <1>7 DEF Send, Step
  <1>8. ASSUME NEW m \in Msg, NEW r \in Member, Ack(m, r)
        PROVE  AckedForAReason'
    BY <1>8 DEF Ack, Step
  <1>9. ASSUME NEW m \in Msg, NEW r \in Member,
               NEW B \in SUBSET Pending, SenderFault(m, r, B)
        PROVE  AckedForAReason'
    <2>1. ASSUME NEW n \in Msg, NEW s \in Member
          PROVE  Loses(n, s)
      BY <1>9, LostAttempts
    <2> HIDE DEF TypeOK
    <2> QED
      BY <2>1, <1>9 DEF SenderFault, AfterFailure, Loses
  <1> QED
    BY <1>1, <1>2, <1>3, <1>4, <1>5, <1>6, <1>7, <1>8, <1>9, <1>10, <1>11, <1>12,
       <1>13, <1>14, <1>15 DEF Next, Consume

\* How a job may end.
EndsForAReason ==
    \A m \in Msg, r \in Member :
        /\ job[m][r] = "acked" =>
               copies[m][r] > 0 \/ status[r] = "unsubscribed" \/ MailOf[m] \in refused
        /\ job[m][r] = "dead" => faults >= MaxRetries

\* Nobody is forgotten in silence, as far as states can tell: a job that is over
\* was mailed, or its member had left, or the mail cannot be built, or it is a
\* dead letter after MaxRetries faults.
THEOREM NobodyIsForgotten == Spec => []EndsForAReason
  <1>1. Init => AckedForAReason
    BY DEF Init, AckedForAReason
  <1>2. Spec => []AckedForAReason
    BY <1>1, AckedStep, Invariance, PTL DEF Spec
  <1>3. AckedForAReason /\ DeadLetterNeedsFaults => EndsForAReason
    BY DEF AckedForAReason, DeadLetterNeedsFaults, EndsForAReason
  <1> QED
    BY <1>2, <1>3, DeadLettersNeedFaults, PTL

\* How far the consumer is from the end of an attempt, at most.
Ahead(j) ==
    CASE j = "loaded" -> 8
      [] j = "checked" -> 7
      [] j = "minting" -> 6
      [] j = "ready" -> 5
      [] j \in {"mailed", "suppress"} -> 4
      [] j \in {"recorded", "skipped", "invalid"} -> 3
      [] j = "acking" -> 2
      [] j = "none" -> 1
      [] OTHER -> 0

\* The steps that the queue and the sender can still take for a job: those of the
\* attempts it has left and those of the present one.
TurnsLeft(m, r) ==
    IF job[m][r] \in {"acked", "dead"} THEN 0
    ELSE 9 * (MaxRetries + 1 - attempts[m][r]) + Ahead(job[m][r])

TurnsStay(m, r) == job'[m][r] = job[m][r] /\ attempts'[m][r] = attempts[m][r]

TurnsFall(m, r) == TurnsLeft(m, r)' < TurnsLeft(m, r)

TurnsGoDown == \A m \in Msg, r \in Member : TurnsStay(m, r) \/ TurnsFall(m, r)

LEMMA TurnsStep ==
    IInv /\ [Next]_vars => TurnsGoDown
  <1> SUFFICES ASSUME TypeOK, AttemptsPayForCopies, FanoutOnce, [Next]_vars
               PROVE  TurnsGoDown
    BY DEF IInv
  <1> USE PipelineAssumption DEF inboundVars, jobVars, TypeOK, TurnsGoDown, TurnsStay
  <1>1. CASE UNCHANGED vars
    BY <1>1 DEF vars
  <1>2. ASSUME NEW r \in Member, People(r)
        PROVE  TurnsGoDown
    BY <1>2 DEF People, Confirm, Leave, MintElsewhere
  <1>3. ASSUME NEW m \in Msg,
               Validate(m) \/ StoreMessage(m) \/ SnapshotMembers(m) \/
               FinishFanout(m) \/ AppendAudit(m) \/ InboundFault(m)
        PROVE  TurnsGoDown
    BY <1>3 DEF Validate, StoreMessage, SnapshotMembers, FinishFanout,
        AppendAudit, InboundFault
  <1>4. ASSUME NEW m \in Msg, NEW r \in Member, InsertDelivery(m, r)
        PROVE  TurnsGoDown
    BY <1>4 DEF InsertDelivery
  <1>5. ASSUME NEW m \in Msg, NEW r \in Member, Enqueue(m, r)
        PROVE  TurnsGoDown
    BY <1>5 DEF Enqueue, FanoutOnce, TurnsFall, TurnsLeft, Ahead
  <1>6. ASSUME NEW m \in Msg, NEW r \in Member, Lease(m, r)
        PROVE  TurnsGoDown
    BY <1>6 DEF Lease, Step, AttemptsPayForCopies, PaysForCopies, TurnsFall,
        TurnsLeft, Ahead
  <1>7. ASSUME NEW m \in Msg, NEW r \in Member, LoadMember(m, r)
        PROVE  TurnsGoDown
    BY <1>7 DEF LoadMember, Step, TurnsFall, TurnsLeft, Ahead
  <1>8. ASSUME NEW m \in Msg, NEW r \in Member, MarkSuppressed(m, r)
        PROVE  TurnsGoDown
    BY <1>8 DEF MarkSuppressed, Step, TurnsFall, TurnsLeft, Ahead
  <1>14. ASSUME NEW m \in Msg, NEW r \in Member, RecordFailure(m, r)
        PROVE  TurnsGoDown
    BY <1>14 DEF RecordFailure, TurnsFall, TurnsLeft, Ahead
  <1>9. ASSUME NEW m \in Msg, NEW r \in Member, FindToken(m, r)
        PROVE  TurnsGoDown
    BY <1>9 DEF FindToken, Step, TurnsFall, TurnsLeft, Ahead
  <1>10. ASSUME NEW m \in Msg, NEW r \in Member, MintToken(m, r)
         PROVE  TurnsGoDown
    BY <1>10 DEF MintToken, AfterFailure, Step, TurnsFall, TurnsLeft, Ahead
  <1>11. ASSUME NEW m \in Msg, NEW r \in Member, RefuseOutbound(m, r)
        PROVE  TurnsGoDown
    BY <1>11 DEF RefuseOutbound, Step, TurnsFall, TurnsLeft, Ahead
  <1>15. ASSUME NEW m \in Msg, NEW r \in Member, Send(m, r)
        PROVE  TurnsGoDown
    BY <1>15 DEF Send, Step, TurnsFall, TurnsLeft, Ahead
  <1>12. ASSUME NEW m \in Msg, NEW r \in Member, RecordSent(m, r)
        PROVE  TurnsGoDown
    BY <1>12 DEF RecordSent, Step, TurnsFall, TurnsLeft, Ahead
  <1>16. ASSUME NEW m \in Msg, NEW r \in Member, MarkMessageSent(m, r)
        PROVE  TurnsGoDown
    BY <1>16 DEF MarkMessageSent, Step, TurnsFall, TurnsLeft, Ahead
  <1>17. ASSUME NEW m \in Msg, NEW r \in Member, Ack(m, r)
        PROVE  TurnsGoDown
    BY <1>17 DEF Ack, Step, TurnsFall, TurnsLeft, Ahead
  <1>13. ASSUME NEW m \in Msg, NEW r \in Member,
                NEW B \in SUBSET Pending, SenderFault(m, r, B)
         PROVE  TurnsGoDown
    <2>1. ASSUME NEW n \in Msg, NEW s \in Member
          PROVE  TurnsStay(n, s) \/ TurnsFall(n, s)
      <3>1. Loses(n, s)
        BY <1>13, LostAttempts
      <3>2. CASE TurnsStay(n, s)
        BY <3>2
      <3>3. CASE job[n][s] \in Held /\ attempts'[n][s] = attempts[n][s]
                 /\ job'[n][s] = AfterFailure(attempts'[n][s])
        BY <3>3 DEF AfterFailure, TurnsFall, TurnsLeft, Ahead, Held, Unread, Cleared,
            Refused, Mailed
      <3>4. CASE job[n][s] = "pending" /\ attempts'[n][s] = attempts[n][s] + 1
                 /\ job'[n][s] = AfterFailure(attempts'[n][s])
        BY <3>4 DEF AfterFailure, TurnsFall, TurnsLeft, Ahead, AttemptsPayForCopies,
            PaysForCopies
      <3> QED
        BY <3>1, <3>2, <3>3, <3>4 DEF Loses
    <2> QED
      BY <2>1
  <1> QED
    BY <1>1, <1>2, <1>3, <1>4, <1>5, <1>6, <1>7, <1>8, <1>9, <1>10, <1>11, <1>12,
       <1>13, <1>14, <1>15, <1>16, <1>17 DEF Next, Inbound, FanOut, Consume

\* A step of the consumer moves the job.
LEMMA ConsumeMoves ==
    ASSUME TypeOK, NEW m \in Msg, NEW r \in Member, Consume(m, r)
    PROVE  job'[m][r] # job[m][r]
  BY DEF TypeOK, Consume, Lease, LoadMember, MarkSuppressed, RecordFailure, FindToken,
         MintToken, AfterFailure, RefuseOutbound, Send, RecordSent, MarkMessageSent,
         Ack, Step

LEMMA TurnsType ==
    ASSUME TypeOK, NEW m \in Msg, NEW r \in Member
    PROVE  TurnsLeft(m, r) \in Nat
  BY PipelineAssumption DEF TypeOK, TurnsLeft, Ahead

\* The turns of a job never grow, and each step of the consumer takes one.
RunsDown ==
    \A m \in Msg, r \in Member :
        /\ TurnsLeft(m, r) \in Nat
        /\ TurnsLeft(m, r)' <= TurnsLeft(m, r)
        /\ Consume(m, r) => TurnsLeft(m, r)' < TurnsLeft(m, r)

\* Every job comes to its end: whatever faults and lost races send it back to the
\* queue, and however its batch fares, each step taken for it leaves fewer to
\* take, of 9 * (MaxRetries + 1) at the most once it is queued.  With the fairness
\* of the queue this is why jobs settle.
THEOREM JobsRunOut == Spec => [][RunsDown]_vars
  <1>1. ASSUME IInv, [Next]_vars
        PROVE  RunsDown
    <2>1. TypeOK /\ TurnsGoDown
      BY <1>1, TurnsStep DEF IInv
    <2> SUFFICES ASSUME NEW m \in Msg, NEW r \in Member
                 PROVE  /\ TurnsLeft(m, r) \in Nat
                        /\ TurnsLeft(m, r)' <= TurnsLeft(m, r)
                        /\ Consume(m, r) => TurnsLeft(m, r)' < TurnsLeft(m, r)
      BY DEF RunsDown
    <2>2. TurnsLeft(m, r) \in Nat
      BY <2>1, TurnsType
    <2>3. TurnsStay(m, r) \/ TurnsFall(m, r)
      BY <2>1 DEF TurnsGoDown
    <2>4. Consume(m, r) => ~TurnsStay(m, r)
      BY <2>1, ConsumeMoves DEF TurnsStay
    <2>5. TurnsStay(m, r) => TurnsLeft(m, r)' = TurnsLeft(m, r)
      BY DEF TurnsStay, TurnsLeft
    <2>6. TypeOK'
      BY <1>1, Inductive DEF IInv
    <2>7. TurnsLeft(m, r)' \in Nat
      BY <2>6, PipelineAssumption DEF TypeOK, TurnsLeft, Ahead
    <2> QED
      BY <2>2, <2>3, <2>4, <2>5, <2>7 DEF TurnsFall
  <1>2. IInv /\ [Next]_vars => [RunsDown]_vars
    BY <1>1
  <1> QED
    BY <1>2, Invariance, PTL DEF Spec

-----------------------------------------------------------------------------
(* Deliveries that are set back.                                           *)

\* Only MarkSuppressed and RecordFailure overwrite 'sent', for somebody who left:
\* a mail that was sent is not one that assertOutboundValid refuses.
LEMMA RegressStep ==
    TypeOK /\ FanoutOnce /\ SentWasMailed /\ DroppedForGood
        /\ [Next]_vars => Regress
  <1> SUFFICES ASSUME TypeOK, FanoutOnce, SentWasMailed, DroppedForGood,
                      [Next]_vars
               PROVE  Regress
    OBVIOUS
  <1> USE PipelineAssumption DEF inboundVars, jobVars, TypeOK, FanoutOnce,
        SentWasMailed, DroppedForGood, Regress
  <1>1. CASE UNCHANGED vars
    BY <1>1 DEF vars
  <1>2. ASSUME NEW m \in Msg, NEW r \in Member, InsertDelivery(m, r)
        PROVE  Regress
    BY <1>2 DEF InsertDelivery
  <1>3. ASSUME NEW m \in Msg, NEW r \in Member, MarkSuppressed(m, r)
        PROVE  Regress
    BY <1>3 DEF MarkSuppressed, Step
  <1>4. ASSUME NEW m \in Msg, NEW r \in Member, RecordFailure(m, r)
        PROVE  Regress
    BY <1>4 DEF RecordFailure
  <1>5. ASSUME NEW m \in Msg, NEW r \in Member, RecordSent(m, r)
        PROVE  Regress
    BY <1>5 DEF RecordSent, Step
  <1>6. ASSUME NEW m \in Msg, NEW r \in Member,
               NEW B \in SUBSET Pending, SenderFault(m, r, B)
        PROVE  Regress
    BY <1>6 DEF SenderFault, LoseAttempts, AfterFailure, Pending
  <1>7. ASSUME NEW r \in Member,
               Confirm(r) \/ Leave(r) \/ MintElsewhere(r)
        PROVE  Regress
    BY <1>7 DEF Confirm, Leave, MintElsewhere
  <1>8. ASSUME NEW m \in Msg,
               Validate(m) \/ StoreMessage(m) \/ SnapshotMembers(m) \/
               FinishFanout(m) \/ AppendAudit(m) \/ InboundFault(m)
        PROVE  Regress
    BY <1>8 DEF Validate, StoreMessage, SnapshotMembers, FinishFanout,
        AppendAudit, InboundFault
  <1>9. ASSUME NEW m \in Msg, NEW r \in Member,
               Enqueue(m, r) \/ Lease(m, r) \/ LoadMember(m, r) \/
               FindToken(m, r) \/ MintToken(m, r) \/ RefuseOutbound(m, r) \/
               Send(m, r) \/ MarkMessageSent(m, r) \/ Ack(m, r)
        PROVE  Regress
    BY <1>9 DEF Enqueue, Lease, LoadMember, FindToken, MintToken,
        RefuseOutbound, Send, MarkMessageSent, Ack, Step
  <1> QED
    BY <1>1, <1>2, <1>3, <1>4, <1>5, <1>6, <1>7, <1>8, <1>9
       DEF Next, People, Inbound, FanOut, Consume

\* 'sent' becomes 'failed' only for somebody who left in between.
THEOREM SentRegresses == Spec => SentRegressesOnlyAfterLeaving
  <1>1. IInv /\ [Next]_vars => [Regress]_vars
    BY RegressStep DEF IInv
  <1>2. Spec => [][Regress]_vars
    BY <1>1, Invariance, PTL DEF Spec
  <1> QED
    BY <1>2 DEF SentRegressesOnlyAfterLeaving, Regress

-----------------------------------------------------------------------------
(* The pipeline keeps the promise of ListPromise.                          *)

LEMMA PromiseInit == Init => Promise!Init
  BY DEF Init, Promise!Init, owed, gone, Stage

\* One job moves: so does its stage, and no other.
LEMMA OwedFollowsJob ==
    ASSUME TypeOK, NEW m \in Msg, NEW r \in Member, NEW x,
           job' = [job EXCEPT ![m][r] = x]
    PROVE  owed' = [owed EXCEPT ![m][r] = Stage(x)]
  BY DEF owed, TypeOK

\* A job that moves within its stage changes nothing the promise sees.
LEMMA StageKept ==
    ASSUME TypeOK, NEW m \in Msg, NEW r \in Member, NEW x,
           job' = [job EXCEPT ![m][r] = x], Stage(x) = Stage(job[m][r])
    PROVE  owed' = owed
  BY DEF owed, TypeOK

SomeSettle == \E D \in SUBSET (Msg \X Member) : Promise!Settle(D)

\* One job that is acknowledged or dead-lettered settles its copy.
LEMMA SettlesOne ==
    ASSUME NEW m \in Msg, NEW r \in Member, owed[m][r] = "owed",
           owed' = [owed EXCEPT ![m][r] = "settled"],
           UNCHANGED <<copies, late, gone>>
    PROVE  SomeSettle
  <1> DEFINE D == {<<m, r>>}
  <1>1. ASSUME NEW n \in Msg, NEW s \in Member
        PROVE  owed'[n][s] = IF <<n, s>> \in D THEN "settled" ELSE owed[n][s]
    <2>1. owed \in [Msg -> [Member -> {"none", "owed", "settled"}]]
      BY DEF owed, Stage
    <2>2. owed'[n][s] = IF n = m /\ s = r THEN "settled" ELSE owed[n][s]
      BY <2>1
    <2> QED
      BY <2>2
  <1>2. owed' = [n \in Msg |-> [s \in Member |->
                   IF <<n, s>> \in D THEN "settled" ELSE owed[n][s]]]
    <2> HIDE DEF D
    <2>1. owed' = [n \in Msg |-> [s \in Member |-> owed'[n][s]]]
      BY DEF owed
    <2> QED
      BY <1>1, <2>1
  <1>3. Promise!Settle(D)
    <2>1. \A d \in D : owed[d[1]][d[2]] = "owed"
      OBVIOUS
    <2> HIDE DEF D
    <2> QED
      BY <1>2, <2>1 DEF Promise!Settle
  <1>4. D \in SUBSET (Msg \X Member)
    OBVIOUS
  <1> QED
    BY <1>3, <1>4 DEF SomeSettle

\* Enqueue makes a copy owed, Send hands one over, Leave leaves; a step that ends
\* a job settles it, and every other step changes nothing the promise speaks of.
LEMMA PromiseStep ==
    IInv /\ [Next]_vars => [Promise!Next]_(Promise!vars)
  <1> SUFFICES ASSUME IInv, [Next]_vars
               PROVE  [Promise!Next]_(Promise!vars)
    OBVIOUS
  <1> USE PipelineAssumption DEF inboundVars, jobVars, IInv, TypeOK, gone,
        Promise!vars, Held, Unread, Cleared, Refused, Mailed
  <1>1. CASE UNCHANGED vars
    BY <1>1 DEF vars, owed
  <1>2. ASSUME NEW r \in Member, Confirm(r)
        PROVE  UNCHANGED Promise!vars
    BY <1>2 DEF Confirm, MemberStatus, owed
  <1>3. ASSUME NEW r \in Member, Leave(r)
        PROVE  Promise!Leave(r)
    BY <1>3 DEF Leave, Promise!Leave, owed
  <1>4. ASSUME NEW r \in Member, MintElsewhere(r)
        PROVE  UNCHANGED Promise!vars
    BY <1>4 DEF MintElsewhere, owed
  <1>5. ASSUME NEW m \in Msg,
               Validate(m) \/ StoreMessage(m) \/ SnapshotMembers(m) \/
               FinishFanout(m) \/ AppendAudit(m) \/ InboundFault(m)
        PROVE  UNCHANGED Promise!vars
    BY <1>5 DEF Validate, StoreMessage, SnapshotMembers, FinishFanout,
        AppendAudit, InboundFault, owed
  <1>6. ASSUME NEW m \in Msg, NEW r \in Member, InsertDelivery(m, r)
        PROVE  UNCHANGED Promise!vars
    BY <1>6 DEF InsertDelivery, owed
  <1>7. ASSUME NEW m \in Msg, NEW r \in Member, Enqueue(m, r)
        PROVE  Promise!Owe(m, r)
    <2> DEFINE to == "pending"
    <2>1. owed' = [owed EXCEPT ![m][r] = Stage(to)]
      BY <1>7, OwedFollowsJob DEF Enqueue
    <2>2. owed[m][r] = "none"
      BY <1>7 DEF Enqueue, FanoutOnce, owed, Stage
    <2> QED
      BY <2>1, <2>2, <1>7 DEF Enqueue, Stage, Promise!Owe
  <1>8. ASSUME NEW m \in Msg, NEW r \in Member, Lease(m, r)
        PROVE  UNCHANGED Promise!vars
    <2> DEFINE to == "loaded"
    <2>1. job' = [job EXCEPT ![m][r] = to]
      BY <1>8 DEF Lease, Step
    <2>2. Stage(job[m][r]) = "owed" /\ Stage(to) = "owed"
      BY <1>8 DEF Lease, Step, Stage
    <2>3. owed' = owed
      BY <2>1, <2>2, StageKept
    <2> QED
      BY <2>3, <1>8 DEF Lease, Step
  <1>9. ASSUME NEW m \in Msg, NEW r \in Member, LoadMember(m, r)
        PROVE  UNCHANGED Promise!vars
    <2> DEFINE to == IF status[r] = "active" THEN "checked" ELSE "suppress"
    <2>1. job' = [job EXCEPT ![m][r] = to]
      BY <1>9 DEF LoadMember, Step
    <2>2. Stage(job[m][r]) = "owed" /\ Stage(to) = "owed"
      BY <1>9 DEF LoadMember, Step, Stage
    <2> HIDE DEF to
    <2>3. owed' = owed
      BY <2>1, <2>2, StageKept
    <2> QED
      BY <2>3, <1>9 DEF LoadMember, Step
  <1>10. ASSUME NEW m \in Msg, NEW r \in Member, MarkSuppressed(m, r)
        PROVE  UNCHANGED Promise!vars
    <2> DEFINE to == "skipped"
    <2>1. job' = [job EXCEPT ![m][r] = to]
      BY <1>10 DEF MarkSuppressed, Step
    <2>2. Stage(job[m][r]) = "owed" /\ Stage(to) = "owed"
      BY <1>10 DEF MarkSuppressed, Step, Stage
    <2>3. owed' = owed
      BY <2>1, <2>2, StageKept
    <2> QED
      BY <2>3, <1>10 DEF MarkSuppressed, Step
  <1>11. ASSUME NEW m \in Msg, NEW r \in Member, RecordFailure(m, r)
        PROVE  SomeSettle
    <2> DEFINE to == "acked"
    <2>1. owed' = [owed EXCEPT ![m][r] = Stage(to)]
      BY <1>11, OwedFollowsJob DEF RecordFailure
    <2>2. owed[m][r] = "owed"
      BY <1>11 DEF RecordFailure, owed, Stage
    <2>3. owed' = [owed EXCEPT ![m][r] = "settled"]
      BY <2>1 DEF Stage
    <2> QED
      BY <2>2, <2>3, SettlesOne, <1>11 DEF RecordFailure
  <1>12. ASSUME NEW m \in Msg, NEW r \in Member, FindToken(m, r)
        PROVE  UNCHANGED Promise!vars
    <2> DEFINE to == IF token[r] THEN "ready" ELSE "minting"
    <2>1. job' = [job EXCEPT ![m][r] = to]
      BY <1>12 DEF FindToken, Step
    <2>2. Stage(job[m][r]) = "owed" /\ Stage(to) = "owed"
      BY <1>12 DEF FindToken, Step, Stage
    <2> HIDE DEF to
    <2>3. owed' = owed
      BY <2>1, <2>2, StageKept
    <2> QED
      BY <2>3, <1>12 DEF FindToken, Step
  <1>13. ASSUME NEW m \in Msg, NEW r \in Member, MintToken(m, r)
        PROVE  SomeSettle \/ UNCHANGED Promise!vars
    <2> DEFINE to == IF token[r] THEN AfterFailure(attempts[m][r]) ELSE "ready"
    <2>1. job' = [job EXCEPT ![m][r] = to]
      BY <1>13 DEF MintToken, Step
    <2>2. Stage(job[m][r]) = "owed"
      BY <1>13 DEF MintToken, Step, Stage
    <2>3. CASE to = "dead"
      <3>1. owed' = [owed EXCEPT ![m][r] = Stage(to)]
        BY <2>1, OwedFollowsJob
      <3>2. owed[m][r] = "owed"
        BY <2>2 DEF owed
      <3>3. owed' = [owed EXCEPT ![m][r] = "settled"]
        BY <2>3, <3>1 DEF Stage
      <3> QED
        BY <3>2, <3>3, SettlesOne, <1>13 DEF MintToken, Step
    <2>4. CASE to # "dead"
      <3>1. Stage(to) = "owed"
        BY <2>4 DEF AfterFailure, Stage
      <3>2. owed' = owed
        BY <2>1, <2>2, <3>1, StageKept
      <3> QED
        BY <3>2, <1>13 DEF MintToken, Step
    <2> QED
      BY <2>3, <2>4
  <1>14. ASSUME NEW m \in Msg, NEW r \in Member, RefuseOutbound(m, r)
        PROVE  UNCHANGED Promise!vars
    <2> DEFINE to == "invalid"
    <2>1. job' = [job EXCEPT ![m][r] = to]
      BY <1>14 DEF RefuseOutbound, Step
    <2>2. Stage(job[m][r]) = "owed" /\ Stage(to) = "owed"
      BY <1>14 DEF RefuseOutbound, Step, Stage
    <2>3. owed' = owed
      BY <2>1, <2>2, StageKept
    <2> QED
      BY <2>3, <1>14 DEF RefuseOutbound, Step
  <1>15. ASSUME NEW m \in Msg, NEW r \in Member, Send(m, r)
        PROVE  Promise!Hand(m, r)
    <2> DEFINE to == "mailed"
    <2>1. job' = [job EXCEPT ![m][r] = to]
      BY <1>15 DEF Send, Step
    <2>2. Stage(job[m][r]) = "owed" /\ Stage(to) = "owed"
      BY <1>15 DEF Send, Step, Stage
    <2>3. owed' = owed
      BY <2>1, <2>2, StageKept
    <2>4. owed[m][r] = "owed"
      BY <2>2 DEF owed
    <2> QED
      BY <2>3, <2>4, <1>15 DEF Send, Step, Promise!Hand, AttemptsPayForCopies,
          PaysForCopies, ServesConfirmed, LateIsLast, MemberStatus
  <1>16. ASSUME NEW m \in Msg, NEW r \in Member, RecordSent(m, r)
        PROVE  UNCHANGED Promise!vars
    <2> DEFINE to == "recorded"
    <2>1. job' = [job EXCEPT ![m][r] = to]
      BY <1>16 DEF RecordSent, Step
    <2>2. Stage(job[m][r]) = "owed" /\ Stage(to) = "owed"
      BY <1>16 DEF RecordSent, Step, Stage
    <2>3. owed' = owed
      BY <2>1, <2>2, StageKept
    <2> QED
      BY <2>3, <1>16 DEF RecordSent, Step
  <1>17. ASSUME NEW m \in Msg, NEW r \in Member, MarkMessageSent(m, r)
        PROVE  UNCHANGED Promise!vars
    <2> DEFINE to == "acking"
    <2>1. job' = [job EXCEPT ![m][r] = to]
      BY <1>17 DEF MarkMessageSent, Step
    <2>2. Stage(job[m][r]) = "owed" /\ Stage(to) = "owed"
      BY <1>17 DEF MarkMessageSent, Step, Stage
    <2>3. owed' = owed
      BY <2>1, <2>2, StageKept
    <2> QED
      BY <2>3, <1>17 DEF MarkMessageSent, Step
  <1>18. ASSUME NEW m \in Msg, NEW r \in Member, Ack(m, r)
        PROVE  SomeSettle
    <2> DEFINE to == "acked"
    <2>1. owed' = [owed EXCEPT ![m][r] = Stage(to)]
      BY <1>18, OwedFollowsJob DEF Ack, Step
    <2>2. owed[m][r] = "owed"
      BY <1>18 DEF Ack, Step, owed, Stage
    <2>3. owed' = [owed EXCEPT ![m][r] = "settled"]
      BY <2>1 DEF Stage
    <2> QED
      BY <2>2, <2>3, SettlesOne, <1>18 DEF Ack, Step
  <1>19. ASSUME NEW m \in Msg, NEW r \in Member,
               NEW B \in SUBSET Pending, SenderFault(m, r, B)
        PROVE  SomeSettle
    <2> DEFINE D == {d \in Msg \X Member :
                       job[d[1]][d[2]] # "dead" /\ job'[d[1]][d[2]] = "dead"}
    <2>1. ASSUME NEW n \in Msg, NEW s \in Member
          PROVE  \/ job'[n][s] = job[n][s]
                 \/ /\ Stage(job[n][s]) = "owed"
                    /\ job'[n][s] \in {"pending", "dead"}
                    /\ job[n][s] # "dead"
      BY <1>19, LostAttempts DEF AfterFailure, Stage, Loses
    <2>2. \A d \in D : owed[d[1]][d[2]] = "owed"
      BY <2>1 DEF owed
    <2>3. owed' = [n \in Msg |-> [s \in Member |->
                     IF <<n, s>> \in D THEN "settled" ELSE owed[n][s]]]
      <3>1. ASSUME NEW n \in Msg, NEW s \in Member
            PROVE  Stage(job'[n][s]) = IF <<n, s>> \in D THEN "settled"
                                                         ELSE Stage(job[n][s])
        BY <2>1 DEF Stage
      <3> HIDE DEF D
      <3> QED
        BY <3>1 DEF owed
    <2>4. Promise!Settle(D)
      BY <2>2, <2>3, <1>19 DEF SenderFault, Promise!Settle
    <2>5. D \in SUBSET (Msg \X Member)
      OBVIOUS
    <2> QED
      BY <2>4, <2>5 DEF SomeSettle
  <1> QED
    BY <1>1, <1>2, <1>3, <1>4, <1>5, <1>6, <1>7, <1>8, <1>9, <1>10,
       <1>11, <1>12, <1>13, <1>14, <1>15, <1>16, <1>17, <1>18, <1>19
       DEF Next, People, Inbound, FanOut, Consume, SomeSettle, Promise!Next

\* The pipeline implements the promise: copies go out only while one is owed,
\* within the budget, and at most once after the member left.
THEOREM Implements == Spec => KeepsPromise
  BY PromiseInit, PromiseStep, Invariance, PTL DEF Spec, KeepsPromise, Promise!Safety
=============================================================================
