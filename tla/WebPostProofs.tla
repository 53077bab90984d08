---------------------------- MODULE WebPostProofs ----------------------------
(***************************************************************************)
(* Theorems about WebPost, for any list, any number of posts that overlap, *)
(* any limit and any number of faults.                                     *)
(***************************************************************************)
EXTENDS WebPost, FiniteSetTheorems, TLAPS

-----------------------------------------------------------------------------
(* The inductive invariants, in parts.                                     *)

\* Whoever has been let through by the count, and seen no INSERT since, found
\* fewer messages than the limit.
CountHolds ==
    \A q \in Post : step[q] = "clear" /\ q \notin overlapped
                        => Cardinality(recent) < PostLimit

\* A fan-out starts once, when its post is accepted.
StartsOnce == \A q \in Post : step[q] # "accepted" => fan[q] = "none"

\* Rows are written before the first copy, and the members still to come have
\* theirs as it was written.
RowsWaiting ==
    \A q \in Post, m \in Reader :
        /\ fan[q] \in {"none", "due"} => row[q][m] = "none"
        /\ fan[q] = "listing" => row[q][m] \in {"none", "queued"}
        /\ fan[q] \in {"sending", "mailed", "threw"} /\ m \in todo[q]
               => row[q][m] = "queued"

\* Nobody still to come has been mailed anything, but for the member whose copy
\* has just gone out.
NothingMailedYet ==
    \A q \in Post, m \in Reader :
        /\ fan[q] \in {"none", "due", "listing"} => handed[q][m] = 0
        /\ fan[q] = "sending" /\ m \in todo[q] => handed[q][m] = 0
        /\ fan[q] \in {"mailed", "threw"} /\ m \in todo[q] /\ m # at[q]
               => handed[q][m] = 0
        /\ handed[q][m] = 0 => late[q][m] = 0

\* The member that a fan-out is at.
AtHand ==
    \A q \in Post :
        /\ fan[q] \in {"mailed", "threw"} => at[q] \in todo[q]
        /\ fan[q] = "mailed" => handed[q][at[q]] = 1
        /\ fan[q] = "threw" =>
               \/ handed[q][at[q]] = 0
               \/ handed[q][at[q]] = 1 /\ postFaults > 0

FanInv == PostTypeOK /\ StartsOnce /\ RowsWaiting /\ NothingMailedYet /\ AtHand
              /\ RowsTellTheTruth

-----------------------------------------------------------------------------
\* The next member is one of them.
LEMMA FirstIsOne ==
    ASSUME NEW T, T # {}
    PROVE  First(T) \in T
  BY DEF First

\* Types, action by action.
LEMMA TypeStep ==
    PostTypeOK /\ [PostNext]_postVars => PostTypeOK'
  <1> SUFFICES ASSUME PostTypeOK, [PostNext]_postVars
               PROVE  PostTypeOK'
    OBVIOUS
  <1> USE WebPostAssumption DEF PostTypeOK, fanFrame, handlerVars, fanVars
  <1>1. CASE UNCHANGED postVars
    BY <1>1 DEF postVars
  <1>2. ASSUME NEW q \in Post, CheckPost(q)
        PROVE  PostTypeOK'
    BY <1>2 DEF CheckPost
  <1>3. ASSUME NEW q \in Post, CountPosts(q)
        PROVE  PostTypeOK'
    BY <1>3 DEF CountPosts
  <1>4. ASSUME NEW q \in Post, InsertPost(q)
        PROVE  PostTypeOK'
    BY <1>4 DEF InsertPost, Store
  <1>5. ASSUME NEW q \in Post, MailIn(q)
        PROVE  PostTypeOK'
    BY <1>5 DEF MailIn, Store
  <1>6. ASSUME NEW q \in Post, AgePost(q)
        PROVE  PostTypeOK'
    BY <1>6 DEF AgePost
  <1>7. ASSUME NEW q \in Post, AcceptPost(q)
        PROVE  PostTypeOK'
    BY <1>7 DEF AcceptPost
  <1>8. ASSUME NEW q \in Post, FailPost(q)
        PROVE  PostTypeOK'
    BY <1>8 DEF FailPost, PostFault
  <1>9. ASSUME NEW q \in Post, ListMembers(q)
        PROVE  PostTypeOK'
    BY <1>9 DEF ListMembers
  <1>10. ASSUME NEW q \in Post, InsertRow(q)
        PROVE  PostTypeOK'
    <2>1. First(Unlisted(q)) \in Unlisted(q)
      BY <1>10, FirstIsOne DEF InsertRow
    <2>2. First(Unlisted(q)) \in Reader
      BY <2>1 DEF Unlisted
    <2> QED
      BY <1>10, <2>2 DEF InsertRow
  <1>11. ASSUME NEW q \in Post, QueuePost(q)
        PROVE  PostTypeOK'
    BY <1>11 DEF QueuePost
  <1>12. ASSUME NEW q \in Post, MailCopy(q)
        PROVE  PostTypeOK'
    <2>1. First(todo[q]) \in Reader
      BY <1>12, FirstIsOne DEF MailCopy
    <2> QED
      BY <1>12, <2>1 DEF MailCopy
  <1>13. ASSUME NEW q \in Post, RefuseCopy(q)
        PROVE  PostTypeOK'
    <2>1. First(todo[q]) \in Reader
      BY <1>13, FirstIsOne DEF RefuseCopy
    <2> QED
      BY <1>13, <2>1 DEF RefuseCopy
  <1>14. ASSUME NEW q \in Post, RecordSent(q)
        PROVE  PostTypeOK'
    BY <1>14 DEF RecordSent, SettleRow
  <1>15. ASSUME NEW q \in Post, RecordFailed(q)
        PROVE  PostTypeOK'
    BY <1>15 DEF RecordFailed, SettleRow
  <1>16. ASSUME NEW q \in Post, FinishPost(q)
        PROVE  PostTypeOK'
    BY <1>16 DEF FinishPost
  <1>17. ASSUME NEW q \in Post, RecordThrows(q)
        PROVE  PostTypeOK'
    BY <1>17 DEF RecordThrows, PostFault
  <1>18. ASSUME NEW q \in Post, LoseFanOut(q)
        PROVE  PostTypeOK'
    BY <1>18 DEF LoseFanOut, PostFault, Running
  <1>19. ASSUME NEW m \in Reader, LeaveGroup(m)
        PROVE  PostTypeOK'
    BY <1>19 DEF LeaveGroup
  <1> QED BY <1>1, <1>2, <1>3, <1>4, <1>5, <1>6, <1>7, <1>8, <1>9, <1>10,
        <1>11, <1>12, <1>13, <1>14, <1>15, <1>16, <1>17, <1>18, <1>19
       DEF PostNext, Accepting, FanOut

\* AcceptPost is the only start.
LEMMA StartsOnceStep ==
    PostTypeOK /\ StartsOnce /\ [PostNext]_postVars => StartsOnce'
  <1> SUFFICES ASSUME PostTypeOK, StartsOnce, [PostNext]_postVars
               PROVE  StartsOnce'
    OBVIOUS
  <1> USE WebPostAssumption DEF PostTypeOK, StartsOnce, fanFrame, handlerVars,
              fanVars
  <1>1. CASE UNCHANGED postVars
    BY <1>1 DEF postVars
  <1>2. ASSUME NEW q \in Post, CheckPost(q)
        PROVE  StartsOnce'
    BY <1>2 DEF CheckPost
  <1>3. ASSUME NEW q \in Post, CountPosts(q)
        PROVE  StartsOnce'
    BY <1>3 DEF CountPosts
  <1>4. ASSUME NEW q \in Post, InsertPost(q)
        PROVE  StartsOnce'
    BY <1>4 DEF InsertPost, Store
  <1>5. ASSUME NEW q \in Post, MailIn(q)
        PROVE  StartsOnce'
    BY <1>5 DEF MailIn, Store
  <1>6. ASSUME NEW q \in Post, AgePost(q)
        PROVE  StartsOnce'
    BY <1>6 DEF AgePost
  <1>7. ASSUME NEW q \in Post, AcceptPost(q)
        PROVE  StartsOnce'
    BY <1>7 DEF AcceptPost
  <1>8. ASSUME NEW q \in Post, FailPost(q)
        PROVE  StartsOnce'
    BY <1>8 DEF FailPost, PostFault
  <1>9. ASSUME NEW q \in Post, ListMembers(q)
        PROVE  StartsOnce'
    BY <1>9 DEF ListMembers
  <1>10. ASSUME NEW q \in Post, InsertRow(q)
        PROVE  StartsOnce'
    BY <1>10 DEF InsertRow
  <1>11. ASSUME NEW q \in Post, QueuePost(q)
        PROVE  StartsOnce'
    BY <1>11 DEF QueuePost
  <1>12. ASSUME NEW q \in Post, MailCopy(q)
        PROVE  StartsOnce'
    BY <1>12 DEF MailCopy
  <1>13. ASSUME NEW q \in Post, RefuseCopy(q)
        PROVE  StartsOnce'
    BY <1>13 DEF RefuseCopy
  <1>14. ASSUME NEW q \in Post, RecordSent(q)
        PROVE  StartsOnce'
    BY <1>14 DEF RecordSent, SettleRow
  <1>15. ASSUME NEW q \in Post, RecordFailed(q)
        PROVE  StartsOnce'
    BY <1>15 DEF RecordFailed, SettleRow
  <1>16. ASSUME NEW q \in Post, FinishPost(q)
        PROVE  StartsOnce'
    BY <1>16 DEF FinishPost
  <1>17. ASSUME NEW q \in Post, RecordThrows(q)
        PROVE  StartsOnce'
    BY <1>17 DEF RecordThrows, PostFault
  <1>18. ASSUME NEW q \in Post, LoseFanOut(q)
        PROVE  StartsOnce'
    BY <1>18 DEF LoseFanOut, PostFault, Running
  <1>19. ASSUME NEW m \in Reader, LeaveGroup(m)
        PROVE  StartsOnce'
    BY <1>19 DEF LeaveGroup
  <1> QED BY <1>1, <1>2, <1>3, <1>4, <1>5, <1>6, <1>7, <1>8, <1>9, <1>10,
        <1>11, <1>12, <1>13, <1>14, <1>15, <1>16, <1>17, <1>18, <1>19
       DEF PostNext, Accepting, FanOut

\* Rows are written by the listing and settled one at a time.
LEMMA RowsWaitingStep ==
    PostTypeOK /\ StartsOnce /\ RowsWaiting /\ [PostNext]_postVars => RowsWaiting'
  <1> SUFFICES ASSUME PostTypeOK, StartsOnce, RowsWaiting, [PostNext]_postVars
               PROVE  RowsWaiting'
    OBVIOUS
  <1> USE WebPostAssumption DEF PostTypeOK, StartsOnce, RowsWaiting, fanFrame,
              handlerVars, fanVars
  <1>1. CASE UNCHANGED postVars
    BY <1>1 DEF postVars
  <1>2. ASSUME NEW q \in Post, CheckPost(q)
        PROVE  RowsWaiting'
    BY <1>2 DEF CheckPost
  <1>3. ASSUME NEW q \in Post, CountPosts(q)
        PROVE  RowsWaiting'
    BY <1>3 DEF CountPosts
  <1>4. ASSUME NEW q \in Post, InsertPost(q)
        PROVE  RowsWaiting'
    BY <1>4 DEF InsertPost, Store
  <1>5. ASSUME NEW q \in Post, MailIn(q)
        PROVE  RowsWaiting'
    BY <1>5 DEF MailIn, Store
  <1>6. ASSUME NEW q \in Post, AgePost(q)
        PROVE  RowsWaiting'
    BY <1>6 DEF AgePost
  <1>7. ASSUME NEW q \in Post, AcceptPost(q)
        PROVE  RowsWaiting'
    BY <1>7 DEF AcceptPost
  <1>8. ASSUME NEW q \in Post, FailPost(q)
        PROVE  RowsWaiting'
    BY <1>8 DEF FailPost, PostFault
  <1>9. ASSUME NEW q \in Post, ListMembers(q)
        PROVE  RowsWaiting'
    BY <1>9 DEF ListMembers
  <1>10. ASSUME NEW q \in Post, InsertRow(q)
        PROVE  RowsWaiting'
    <2>1. First(Unlisted(q)) \in Unlisted(q)
      BY <1>10, FirstIsOne DEF InsertRow
    <2> QED
      BY <1>10, <2>1 DEF InsertRow, Unlisted
  <1>11. ASSUME NEW q \in Post, QueuePost(q)
        PROVE  RowsWaiting'
    BY <1>11 DEF QueuePost, Unlisted
  <1>12. ASSUME NEW q \in Post, MailCopy(q)
        PROVE  RowsWaiting'
    BY <1>12 DEF MailCopy
  <1>13. ASSUME NEW q \in Post, RefuseCopy(q)
        PROVE  RowsWaiting'
    BY <1>13 DEF RefuseCopy
  <1>14. ASSUME NEW q \in Post, RecordSent(q)
        PROVE  RowsWaiting'
    BY <1>14 DEF RecordSent, SettleRow
  <1>15. ASSUME NEW q \in Post, RecordFailed(q)
        PROVE  RowsWaiting'
    BY <1>15 DEF RecordFailed, SettleRow
  <1>16. ASSUME NEW q \in Post, FinishPost(q)
        PROVE  RowsWaiting'
    BY <1>16 DEF FinishPost
  <1>17. ASSUME NEW q \in Post, RecordThrows(q)
        PROVE  RowsWaiting'
    BY <1>17 DEF RecordThrows, PostFault
  <1>18. ASSUME NEW q \in Post, LoseFanOut(q)
        PROVE  RowsWaiting'
    BY <1>18 DEF LoseFanOut, PostFault, Running
  <1>19. ASSUME NEW m \in Reader, LeaveGroup(m)
        PROVE  RowsWaiting'
    BY <1>19 DEF LeaveGroup
  <1> QED BY <1>1, <1>2, <1>3, <1>4, <1>5, <1>6, <1>7, <1>8, <1>9, <1>10,
        <1>11, <1>12, <1>13, <1>14, <1>15, <1>16, <1>17, <1>18, <1>19
       DEF PostNext, Accepting, FanOut

\* A copy is mailed to the member at hand only.
LEMMA NothingMailedYetStep ==
    PostTypeOK /\ StartsOnce /\ NothingMailedYet /\ [PostNext]_postVars => NothingMailedYet'
  <1> SUFFICES ASSUME PostTypeOK, StartsOnce, NothingMailedYet, [PostNext]_postVars
               PROVE  NothingMailedYet'
    OBVIOUS
  <1> USE WebPostAssumption DEF PostTypeOK, StartsOnce, NothingMailedYet, fanFrame,
              handlerVars, fanVars
  <1>1. CASE UNCHANGED postVars
    BY <1>1 DEF postVars
  <1>2. ASSUME NEW q \in Post, CheckPost(q)
        PROVE  NothingMailedYet'
    BY <1>2 DEF CheckPost
  <1>3. ASSUME NEW q \in Post, CountPosts(q)
        PROVE  NothingMailedYet'
    BY <1>3 DEF CountPosts
  <1>4. ASSUME NEW q \in Post, InsertPost(q)
        PROVE  NothingMailedYet'
    BY <1>4 DEF InsertPost, Store
  <1>5. ASSUME NEW q \in Post, MailIn(q)
        PROVE  NothingMailedYet'
    BY <1>5 DEF MailIn, Store
  <1>6. ASSUME NEW q \in Post, AgePost(q)
        PROVE  NothingMailedYet'
    BY <1>6 DEF AgePost
  <1>7. ASSUME NEW q \in Post, AcceptPost(q)
        PROVE  NothingMailedYet'
    BY <1>7 DEF AcceptPost
  <1>8. ASSUME NEW q \in Post, FailPost(q)
        PROVE  NothingMailedYet'
    BY <1>8 DEF FailPost, PostFault
  <1>9. ASSUME NEW q \in Post, ListMembers(q)
        PROVE  NothingMailedYet'
    BY <1>9 DEF ListMembers
  <1>10. ASSUME NEW q \in Post, InsertRow(q)
        PROVE  NothingMailedYet'
    BY <1>10 DEF InsertRow
  <1>11. ASSUME NEW q \in Post, QueuePost(q)
        PROVE  NothingMailedYet'
    BY <1>11 DEF QueuePost
  <1>12. ASSUME NEW q \in Post, MailCopy(q)
        PROVE  NothingMailedYet'
    <2>1. First(todo[q]) \in todo[q]
      BY <1>12, FirstIsOne DEF MailCopy
    <2> QED
      BY <1>12, <2>1 DEF MailCopy
  <1>13. ASSUME NEW q \in Post, RefuseCopy(q)
        PROVE  NothingMailedYet'
    <2>1. First(todo[q]) \in todo[q]
      BY <1>13, FirstIsOne DEF RefuseCopy
    <2> QED
      BY <1>13, <2>1 DEF RefuseCopy
  <1>14. ASSUME NEW q \in Post, RecordSent(q)
        PROVE  NothingMailedYet'
    BY <1>14 DEF RecordSent, SettleRow
  <1>15. ASSUME NEW q \in Post, RecordFailed(q)
        PROVE  NothingMailedYet'
    BY <1>15 DEF RecordFailed, SettleRow
  <1>16. ASSUME NEW q \in Post, FinishPost(q)
        PROVE  NothingMailedYet'
    BY <1>16 DEF FinishPost
  <1>17. ASSUME NEW q \in Post, RecordThrows(q)
        PROVE  NothingMailedYet'
    BY <1>17 DEF RecordThrows, PostFault
  <1>18. ASSUME NEW q \in Post, LoseFanOut(q)
        PROVE  NothingMailedYet'
    BY <1>18 DEF LoseFanOut, PostFault, Running
  <1>19. ASSUME NEW m \in Reader, LeaveGroup(m)
        PROVE  NothingMailedYet'
    BY <1>19 DEF LeaveGroup
  <1> QED BY <1>1, <1>2, <1>3, <1>4, <1>5, <1>6, <1>7, <1>8, <1>9, <1>10,
        <1>11, <1>12, <1>13, <1>14, <1>15, <1>16, <1>17, <1>18, <1>19
       DEF PostNext, Accepting, FanOut

\* The member at hand stays until its row is settled.
LEMMA AtHandStep ==
    PostTypeOK /\ NothingMailedYet /\ AtHand /\ [PostNext]_postVars => AtHand'
  <1> SUFFICES ASSUME PostTypeOK, NothingMailedYet, AtHand, [PostNext]_postVars
               PROVE  AtHand'
    OBVIOUS
  <1> USE WebPostAssumption DEF PostTypeOK, NothingMailedYet, AtHand, fanFrame,
              handlerVars, fanVars
  <1>1. CASE UNCHANGED postVars
    BY <1>1 DEF postVars
  <1>2. ASSUME NEW q \in Post, CheckPost(q)
        PROVE  AtHand'
    BY <1>2 DEF CheckPost
  <1>3. ASSUME NEW q \in Post, CountPosts(q)
        PROVE  AtHand'
    BY <1>3 DEF CountPosts
  <1>4. ASSUME NEW q \in Post, InsertPost(q)
        PROVE  AtHand'
    BY <1>4 DEF InsertPost, Store
  <1>5. ASSUME NEW q \in Post, MailIn(q)
        PROVE  AtHand'
    BY <1>5 DEF MailIn, Store
  <1>6. ASSUME NEW q \in Post, AgePost(q)
        PROVE  AtHand'
    BY <1>6 DEF AgePost
  <1>7. ASSUME NEW q \in Post, AcceptPost(q)
        PROVE  AtHand'
    BY <1>7 DEF AcceptPost
  <1>8. ASSUME NEW q \in Post, FailPost(q)
        PROVE  AtHand'
    BY <1>8 DEF FailPost, PostFault
  <1>9. ASSUME NEW q \in Post, ListMembers(q)
        PROVE  AtHand'
    BY <1>9 DEF ListMembers
  <1>10. ASSUME NEW q \in Post, InsertRow(q)
        PROVE  AtHand'
    BY <1>10 DEF InsertRow
  <1>11. ASSUME NEW q \in Post, QueuePost(q)
        PROVE  AtHand'
    BY <1>11 DEF QueuePost
  <1>12. ASSUME NEW q \in Post, MailCopy(q)
        PROVE  AtHand'
    <2>1. First(todo[q]) \in todo[q]
      BY <1>12, FirstIsOne DEF MailCopy
    <2> QED
      BY <1>12, <2>1 DEF MailCopy
  <1>13. ASSUME NEW q \in Post, RefuseCopy(q)
        PROVE  AtHand'
    <2>1. First(todo[q]) \in todo[q]
      BY <1>13, FirstIsOne DEF RefuseCopy
    <2> QED
      BY <1>13, <2>1 DEF RefuseCopy
  <1>14. ASSUME NEW q \in Post, RecordSent(q)
        PROVE  AtHand'
    BY <1>14 DEF RecordSent, SettleRow
  <1>15. ASSUME NEW q \in Post, RecordFailed(q)
        PROVE  AtHand'
    BY <1>15 DEF RecordFailed, SettleRow
  <1>16. ASSUME NEW q \in Post, FinishPost(q)
        PROVE  AtHand'
    BY <1>16 DEF FinishPost
  <1>17. ASSUME NEW q \in Post, RecordThrows(q)
        PROVE  AtHand'
    BY <1>17 DEF RecordThrows, PostFault
  <1>18. ASSUME NEW q \in Post, LoseFanOut(q)
        PROVE  AtHand'
    BY <1>18 DEF LoseFanOut, PostFault, Running
  <1>19. ASSUME NEW m \in Reader, LeaveGroup(m)
        PROVE  AtHand'
    BY <1>19 DEF LeaveGroup
  <1> QED BY <1>1, <1>2, <1>3, <1>4, <1>5, <1>6, <1>7, <1>8, <1>9, <1>10,
        <1>11, <1>12, <1>13, <1>14, <1>15, <1>16, <1>17, <1>18, <1>19
       DEF PostNext, Accepting, FanOut

\* A row is settled by what has just happened to the copy.
LEMMA TruthStep ==
    PostTypeOK /\ StartsOnce /\ RowsWaiting /\ NothingMailedYet /\ AtHand /\ RowsTellTheTruth /\ [PostNext]_postVars => RowsTellTheTruth'
  <1> SUFFICES ASSUME PostTypeOK, StartsOnce, RowsWaiting, NothingMailedYet, AtHand, RowsTellTheTruth, [PostNext]_postVars
               PROVE  RowsTellTheTruth'
    OBVIOUS
  <1> USE WebPostAssumption DEF PostTypeOK, StartsOnce, RowsWaiting,
              NothingMailedYet, AtHand, RowsTellTheTruth, fanFrame, handlerVars,
              fanVars
  <1>1. CASE UNCHANGED postVars
    BY <1>1 DEF postVars
  <1>2. ASSUME NEW q \in Post, CheckPost(q)
        PROVE  RowsTellTheTruth'
    BY <1>2 DEF CheckPost
  <1>3. ASSUME NEW q \in Post, CountPosts(q)
        PROVE  RowsTellTheTruth'
    BY <1>3 DEF CountPosts
  <1>4. ASSUME NEW q \in Post, InsertPost(q)
        PROVE  RowsTellTheTruth'
    BY <1>4 DEF InsertPost, Store
  <1>5. ASSUME NEW q \in Post, MailIn(q)
        PROVE  RowsTellTheTruth'
    BY <1>5 DEF MailIn, Store
  <1>6. ASSUME NEW q \in Post, AgePost(q)
        PROVE  RowsTellTheTruth'
    BY <1>6 DEF AgePost
  <1>7. ASSUME NEW q \in Post, AcceptPost(q)
        PROVE  RowsTellTheTruth'
    BY <1>7 DEF AcceptPost
  <1>8. ASSUME NEW q \in Post, FailPost(q)
        PROVE  RowsTellTheTruth'
    BY <1>8 DEF FailPost, PostFault
  <1>9. ASSUME NEW q \in Post, ListMembers(q)
        PROVE  RowsTellTheTruth'
    BY <1>9 DEF ListMembers
  <1>10. ASSUME NEW q \in Post, InsertRow(q)
        PROVE  RowsTellTheTruth'
    <2>1. First(Unlisted(q)) \in Unlisted(q)
      BY <1>10, FirstIsOne DEF InsertRow
    <2> QED
      BY <1>10, <2>1 DEF InsertRow, Unlisted
  <1>11. ASSUME NEW q \in Post, QueuePost(q)
        PROVE  RowsTellTheTruth'
    BY <1>11 DEF QueuePost
  <1>12. ASSUME NEW q \in Post, MailCopy(q)
        PROVE  RowsTellTheTruth'
    <2>1. First(todo[q]) \in todo[q]
      BY <1>12, FirstIsOne DEF MailCopy
    <2> QED
      BY <1>12, <2>1 DEF MailCopy
  <1>13. ASSUME NEW q \in Post, RefuseCopy(q)
        PROVE  RowsTellTheTruth'
    <2>1. First(todo[q]) \in todo[q]
      BY <1>13, FirstIsOne DEF RefuseCopy
    <2> QED
      BY <1>13, <2>1 DEF RefuseCopy
  <1>14. ASSUME NEW q \in Post, RecordSent(q)
        PROVE  RowsTellTheTruth'
    BY <1>14 DEF RecordSent, SettleRow
  <1>15. ASSUME NEW q \in Post, RecordFailed(q)
        PROVE  RowsTellTheTruth'
    BY <1>15 DEF RecordFailed, SettleRow
  <1>16. ASSUME NEW q \in Post, FinishPost(q)
        PROVE  RowsTellTheTruth'
    BY <1>16 DEF FinishPost
  <1>17. ASSUME NEW q \in Post, RecordThrows(q)
        PROVE  RowsTellTheTruth'
    BY <1>17 DEF RecordThrows, PostFault
  <1>18. ASSUME NEW q \in Post, LoseFanOut(q)
        PROVE  RowsTellTheTruth'
    BY <1>18 DEF LoseFanOut, PostFault, Running
  <1>19. ASSUME NEW m \in Reader, LeaveGroup(m)
        PROVE  RowsTellTheTruth'
    BY <1>19 DEF LeaveGroup
  <1> QED BY <1>1, <1>2, <1>3, <1>4, <1>5, <1>6, <1>7, <1>8, <1>9, <1>10,
        <1>11, <1>12, <1>13, <1>14, <1>15, <1>16, <1>17, <1>18, <1>19
       DEF PostNext, Accepting, FanOut

LEMMA PostStarts == PostInit => FanInv
  <1> USE WebPostAssumption DEF PostInit
  <1>1. PostInit => PostTypeOK
    BY DEF PostTypeOK
  <1>2. PostInit => StartsOnce /\ RowsWaiting /\ NothingMailedYet /\ AtHand
    BY DEF StartsOnce, RowsWaiting, NothingMailedYet, AtHand
  <1>3. PostInit => RowsTellTheTruth
    BY DEF RowsTellTheTruth
  <1> QED
    BY <1>1, <1>2, <1>3 DEF FanInv

LEMMA FanInvHolds == PostSpec => []FanInv
  <1>1. FanInv /\ [PostNext]_postVars => FanInv'
    BY TypeStep, StartsOnceStep, RowsWaitingStep, NothingMailedYetStep, AtHandStep,
       TruthStep DEF FanInv
  <1> QED
    BY <1>1, PostStarts, PTL DEF PostSpec

\* Every variable of WebPost keeps its type.
THEOREM PostTyped == PostSpec => []PostTypeOK
  <1>1. FanInv => PostTypeOK
    BY DEF FanInv
  <1> QED
    BY <1>1, FanInvHolds, PTL

\* A row says 'sent' only if one copy was mailed, and 'failed' in spite of a copy
\* only after a fault.
THEOREM RowsAreTrue == PostSpec => []RowsTellTheTruth
  <1>1. FanInv => RowsTellTheTruth
    BY DEF FanInv
  <1> QED
    BY <1>1, FanInvHolds, PTL

-----------------------------------------------------------------------------
(* The limit.                                                              *)

WebPosts == {q \in recent \ overlapped : step[q] # "mailed"}

RecentIsFinite == IsFiniteSet(recent)

\* What is left of a set is no larger.
LEMMA NoMore ==
    ASSUME NEW S, NEW T, IsFiniteSet(T), S \subseteq T
    PROVE  IsFiniteSet(S) /\ Cardinality(S) \in Nat /\ Cardinality(T) \in Nat
               /\ Cardinality(S) <= Cardinality(T)
  BY FS_Subset, FS_CardinalityType

\* An INSERT overlaps every post that is past its count, and age only takes away.
LEMMA CountHoldsStep ==
    PostTypeOK /\ RecentIsFinite /\ CountHolds /\ [PostNext]_postVars => CountHolds'
  <1> SUFFICES ASSUME PostTypeOK, RecentIsFinite, CountHolds, [PostNext]_postVars
               PROVE  CountHolds'
    OBVIOUS
  <1> USE WebPostAssumption DEF PostTypeOK, RecentIsFinite, CountHolds, fanFrame,
              handlerVars, fanVars
  <1>1. CASE UNCHANGED postVars
    BY <1>1 DEF postVars
  <1>2. ASSUME NEW q \in Post, CheckPost(q)
        PROVE  CountHolds'
    BY <1>2 DEF CheckPost
  <1>3. ASSUME NEW q \in Post, CountPosts(q)
        PROVE  CountHolds'
    <2>1. Cardinality(recent) \in Nat
      BY NoMore
    <2> QED
      BY <1>3, <2>1 DEF CountPosts
  <1>4. ASSUME NEW q \in Post, InsertPost(q)
        PROVE  CountHolds'
    <2>1. \A p \in Post : step'[p] = "clear" => p \in overlapped'
      BY <1>4 DEF InsertPost, Store
    <2> QED
      BY <2>1
  <1>5. ASSUME NEW q \in Post, MailIn(q)
        PROVE  CountHolds'
    <2>1. \A p \in Post : step'[p] = "clear" => p \in overlapped'
      BY <1>5 DEF MailIn, Store
    <2> QED
      BY <2>1
  <1>6. ASSUME NEW q \in Post, AgePost(q)
        PROVE  CountHolds'
    <2>1. Cardinality(recent') <= Cardinality(recent) /\ Cardinality(recent') \in Nat
              /\ Cardinality(recent) \in Nat
      BY <1>6, NoMore DEF AgePost
    <2>2. ASSUME NEW p \in Post, step[p] = "clear", p \notin overlapped
          PROVE  Cardinality(recent') < PostLimit
      BY <2>1, <2>2
    <2> QED
      BY <1>6, <2>2 DEF AgePost
  <1>7. ASSUME NEW q \in Post, AcceptPost(q)
        PROVE  CountHolds'
    BY <1>7 DEF AcceptPost
  <1>8. ASSUME NEW q \in Post, FailPost(q)
        PROVE  CountHolds'
    BY <1>8 DEF FailPost, PostFault
  <1>9. ASSUME NEW q \in Post, ListMembers(q)
        PROVE  CountHolds'
    BY <1>9 DEF ListMembers
  <1>10. ASSUME NEW q \in Post, InsertRow(q)
        PROVE  CountHolds'
    BY <1>10 DEF InsertRow
  <1>11. ASSUME NEW q \in Post, QueuePost(q)
        PROVE  CountHolds'
    BY <1>11 DEF QueuePost
  <1>12. ASSUME NEW q \in Post, MailCopy(q)
        PROVE  CountHolds'
    BY <1>12 DEF MailCopy
  <1>13. ASSUME NEW q \in Post, RefuseCopy(q)
        PROVE  CountHolds'
    BY <1>13 DEF RefuseCopy
  <1>14. ASSUME NEW q \in Post, RecordSent(q)
        PROVE  CountHolds'
    BY <1>14 DEF RecordSent, SettleRow
  <1>15. ASSUME NEW q \in Post, RecordFailed(q)
        PROVE  CountHolds'
    BY <1>15 DEF RecordFailed, SettleRow
  <1>16. ASSUME NEW q \in Post, FinishPost(q)
        PROVE  CountHolds'
    BY <1>16 DEF FinishPost
  <1>17. ASSUME NEW q \in Post, RecordThrows(q)
        PROVE  CountHolds'
    BY <1>17 DEF RecordThrows, PostFault
  <1>18. ASSUME NEW q \in Post, LoseFanOut(q)
        PROVE  CountHolds'
    BY <1>18 DEF LoseFanOut, PostFault, Running
  <1>19. ASSUME NEW m \in Reader, LeaveGroup(m)
        PROVE  CountHolds'
    BY <1>19 DEF LeaveGroup
  <1> QED BY <1>1, <1>2, <1>3, <1>4, <1>5, <1>6, <1>7, <1>8, <1>9, <1>10,
        <1>11, <1>12, <1>13, <1>14, <1>15, <1>16, <1>17, <1>18, <1>19
       DEF PostNext, Accepting, FanOut

PostLimitKept == PostTypeOK /\ RecentIsFinite /\ CountHolds /\ PostLimitNeedsOverlap

\* No new web post within the limit's reach.
LEMMA FewerPosts ==
    ASSUME PostLimitKept, WebPosts' \subseteq WebPosts
    PROVE  PostLimitNeedsOverlap'
  <1>1. IsFiniteSet(WebPosts)
    BY NoMore DEF PostLimitKept, RecentIsFinite, WebPosts
  <1>2. Cardinality(WebPosts') \in Nat /\ Cardinality(WebPosts) \in Nat
            /\ Cardinality(WebPosts') <= Cardinality(WebPosts)
    BY <1>1, NoMore
  <1>3. Cardinality(WebPosts) <= PostLimit
    BY DEF PostLimitKept, PostLimitNeedsOverlap, WebPosts
  <1>4. Cardinality(WebPosts') <= PostLimit
    BY <1>2, <1>3, WebPostAssumption
  <1> QED
    BY <1>4 DEF PostLimitNeedsOverlap, WebPosts

\* A post that no INSERT has overlapped found fewer than the limit, and adds one.
LEMMA PostLimitStep ==
    PostLimitKept /\ [PostNext]_postVars => PostLimitNeedsOverlap'
  <1> SUFFICES ASSUME PostLimitKept, [PostNext]_postVars
               PROVE  PostLimitNeedsOverlap'
    OBVIOUS
  <1> USE WebPostAssumption DEF PostLimitKept, PostTypeOK, fanFrame, handlerVars,
              fanVars
  <1>1. CASE UNCHANGED postVars
    BY <1>1 DEF postVars, PostLimitNeedsOverlap
  <1>2. ASSUME NEW q \in Post, CheckPost(q)
        PROVE  PostLimitNeedsOverlap'
    <2>1. WebPosts' \subseteq WebPosts
      BY <1>2 DEF WebPosts, CheckPost
    <2> QED
      BY <2>1, FewerPosts
  <1>3. ASSUME NEW q \in Post, CountPosts(q)
        PROVE  PostLimitNeedsOverlap'
    <2>1. WebPosts' \subseteq WebPosts
      BY <1>3 DEF WebPosts, CountPosts
    <2> QED
      BY <2>1, FewerPosts
  <1>4. ASSUME NEW q \in Post, InsertPost(q)
        PROVE  PostLimitNeedsOverlap'
    <2>1. CASE q \in overlapped
      <3>1. WebPosts' \subseteq WebPosts
        BY <1>4, <2>1 DEF WebPosts, InsertPost, Store
      <3> QED
        BY <3>1, FewerPosts
    <2>2. CASE q \notin overlapped
      <3>1. Cardinality(recent) < PostLimit
        BY <1>4, <2>2 DEF InsertPost, CountHolds
      <3>2. IsFiniteSet(recent') /\ Cardinality(recent') <= Cardinality(recent) + 1
        <4>1. IsFiniteSet(recent)
          BY DEF RecentIsFinite
        <4>2. /\ IsFiniteSet(recent \cup {q})
              /\ \/ Cardinality(recent \cup {q}) = Cardinality(recent)
                 \/ Cardinality(recent \cup {q}) = Cardinality(recent) + 1
          BY <4>1, FS_AddElement
        <4>3. Cardinality(recent) \in Nat
          BY <4>1, FS_CardinalityType
        <4> QED
          BY <1>4, <4>2, <4>3 DEF InsertPost, Store
      <3>3. WebPosts' \subseteq recent'
        BY DEF WebPosts
      <3>4. Cardinality(WebPosts') \in Nat /\ Cardinality(recent') \in Nat
                /\ Cardinality(WebPosts') <= Cardinality(recent')
        BY <3>2, <3>3, NoMore
      <3>5. Cardinality(recent) \in Nat
        BY NoMore DEF RecentIsFinite
      <3>6. Cardinality(WebPosts') <= PostLimit
        BY <3>1, <3>2, <3>4, <3>5
      <3> QED
        BY <3>6 DEF PostLimitNeedsOverlap, WebPosts
    <2> QED
      BY <2>1, <2>2
  <1>5. ASSUME NEW q \in Post, MailIn(q)
        PROVE  PostLimitNeedsOverlap'
    <2>1. WebPosts' \subseteq WebPosts
      BY <1>5 DEF WebPosts, MailIn, Store
    <2> QED
      BY <2>1, FewerPosts
  <1>6. ASSUME NEW q \in Post, AgePost(q)
        PROVE  PostLimitNeedsOverlap'
    <2>1. WebPosts' \subseteq WebPosts
      BY <1>6 DEF WebPosts, AgePost
    <2> QED
      BY <2>1, FewerPosts
  <1>7. ASSUME NEW q \in Post, AcceptPost(q)
        PROVE  PostLimitNeedsOverlap'
    <2>1. WebPosts' \subseteq WebPosts
      BY <1>7 DEF WebPosts, AcceptPost
    <2> QED
      BY <2>1, FewerPosts
  <1>8. ASSUME NEW q \in Post, FailPost(q)
        PROVE  PostLimitNeedsOverlap'
    <2>1. WebPosts' \subseteq WebPosts
      BY <1>8 DEF WebPosts, FailPost, PostFault
    <2> QED
      BY <2>1, FewerPosts
  <1>9. ASSUME NEW q \in Post, ListMembers(q)
        PROVE  PostLimitNeedsOverlap'
    <2>1. WebPosts' \subseteq WebPosts
      BY <1>9 DEF WebPosts, ListMembers
    <2> QED
      BY <2>1, FewerPosts
  <1>10. ASSUME NEW q \in Post, InsertRow(q)
        PROVE  PostLimitNeedsOverlap'
    <2>1. WebPosts' \subseteq WebPosts
      BY <1>10 DEF WebPosts, InsertRow
    <2> QED
      BY <2>1, FewerPosts
  <1>11. ASSUME NEW q \in Post, QueuePost(q)
        PROVE  PostLimitNeedsOverlap'
    <2>1. WebPosts' \subseteq WebPosts
      BY <1>11 DEF WebPosts, QueuePost
    <2> QED
      BY <2>1, FewerPosts
  <1>12. ASSUME NEW q \in Post, MailCopy(q)
        PROVE  PostLimitNeedsOverlap'
    <2>1. WebPosts' \subseteq WebPosts
      BY <1>12 DEF WebPosts, MailCopy
    <2> QED
      BY <2>1, FewerPosts
  <1>13. ASSUME NEW q \in Post, RefuseCopy(q)
        PROVE  PostLimitNeedsOverlap'
    <2>1. WebPosts' \subseteq WebPosts
      BY <1>13 DEF WebPosts, RefuseCopy
    <2> QED
      BY <2>1, FewerPosts
  <1>14. ASSUME NEW q \in Post, RecordSent(q)
        PROVE  PostLimitNeedsOverlap'
    <2>1. WebPosts' \subseteq WebPosts
      BY <1>14 DEF WebPosts, RecordSent, SettleRow
    <2> QED
      BY <2>1, FewerPosts
  <1>15. ASSUME NEW q \in Post, RecordFailed(q)
        PROVE  PostLimitNeedsOverlap'
    <2>1. WebPosts' \subseteq WebPosts
      BY <1>15 DEF WebPosts, RecordFailed, SettleRow
    <2> QED
      BY <2>1, FewerPosts
  <1>16. ASSUME NEW q \in Post, FinishPost(q)
        PROVE  PostLimitNeedsOverlap'
    <2>1. WebPosts' \subseteq WebPosts
      BY <1>16 DEF WebPosts, FinishPost
    <2> QED
      BY <2>1, FewerPosts
  <1>17. ASSUME NEW q \in Post, RecordThrows(q)
        PROVE  PostLimitNeedsOverlap'
    <2>1. WebPosts' \subseteq WebPosts
      BY <1>17 DEF WebPosts, RecordThrows, PostFault
    <2> QED
      BY <2>1, FewerPosts
  <1>18. ASSUME NEW q \in Post, LoseFanOut(q)
        PROVE  PostLimitNeedsOverlap'
    <2>1. WebPosts' \subseteq WebPosts
      BY <1>18 DEF WebPosts, LoseFanOut, PostFault, Running
    <2> QED
      BY <2>1, FewerPosts
  <1>19. ASSUME NEW m \in Reader, LeaveGroup(m)
        PROVE  PostLimitNeedsOverlap'
    <2>1. WebPosts' \subseteq WebPosts
      BY <1>19 DEF WebPosts, LeaveGroup
    <2> QED
      BY <2>1, FewerPosts
  <1> QED BY <1>1, <1>2, <1>3, <1>4, <1>5, <1>6, <1>7, <1>8, <1>9, <1>10,
        <1>11, <1>12, <1>13, <1>14, <1>15, <1>16, <1>17, <1>18, <1>19
       DEF PostNext, Accepting, FanOut

\* More web posts within ten minutes than the limit means that some overlapped.
THEOREM LimitHoldsInTurn == PostSpec => []PostLimitNeedsOverlap
  <1>1. PostTypeOK => RecentIsFinite
    BY NoMore, WebPostAssumption DEF PostTypeOK, RecentIsFinite
  <1>2. PostInit => CountHolds /\ PostLimitNeedsOverlap
    <2> SUFFICES ASSUME PostInit
                 PROVE  CountHolds /\ PostLimitNeedsOverlap
      OBVIOUS
    <2>1. CountHolds
      BY DEF PostInit, CountHolds
    <2>2. {q \in recent \ overlapped : step[q] # "mailed"} = {}
      BY DEF PostInit
    <2>3. Cardinality({}) = 0
      BY FS_EmptySet
    <2> QED
      BY <2>1, <2>2, <2>3, WebPostAssumption DEF PostLimitNeedsOverlap
  <1>3. PostLimitKept /\ PostTypeOK' /\ [PostNext]_postVars => PostLimitKept'
    <2>1. PostTypeOK' => RecentIsFinite'
      BY NoMore, WebPostAssumption DEF PostTypeOK, RecentIsFinite
    <2> QED
      BY <2>1, CountHoldsStep, PostLimitStep DEF PostLimitKept
  <1>4. PostTypeOK /\ CountHolds /\ PostLimitNeedsOverlap => PostLimitKept
    BY <1>1 DEF PostLimitKept
  <1>5. PostInit => PostTypeOK
    BY PostStarts DEF FanInv
  <1>6. PostLimitKept => PostLimitNeedsOverlap
    BY DEF PostLimitKept
  <1> QED
    BY <1>2, <1>3, <1>4, <1>5, <1>6, PostTyped, PTL DEF PostSpec

-----------------------------------------------------------------------------
(* What remains of FanOutSettles without time: what a fan-out leaves behind, *)
(* and that it comes to an end.                                            *)

\* A row that nothing has settled is one that a fan-out still has on its list,
\* and its list is empty when it is done.
RowsAreListed ==
    \A q \in Post :
        /\ \A m \in Reader :
              row[q][m] = "queued" /\ fan[q] # "lost" => m \in todo[q]
        /\ fan[q] = "done" => todo[q] = {}
        /\ fan[q] = "lost" => postFaults > 0

\* A member is taken off the list in the step that settles the row.
LEMMA RowsAreListedStep ==
    FanInv /\ RowsAreListed /\ [PostNext]_postVars => RowsAreListed'
  <1> SUFFICES ASSUME PostTypeOK, StartsOnce, RowsWaiting, RowsAreListed,
                      [PostNext]_postVars
               PROVE  RowsAreListed'
    BY DEF FanInv
  <1> USE WebPostAssumption DEF PostTypeOK, RowsAreListed, fanFrame, handlerVars,
              fanVars
  <1>1. CASE UNCHANGED postVars
    BY <1>1 DEF postVars
  <1>2. ASSUME NEW q \in Post, CheckPost(q)
        PROVE  RowsAreListed'
    BY <1>2 DEF CheckPost
  <1>3. ASSUME NEW q \in Post, CountPosts(q)
        PROVE  RowsAreListed'
    BY <1>3 DEF CountPosts
  <1>4. ASSUME NEW q \in Post, InsertPost(q)
        PROVE  RowsAreListed'
    BY <1>4 DEF InsertPost, Store
  <1>5. ASSUME NEW q \in Post, MailIn(q)
        PROVE  RowsAreListed'
    BY <1>5 DEF MailIn, Store
  <1>6. ASSUME NEW q \in Post, AgePost(q)
        PROVE  RowsAreListed'
    BY <1>6 DEF AgePost
  <1>7. ASSUME NEW q \in Post, AcceptPost(q)
        PROVE  RowsAreListed'
    <2>1. fan[q] = "none" /\ \A m \in Reader : row[q][m] = "none"
      BY <1>7 DEF AcceptPost, StartsOnce, RowsWaiting
    <2>2. fan' = [fan EXCEPT ![q] = "due"] /\ UNCHANGED <<todo, row, postFaults>>
      BY <1>7 DEF AcceptPost
    <2> QED
      BY <2>1, <2>2
  <1>8. ASSUME NEW q \in Post, FailPost(q)
        PROVE  RowsAreListed'
    BY <1>8 DEF FailPost, PostFault
  <1>9. ASSUME NEW q \in Post, ListMembers(q)
        PROVE  RowsAreListed'
    BY <1>9 DEF ListMembers, RowsWaiting
  <1>10. ASSUME NEW q \in Post, InsertRow(q)
        PROVE  RowsAreListed'
    <2> DEFINE m == First(Unlisted(q))
    <2>1. m \in Reader /\ m \in todo[q]
      BY <1>10, FirstIsOne DEF InsertRow, Unlisted
    <2> HIDE DEF m
    <2>2. row' = [row EXCEPT ![q][m] = "queued"] /\ UNCHANGED <<fan, todo, postFaults>>
      BY <1>10 DEF InsertRow, m
    <2>3. fan[q] = "listing"
      BY <1>10 DEF InsertRow
    <2> QED
      BY <2>1, <2>2, <2>3
  <1>11. ASSUME NEW q \in Post, QueuePost(q)
        PROVE  RowsAreListed'
    BY <1>11 DEF QueuePost
  <1>12. ASSUME NEW q \in Post, MailCopy(q)
        PROVE  RowsAreListed'
    BY <1>12 DEF MailCopy
  <1>13. ASSUME NEW q \in Post, RefuseCopy(q)
        PROVE  RowsAreListed'
    BY <1>13 DEF RefuseCopy
  <1>14. ASSUME NEW q \in Post, RecordSent(q)
        PROVE  RowsAreListed'
    BY <1>14 DEF RecordSent, SettleRow
  <1>15. ASSUME NEW q \in Post, RecordFailed(q)
        PROVE  RowsAreListed'
    BY <1>15 DEF RecordFailed, SettleRow
  <1>16. ASSUME NEW q \in Post, FinishPost(q)
        PROVE  RowsAreListed'
    BY <1>16 DEF FinishPost
  <1>17. ASSUME NEW q \in Post, RecordThrows(q)
        PROVE  RowsAreListed'
    BY <1>17 DEF RecordThrows, PostFault
  <1>18. ASSUME NEW q \in Post, LoseFanOut(q)
        PROVE  RowsAreListed'
    BY <1>18 DEF LoseFanOut, PostFault, Running
  <1>19. ASSUME NEW m \in Reader, LeaveGroup(m)
        PROVE  RowsAreListed'
    BY <1>19 DEF LeaveGroup
  <1> QED BY <1>1, <1>2, <1>3, <1>4, <1>5, <1>6, <1>7, <1>8, <1>9, <1>10,
        <1>11, <1>12, <1>13, <1>14, <1>15, <1>16, <1>17, <1>18, <1>19
       DEF PostNext, Accepting, FanOut

\* A row says 'queued' only while a fan-out is at work on it, or after a fault
\* that has ended it.
QueuedIsUnderWay ==
    \A q \in Post, m \in Reader :
        row[q][m] = "queued" => Running(q) \/ (fan[q] = "lost" /\ postFaults > 0)

\* A fan-out that comes to its end has settled every row it wrote: 'queued' for
\* good takes a fault.
THEOREM QueuedForGoodNeedsFault == PostSpec => []QueuedIsUnderWay
  <1>1. PostInit => RowsAreListed
    BY DEF PostInit, RowsAreListed
  <1>2. PostSpec => []RowsAreListed
    BY <1>1, RowsAreListedStep, FanInvHolds, PTL DEF PostSpec
  <1>3. FanInv /\ RowsAreListed => QueuedIsUnderWay
    <2> SUFFICES ASSUME FanInv, RowsAreListed, NEW q \in Post, NEW m \in Reader,
                        row[q][m] = "queued"
                 PROVE  Running(q) \/ (fan[q] = "lost" /\ postFaults > 0)
      BY DEF QueuedIsUnderWay
    <2>1. fan[q] \in {"none", "due", "listing", "sending", "mailed", "threw", "done",
                      "lost"}
      BY DEF FanInv, PostTypeOK
    <2>2. fan[q] \notin {"none", "done"}
      BY DEF FanInv, RowsWaiting, RowsAreListed
    <2>3. fan[q] = "lost" => postFaults > 0
      BY DEF RowsAreListed
    <2> QED
      BY <2>1, <2>2, <2>3 DEF Running
  <1> QED
    BY <1>2, <1>3, FanInvHolds, PTL

\* The steps that the fan-out of a post can still take.
StepsLeft(q) ==
    CASE fan[q] = "none" -> 3 * Cardinality(Reader) + 4
      [] fan[q] = "due" -> 3 * Cardinality(Reader) + 3
      [] fan[q] = "listing" -> Cardinality(Unlisted(q)) + 2 * Cardinality(todo[q]) + 2
      [] fan[q] = "sending" -> 2 * Cardinality(todo[q]) + 1
      [] fan[q] \in {"mailed", "threw"} -> 2 * Cardinality(todo[q])
      [] OTHER -> 0

\* Sets of members can be counted.
LEMMA Countable ==
    ASSUME NEW S \in SUBSET Reader
    PROVE  /\ IsFiniteSet(S)
           /\ Cardinality(S) \in Nat
           /\ Cardinality(Reader) \in Nat
           /\ Cardinality(S) <= Cardinality(Reader)
           /\ S = {} <=> Cardinality(S) = 0
  <1>1. IsFiniteSet(S) /\ Cardinality(S) <= Cardinality(Reader)
    BY ReadersAreFinite, FS_Subset
  <1> QED
    BY <1>1, ReadersAreFinite, FS_CardinalityType, FS_EmptySet

LEMMA OneFewer ==
    ASSUME NEW S \in SUBSET Reader, NEW x \in S
    PROVE  Cardinality(S \ {x}) = Cardinality(S) - 1
  BY Countable, FS_RemoveElement

LEMMA StepsType ==
    ASSUME PostTypeOK, NEW q \in Post
    PROVE  StepsLeft(q) \in Nat
  <1>1. todo[q] \in SUBSET Reader /\ Unlisted(q) \in SUBSET Reader
    BY DEF PostTypeOK, Unlisted
  <1>2. /\ Cardinality(todo[q]) \in Nat
        /\ Cardinality(Unlisted(q)) \in Nat
        /\ Cardinality(Reader) \in Nat
    BY <1>1, Countable
  <1> QED
    BY <1>2 DEF StepsLeft

LEMMA StepsTypeNext ==
    ASSUME PostTypeOK', NEW q \in Post
    PROVE  StepsLeft(q)' \in Nat
  <1>1. todo'[q] \in SUBSET Reader /\ Unlisted(q)' \in SUBSET Reader
    BY DEF PostTypeOK, Unlisted
  <1>2. /\ Cardinality(todo'[q]) \in Nat
        /\ Cardinality(Unlisted(q)') \in Nat
        /\ Cardinality(Reader) \in Nat
    BY <1>1, Countable
  <1> QED
    BY <1>2 DEF StepsLeft

\* Each step of a fan-out takes one of those it has left.
LEMMA FanOutFalls ==
    ASSUME PostTypeOK, AtHand, NEW q \in Post, FanOut(q)
    PROVE  StepsLeft(q)' < StepsLeft(q)
  <1> DEFINE T == Cardinality(todo[q])
             U == Cardinality(Unlisted(q))
             R == Cardinality(Reader)
  <1>1. todo[q] \in SUBSET Reader /\ Unlisted(q) \in SUBSET todo[q] /\ todo \in [Post -> SUBSET Reader]
    BY DEF PostTypeOK, Unlisted
  <1>2. T \in Nat /\ U \in Nat /\ R \in Nat /\ T <= R /\ (todo[q] = {} <=> T = 0)
    BY <1>1, Countable
  <1>3. fan \in [Post -> {"none", "due", "listing", "sending", "mailed", "threw", "done",
                         "lost"}]
    BY DEF PostTypeOK
  <1>4. CASE ListMembers(q)
    <2>1. fan[q] = "due" /\ fan'[q] = "listing" /\ todo'[q] = Reader \ away
      BY <1>1, <1>3, <1>4 DEF ListMembers
    <2>2. todo'[q] \in SUBSET Reader /\ Unlisted(q)' \in SUBSET Reader
      BY <2>1 DEF Unlisted
    <2>3. /\ Cardinality(todo'[q]) \in Nat
          /\ Cardinality(todo'[q]) <= R
          /\ Cardinality(Unlisted(q)') \in Nat
          /\ Cardinality(Unlisted(q)') <= R
      BY <2>2, Countable
    <2>4. /\ StepsLeft(q) = 3 * R + 3
          /\ StepsLeft(q)' = Cardinality(Unlisted(q)') + 2 * Cardinality(todo'[q]) + 2
      BY <2>1 DEF StepsLeft
    <2> HIDE DEF R
    <2> QED
      BY <1>2, <2>3, <2>4
  <1>5. CASE InsertRow(q)
    <2> DEFINE m == First(Unlisted(q))
    <2>1. m \in Unlisted(q) /\ m \in Reader
      BY <1>1, <1>5, FirstIsOne DEF InsertRow
    <2> HIDE DEF m
    <2>2. /\ fan[q] = "listing" /\ fan'[q] = "listing" /\ todo'[q] = todo[q]
          /\ row' = [row EXCEPT ![q][m] = "queued"]
      BY <1>5 DEF InsertRow, m
    <2>3. Unlisted(q)' = Unlisted(q) \ {m}
      BY <1>1, <2>1, <2>2 DEF Unlisted, PostTypeOK
    <2>4. Cardinality(Unlisted(q)') = U - 1
      BY <1>1, <2>1, <2>3, OneFewer
    <2>5. StepsLeft(q) = U + 2 * T + 2 /\ StepsLeft(q)' = (U - 1) + 2 * T + 2
      BY <2>2, <2>4 DEF StepsLeft
    <2> HIDE DEF T, U
    <2> QED
      BY <1>2, <2>5
  <1>6. CASE QueuePost(q)
    <2>1. fan[q] = "listing" /\ fan'[q] = "sending" /\ todo'[q] = todo[q]
      BY <1>3, <1>6 DEF QueuePost
    <2>2. StepsLeft(q) = U + 2 * T + 2 /\ StepsLeft(q)' = 2 * T + 1
      BY <2>1 DEF StepsLeft
    <2> HIDE DEF T, U
    <2> QED
      BY <1>2, <2>2
  <1>7. CASE MailCopy(q) \/ RefuseCopy(q)
    <2>1. fan[q] = "sending" /\ fan'[q] \in {"mailed", "threw"} /\ todo'[q] = todo[q]
      BY <1>3, <1>7 DEF MailCopy, RefuseCopy
    <2>2. StepsLeft(q) = 2 * T + 1 /\ StepsLeft(q)' = 2 * T
      BY <2>1 DEF StepsLeft
    <2> HIDE DEF T
    <2> QED
      BY <1>2, <2>2
  <1>8. CASE RecordSent(q) \/ RecordFailed(q)
    <2>1. /\ fan[q] \in {"mailed", "threw"} /\ fan'[q] = "sending"
          /\ todo'[q] = todo[q] \ {at[q]} /\ at[q] \in todo[q]
      BY <1>1, <1>3, <1>8 DEF RecordSent, RecordFailed, SettleRow, AtHand
    <2>2. Cardinality(todo'[q]) = T - 1
      BY <1>1, <2>1, OneFewer
    <2>3. StepsLeft(q) = 2 * T /\ StepsLeft(q)' = 2 * (T - 1) + 1
      BY <2>1, <2>2 DEF StepsLeft
    <2> HIDE DEF T
    <2> QED
      BY <1>2, <2>3
  <1>9. CASE FinishPost(q)
    <2>1. fan[q] = "sending" /\ fan'[q] = "done"
      BY <1>3, <1>9 DEF FinishPost
    <2>2. StepsLeft(q) = 2 * T + 1 /\ StepsLeft(q)' = 0
      BY <2>1 DEF StepsLeft
    <2> HIDE DEF T
    <2> QED
      BY <1>2, <2>2
  <1> QED
    BY <1>4, <1>5, <1>6, <1>7, <1>8, <1>9 DEF FanOut

\* A fan-out that a step leaves alone.
Untouched(p) == fan'[p] = fan[p] /\ todo'[p] = todo[p] /\ row'[p] = row[p]

LEMMA UntouchedKeeps ==
    ASSUME NEW p \in Post, Untouched(p)
    PROVE  StepsLeft(p)' = StepsLeft(p)
  BY DEF Untouched, StepsLeft, Unlisted

\* Nothing that others do, and no fault, gives a fan-out more to do.
LEMMA OthersLeaveAlone ==
    ASSUME PostTypeOK, NEW q \in Post, FanOut(q), NEW p \in Post, p # q
    PROVE  Untouched(p)
  BY DEF PostTypeOK, Untouched, FanOut, ListMembers, InsertRow, QueuePost, MailCopy,
         RefuseCopy, RecordSent, RecordFailed, SettleRow, FinishPost

LEMMA FaultsGiveNothing ==
    ASSUME PostTypeOK, NEW q \in Post, AcceptPost(q) \/ RecordThrows(q) \/ LoseFanOut(q),
           StartsOnce, NEW p \in Post
    PROVE  StepsLeft(p)' <= StepsLeft(p)
  <1>1. StepsLeft(p) \in Nat
    BY StepsType
  <1>2. CASE p # q
    <2>1. Untouched(p)
      BY <1>2 DEF PostTypeOK, Untouched, AcceptPost, RecordThrows, LoseFanOut
    <2> QED
      BY <1>1, <2>1, UntouchedKeeps
  <1>3. CASE p = q
    <2>1. Cardinality(Reader) \in Nat
      BY Countable
    <2>2. CASE AcceptPost(q)
      <3>1. fan[q] = "none" /\ fan'[q] = "due"
        BY <2>2 DEF AcceptPost, StartsOnce, PostTypeOK
      <3> QED
        BY <1>3, <2>1, <3>1 DEF StepsLeft
    <2>3. CASE RecordThrows(q)
      <3>1. fan[q] = "mailed" /\ fan'[q] = "threw" /\ todo'[q] = todo[q]
        BY <2>3 DEF RecordThrows, PostTypeOK
      <3>2. StepsLeft(q)' = StepsLeft(q)
        BY <3>1 DEF StepsLeft
      <3> QED
        BY <1>1, <1>3, <3>2
    <2>4. CASE LoseFanOut(q)
      <3>1. fan'[q] = "lost"
        BY <2>4 DEF LoseFanOut, PostTypeOK
      <3>2. StepsLeft(q)' = 0
        BY <3>1 DEF StepsLeft
      <3> QED
        BY <1>1, <1>3, <3>2
    <2> QED
      BY <2>2, <2>3, <2>4
  <1> QED
    BY <1>2, <1>3

\* What is left to a fan-out never grows, and each of its steps takes one.
FanOutRunsDown ==
    \A q \in Post :
        /\ StepsLeft(q) \in Nat
        /\ StepsLeft(q)' <= StepsLeft(q)
        /\ FanOut(q) => StepsLeft(q)' < StepsLeft(q)

LEMMA RunsDownStep ==
    FanInv /\ [PostNext]_postVars => FanOutRunsDown
  <1> SUFFICES ASSUME PostTypeOK, StartsOnce, AtHand, [PostNext]_postVars, NEW p \in Post
               PROVE  /\ StepsLeft(p) \in Nat
                      /\ StepsLeft(p)' <= StepsLeft(p)
                      /\ FanOut(p) => StepsLeft(p)' < StepsLeft(p)
    BY DEF FanInv, FanOutRunsDown
  <1>1. StepsLeft(p) \in Nat
    BY StepsType
  <1>2. FanOut(p) => StepsLeft(p)' < StepsLeft(p)
    BY FanOutFalls
  <1>3. StepsLeft(p)' <= StepsLeft(p)
    <2>1. CASE UNCHANGED postVars
      <3>1. Untouched(p)
        BY <2>1 DEF postVars, fanVars, Untouched
      <3> QED
        BY <1>1, <3>1, UntouchedKeeps
    <2>2. ASSUME NEW m \in Reader, LeaveGroup(m)
          PROVE  StepsLeft(p)' <= StepsLeft(p)
      <3>1. Untouched(p)
        BY <2>2 DEF LeaveGroup, fanVars, Untouched
      <3> QED
        BY <1>1, <3>1, UntouchedKeeps
    <2>3. ASSUME NEW q \in Post, CheckPost(q) \/ CountPosts(q) \/ InsertPost(q) \/ MailIn(q)
                     \/ AgePost(q) \/ FailPost(q)
          PROVE  StepsLeft(p)' <= StepsLeft(p)
      <3>1. Untouched(p)
        BY <2>3 DEF CheckPost, CountPosts, InsertPost, MailIn, AgePost, FailPost, fanVars,
            Untouched
      <3> QED
        BY <1>1, <3>1, UntouchedKeeps
    <2>4. ASSUME NEW q \in Post, AcceptPost(q) \/ RecordThrows(q) \/ LoseFanOut(q)
          PROVE  StepsLeft(p)' <= StepsLeft(p)
      BY <2>4, FaultsGiveNothing
    <2>5. ASSUME NEW q \in Post, FanOut(q), q # p
          PROVE  StepsLeft(p)' <= StepsLeft(p)
      <3>1. Untouched(p)
        BY <2>5, OthersLeaveAlone
      <3> QED
        BY <1>1, <3>1, UntouchedKeeps
    <2>6. CASE FanOut(p)
      <3>1. StepsLeft(p)' \in Nat
        <4>1. PostTypeOK'
          BY TypeStep
        <4> QED
          BY <4>1, StepsTypeNext
      <3> QED
        BY <1>1, <1>2, <2>6, <3>1
    <2> QED
      BY <2>1, <2>2, <2>3, <2>4, <2>5, <2>6 DEF PostNext, Accepting
  <1> QED
    BY <1>1, <1>2, <1>3

\* Every fan-out comes to an end within three steps for each member and three
\* more, whatever others do: with the fairness of waitUntil this is why every row
\* is settled or its fan-out lost.
THEOREM FanOutsRunOut == PostSpec => [][FanOutRunsDown]_postVars
  <1>1. FanInv /\ [PostNext]_postVars => [FanOutRunsDown]_postVars
    BY RunsDownStep
  <1> QED
    BY <1>1, FanInvHolds, PTL DEF PostSpec

-----------------------------------------------------------------------------
(* The fan-out keeps the promise of ListPromise with a budget of one.      *)

SomeSettle == \E T \in SUBSET (Post \X Reader) : WebPromise!Settle(T)

\* A row that changes moves its stage, and no other.
LEMMA OwedFollowsRow ==
    ASSUME PostTypeOK, NEW q \in Post, NEW m \in Reader, NEW x,
           row' = [row EXCEPT ![q][m] = x]
    PROVE  Owed' = [Owed EXCEPT ![q][m] = Stage(x)]
  BY DEF Owed, PostTypeOK

\* A row that leaves 'queued' settles its copy.
LEMMA RowSettles ==
    ASSUME PostTypeOK, NEW q \in Post, NEW m \in Reader, NEW x \in {"sent", "failed"},
           row[q][m] = "queued", row' = [row EXCEPT ![q][m] = x],
           UNCHANGED <<handed, late, away>>
    PROVE  SomeSettle
  <1> DEFINE T == {<<q, m>>}
  <1>1. Owed' = [Owed EXCEPT ![q][m] = "settled"]
    BY OwedFollowsRow DEF Stage
  <1>2. Owed[q][m] = "owed"
    BY DEF Owed, Stage
  <1>3. ASSUME NEW n \in Post, NEW s \in Reader
        PROVE  Owed'[n][s] = IF <<n, s>> \in T THEN "settled" ELSE Owed[n][s]
    <2>1. Owed \in [Post -> [Reader -> {"none", "owed", "settled"}]]
      BY DEF Owed, Stage
    <2>2. Owed'[n][s] = IF n = q /\ s = m THEN "settled" ELSE Owed[n][s]
      BY <1>1, <2>1
    <2> QED
      BY <2>2
  <1>4. Owed' = [n \in Post |-> [s \in Reader |->
                   IF <<n, s>> \in T THEN "settled" ELSE Owed[n][s]]]
    <2> HIDE DEF T
    <2>1. Owed' = [n \in Post |-> [s \in Reader |-> Owed'[n][s]]]
      BY DEF Owed
    <2> QED
      BY <1>3, <2>1
  <1>5. WebPromise!Settle(T)
    <2>1. \A d \in T : Owed[d[1]][d[2]] = "owed"
      BY <1>2
    <2> HIDE DEF T
    <2> QED
      BY <1>4, <2>1 DEF WebPromise!Settle
  <1>6. T \in SUBSET (Post \X Reader)
    OBVIOUS
  <1> QED
    BY <1>5, <1>6 DEF SomeSettle

\* InsertRow makes a copy owed, MailCopy hands it over, a settled row settles it.
LEMMA WebPromiseStep ==
    FanInv /\ [PostNext]_postVars => [WebPromise!Next]_(WebPromise!vars)
  <1> SUFFICES ASSUME FanInv, [PostNext]_postVars
               PROVE  [WebPromise!Next]_(WebPromise!vars)
    OBVIOUS
  <1> USE WebPostAssumption DEF FanInv, fanFrame, handlerVars, fanVars, WebPromise!vars
  <1>1. CASE UNCHANGED postVars
    BY <1>1 DEF postVars, Owed
  <1>2. ASSUME NEW q \in Post, CheckPost(q)
        PROVE  UNCHANGED WebPromise!vars
    BY <1>2 DEF CheckPost, Owed
  <1>3. ASSUME NEW q \in Post, CountPosts(q)
        PROVE  UNCHANGED WebPromise!vars
    BY <1>3 DEF CountPosts, Owed
  <1>4. ASSUME NEW q \in Post, InsertPost(q)
        PROVE  UNCHANGED WebPromise!vars
    BY <1>4 DEF InsertPost, Store, Owed
  <1>5. ASSUME NEW q \in Post, MailIn(q)
        PROVE  UNCHANGED WebPromise!vars
    BY <1>5 DEF MailIn, Store, Owed
  <1>6. ASSUME NEW q \in Post, AgePost(q)
        PROVE  UNCHANGED WebPromise!vars
    BY <1>6 DEF AgePost, Owed
  <1>7. ASSUME NEW q \in Post, AcceptPost(q)
        PROVE  UNCHANGED WebPromise!vars
    BY <1>7 DEF AcceptPost, Owed
  <1>8. ASSUME NEW q \in Post, FailPost(q)
        PROVE  UNCHANGED WebPromise!vars
    BY <1>8 DEF FailPost, PostFault, Owed
  <1>9. ASSUME NEW q \in Post, ListMembers(q)
        PROVE  UNCHANGED WebPromise!vars
    BY <1>9 DEF ListMembers, Owed
  <1>10. ASSUME NEW q \in Post, QueuePost(q)
        PROVE  UNCHANGED WebPromise!vars
    BY <1>10 DEF QueuePost, Owed
  <1>11. ASSUME NEW q \in Post, RefuseCopy(q)
        PROVE  UNCHANGED WebPromise!vars
    BY <1>11 DEF RefuseCopy, Owed
  <1>12. ASSUME NEW q \in Post, FinishPost(q)
        PROVE  UNCHANGED WebPromise!vars
    BY <1>12 DEF FinishPost, Owed
  <1>13. ASSUME NEW q \in Post, RecordThrows(q)
        PROVE  UNCHANGED WebPromise!vars
    BY <1>13 DEF RecordThrows, PostFault, Owed
  <1>14. ASSUME NEW q \in Post, LoseFanOut(q)
        PROVE  UNCHANGED WebPromise!vars
    BY <1>14 DEF LoseFanOut, PostFault, Running, Owed
  <1>15. ASSUME NEW q \in Post, InsertRow(q)
        PROVE  \E m \in Reader : WebPromise!Owe(q, m)
    <2> DEFINE m == First(Unlisted(q))
    <2>1. m \in Unlisted(q)
      BY <1>15, FirstIsOne DEF InsertRow
    <2>2. m \in Reader /\ row[q][m] = "none"
      BY <2>1 DEF Unlisted, PostTypeOK
    <2>3. row' = [row EXCEPT ![q][m] = "queued"]
      BY <1>15 DEF InsertRow
    <2> HIDE DEF m
    <2>4. Owed' = [Owed EXCEPT ![q][m] = "owed"]
      BY <2>2, <2>3, OwedFollowsRow DEF Stage
    <2>5. Owed[q][m] = "none"
      BY <2>2 DEF Owed, Stage
    <2> QED
      BY <1>15, <2>2, <2>4, <2>5 DEF InsertRow, WebPromise!Owe
  <1>16. ASSUME NEW q \in Post, MailCopy(q)
        PROVE  \E m \in Reader : WebPromise!Hand(q, m)
    <2> DEFINE m == First(todo[q])
    <2>1. m \in todo[q] /\ m \in Reader
      BY <1>16, FirstIsOne DEF MailCopy, PostTypeOK
    <2>2. /\ handed' = [handed EXCEPT ![q][m] = @ + 1]
          /\ late' = IF m \in away THEN [late EXCEPT ![q][m] = @ + 1] ELSE late
          /\ Owed' = Owed /\ away' = away /\ fan[q] = "sending"
      BY <1>16 DEF MailCopy, Owed
    <2> HIDE DEF m
    <2>3. row[q][m] = "queued" /\ handed[q][m] = 0 /\ late[q][m] = 0
      BY <2>1, <2>2 DEF RowsWaiting, NothingMailedYet
    <2>4. Owed[q][m] = "owed"
      BY <2>1, <2>3 DEF Owed, Stage
    <2>5. WebPromise!Hand(q, m)
      BY <2>2, <2>3, <2>4 DEF WebPromise!Hand
    <2> QED
      BY <2>1, <2>5
  <1>17. ASSUME NEW q \in Post, RecordSent(q)
        PROVE  SomeSettle
    <2>1. at[q] \in todo[q] /\ at[q] \in Reader /\ row[q][at[q]] = "queued"
      BY <1>17 DEF RecordSent, SettleRow, AtHand, RowsWaiting, PostTypeOK
    <2> QED
      BY <1>17, <2>1, RowSettles DEF RecordSent, SettleRow
  <1>18. ASSUME NEW q \in Post, RecordFailed(q)
        PROVE  SomeSettle
    <2>1. at[q] \in todo[q] /\ at[q] \in Reader /\ row[q][at[q]] = "queued"
      BY <1>18 DEF RecordFailed, SettleRow, AtHand, RowsWaiting, PostTypeOK
    <2> QED
      BY <1>18, <2>1, RowSettles DEF RecordFailed, SettleRow
  <1>19. ASSUME NEW m \in Reader, LeaveGroup(m)
        PROVE  WebPromise!Leave(m)
    BY <1>19 DEF LeaveGroup, WebPromise!Leave, Owed
  <1> QED BY <1>1, <1>2, <1>3, <1>4, <1>5, <1>6, <1>7, <1>8, <1>9, <1>10,
        <1>11, <1>12, <1>13, <1>14, <1>15, <1>16, <1>17, <1>18, <1>19
       DEF PostNext, Accepting, FanOut, SomeSettle, WebPromise!Next

LEMMA WebPromiseStarts == PostInit => WebPromise!Init
  BY DEF PostInit, WebPromise!Init, Owed, Stage

\* The fan-out of web posts implements the promise: no copy twice, none after its
\* row is settled, and at most one to somebody who has left.
THEOREM WebImplements == PostSpec => KeepsWebPromise
  BY WebPromiseStarts, WebPromiseStep, FanInvHolds, PTL
     DEF PostSpec, KeepsWebPromise, WebPromise!Safety
=============================================================================
