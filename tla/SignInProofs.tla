---------------------------- MODULE SignInProofs ----------------------------
(***************************************************************************)
(* Theorems about SignIn, for any number of people, links and handlers: a  *)
(* link opens one session, it is not used up for nothing, and a session    *)
(* that has ended stays so for a team.                                     *)
(***************************************************************************)
EXTENDS SignIn, TLAPS

-----------------------------------------------------------------------------
(* The inductive invariant, in parts.                                      *)

\* A link that can still be used has opened nothing and nobody works on it.
Fresh ==
    \A l \in Link :
        link[l].state \in {"free", "due", "valid", "expired"} =>
            /\ issued[l] = 0
            /\ \A v \in Visit : visit[v].step = "claimed" => visit[v].link # l

\* Two handlers never hold the same link after the UPDATE, ...
OneVisit ==
    \A v, w \in Visit :
        /\ visit[v].step = "claimed"
        /\ visit[w].step = "claimed"
        /\ visit[v].link = visit[w].link
        => v = w

\* ... and the one that does has not opened a session yet.
NotYet == \A v \in Visit : visit[v].step = "claimed" => issued[visit[v].link] = 0

\* As long as a link of a team or of the site is there, so is its owner's row.
RowsStand ==
    \A l \in Link :
        link[l].state \in {"valid", "used", "expired"} =>
            link[l].row # 0 /\ (link[l].jar # "member" =>
                                    link[l].row = seat[link[l].who][link[l].jar])

\* A member's link for which the seat has been found belongs to a member, or to
\* somebody who has left since: between the look-up and the INSERT, too.
MembersStand ==
    \A l \in Link :
        Promised(l) /\ link[l].jar = "member" =>
            seat[link[l].who]["member"] # 0 \/ l \in orphaned

\* A handler looks in the table of its host, and a visit to another tenant is
\* on record.
VisitsMatch ==
    \A v \in Visit :
        visit[v].step \in {"picked", "claimed"} =>
            /\ link[visit[v].link].state \notin {"free", "due"}
            /\ Consumes(visit[v].link, visit[v].host)
            /\ visit[v].host = "elsewhere" => visit[v].link \in strayed

\* Rows of admins are numbered in the order in which they come.
RowsInOrder ==
    /\ \A p \in Person : seat[p]["tenant"] <= hired[p] /\ cookie[p]["tenant"] <= hired[p]
    /\ \A l \in Link : link[l].jar = "tenant" => link[l].row <= hired[link[l].who]

-----------------------------------------------------------------------------
\* Types, action by action.
LEMMA TypeStep ==
    SignInTypeOK /\ [SignInNext]_signInVars => SignInTypeOK'
  <1> SUFFICES ASSUME SignInTypeOK, [SignInNext]_signInVars
               PROVE  SignInTypeOK'
    OBVIOUS
  <1> USE SignInAssumption DEF SignInTypeOK
  <1>1. CASE UNCHANGED signInVars
    BY <1>1 DEF signInVars
  <1>2. ASSUME NEW p \in Person, Hire(p)
        PROVE  SignInTypeOK'
    <2>1. seat' \in [Person -> [Jar -> Row]]
      BY <1>2 DEF Hire, Row, Jar
    <2>2. hired' \in [Person -> Row]
      BY <1>2 DEF Hire, Row
    <2> QED
      BY <1>2, <2>1, <2>2 DEF Hire
  <1>3. ASSUME NEW p \in Person, Dismiss(p)
        PROVE  SignInTypeOK'
    <2>1. seat' \in [Person -> [Jar -> Row]]
      BY <1>3 DEF Dismiss, LinksOf, Row, Jar
    <2>2. link' \in [Link -> LinkRow]
      <3>1. ASSUME NEW l \in Link
            PROVE  [link[l] EXCEPT !.state = "gone"] \in LinkRow
        <4>1. link[l] \in LinkRow
          OBVIOUS
        <4> QED
          BY <4>1 DEF LinkRow
      <3>2. link' = [l \in Link |->
                        IF l \in LinksOf(p, "tenant")
                             /\ link[l].state \in {"valid", "used", "expired"}
                        THEN [link[l] EXCEPT !.state = "gone"]
                        ELSE link[l]]
        BY <1>3 DEF Dismiss
      <3>3. link \in [Link -> LinkRow]
        OBVIOUS
      <3> QED
        BY <3>1, <3>2, <3>3
    <2> QED
      BY <1>3, <2>1, <2>2 DEF Dismiss, LinksOf
  <1>4. ASSUME NEW p \in Person, JoinList(p)
        PROVE  SignInTypeOK'
    <2>1. seat' \in [Person -> [Jar -> Row]]
      BY <1>4 DEF JoinList, Row, Jar
    <2> QED
      BY <1>4, <2>1 DEF JoinList
  <1>5. ASSUME NEW p \in Person, LeaveList(p)
        PROVE  SignInTypeOK'
    <2>1. seat' \in [Person -> [Jar -> Row]]
      BY <1>5 DEF LeaveList, LinksOf, Row, Jar
    <2> QED
      BY <1>5, <2>1 DEF LeaveList, LinksOf
  <1>6. ASSUME NEW p \in Person, SignOut(p)
        PROVE  SignInTypeOK'
    <2>1. cookie' \in [Person -> [Jar -> Row]]
      BY <1>6 DEF SignOut, LinkRow, Handler, Row, Jar
    <2> QED
      BY <1>6, <2>1 DEF SignOut
  <1>7. ASSUME NEW p \in Person, ExpireSession(p)
        PROVE  SignInTypeOK'
    <2>1. cookie' \in [Person -> [Jar -> Row]]
      BY <1>7 DEF ExpireSession, LinkRow, Handler, Row, Jar
    <2> QED
      BY <1>7, <2>1 DEF ExpireSession
  <1>8. ASSUME NEW p \in Person, NEW l \in Link, SiteRequest(p, l)
        PROVE  SignInTypeOK'
    <2>1. link' \in [Link -> LinkRow]
      BY <1>8 DEF SiteRequest, Due, LinkRow, Row, Jar
    <2> QED
      BY <1>8, <2>1 DEF SiteRequest, Due
  <1>9. ASSUME NEW p \in Person, NEW l \in Link, TenantRequest(p, l)
        PROVE  SignInTypeOK'
    <2>1. link' \in [Link -> LinkRow]
      BY <1>9 DEF TenantRequest, Due, LinkRow, Row, Jar
    <2> QED
      BY <1>9, <2>1 DEF TenantRequest, Due
  <1>10. ASSUME NEW p \in Person, NEW l \in Link, Invite(p, l)
        PROVE  SignInTypeOK'
    <2>1. link' \in [Link -> LinkRow]
      BY <1>10 DEF Invite, Due, LinkRow, Row, Jar
    <2> QED
      BY <1>10, <2>1 DEF Invite, Due
  <1>11. ASSUME NEW p \in Person, NEW l \in Link, FormRequest(p, l)
        PROVE  SignInTypeOK'
    <2>1. link' \in [Link -> LinkRow]
      BY <1>11 DEF FormRequest, Due, LinkRow, Row, Jar
    <2> QED
      BY <1>11, <2>1 DEF FormRequest, Due
  <1>12. ASSUME NEW l \in Link, SendLink(l)
        PROVE  SignInTypeOK'
    <2>1. link' \in [Link -> LinkRow]
      BY <1>12 DEF SendLink, InsertLink, SeatOf, LinkRow, Row, Jar
    <2> QED
      BY <1>12, <2>1 DEF SendLink, InsertLink, SeatOf
  <1>13. ASSUME NEW l \in Link, FindSeat(l)
        PROVE  SignInTypeOK'
    <2>1. link[l] \in LinkRow
      OBVIOUS
    <2>2. SeatOf(l) \in Row
      BY <2>1 DEF SeatOf, LinkRow
    <2>3. PICK row \in Row, state \in {"due", "gone"} :
             link' = [link EXCEPT ![l].row = row, ![l].state = state]
      BY <1>13, <2>2 DEF FindSeat
    <2>4. link' = [link EXCEPT ![l] = [link[l] EXCEPT !.row = row, !.state = state]]
      BY <2>1, <2>3
    <2>5. [link[l] EXCEPT !.row = row, !.state = state] \in LinkRow
      BY <2>1 DEF LinkRow
    <2>6. link' \in [Link -> LinkRow]
      BY <2>4, <2>5
    <2> QED
      BY <1>13, <2>6 DEF FindSeat
  <1>14. ASSUME NEW l \in Link, LoseLink(l)
        PROVE  SignInTypeOK'
    <2>1. link' \in [Link -> LinkRow]
      BY SMTT(40), <1>14 DEF LoseLink, LinkRow, Row, Jar
    <2> QED
      BY <1>14, <2>1 DEF LoseLink
  <1>15. ASSUME NEW l \in Link, ExpireLink(l)
        PROVE  SignInTypeOK'
    <2>1. link' \in [Link -> LinkRow]
      BY ZenonT(40), <1>15 DEF ExpireLink, LinkRow, Row, Jar
    <2> QED
      BY <1>15, <2>1 DEF ExpireLink
  <1>16. ASSUME NEW v \in Visit, NEW l \in Link, Follow(v, l)
        PROVE  SignInTypeOK'
    <2>1. link' \in [Link -> LinkRow]
      BY SMTT(40), <1>16 DEF Follow, Usable, Consumes, LinkRow, Row, Jar
    <2>2. visit' \in [Visit -> Handler]
      BY <1>16 DEF Follow, Usable, Consumes, Handler, Host
    <2> QED
      BY <1>16, <2>1, <2>2 DEF Follow, Usable, Consumes
  <1>17. ASSUME NEW v \in Visit, NEW l \in Link, PickCode(v, l)
        PROVE  SignInTypeOK'
    <2>1. visit' \in [Visit -> Handler]
      BY <1>17 DEF PickCode, Candidate, Usable, HomeOf, Consumes, Handler, Host
    <2> QED
      BY <1>17, <2>1 DEF PickCode, Candidate, Usable, HomeOf, Consumes
  <1>18. ASSUME NEW v \in Visit, ClaimByCode(v)
        PROVE  SignInTypeOK'
    <2>1. visit[v].link \in Link
      BY DEF SignInTypeOK, Handler
    <2>2. CASE Usable(visit[v].link)
      <3>1. /\ link' = [link EXCEPT ![visit[v].link].state = "used"]
            /\ visit' = [visit EXCEPT ![v].step = "claimed"]
        BY <1>18, <2>2 DEF ClaimByCode
      <3>2. link' \in [Link -> LinkRow]
        BY ZenonT(40), <2>1, <3>1 DEF LinkRow
      <3>3. visit' \in [Visit -> Handler]
        BY <3>1 DEF Handler
      <3> QED
        BY <1>18, <3>2, <3>3 DEF ClaimByCode
    <2>3. CASE ~Usable(visit[v].link)
      <3>1. link' = link /\ visit' = [visit EXCEPT ![v].step = "idle"]
        BY <1>18, <2>3 DEF ClaimByCode
      <3>2. link' \in [Link -> LinkRow]
        BY <2>1, <3>1 DEF LinkRow
      <3>3. visit' \in [Visit -> Handler]
        BY <3>1 DEF Handler
      <3> QED
        BY <1>18, <3>2, <3>3 DEF ClaimByCode
    <2> QED
      BY <2>2, <2>3
  <1>19. ASSUME NEW v \in Visit, Admit(v)
        PROVE  SignInTypeOK'
    <2>1. visit' \in [Visit -> Handler]
      BY ZenonT(40), <1>19 DEF Admit, Handler, Host
    <2>2. issued' \in [Link -> 0..2]
      BY <1>19 DEF Admit, Handler
    <2>3. cookie' \in [Person -> [Jar -> Row]]
      BY <1>19 DEF Admit, LinkRow, Handler, Row, Jar
    <2> QED
      BY <1>19, <2>1, <2>2, <2>3 DEF Admit
  <1>20. ASSUME NEW v \in Visit, LoseVisit(v)
        PROVE  SignInTypeOK'
    <2>1. visit' \in [Visit -> Handler]
      BY ZenonT(40), <1>20 DEF LoseVisit, Handler, Host
    <2> QED
      BY <1>20, <2>1 DEF LoseVisit
  <1>21. ASSUME NEW l \in Link, SendMemberLink(l)
        PROVE  SignInTypeOK'
    <2>1. link' = [link EXCEPT ![l].state = "valid"]
      BY <1>21 DEF SendMemberLink, InsertLink
    <2>2. link' \in [Link -> LinkRow]
      BY SMTT(40), <2>1 DEF LinkRow, Row, Jar
    <2> QED
      BY <1>21, <2>2 DEF SendMemberLink, InsertLink
  <1> QED BY <1>1, <1>2, <1>3, <1>4, <1>5, <1>6, <1>7, <1>8, <1>9, <1>10,
        <1>11, <1>12, <1>13, <1>14, <1>15, <1>16, <1>17, <1>18, <1>19, <1>20,
        <1>21
       DEF SignInNext, Seating, Asking

\* The UPDATE that takes a link moves it out of these states, and nothing moves it back.
LEMMA FreshStep ==
    SignInTypeOK /\ Fresh /\ [SignInNext]_signInVars => Fresh'
  <1> SUFFICES ASSUME SignInTypeOK, Fresh, [SignInNext]_signInVars
               PROVE  Fresh'
    OBVIOUS
  <1> USE SignInAssumption DEF SignInTypeOK, LinkRow, Handler, Row, Jar, Host, Fresh
  <1>1. CASE UNCHANGED signInVars
    BY <1>1 DEF signInVars
  <1>2. ASSUME NEW p \in Person, Hire(p)
        PROVE  Fresh'
    BY <1>2 DEF Hire
  <1>3. ASSUME NEW p \in Person, Dismiss(p)
        PROVE  Fresh'
    BY <1>3 DEF Dismiss, LinksOf
  <1>4. ASSUME NEW p \in Person, JoinList(p)
        PROVE  Fresh'
    BY <1>4 DEF JoinList
  <1>5. ASSUME NEW p \in Person, LeaveList(p)
        PROVE  Fresh'
    BY <1>5 DEF LeaveList, LinksOf
  <1>6. ASSUME NEW p \in Person, SignOut(p)
        PROVE  Fresh'
    BY <1>6 DEF SignOut
  <1>7. ASSUME NEW p \in Person, ExpireSession(p)
        PROVE  Fresh'
    BY <1>7 DEF ExpireSession
  <1>8. ASSUME NEW p \in Person, NEW l \in Link, SiteRequest(p, l)
        PROVE  Fresh'
    BY <1>8 DEF SiteRequest, Due
  <1>9. ASSUME NEW p \in Person, NEW l \in Link, TenantRequest(p, l)
        PROVE  Fresh'
    BY <1>9 DEF TenantRequest, Due
  <1>10. ASSUME NEW p \in Person, NEW l \in Link, Invite(p, l)
        PROVE  Fresh'
    BY <1>10 DEF Invite, Due
  <1>11. ASSUME NEW p \in Person, NEW l \in Link, FormRequest(p, l)
        PROVE  Fresh'
    BY <1>11 DEF FormRequest, Due
  <1>12. ASSUME NEW l \in Link, SendLink(l)
        PROVE  Fresh'
    BY <1>12 DEF SendLink, InsertLink, SeatOf
  <1>13. ASSUME NEW l \in Link, FindSeat(l)
        PROVE  Fresh'
    BY <1>13 DEF FindSeat, SeatOf
  <1>14. ASSUME NEW l \in Link, LoseLink(l)
        PROVE  Fresh'
    BY <1>14 DEF LoseLink
  <1>15. ASSUME NEW l \in Link, ExpireLink(l)
        PROVE  Fresh'
    BY <1>15 DEF ExpireLink
  <1>16. ASSUME NEW v \in Visit, NEW l \in Link, Follow(v, l)
        PROVE  Fresh'
    BY <1>16 DEF Follow, Usable, Consumes
  <1>17. ASSUME NEW v \in Visit, NEW l \in Link, PickCode(v, l)
        PROVE  Fresh'
    BY <1>17 DEF PickCode, Candidate, Usable, HomeOf, Consumes
  <1>18. ASSUME NEW v \in Visit, ClaimByCode(v)
        PROVE  Fresh'
    <2>1. visit[v].link \in Link
      BY DEF SignInTypeOK, Handler
    <2>2. CASE Usable(visit[v].link)
      <3>1. /\ link' = [link EXCEPT ![visit[v].link].state = "used"]
            /\ visit' = [visit EXCEPT ![v].step = "claimed"]
        BY <1>18, <2>2 DEF ClaimByCode
      <3> QED
        BY <1>18, <2>1, <2>2, <3>1 DEF ClaimByCode, Usable
    <2>3. CASE ~Usable(visit[v].link)
      <3>1. link' = link /\ visit' = [visit EXCEPT ![v].step = "idle"]
        BY <1>18, <2>3 DEF ClaimByCode
      <3> QED
        BY <1>18, <2>1, <2>3, <3>1 DEF ClaimByCode, Usable
    <2> QED
      BY <2>2, <2>3
  <1>19. ASSUME NEW v \in Visit, Admit(v)
        PROVE  Fresh'
    BY <1>19 DEF Admit
  <1>20. ASSUME NEW v \in Visit, LoseVisit(v)
        PROVE  Fresh'
    BY <1>20 DEF LoseVisit
  <1>21. ASSUME NEW l \in Link, SendMemberLink(l)
        PROVE  Fresh'
    BY <1>21 DEF SendMemberLink, InsertLink
  <1> QED BY <1>1, <1>2, <1>3, <1>4, <1>5, <1>6, <1>7, <1>8, <1>9, <1>10,
        <1>11, <1>12, <1>13, <1>14, <1>15, <1>16, <1>17, <1>18, <1>19, <1>20,
        <1>21
       DEF SignInNext, Seating, Asking

\* A handler gets there by an UPDATE of a link that nobody had taken.
LEMMA OneVisitStep ==
    SignInTypeOK /\ Fresh /\ OneVisit /\ [SignInNext]_signInVars => OneVisit'
  <1> SUFFICES ASSUME SignInTypeOK, Fresh, OneVisit, [SignInNext]_signInVars
               PROVE  OneVisit'
    OBVIOUS
  <1> USE SignInAssumption DEF SignInTypeOK, LinkRow, Handler, Row, Jar, Host,
              Fresh, OneVisit
  <1>1. CASE UNCHANGED signInVars
    BY <1>1 DEF signInVars
  <1>2. ASSUME NEW p \in Person, Hire(p)
        PROVE  OneVisit'
    BY <1>2 DEF Hire
  <1>3. ASSUME NEW p \in Person, Dismiss(p)
        PROVE  OneVisit'
    BY <1>3 DEF Dismiss, LinksOf
  <1>4. ASSUME NEW p \in Person, JoinList(p)
        PROVE  OneVisit'
    BY <1>4 DEF JoinList
  <1>5. ASSUME NEW p \in Person, LeaveList(p)
        PROVE  OneVisit'
    BY <1>5 DEF LeaveList, LinksOf
  <1>6. ASSUME NEW p \in Person, SignOut(p)
        PROVE  OneVisit'
    BY <1>6 DEF SignOut
  <1>7. ASSUME NEW p \in Person, ExpireSession(p)
        PROVE  OneVisit'
    BY <1>7 DEF ExpireSession
  <1>8. ASSUME NEW p \in Person, NEW l \in Link, SiteRequest(p, l)
        PROVE  OneVisit'
    BY <1>8 DEF SiteRequest, Due
  <1>9. ASSUME NEW p \in Person, NEW l \in Link, TenantRequest(p, l)
        PROVE  OneVisit'
    BY <1>9 DEF TenantRequest, Due
  <1>10. ASSUME NEW p \in Person, NEW l \in Link, Invite(p, l)
        PROVE  OneVisit'
    BY <1>10 DEF Invite, Due
  <1>11. ASSUME NEW p \in Person, NEW l \in Link, FormRequest(p, l)
        PROVE  OneVisit'
    BY <1>11 DEF FormRequest, Due
  <1>12. ASSUME NEW l \in Link, SendLink(l)
        PROVE  OneVisit'
    BY <1>12 DEF SendLink, InsertLink, SeatOf
  <1>13. ASSUME NEW l \in Link, FindSeat(l)
        PROVE  OneVisit'
    BY <1>13 DEF FindSeat, SeatOf
  <1>14. ASSUME NEW l \in Link, LoseLink(l)
        PROVE  OneVisit'
    BY <1>14 DEF LoseLink
  <1>15. ASSUME NEW l \in Link, ExpireLink(l)
        PROVE  OneVisit'
    BY <1>15 DEF ExpireLink
  <1>16. ASSUME NEW v \in Visit, NEW l \in Link, Follow(v, l)
        PROVE  OneVisit'
    BY <1>16 DEF Follow, Usable, Consumes
  <1>17. ASSUME NEW v \in Visit, NEW l \in Link, PickCode(v, l)
        PROVE  OneVisit'
    BY <1>17 DEF PickCode, Candidate, Usable, HomeOf, Consumes
  <1>18. ASSUME NEW v \in Visit, ClaimByCode(v)
        PROVE  OneVisit'
    <2>1. visit[v].link \in Link
      BY DEF SignInTypeOK, Handler
    <2>2. CASE Usable(visit[v].link)
      <3>1. /\ link' = [link EXCEPT ![visit[v].link].state = "used"]
            /\ visit' = [visit EXCEPT ![v].step = "claimed"]
        BY <1>18, <2>2 DEF ClaimByCode
      <3> QED
        BY <1>18, <2>1, <2>2, <3>1 DEF ClaimByCode, Usable
    <2>3. CASE ~Usable(visit[v].link)
      <3>1. link' = link /\ visit' = [visit EXCEPT ![v].step = "idle"]
        BY <1>18, <2>3 DEF ClaimByCode
      <3> QED
        BY <1>18, <2>1, <2>3, <3>1 DEF ClaimByCode, Usable
    <2> QED
      BY <2>2, <2>3
  <1>19. ASSUME NEW v \in Visit, Admit(v)
        PROVE  OneVisit'
    BY <1>19 DEF Admit
  <1>20. ASSUME NEW v \in Visit, LoseVisit(v)
        PROVE  OneVisit'
    BY <1>20 DEF LoseVisit
  <1>21. ASSUME NEW l \in Link, SendMemberLink(l)
        PROVE  OneVisit'
    BY <1>21 DEF SendMemberLink, InsertLink
  <1> QED BY <1>1, <1>2, <1>3, <1>4, <1>5, <1>6, <1>7, <1>8, <1>9, <1>10,
        <1>11, <1>12, <1>13, <1>14, <1>15, <1>16, <1>17, <1>18, <1>19, <1>20,
        <1>21
       DEF SignInNext, Seating, Asking

\* Only the handler itself opens a session, and it is done then.
LEMMA NotYetStep ==
    SignInTypeOK /\ Fresh /\ OneVisit /\ NotYet /\ [SignInNext]_signInVars => NotYet'
  <1> SUFFICES ASSUME SignInTypeOK, Fresh, OneVisit, NotYet, [SignInNext]_signInVars
               PROVE  NotYet'
    OBVIOUS
  <1> USE SignInAssumption DEF SignInTypeOK, LinkRow, Handler, Row, Jar, Host,
              Fresh, OneVisit, NotYet
  <1>1. CASE UNCHANGED signInVars
    BY <1>1 DEF signInVars
  <1>2. ASSUME NEW p \in Person, Hire(p)
        PROVE  NotYet'
    BY <1>2 DEF Hire
  <1>3. ASSUME NEW p \in Person, Dismiss(p)
        PROVE  NotYet'
    BY <1>3 DEF Dismiss, LinksOf
  <1>4. ASSUME NEW p \in Person, JoinList(p)
        PROVE  NotYet'
    BY <1>4 DEF JoinList
  <1>5. ASSUME NEW p \in Person, LeaveList(p)
        PROVE  NotYet'
    BY <1>5 DEF LeaveList, LinksOf
  <1>6. ASSUME NEW p \in Person, SignOut(p)
        PROVE  NotYet'
    BY <1>6 DEF SignOut
  <1>7. ASSUME NEW p \in Person, ExpireSession(p)
        PROVE  NotYet'
    BY <1>7 DEF ExpireSession
  <1>8. ASSUME NEW p \in Person, NEW l \in Link, SiteRequest(p, l)
        PROVE  NotYet'
    BY <1>8 DEF SiteRequest, Due
  <1>9. ASSUME NEW p \in Person, NEW l \in Link, TenantRequest(p, l)
        PROVE  NotYet'
    BY <1>9 DEF TenantRequest, Due
  <1>10. ASSUME NEW p \in Person, NEW l \in Link, Invite(p, l)
        PROVE  NotYet'
    BY <1>10 DEF Invite, Due
  <1>11. ASSUME NEW p \in Person, NEW l \in Link, FormRequest(p, l)
        PROVE  NotYet'
    BY <1>11 DEF FormRequest, Due
  <1>12. ASSUME NEW l \in Link, SendLink(l)
        PROVE  NotYet'
    BY <1>12 DEF SendLink, InsertLink, SeatOf
  <1>13. ASSUME NEW l \in Link, FindSeat(l)
        PROVE  NotYet'
    BY <1>13 DEF FindSeat, SeatOf
  <1>14. ASSUME NEW l \in Link, LoseLink(l)
        PROVE  NotYet'
    BY <1>14 DEF LoseLink
  <1>15. ASSUME NEW l \in Link, ExpireLink(l)
        PROVE  NotYet'
    BY <1>15 DEF ExpireLink
  <1>16. ASSUME NEW v \in Visit, NEW l \in Link, Follow(v, l)
        PROVE  NotYet'
    BY <1>16 DEF Follow, Usable, Consumes
  <1>17. ASSUME NEW v \in Visit, NEW l \in Link, PickCode(v, l)
        PROVE  NotYet'
    BY <1>17 DEF PickCode, Candidate, Usable, HomeOf, Consumes
  <1>18. ASSUME NEW v \in Visit, ClaimByCode(v)
        PROVE  NotYet'
    <2>1. visit[v].link \in Link
      BY DEF SignInTypeOK, Handler
    <2>2. CASE Usable(visit[v].link)
      <3>1. /\ link' = [link EXCEPT ![visit[v].link].state = "used"]
            /\ visit' = [visit EXCEPT ![v].step = "claimed"]
        BY <1>18, <2>2 DEF ClaimByCode
      <3> QED
        BY <1>18, <2>1, <2>2, <3>1 DEF ClaimByCode, Usable
    <2>3. CASE ~Usable(visit[v].link)
      <3>1. link' = link /\ visit' = [visit EXCEPT ![v].step = "idle"]
        BY <1>18, <2>3 DEF ClaimByCode
      <3> QED
        BY <1>18, <2>1, <2>3, <3>1 DEF ClaimByCode, Usable
    <2> QED
      BY <2>2, <2>3
  <1>19. ASSUME NEW v \in Visit, Admit(v)
        PROVE  NotYet'
    BY <1>19 DEF Admit
  <1>20. ASSUME NEW v \in Visit, LoseVisit(v)
        PROVE  NotYet'
    BY <1>20 DEF LoseVisit
  <1>21. ASSUME NEW l \in Link, SendMemberLink(l)
        PROVE  NotYet'
    BY <1>21 DEF SendMemberLink, InsertLink
  <1> QED BY <1>1, <1>2, <1>3, <1>4, <1>5, <1>6, <1>7, <1>8, <1>9, <1>10,
        <1>11, <1>12, <1>13, <1>14, <1>15, <1>16, <1>17, <1>18, <1>19, <1>20,
        <1>21
       DEF SignInNext, Seating, Asking

\* So no link opens a second session.
LEMMA OneSessionStep ==
    SignInTypeOK /\ NotYet /\ OneSessionPerLink /\ [SignInNext]_signInVars => OneSessionPerLink'
  <1> SUFFICES ASSUME SignInTypeOK, NotYet, OneSessionPerLink, [SignInNext]_signInVars
               PROVE  OneSessionPerLink'
    OBVIOUS
  <1> USE SignInAssumption DEF SignInTypeOK, LinkRow, Handler, Row, Jar, Host,
              NotYet, OneSessionPerLink
  <1>1. CASE UNCHANGED signInVars
    BY <1>1 DEF signInVars
  <1>2. ASSUME NEW p \in Person, Hire(p)
        PROVE  OneSessionPerLink'
    BY <1>2 DEF Hire
  <1>3. ASSUME NEW p \in Person, Dismiss(p)
        PROVE  OneSessionPerLink'
    BY <1>3 DEF Dismiss, LinksOf
  <1>4. ASSUME NEW p \in Person, JoinList(p)
        PROVE  OneSessionPerLink'
    BY <1>4 DEF JoinList
  <1>5. ASSUME NEW p \in Person, LeaveList(p)
        PROVE  OneSessionPerLink'
    BY <1>5 DEF LeaveList, LinksOf
  <1>6. ASSUME NEW p \in Person, SignOut(p)
        PROVE  OneSessionPerLink'
    BY <1>6 DEF SignOut
  <1>7. ASSUME NEW p \in Person, ExpireSession(p)
        PROVE  OneSessionPerLink'
    BY <1>7 DEF ExpireSession
  <1>8. ASSUME NEW p \in Person, NEW l \in Link, SiteRequest(p, l)
        PROVE  OneSessionPerLink'
    BY <1>8 DEF SiteRequest, Due
  <1>9. ASSUME NEW p \in Person, NEW l \in Link, TenantRequest(p, l)
        PROVE  OneSessionPerLink'
    BY <1>9 DEF TenantRequest, Due
  <1>10. ASSUME NEW p \in Person, NEW l \in Link, Invite(p, l)
        PROVE  OneSessionPerLink'
    BY <1>10 DEF Invite, Due
  <1>11. ASSUME NEW p \in Person, NEW l \in Link, FormRequest(p, l)
        PROVE  OneSessionPerLink'
    BY <1>11 DEF FormRequest, Due
  <1>12. ASSUME NEW l \in Link, SendLink(l)
        PROVE  OneSessionPerLink'
    BY <1>12 DEF SendLink, InsertLink, SeatOf
  <1>13. ASSUME NEW l \in Link, FindSeat(l)
        PROVE  OneSessionPerLink'
    BY <1>13 DEF FindSeat, SeatOf
  <1>14. ASSUME NEW l \in Link, LoseLink(l)
        PROVE  OneSessionPerLink'
    BY <1>14 DEF LoseLink
  <1>15. ASSUME NEW l \in Link, ExpireLink(l)
        PROVE  OneSessionPerLink'
    BY <1>15 DEF ExpireLink
  <1>16. ASSUME NEW v \in Visit, NEW l \in Link, Follow(v, l)
        PROVE  OneSessionPerLink'
    BY <1>16 DEF Follow, Usable, Consumes
  <1>17. ASSUME NEW v \in Visit, NEW l \in Link, PickCode(v, l)
        PROVE  OneSessionPerLink'
    BY <1>17 DEF PickCode, Candidate, Usable, HomeOf, Consumes
  <1>18. ASSUME NEW v \in Visit, ClaimByCode(v)
        PROVE  OneSessionPerLink'
    <2>1. visit[v].link \in Link
      BY DEF SignInTypeOK, Handler
    <2>2. CASE Usable(visit[v].link)
      <3>1. /\ link' = [link EXCEPT ![visit[v].link].state = "used"]
            /\ visit' = [visit EXCEPT ![v].step = "claimed"]
        BY <1>18, <2>2 DEF ClaimByCode
      <3> QED
        BY <1>18, <2>1, <2>2, <3>1 DEF ClaimByCode, Usable
    <2>3. CASE ~Usable(visit[v].link)
      <3>1. link' = link /\ visit' = [visit EXCEPT ![v].step = "idle"]
        BY <1>18, <2>3 DEF ClaimByCode
      <3> QED
        BY <1>18, <2>1, <2>3, <3>1 DEF ClaimByCode, Usable
    <2> QED
      BY <2>2, <2>3
  <1>19. ASSUME NEW v \in Visit, Admit(v)
        PROVE  OneSessionPerLink'
    BY <1>19 DEF Admit
  <1>20. ASSUME NEW v \in Visit, LoseVisit(v)
        PROVE  OneSessionPerLink'
    BY <1>20 DEF LoseVisit
  <1>21. ASSUME NEW l \in Link, SendMemberLink(l)
        PROVE  OneSessionPerLink'
    BY <1>21 DEF SendMemberLink, InsertLink
  <1> QED BY <1>1, <1>2, <1>3, <1>4, <1>5, <1>6, <1>7, <1>8, <1>9, <1>10,
        <1>11, <1>12, <1>13, <1>14, <1>15, <1>16, <1>17, <1>18, <1>19, <1>20,
        <1>21
       DEF SignInNext, Seating, Asking

\* A row of admins takes its links with it, and the others stay.
LEMMA RowsStandStep ==
    SignInTypeOK /\ RowsStand /\ [SignInNext]_signInVars => RowsStand'
  <1> SUFFICES ASSUME SignInTypeOK, RowsStand, [SignInNext]_signInVars
               PROVE  RowsStand'
    OBVIOUS
  <1> USE SignInAssumption DEF SignInTypeOK, LinkRow, Handler, Row, Jar, Host,
              RowsStand
  <1>1. CASE UNCHANGED signInVars
    BY <1>1 DEF signInVars
  <1>2. ASSUME NEW p \in Person, Hire(p)
        PROVE  RowsStand'
    BY <1>2 DEF Hire
  <1>3. ASSUME NEW p \in Person, Dismiss(p)
        PROVE  RowsStand'
    BY <1>3 DEF Dismiss, LinksOf
  <1>4. ASSUME NEW p \in Person, JoinList(p)
        PROVE  RowsStand'
    BY <1>4 DEF JoinList
  <1>5. ASSUME NEW p \in Person, LeaveList(p)
        PROVE  RowsStand'
    BY <1>5 DEF LeaveList, LinksOf
  <1>6. ASSUME NEW p \in Person, SignOut(p)
        PROVE  RowsStand'
    BY <1>6 DEF SignOut
  <1>7. ASSUME NEW p \in Person, ExpireSession(p)
        PROVE  RowsStand'
    BY <1>7 DEF ExpireSession
  <1>8. ASSUME NEW p \in Person, NEW l \in Link, SiteRequest(p, l)
        PROVE  RowsStand'
    BY <1>8 DEF SiteRequest, Due
  <1>9. ASSUME NEW p \in Person, NEW l \in Link, TenantRequest(p, l)
        PROVE  RowsStand'
    BY <1>9 DEF TenantRequest, Due
  <1>10. ASSUME NEW p \in Person, NEW l \in Link, Invite(p, l)
        PROVE  RowsStand'
    BY <1>10 DEF Invite, Due
  <1>11. ASSUME NEW p \in Person, NEW l \in Link, FormRequest(p, l)
        PROVE  RowsStand'
    BY <1>11 DEF FormRequest, Due
  <1>12. ASSUME NEW l \in Link, SendLink(l)
        PROVE  RowsStand'
    BY <1>12 DEF SendLink, InsertLink, SeatOf
  <1>13. ASSUME NEW l \in Link, FindSeat(l)
        PROVE  RowsStand'
    <2>1. seat' = seat /\ \A k \in Link \ {l} : link'[k] = link[k]
      BY <1>13 DEF FindSeat
    <2>2. link'[l].state \in {"due", "gone"}
      BY <1>13 DEF FindSeat
    <2> QED
      BY <2>1, <2>2
  <1>14. ASSUME NEW l \in Link, LoseLink(l)
        PROVE  RowsStand'
    BY <1>14 DEF LoseLink
  <1>15. ASSUME NEW l \in Link, ExpireLink(l)
        PROVE  RowsStand'
    BY <1>15 DEF ExpireLink
  <1>16. ASSUME NEW v \in Visit, NEW l \in Link, Follow(v, l)
        PROVE  RowsStand'
    BY <1>16 DEF Follow, Usable, Consumes
  <1>17. ASSUME NEW v \in Visit, NEW l \in Link, PickCode(v, l)
        PROVE  RowsStand'
    BY <1>17 DEF PickCode, Candidate, Usable, HomeOf, Consumes
  <1>18. ASSUME NEW v \in Visit, ClaimByCode(v)
        PROVE  RowsStand'
    <2>1. visit[v].link \in Link
      BY DEF SignInTypeOK, Handler
    <2>2. CASE Usable(visit[v].link)
      <3>1. /\ link' = [link EXCEPT ![visit[v].link].state = "used"]
            /\ visit' = [visit EXCEPT ![v].step = "claimed"]
        BY <1>18, <2>2 DEF ClaimByCode
      <3> QED
        BY <1>18, <2>1, <2>2, <3>1 DEF ClaimByCode, Usable
    <2>3. CASE ~Usable(visit[v].link)
      <3>1. link' = link /\ visit' = [visit EXCEPT ![v].step = "idle"]
        BY <1>18, <2>3 DEF ClaimByCode
      <3> QED
        BY <1>18, <2>1, <2>3, <3>1 DEF ClaimByCode, Usable
    <2> QED
      BY <2>2, <2>3
  <1>19. ASSUME NEW v \in Visit, Admit(v)
        PROVE  RowsStand'
    BY <1>19 DEF Admit
  <1>20. ASSUME NEW v \in Visit, LoseVisit(v)
        PROVE  RowsStand'
    BY <1>20 DEF LoseVisit
  <1>21. ASSUME NEW l \in Link, SendMemberLink(l)
        PROVE  RowsStand'
    BY <1>21 DEF SendMemberLink, InsertLink
  <1> QED BY <1>1, <1>2, <1>3, <1>4, <1>5, <1>6, <1>7, <1>8, <1>9, <1>10,
        <1>11, <1>12, <1>13, <1>14, <1>15, <1>16, <1>17, <1>18, <1>19, <1>20,
        <1>21
       DEF SignInNext, Seating, Asking

\* Leaving marks the links that were mailed or are about to be.
LEMMA MembersStandStep ==
    SignInTypeOK /\ MembersStand /\ [SignInNext]_signInVars => MembersStand'
  <1> SUFFICES ASSUME SignInTypeOK, MembersStand, [SignInNext]_signInVars
               PROVE  MembersStand'
    OBVIOUS
  <1> USE SignInAssumption DEF SignInTypeOK, LinkRow, Handler, Row, Jar, Host,
              MembersStand, Promised
  <1>1. CASE UNCHANGED signInVars
    BY <1>1 DEF signInVars
  <1>2. ASSUME NEW p \in Person, Hire(p)
        PROVE  MembersStand'
    BY <1>2 DEF Hire
  <1>3. ASSUME NEW p \in Person, Dismiss(p)
        PROVE  MembersStand'
    BY <1>3 DEF Dismiss, LinksOf
  <1>4. ASSUME NEW p \in Person, JoinList(p)
        PROVE  MembersStand'
    BY <1>4 DEF JoinList
  <1>5. ASSUME NEW p \in Person, LeaveList(p)
        PROVE  MembersStand'
    BY <1>5 DEF LeaveList, LinksOf
  <1>6. ASSUME NEW p \in Person, SignOut(p)
        PROVE  MembersStand'
    BY <1>6 DEF SignOut
  <1>7. ASSUME NEW p \in Person, ExpireSession(p)
        PROVE  MembersStand'
    BY <1>7 DEF ExpireSession
  <1>8. ASSUME NEW p \in Person, NEW l \in Link, SiteRequest(p, l)
        PROVE  MembersStand'
    BY <1>8 DEF SiteRequest, Due
  <1>9. ASSUME NEW p \in Person, NEW l \in Link, TenantRequest(p, l)
        PROVE  MembersStand'
    BY <1>9 DEF TenantRequest, Due
  <1>10. ASSUME NEW p \in Person, NEW l \in Link, Invite(p, l)
        PROVE  MembersStand'
    BY <1>10 DEF Invite, Due
  <1>11. ASSUME NEW p \in Person, NEW l \in Link, FormRequest(p, l)
        PROVE  MembersStand'
    BY <1>11 DEF FormRequest, Due
  <1>12. ASSUME NEW l \in Link, SendLink(l)
        PROVE  MembersStand'
    BY <1>12 DEF SendLink, InsertLink, SeatOf
  <1>13. ASSUME NEW l \in Link, FindSeat(l)
        PROVE  MembersStand'
    BY <1>13 DEF FindSeat, SeatOf
  <1>14. ASSUME NEW l \in Link, LoseLink(l)
        PROVE  MembersStand'
    BY <1>14 DEF LoseLink
  <1>15. ASSUME NEW l \in Link, ExpireLink(l)
        PROVE  MembersStand'
    BY <1>15 DEF ExpireLink
  <1>16. ASSUME NEW v \in Visit, NEW l \in Link, Follow(v, l)
        PROVE  MembersStand'
    BY <1>16 DEF Follow, Usable, Consumes
  <1>17. ASSUME NEW v \in Visit, NEW l \in Link, PickCode(v, l)
        PROVE  MembersStand'
    BY <1>17 DEF PickCode, Candidate, Usable, HomeOf, Consumes
  <1>18. ASSUME NEW v \in Visit, ClaimByCode(v)
        PROVE  MembersStand'
    <2>1. visit[v].link \in Link
      BY DEF SignInTypeOK, Handler
    <2>2. CASE Usable(visit[v].link)
      <3>1. /\ link' = [link EXCEPT ![visit[v].link].state = "used"]
            /\ visit' = [visit EXCEPT ![v].step = "claimed"]
        BY <1>18, <2>2 DEF ClaimByCode
      <3> QED
        BY <1>18, <2>1, <2>2, <3>1 DEF ClaimByCode, Usable
    <2>3. CASE ~Usable(visit[v].link)
      <3>1. link' = link /\ visit' = [visit EXCEPT ![v].step = "idle"]
        BY <1>18, <2>3 DEF ClaimByCode
      <3> QED
        BY <1>18, <2>1, <2>3, <3>1 DEF ClaimByCode, Usable
    <2> QED
      BY <2>2, <2>3
  <1>19. ASSUME NEW v \in Visit, Admit(v)
        PROVE  MembersStand'
    BY <1>19 DEF Admit
  <1>20. ASSUME NEW v \in Visit, LoseVisit(v)
        PROVE  MembersStand'
    BY <1>20 DEF LoseVisit
  <1>21. ASSUME NEW l \in Link, SendMemberLink(l)
        PROVE  MembersStand'
    BY <1>21 DEF SendMemberLink, InsertLink
  <1> QED BY <1>1, <1>2, <1>3, <1>4, <1>5, <1>6, <1>7, <1>8, <1>9, <1>10,
        <1>11, <1>12, <1>13, <1>14, <1>15, <1>16, <1>17, <1>18, <1>19, <1>20,
        <1>21
       DEF SignInNext, Seating, Asking

\* A handler keeps its link and host until it is done.
LEMMA VisitsMatchStep ==
    SignInTypeOK /\ VisitsMatch /\ [SignInNext]_signInVars => VisitsMatch'
  <1> SUFFICES ASSUME SignInTypeOK, VisitsMatch, [SignInNext]_signInVars
               PROVE  VisitsMatch'
    OBVIOUS
  <1> USE SignInAssumption DEF SignInTypeOK, LinkRow, Handler, Row, Jar, Host,
              VisitsMatch, Consumes
  <1>1. CASE UNCHANGED signInVars
    BY <1>1 DEF signInVars
  <1>2. ASSUME NEW p \in Person, Hire(p)
        PROVE  VisitsMatch'
    BY <1>2 DEF Hire
  <1>3. ASSUME NEW p \in Person, Dismiss(p)
        PROVE  VisitsMatch'
    BY <1>3 DEF Dismiss, LinksOf
  <1>4. ASSUME NEW p \in Person, JoinList(p)
        PROVE  VisitsMatch'
    BY <1>4 DEF JoinList
  <1>5. ASSUME NEW p \in Person, LeaveList(p)
        PROVE  VisitsMatch'
    BY <1>5 DEF LeaveList, LinksOf
  <1>6. ASSUME NEW p \in Person, SignOut(p)
        PROVE  VisitsMatch'
    BY <1>6 DEF SignOut
  <1>7. ASSUME NEW p \in Person, ExpireSession(p)
        PROVE  VisitsMatch'
    BY <1>7 DEF ExpireSession
  <1>8. ASSUME NEW p \in Person, NEW l \in Link, SiteRequest(p, l)
        PROVE  VisitsMatch'
    BY <1>8 DEF SiteRequest, Due
  <1>9. ASSUME NEW p \in Person, NEW l \in Link, TenantRequest(p, l)
        PROVE  VisitsMatch'
    BY <1>9 DEF TenantRequest, Due
  <1>10. ASSUME NEW p \in Person, NEW l \in Link, Invite(p, l)
        PROVE  VisitsMatch'
    BY <1>10 DEF Invite, Due
  <1>11. ASSUME NEW p \in Person, NEW l \in Link, FormRequest(p, l)
        PROVE  VisitsMatch'
    BY <1>11 DEF FormRequest, Due
  <1>12. ASSUME NEW l \in Link, SendLink(l)
        PROVE  VisitsMatch'
    BY <1>12 DEF SendLink, InsertLink, SeatOf
  <1>13. ASSUME NEW l \in Link, FindSeat(l)
        PROVE  VisitsMatch'
    BY <1>13 DEF FindSeat, SeatOf
  <1>14. ASSUME NEW l \in Link, LoseLink(l)
        PROVE  VisitsMatch'
    BY <1>14 DEF LoseLink
  <1>15. ASSUME NEW l \in Link, ExpireLink(l)
        PROVE  VisitsMatch'
    BY <1>15 DEF ExpireLink
  <1>16. ASSUME NEW v \in Visit, NEW l \in Link, Follow(v, l)
        PROVE  VisitsMatch'
    BY <1>16 DEF Follow, Usable, Consumes
  <1>17. ASSUME NEW v \in Visit, NEW l \in Link, PickCode(v, l)
        PROVE  VisitsMatch'
    BY <1>17 DEF PickCode, Candidate, Usable, HomeOf, Consumes
  <1>18. ASSUME NEW v \in Visit, ClaimByCode(v)
        PROVE  VisitsMatch'
    <2>1. visit[v].link \in Link
      BY DEF SignInTypeOK, Handler
    <2>2. CASE Usable(visit[v].link)
      <3>1. /\ link' = [link EXCEPT ![visit[v].link].state = "used"]
            /\ visit' = [visit EXCEPT ![v].step = "claimed"]
        BY <1>18, <2>2 DEF ClaimByCode
      <3> QED
        BY <1>18, <2>1, <2>2, <3>1 DEF ClaimByCode, Usable
    <2>3. CASE ~Usable(visit[v].link)
      <3>1. link' = link /\ visit' = [visit EXCEPT ![v].step = "idle"]
        BY <1>18, <2>3 DEF ClaimByCode
      <3> QED
        BY <1>18, <2>1, <2>3, <3>1 DEF ClaimByCode, Usable
    <2> QED
      BY <2>2, <2>3
  <1>19. ASSUME NEW v \in Visit, Admit(v)
        PROVE  VisitsMatch'
    BY <1>19 DEF Admit
  <1>20. ASSUME NEW v \in Visit, LoseVisit(v)
        PROVE  VisitsMatch'
    BY <1>20 DEF LoseVisit
  <1>21. ASSUME NEW l \in Link, SendMemberLink(l)
        PROVE  VisitsMatch'
    BY <1>21 DEF SendMemberLink, InsertLink
  <1> QED BY <1>1, <1>2, <1>3, <1>4, <1>5, <1>6, <1>7, <1>8, <1>9, <1>10,
        <1>11, <1>12, <1>13, <1>14, <1>15, <1>16, <1>17, <1>18, <1>19, <1>20,
        <1>21
       DEF SignInNext, Seating, Asking

\* A new row has a new number.
LEMMA RowsInOrderStep ==
    SignInTypeOK /\ RowsInOrder /\ [SignInNext]_signInVars => RowsInOrder'
  <1> SUFFICES ASSUME SignInTypeOK, RowsInOrder, [SignInNext]_signInVars
               PROVE  RowsInOrder'
    OBVIOUS
  <1> USE SignInAssumption DEF SignInTypeOK, LinkRow, Handler, Row, Jar, Host,
              RowsInOrder
  <1>1. CASE UNCHANGED signInVars
    BY <1>1 DEF signInVars
  <1>2. ASSUME NEW p \in Person, Hire(p)
        PROVE  RowsInOrder'
    BY <1>2 DEF Hire
  <1>3. ASSUME NEW p \in Person, Dismiss(p)
        PROVE  RowsInOrder'
    BY <1>3 DEF Dismiss, LinksOf
  <1>4. ASSUME NEW p \in Person, JoinList(p)
        PROVE  RowsInOrder'
    BY <1>4 DEF JoinList
  <1>5. ASSUME NEW p \in Person, LeaveList(p)
        PROVE  RowsInOrder'
    BY <1>5 DEF LeaveList, LinksOf
  <1>6. ASSUME NEW p \in Person, SignOut(p)
        PROVE  RowsInOrder'
    BY <1>6 DEF SignOut
  <1>7. ASSUME NEW p \in Person, ExpireSession(p)
        PROVE  RowsInOrder'
    BY <1>7 DEF ExpireSession
  <1>8. ASSUME NEW p \in Person, NEW l \in Link, SiteRequest(p, l)
        PROVE  RowsInOrder'
    BY <1>8 DEF SiteRequest, Due
  <1>9. ASSUME NEW p \in Person, NEW l \in Link, TenantRequest(p, l)
        PROVE  RowsInOrder'
    BY <1>9 DEF TenantRequest, Due
  <1>10. ASSUME NEW p \in Person, NEW l \in Link, Invite(p, l)
        PROVE  RowsInOrder'
    BY <1>10 DEF Invite, Due
  <1>11. ASSUME NEW p \in Person, NEW l \in Link, FormRequest(p, l)
        PROVE  RowsInOrder'
    BY <1>11 DEF FormRequest, Due
  <1>12. ASSUME NEW l \in Link, SendLink(l)
        PROVE  RowsInOrder'
    BY <1>12 DEF SendLink, InsertLink, SeatOf
  <1>13. ASSUME NEW l \in Link, FindSeat(l)
        PROVE  RowsInOrder'
    BY SMTT(40), <1>13 DEF FindSeat, SeatOf
  <1>14. ASSUME NEW l \in Link, LoseLink(l)
        PROVE  RowsInOrder'
    BY <1>14 DEF LoseLink
  <1>15. ASSUME NEW l \in Link, ExpireLink(l)
        PROVE  RowsInOrder'
    BY <1>15 DEF ExpireLink
  <1>16. ASSUME NEW v \in Visit, NEW l \in Link, Follow(v, l)
        PROVE  RowsInOrder'
    BY <1>16 DEF Follow, Usable, Consumes
  <1>17. ASSUME NEW v \in Visit, NEW l \in Link, PickCode(v, l)
        PROVE  RowsInOrder'
    BY <1>17 DEF PickCode, Candidate, Usable, HomeOf, Consumes
  <1>18. ASSUME NEW v \in Visit, ClaimByCode(v)
        PROVE  RowsInOrder'
    <2>1. visit[v].link \in Link
      BY DEF SignInTypeOK, Handler
    <2>2. CASE Usable(visit[v].link)
      <3>1. /\ link' = [link EXCEPT ![visit[v].link].state = "used"]
            /\ visit' = [visit EXCEPT ![v].step = "claimed"]
        BY <1>18, <2>2 DEF ClaimByCode
      <3> QED
        BY <1>18, <2>1, <2>2, <3>1 DEF ClaimByCode, Usable
    <2>3. CASE ~Usable(visit[v].link)
      <3>1. link' = link /\ visit' = [visit EXCEPT ![v].step = "idle"]
        BY <1>18, <2>3 DEF ClaimByCode
      <3> QED
        BY <1>18, <2>1, <2>3, <3>1 DEF ClaimByCode, Usable
    <2> QED
      BY <2>2, <2>3
  <1>19. ASSUME NEW v \in Visit, Admit(v)
        PROVE  RowsInOrder'
    BY <1>19 DEF Admit
  <1>20. ASSUME NEW v \in Visit, LoseVisit(v)
        PROVE  RowsInOrder'
    BY <1>20 DEF LoseVisit
  <1>21. ASSUME NEW l \in Link, SendMemberLink(l)
        PROVE  RowsInOrder'
    BY <1>21 DEF SendMemberLink, InsertLink
  <1> QED BY <1>1, <1>2, <1>3, <1>4, <1>5, <1>6, <1>7, <1>8, <1>9, <1>10,
        <1>11, <1>12, <1>13, <1>14, <1>15, <1>16, <1>17, <1>18, <1>19, <1>20,
        <1>21
       DEF SignInNext, Seating, Asking

\* A handler that turns somebody away knows why.
LEMMA WasteStep ==
    SignInTypeOK /\ RowsStand /\ MembersStand /\ VisitsMatch /\ WastedForAReason /\ [SignInNext]_signInVars => WastedForAReason'
  <1> SUFFICES ASSUME SignInTypeOK, RowsStand, MembersStand, VisitsMatch, WastedForAReason, [SignInNext]_signInVars
               PROVE  WastedForAReason'
    OBVIOUS
  <1> USE SignInAssumption DEF SignInTypeOK, LinkRow, Handler, Row, Jar, Host,
              WastedForAReason
  <1>1. CASE UNCHANGED signInVars
    BY <1>1 DEF signInVars
  <1>2. ASSUME NEW p \in Person, Hire(p)
        PROVE  WastedForAReason'
    BY <1>2 DEF Hire
  <1>3. ASSUME NEW p \in Person, Dismiss(p)
        PROVE  WastedForAReason'
    BY <1>3 DEF Dismiss, LinksOf
  <1>4. ASSUME NEW p \in Person, JoinList(p)
        PROVE  WastedForAReason'
    BY <1>4 DEF JoinList
  <1>5. ASSUME NEW p \in Person, LeaveList(p)
        PROVE  WastedForAReason'
    BY <1>5 DEF LeaveList, LinksOf
  <1>6. ASSUME NEW p \in Person, SignOut(p)
        PROVE  WastedForAReason'
    BY <1>6 DEF SignOut
  <1>7. ASSUME NEW p \in Person, ExpireSession(p)
        PROVE  WastedForAReason'
    BY <1>7 DEF ExpireSession
  <1>8. ASSUME NEW p \in Person, NEW l \in Link, SiteRequest(p, l)
        PROVE  WastedForAReason'
    BY <1>8 DEF SiteRequest, Due
  <1>9. ASSUME NEW p \in Person, NEW l \in Link, TenantRequest(p, l)
        PROVE  WastedForAReason'
    BY <1>9 DEF TenantRequest, Due
  <1>10. ASSUME NEW p \in Person, NEW l \in Link, Invite(p, l)
        PROVE  WastedForAReason'
    BY <1>10 DEF Invite, Due
  <1>11. ASSUME NEW p \in Person, NEW l \in Link, FormRequest(p, l)
        PROVE  WastedForAReason'
    BY <1>11 DEF FormRequest, Due
  <1>12. ASSUME NEW l \in Link, SendLink(l)
        PROVE  WastedForAReason'
    BY <1>12 DEF SendLink, InsertLink, SeatOf
  <1>13. ASSUME NEW l \in Link, FindSeat(l)
        PROVE  WastedForAReason'
    BY <1>13 DEF FindSeat, SeatOf
  <1>14. ASSUME NEW l \in Link, LoseLink(l)
        PROVE  WastedForAReason'
    BY <1>14 DEF LoseLink
  <1>15. ASSUME NEW l \in Link, ExpireLink(l)
        PROVE  WastedForAReason'
    BY <1>15 DEF ExpireLink
  <1>16. ASSUME NEW v \in Visit, NEW l \in Link, Follow(v, l)
        PROVE  WastedForAReason'
    BY <1>16 DEF Follow, Usable, Consumes
  <1>17. ASSUME NEW v \in Visit, NEW l \in Link, PickCode(v, l)
        PROVE  WastedForAReason'
    BY <1>17 DEF PickCode, Candidate, Usable, HomeOf, Consumes
  <1>18. ASSUME NEW v \in Visit, ClaimByCode(v)
        PROVE  WastedForAReason'
    <2>1. visit[v].link \in Link
      BY DEF SignInTypeOK, Handler
    <2>2. CASE Usable(visit[v].link)
      <3>1. /\ link' = [link EXCEPT ![visit[v].link].state = "used"]
            /\ visit' = [visit EXCEPT ![v].step = "claimed"]
        BY <1>18, <2>2 DEF ClaimByCode
      <3> QED
        BY <1>18, <2>1, <2>2, <3>1 DEF ClaimByCode, Usable
    <2>3. CASE ~Usable(visit[v].link)
      <3>1. link' = link /\ visit' = [visit EXCEPT ![v].step = "idle"]
        BY <1>18, <2>3 DEF ClaimByCode
      <3> QED
        BY <1>18, <2>1, <2>3, <3>1 DEF ClaimByCode, Usable
    <2> QED
      BY <2>2, <2>3
  <1>19. ASSUME NEW v \in Visit, Admit(v)
        PROVE  WastedForAReason'
    <2> DEFINE k == visit[v].link
    <2>1. CASE Admitted(v)
      BY <1>19, <2>1 DEF Admit
    <2>2. CASE ~Admitted(v)
      <3>1. link[k].state = "used" =>
               (k \in strayed /\ link[k].jar = "tenant") \/ k \in orphaned
        <4>1. k \in Link /\ link[k] \in LinkRow
          BY DEF SignInTypeOK, Handler
        <4>2. /\ visit[v].step = "claimed"
              /\ Consumes(k, visit[v].host)
              /\ visit[v].host = "elsewhere" => k \in strayed
          BY <1>19 DEF Admit, VisitsMatch
        <4>3. CASE link[k].jar = "site"
          BY <2>2, <4>1, <4>3 DEF Admitted, AdmitsSite, RowsStand
        <4>4. CASE link[k].jar = "tenant"
          BY <2>2, <4>1, <4>2, <4>4 DEF Admitted, AdmitsTeam, RowsStand
        <4>5. CASE link[k].jar = "member"
          BY <2>2, <4>1, <4>2, <4>5 DEF Admitted, AdmitsMember, MembersStand, Promised, Consumes
        <4> QED
          BY <4>1, <4>3, <4>4, <4>5
      <3>2. /\ link' = link /\ issued' = issued /\ strayed' = strayed
            /\ orphaned' = orphaned
            /\ \A w \in Visit : w # v => visit'[w] = visit[w]
        BY <1>19, <2>2 DEF Admit
      <3> SUFFICES ASSUME NEW l \in Link, link[l].state = "used", issued[l] = 0
                   PROVE  \/ \E w \in Visit : /\ visit'[w].link = l
                                              /\ visit'[w].step \in {"claimed", "dead"}
                          \/ l \in strayed /\ link[l].jar = "tenant"
                          \/ l \in orphaned
        BY <3>2 DEF WastedForAReason
      <3>3. CASE l = k
        BY <3>1, <3>3
      <3>4. CASE l # k
        <4>1. \/ \E w \in Visit : /\ visit[w].link = l
                                  /\ visit[w].step \in {"claimed", "dead"}
              \/ l \in strayed /\ link[l].jar = "tenant"
              \/ l \in orphaned
          BY DEF WastedForAReason
        <4> QED
          BY <3>2, <3>4, <4>1
      <3> QED
        BY <3>3, <3>4
    <2> QED
      BY <2>1, <2>2
  <1>20. ASSUME NEW v \in Visit, LoseVisit(v)
        PROVE  WastedForAReason'
    BY <1>20 DEF LoseVisit
  <1>21. ASSUME NEW l \in Link, SendMemberLink(l)
        PROVE  WastedForAReason'
    BY <1>21 DEF SendMemberLink, InsertLink
  <1> QED BY <1>1, <1>2, <1>3, <1>4, <1>5, <1>6, <1>7, <1>8, <1>9, <1>10,
        <1>11, <1>12, <1>13, <1>14, <1>15, <1>16, <1>17, <1>18, <1>19, <1>20,
        <1>21
       DEF SignInNext, Seating, Asking

-----------------------------------------------------------------------------
SessionInv == SignInTypeOK /\ Fresh /\ OneVisit /\ NotYet /\ OneSessionPerLink
WasteInv == SignInTypeOK /\ RowsStand /\ MembersStand /\ VisitsMatch /\ WastedForAReason

\* A table of tables keeps its type when the type of its entries grows.
LEMMA Widen ==
    ASSUME NEW P, NEW J, NEW S, NEW T, S \subseteq T, NEW f \in [P -> [J -> S]]
    PROVE  f \in [P -> [J -> T]]
  OBVIOUS

LEMMA SignInStarts ==
    SignInInit => SessionInv /\ WasteInv /\ RowsInOrder
  <1> SUFFICES ASSUME SignInInit
               PROVE  SessionInv /\ WasteInv /\ RowsInOrder
    OBVIOUS
  <1> USE SignInAssumption DEF SignInInit, Row, Jar, Host
  <1>1. PICK k \in Link, q \in Person :
           /\ link = [l \in Link |-> [state |-> "free", jar |-> "site", who |-> q,
                                      row |-> 0, coded |-> FALSE]]
           /\ visit = [v \in Visit |-> [step |-> "idle", link |-> k, host |-> "apex",
                                        by |-> "link", own |-> TRUE]]
    OBVIOUS
  <1>2. SignInTypeOK
    <2>1. seat \in [Person -> [Jar -> Row]] /\ hired \in [Person -> Row]
      <3>1. {0, 1} \subseteq Row
        OBVIOUS
      <3>2. seat \in [Person -> [Jar -> {0, 1}]]
        OBVIOUS
      <3>3. seat \in [Person -> [Jar -> Row]]
        BY <3>1, <3>2, Widen
      <3>4. \A p \in Person : seat[p]["tenant"] \in Row
        BY <3>3
      <3> QED
        BY <3>3, <3>4
    <2>2. link \in [Link -> LinkRow]
      BY <1>1 DEF LinkRow
    <2>3. visit \in [Visit -> Handler]
      BY <1>1 DEF Handler
    <2>4. cookie \in [Person -> [Jar -> Row]] /\ issued \in [Link -> 0..2]
      OBVIOUS
    <2> QED
      BY <2>1, <2>2, <2>3, <2>4 DEF SignInTypeOK
  <1>3. Fresh /\ OneVisit /\ NotYet /\ OneSessionPerLink
    BY <1>1 DEF Fresh, OneVisit, NotYet, OneSessionPerLink
  <1>4. RowsStand /\ MembersStand /\ VisitsMatch /\ WastedForAReason
    BY <1>1 DEF RowsStand, MembersStand, Promised, VisitsMatch, WastedForAReason
  <1>5. RowsInOrder
    <2>1. \A p \in Person : hired[p] = seat[p]["tenant"] /\ hired[p] \in {0, 1}
      OBVIOUS
    <2>2. \A p \in Person : cookie[p]["tenant"] = 0
      OBVIOUS
    <2>3. \A l \in Link : link[l].jar = "site"
      BY <1>1
    <2>4. \A p \in Person :
             seat[p]["tenant"] <= hired[p] /\ cookie[p]["tenant"] <= hired[p]
      <3> TAKE p \in Person
      <3>1. seat[p]["tenant"] = hired[p] /\ cookie[p]["tenant"] = 0
        BY <2>1, <2>2
      <3>2. hired[p] = 0 \/ hired[p] = 1
        BY <2>1
      <3> HIDE DEF SignInInit
      <3> QED
        BY <3>1, <3>2
    <2>5. \A l \in Link : link[l].jar = "tenant" => link[l].row <= hired[link[l].who]
      BY <2>3
    <2> QED
      BY <2>4, <2>5 DEF RowsInOrder
  <1> QED
    BY <1>2, <1>3, <1>4, <1>5 DEF SessionInv, WasteInv

\* Every variable of SignIn keeps its type.
THEOREM SignInTyped == SignInSpec => []SignInTypeOK
  <1>1. SignInInit => SignInTypeOK
    BY SignInStarts DEF SessionInv
  <1> QED
    BY <1>1, TypeStep, PTL DEF SignInSpec

\* A link and the code beside it open one session between them.
THEOREM LinkOpensOnce == SignInSpec => []OneSessionPerLink
  <1>1. SignInInit => SessionInv
    BY SignInStarts
  <1>2. SessionInv /\ [SignInNext]_signInVars => SessionInv'
    BY TypeStep, FreshStep, OneVisitStep, NotYetStep, OneSessionStep DEF SessionInv
  <1>3. SessionInv => OneSessionPerLink
    BY DEF SessionInv
  <1> QED
    BY <1>1, <1>2, <1>3, PTL DEF SignInSpec

\* A link is used up without a session only by a lost handler, on another
\* tenant's host, or when its owner has left after the look-up that led to the mail.
THEOREM LinksAreNotWasted == SignInSpec => []WastedForAReason
  <1>1. SignInInit => WasteInv
    BY SignInStarts
  <1>2. WasteInv /\ [SignInNext]_signInVars => WasteInv'
    BY TypeStep, RowsStandStep, MembersStandStep, VisitsMatchStep, WasteStep
       DEF WasteInv
  <1>3. WasteInv => WastedForAReason
    BY DEF WasteInv
  <1> QED
    BY <1>1, <1>2, <1>3, PTL DEF SignInSpec

\* Nobody takes a seat of the site or gives one up.
LEMMA SeatsOfTheSite ==
    ASSUME SignInTypeOK, NEW q \in Person, [SignInNext]_signInVars
    PROVE  seat'[q]["site"] = seat[q]["site"]
  <1> USE SignInAssumption DEF SignInTypeOK, LinkRow, Handler, Row, Jar, Host
  <1>1. CASE UNCHANGED signInVars
    BY <1>1 DEF signInVars
  <1>2. ASSUME NEW p \in Person, Hire(p)
        PROVE  seat'[q]["site"] = seat[q]["site"]
    BY <1>2 DEF Hire
  <1>3. ASSUME NEW p \in Person, Dismiss(p)
        PROVE  seat'[q]["site"] = seat[q]["site"]
    BY <1>3 DEF Dismiss, LinksOf
  <1>4. ASSUME NEW p \in Person, JoinList(p)
        PROVE  seat'[q]["site"] = seat[q]["site"]
    BY <1>4 DEF JoinList
  <1>5. ASSUME NEW p \in Person, LeaveList(p)
        PROVE  seat'[q]["site"] = seat[q]["site"]
    BY <1>5 DEF LeaveList, LinksOf
  <1>6. ASSUME NEW p \in Person, SignOut(p)
        PROVE  seat'[q]["site"] = seat[q]["site"]
    BY <1>6 DEF SignOut
  <1>7. ASSUME NEW p \in Person, ExpireSession(p)
        PROVE  seat'[q]["site"] = seat[q]["site"]
    BY <1>7 DEF ExpireSession
  <1>8. ASSUME NEW p \in Person, NEW l \in Link, SiteRequest(p, l)
        PROVE  seat'[q]["site"] = seat[q]["site"]
    BY <1>8 DEF SiteRequest, Due
  <1>9. ASSUME NEW p \in Person, NEW l \in Link, TenantRequest(p, l)
        PROVE  seat'[q]["site"] = seat[q]["site"]
    BY <1>9 DEF TenantRequest, Due
  <1>10. ASSUME NEW p \in Person, NEW l \in Link, Invite(p, l)
        PROVE  seat'[q]["site"] = seat[q]["site"]
    BY <1>10 DEF Invite, Due
  <1>11. ASSUME NEW p \in Person, NEW l \in Link, FormRequest(p, l)
        PROVE  seat'[q]["site"] = seat[q]["site"]
    BY <1>11 DEF FormRequest, Due
  <1>12. ASSUME NEW l \in Link, SendLink(l)
        PROVE  seat'[q]["site"] = seat[q]["site"]
    BY <1>12 DEF SendLink, InsertLink, SeatOf
  <1>13. ASSUME NEW l \in Link, FindSeat(l)
        PROVE  seat'[q]["site"] = seat[q]["site"]
    BY <1>13 DEF FindSeat, SeatOf
  <1>14. ASSUME NEW l \in Link, LoseLink(l)
        PROVE  seat'[q]["site"] = seat[q]["site"]
    BY <1>14 DEF LoseLink
  <1>15. ASSUME NEW l \in Link, ExpireLink(l)
        PROVE  seat'[q]["site"] = seat[q]["site"]
    BY <1>15 DEF ExpireLink
  <1>16. ASSUME NEW v \in Visit, NEW l \in Link, Follow(v, l)
        PROVE  seat'[q]["site"] = seat[q]["site"]
    BY <1>16 DEF Follow, Usable, Consumes
  <1>17. ASSUME NEW v \in Visit, NEW l \in Link, PickCode(v, l)
        PROVE  seat'[q]["site"] = seat[q]["site"]
    BY <1>17 DEF PickCode, Candidate, Usable, HomeOf, Consumes
  <1>18. ASSUME NEW v \in Visit, ClaimByCode(v)
        PROVE  seat'[q]["site"] = seat[q]["site"]
    BY <1>18 DEF ClaimByCode, Usable
  <1>19. ASSUME NEW v \in Visit, Admit(v)
        PROVE  seat'[q]["site"] = seat[q]["site"]
    BY <1>19 DEF Admit
  <1>20. ASSUME NEW v \in Visit, LoseVisit(v)
        PROVE  seat'[q]["site"] = seat[q]["site"]
    BY <1>20 DEF LoseVisit
  <1>21. ASSUME NEW l \in Link, SendMemberLink(l)
        PROVE  seat'[q]["site"] = seat[q]["site"]
    BY <1>21 DEF SendMemberLink, InsertLink
  <1> QED BY <1>1, <1>2, <1>3, <1>4, <1>5, <1>6, <1>7, <1>8, <1>9, <1>10,
        <1>11, <1>12, <1>13, <1>14, <1>15, <1>16, <1>17, <1>18, <1>19, <1>20,
        <1>21
       DEF SignInNext, Seating, Asking

\* A seat on a team is kept, given up or taken with a new row.
LEMMA SeatsOfATeam ==
    ASSUME SignInTypeOK, NEW q \in Person, [SignInNext]_signInVars
    PROVE  seat'[q]["tenant"] \in {0, seat[q]["tenant"], hired[q] + 1}
  <1> USE SignInAssumption DEF SignInTypeOK, LinkRow, Handler, Row, Jar, Host
  <1>1. CASE UNCHANGED signInVars
    BY <1>1 DEF signInVars
  <1>2. ASSUME NEW p \in Person, Hire(p)
        PROVE  seat'[q]["tenant"] \in {0, seat[q]["tenant"], hired[q] + 1}
    BY <1>2 DEF Hire
  <1>3. ASSUME NEW p \in Person, Dismiss(p)
        PROVE  seat'[q]["tenant"] \in {0, seat[q]["tenant"], hired[q] + 1}
    BY <1>3 DEF Dismiss, LinksOf
  <1>4. ASSUME NEW p \in Person, JoinList(p)
        PROVE  seat'[q]["tenant"] \in {0, seat[q]["tenant"], hired[q] + 1}
    BY <1>4 DEF JoinList
  <1>5. ASSUME NEW p \in Person, LeaveList(p)
        PROVE  seat'[q]["tenant"] \in {0, seat[q]["tenant"], hired[q] + 1}
    BY <1>5 DEF LeaveList, LinksOf
  <1>6. ASSUME NEW p \in Person, SignOut(p)
        PROVE  seat'[q]["tenant"] \in {0, seat[q]["tenant"], hired[q] + 1}
    BY <1>6 DEF SignOut
  <1>7. ASSUME NEW p \in Person, ExpireSession(p)
        PROVE  seat'[q]["tenant"] \in {0, seat[q]["tenant"], hired[q] + 1}
    BY <1>7 DEF ExpireSession
  <1>8. ASSUME NEW p \in Person, NEW l \in Link, SiteRequest(p, l)
        PROVE  seat'[q]["tenant"] \in {0, seat[q]["tenant"], hired[q] + 1}
    BY <1>8 DEF SiteRequest, Due
  <1>9. ASSUME NEW p \in Person, NEW l \in Link, TenantRequest(p, l)
        PROVE  seat'[q]["tenant"] \in {0, seat[q]["tenant"], hired[q] + 1}
    BY <1>9 DEF TenantRequest, Due
  <1>10. ASSUME NEW p \in Person, NEW l \in Link, Invite(p, l)
        PROVE  seat'[q]["tenant"] \in {0, seat[q]["tenant"], hired[q] + 1}
    BY <1>10 DEF Invite, Due
  <1>11. ASSUME NEW p \in Person, NEW l \in Link, FormRequest(p, l)
        PROVE  seat'[q]["tenant"] \in {0, seat[q]["tenant"], hired[q] + 1}
    BY <1>11 DEF FormRequest, Due
  <1>12. ASSUME NEW l \in Link, SendLink(l)
        PROVE  seat'[q]["tenant"] \in {0, seat[q]["tenant"], hired[q] + 1}
    BY <1>12 DEF SendLink, InsertLink, SeatOf
  <1>13. ASSUME NEW l \in Link, FindSeat(l)
        PROVE  seat'[q]["tenant"] \in {0, seat[q]["tenant"], hired[q] + 1}
    BY <1>13 DEF FindSeat, SeatOf
  <1>14. ASSUME NEW l \in Link, LoseLink(l)
        PROVE  seat'[q]["tenant"] \in {0, seat[q]["tenant"], hired[q] + 1}
    BY <1>14 DEF LoseLink
  <1>15. ASSUME NEW l \in Link, ExpireLink(l)
        PROVE  seat'[q]["tenant"] \in {0, seat[q]["tenant"], hired[q] + 1}
    BY <1>15 DEF ExpireLink
  <1>16. ASSUME NEW v \in Visit, NEW l \in Link, Follow(v, l)
        PROVE  seat'[q]["tenant"] \in {0, seat[q]["tenant"], hired[q] + 1}
    BY <1>16 DEF Follow, Usable, Consumes
  <1>17. ASSUME NEW v \in Visit, NEW l \in Link, PickCode(v, l)
        PROVE  seat'[q]["tenant"] \in {0, seat[q]["tenant"], hired[q] + 1}
    BY <1>17 DEF PickCode, Candidate, Usable, HomeOf, Consumes
  <1>18. ASSUME NEW v \in Visit, ClaimByCode(v)
        PROVE  seat'[q]["tenant"] \in {0, seat[q]["tenant"], hired[q] + 1}
    BY <1>18 DEF ClaimByCode, Usable
  <1>19. ASSUME NEW v \in Visit, Admit(v)
        PROVE  seat'[q]["tenant"] \in {0, seat[q]["tenant"], hired[q] + 1}
    BY <1>19 DEF Admit
  <1>20. ASSUME NEW v \in Visit, LoseVisit(v)
        PROVE  seat'[q]["tenant"] \in {0, seat[q]["tenant"], hired[q] + 1}
    BY <1>20 DEF LoseVisit
  <1>21. ASSUME NEW l \in Link, SendMemberLink(l)
        PROVE  seat'[q]["tenant"] \in {0, seat[q]["tenant"], hired[q] + 1}
    BY <1>21 DEF SendMemberLink, InsertLink
  <1> QED BY <1>1, <1>2, <1>3, <1>4, <1>5, <1>6, <1>7, <1>8, <1>9, <1>10,
        <1>11, <1>12, <1>13, <1>14, <1>15, <1>16, <1>17, <1>18, <1>19, <1>20,
        <1>21
       DEF SignInNext, Seating, Asking

\* A row that comes is newer than every session there is, so none of them fits it.
LEMMA ReviveStep ==
    ASSUME SignInTypeOK, RowsInOrder, [SignInNext]_signInVars,
           NEW q \in Person, NEW j \in Jar,
           ~Opens(q, j), Opens(q, j)', cookie'[q][j] = cookie[q][j]
    PROVE  j = "member"
  <1> USE DEF Opens, OpensSite, OpensTeam, OpensArchive, SignInTypeOK, Row, Jar
  <1>1. seat'[q]["site"] = seat[q]["site"]
    BY SeatsOfTheSite DEF SignInTypeOK
  <1>2. seat'[q]["tenant"] \in {0, seat[q]["tenant"], hired[q] + 1}
    BY SeatsOfATeam
  <1>3. CASE j = "site"
    BY <1>1, <1>3
  <1>4. CASE j = "tenant"
    BY <1>2, <1>4 DEF RowsInOrder
  <1> QED
    BY <1>3, <1>4

\* A session that opens nothing any more comes back only for a member: a new row
\* of admins does not revive an old session.
THEOREM SessionsStayOver == SignInSpec => RevivesOnlyForMembers
  <1>1. SignInInit => SignInTypeOK /\ RowsInOrder
    BY SignInStarts DEF SessionInv
  <1>2. SignInTypeOK /\ RowsInOrder /\ [SignInNext]_signInVars
           => SignInTypeOK' /\ RowsInOrder'
    BY TypeStep, RowsInOrderStep
  <1>3. SignInTypeOK /\ RowsInOrder /\ [SignInNext]_signInVars
           => [\A p \in Person, j \in Jar :
                  ~Opens(p, j) /\ Opens(p, j)' /\ cookie'[p][j] = cookie[p][j]
                      => j = "member"]_signInVars
    BY ReviveStep
  <1> QED
    BY <1>1, <1>2, <1>3, PTL DEF SignInSpec, RevivesOnlyForMembers
=============================================================================
