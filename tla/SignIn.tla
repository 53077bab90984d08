------------------------------- MODULE SignIn -------------------------------
(***************************************************************************)
(* Signing in: the links and codes that are mailed to site admins, to the  *)
(* admins and moderators of a tenant and to the readers of its archive     *)
(* (server/routes/admin/auth.ts, server/wiki, server/archive), and the     *)
(* sessions they open.                                                     *)
(*                                                                         *)
(* One tenant of several.  A link is a row of site_magic_links,            *)
(* magic_links or member_magic_links; the code beside it is the same row.  *)
(* A visit is a handler that turns a link or a code into a session.  A     *)
(* jar is a kind of session with a cookie of its own.                      *)
(***************************************************************************)
EXTENDS Naturals

CONSTANTS
    Person,     \* people, each with one address and one browser
    Link,       \* requests for a link
    Visit,      \* handlers that verify, which may run at once
    Seats       \* how many rows of admins one person may have, one at a time

ASSUME SignInAssumption == Seats \in Nat \ {0}

VARIABLES
    seat,       \* seat[p][j]: the row that lets p in, 0 if there is none
    hired,      \* hired[p]: how many rows of admins p has had
    link,       \* link[l]: the row
    visit,      \* visit[v]: the handler
    cookie,     \* cookie[p][j]: the row that the session in p's browser names
    issued,     \* history: how many sessions a link has opened
    strayed,    \* history: links followed on the host of another tenant
    orphaned    \* history: member links whose owner has left since the look-up

signInVars == <<seat, hired, link, visit, cookie, issued, strayed, orphaned>>

Jar == {"site", "tenant", "member"}
Host == {"apex", "tenant", "elsewhere"}
Row == 0..Seats

LinkRow ==
    [state : {"free", "due", "valid", "used", "expired", "gone"},
     jar : Jar, who : Person, row : Row, coded : BOOLEAN]

Handler ==
    [step : {"idle", "picked", "claimed", "dead"}, link : Link, host : Host,
     by : {"link", "code"}, own : BOOLEAN]

SignInTypeOK ==
    /\ seat \in [Person -> [Jar -> Row]]
    /\ hired \in [Person -> Row]
    /\ link \in [Link -> LinkRow]
    /\ visit \in [Visit -> Handler]
    /\ cookie \in [Person -> [Jar -> Row]]
    /\ issued \in [Link -> 0..2]
    /\ strayed \in SUBSET Link
    /\ orphaned \in SUBSET Link

\* The rows are there or not; a row of site_admins or members is always the
\* same one, since the first is never deleted and the second goes by address.
SignInInit ==
    /\ seat \in [Person -> [Jar -> {0, 1}]]
    /\ hired = [p \in Person |-> seat[p]["tenant"]]
    /\ \E l \in Link, p \in Person :
          /\ link = [k \in Link |-> [state |-> "free", jar |-> "site", who |-> p,
                                     row |-> 0, coded |-> FALSE]]
          /\ visit = [v \in Visit |-> [step |-> "idle", link |-> l, host |-> "apex",
                                       by |-> "link", own |-> TRUE]]
    /\ cookie = [p \in Person |-> [j \in Jar |-> 0]]
    /\ issued = [l \in Link |-> 0]
    /\ strayed = {}
    /\ orphaned = {}

-----------------------------------------------------------------------------
(* Seats come and go: the team page and the life of a member, modelled in  *)
(* Team and Membership.                                                    *)

Hire(p) ==
    /\ seat[p]["tenant"] = 0
    /\ hired[p] < Seats
    /\ hired' = [hired EXCEPT ![p] = @ + 1]
    /\ seat' = [seat EXCEPT ![p]["tenant"] = hired[p] + 1]
    /\ UNCHANGED <<link, visit, cookie, issued, strayed, orphaned>>

LinksOf(p, j) == {l \in Link : link[l].who = p /\ link[l].jar = j}

\* The links of a row of admins go with it: ON DELETE CASCADE.
Dismiss(p) ==
    /\ seat[p]["tenant"] # 0
    /\ seat' = [seat EXCEPT ![p]["tenant"] = 0]
    /\ link' = [l \in Link |->
           IF l \in LinksOf(p, "tenant") /\ link[l].state \in {"valid", "used", "expired"}
           THEN [link[l] EXCEPT !.state = "gone"] ELSE link[l]]
    /\ UNCHANGED <<hired, visit, cookie, issued, strayed, orphaned>>

JoinList(p) ==
    /\ seat[p]["member"] = 0
    /\ seat' = [seat EXCEPT ![p]["member"] = 1]
    /\ UNCHANGED <<hired, link, visit, cookie, issued, strayed, orphaned>>

\* A member's link for which the seat has been found, mailed or about to be.
Promised(l) ==
    \/ link[l].state \in {"valid", "used"}
    \/ link[l].state = "due" /\ link[l].row # 0

\* Nothing ties a member's link to the row of the member: it stays.
LeaveList(p) ==
    /\ seat[p]["member"] # 0
    /\ seat' = [seat EXCEPT ![p]["member"] = 0]
    /\ orphaned' = orphaned \cup {l \in LinksOf(p, "member") : Promised(l)}
    /\ UNCHANGED <<hired, link, visit, cookie, issued, strayed>>

-----------------------------------------------------------------------------
(* A link is asked for and mailed.                                         *)

\* The handler answers at once and leaves the row and the mail to waitUntil;
\* row is 0 when that part has yet to look the seat up.
Due(p, l, j, row, coded) ==
    /\ link[l].state = "free"
    /\ link' = [link EXCEPT ![l] = [state |-> "due", jar |-> j, who |-> p,
                                    row |-> row, coded |-> coded]]
    /\ UNCHANGED <<seat, hired, visit, cookie, issued, strayed, orphaned>>

\* POST /api/auth/request on the apex.
SiteRequest(p, l) ==
    /\ seat[p]["site"] # 0
    /\ Due(p, l, "site", seat[p]["site"], TRUE)

\* The same on the tenant's host.
TenantRequest(p, l) ==
    /\ seat[p]["tenant"] # 0
    /\ Due(p, l, "tenant", seat[p]["tenant"], TRUE)

\* sendInviteEmail, after an admin has added somebody: no code.
Invite(p, l) ==
    /\ seat[p]["tenant"] # 0
    /\ Due(p, l, "tenant", seat[p]["tenant"], FALSE)

\* The form of the tenant's pages: a link for an admin or moderator if the
\* address is one, else one for a member.
FormRequest(p, l) ==
    Due(p, l, IF seat[p]["tenant"] # 0 THEN "tenant" ELSE "member", 0, TRUE)

\* sendTenantMagicLink of the wiki and sendMemberMagicLink look the seat up once
\* more, and write no row for somebody without one.
SeatOf(l) == seat[link[l].who][link[l].jar]

FindSeat(l) ==
    /\ link[l].state = "due"
    /\ link[l].row = 0
    /\ link' = [link EXCEPT ![l].row = SeatOf(l),
                            ![l].state = IF SeatOf(l) # 0 THEN @ ELSE "gone"]
    /\ UNCHANGED <<seat, hired, visit, cookie, issued, strayed, orphaned>>

\* The INSERT comes before the mail, which may be lost: then nobody follows the
\* link.  It names the row that was found, however long ago.
InsertLink(l, stored) ==
    /\ link[l].state = "due"
    /\ link[l].row # 0
    /\ link' = [link EXCEPT ![l].state = IF stored THEN "valid" ELSE "gone"]
    /\ UNCHANGED <<seat, hired, visit, cookie, issued, strayed, orphaned>>

\* A row of admins or site_admins that is gone fails the foreign key.
SendLink(l) ==
    /\ link[l].jar # "member"
    /\ InsertLink(l, link[l].row = SeatOf(l))

\* A row of member_magic_links holds an address and no key, so it is stored even
\* if the member has left since the look-up.
SendMemberLink(l) ==
    /\ link[l].jar = "member"
    /\ InsertLink(l, TRUE)

\* The isolate goes before its waitUntil.
LoseLink(l) ==
    /\ link[l].state = "due"
    /\ link' = [link EXCEPT ![l].state = "gone"]
    /\ UNCHANGED <<seat, hired, visit, cookie, issued, strayed, orphaned>>

\* Fifteen minutes have passed.
ExpireLink(l) ==
    /\ link[l].state = "valid"
    /\ link' = [link EXCEPT ![l].state = "expired"]
    /\ UNCHANGED <<seat, hired, visit, cookie, issued, strayed, orphaned>>

-----------------------------------------------------------------------------
(* A link or a code becomes a session.                                     *)

\* Mutation: the UPDATE of a member's link does not name the tenant.
ConsumesAnywhere(l, h) == link[l].jar = "site" <=> h = "apex"

\* The table that a host looks in has the row: consumeMemberMagicLink names the
\* tenant, consumeMagicLink does not.
Consumes(l, h) ==
    \/ link[l].jar = "site" /\ h = "apex"
    \/ link[l].jar = "tenant" /\ h # "apex"
    \/ link[l].jar = "member" /\ h = "tenant"

\* What each of the UPDATEs asks for: unused and not expired.
Usable(l) == link[l].state = "valid"

\* GET /auth/verify, by the owner or by a mail filter that opens every link.
Follow(v, l) ==
    /\ visit[v].step = "idle"
    /\ Usable(l)
    /\ \E h \in Host, own \in BOOLEAN :
          /\ Consumes(l, h)
          /\ visit' = [visit EXCEPT ![v] = [step |-> "claimed", link |-> l, host |-> h,
                                            by |-> "link", own |-> own]]
          /\ strayed' = IF h = "elsewhere" THEN strayed \cup {l} ELSE strayed
    /\ link' = [link EXCEPT ![l].state = "used"]
    /\ UNCHANGED <<seat, hired, cookie, issued, orphaned>>

HomeOf(j) == IF j = "site" THEN "apex" ELSE "tenant"

\* The SELECT of consumeMagicLinkByCode, consumeSiteMagicLinkByCode and
\* consumeMemberMagicLinkByCode; the first two join the row of the owner, which
\* is there as long as the link is.
Candidate(l) == Usable(l) /\ link[l].coded

PickCode(v, l) ==
    /\ visit[v].step = "idle"
    /\ Candidate(l)
    /\ visit' = [visit EXCEPT ![v] = [step |-> "picked", link |-> l,
                                      host |-> HomeOf(link[l].jar),
                                      by |-> "code", own |-> TRUE]]
    /\ UNCHANGED <<seat, hired, link, cookie, issued, strayed, orphaned>>

\* Mutation: the UPDATE after the SELECT has no predicate.
ClaimAnyway(v) ==
    /\ visit[v].step = "picked"
    /\ visit' = [visit EXCEPT ![v].step = "claimed"]
    /\ link' = [link EXCEPT ![visit[v].link].state = IF @ = "gone" THEN @ ELSE "used"]
    /\ UNCHANGED <<seat, hired, cookie, issued, strayed, orphaned>>

\* Their UPDATE by primary key, or somebody else was first.
ClaimByCode(v) ==
    /\ visit[v].step = "picked"
    /\ \/ /\ Usable(visit[v].link)
          /\ visit' = [visit EXCEPT ![v].step = "claimed"]
          /\ link' = [link EXCEPT ![visit[v].link].state = "used"]
       \/ /\ ~Usable(visit[v].link)
          /\ visit' = [visit EXCEPT ![v].step = "idle"]
          /\ UNCHANGED link
    /\ UNCHANGED <<seat, hired, cookie, issued, strayed, orphaned>>

\* What is read after the UPDATE: for a link of the site the row of its admin, ...
AdmitsSite(v, l) == l.row = seat[l.who]["site"]

\* ... for one of a team the row of the admin, who has to be this tenant's, ...
AdmitsTeam(v, l) == visit[v].host # "elsewhere" /\ l.row = seat[l.who]["tenant"]

\* ... and for a member's link the groups of this tenant.  A member's code is taken
\* as it is.
AdmitsMember(v, l) ==
    visit[v].by = "code" \/ (visit[v].host = "tenant" /\ seat[l.who]["member"] # 0)

Admitted(v) ==
    LET l == link[visit[v].link] IN
        \/ l.jar = "site" /\ AdmitsSite(v, l)
        \/ l.jar = "tenant" /\ AdmitsTeam(v, l)
        \/ l.jar = "member" /\ AdmitsMember(v, l)

Admit(v) ==
    /\ visit[v].step = "claimed"
    /\ LET k == visit[v].link
           l == link[k]
       IN  /\ issued' = [issued EXCEPT ![k] = IF Admitted(v) /\ @ < 2 THEN @ + 1 ELSE @]
           /\ cookie' = IF Admitted(v) /\ visit[v].own
                        THEN [cookie EXCEPT ![l.who][l.jar] = l.row] ELSE cookie
    /\ visit' = [visit EXCEPT ![v].step = "idle"]
    /\ UNCHANGED <<seat, hired, link, strayed, orphaned>>

\* The handler or its answer is lost after the UPDATE.
LoseVisit(v) ==
    /\ visit[v].step = "claimed"
    /\ visit' = [visit EXCEPT ![v].step = "dead"]
    /\ UNCHANGED <<seat, hired, link, cookie, issued, strayed, orphaned>>

-----------------------------------------------------------------------------
(* Sessions are signed and kept by the browser only.                       *)

\* The admin pages clear one jar, the wiki's form both of the tenant.
SignOut(p) ==
    /\ \E jars \in {{"site"}, {"tenant"}, {"tenant", "member"}} :
          cookie' = [cookie EXCEPT ![p] = [j \in Jar |-> IF j \in jars THEN 0 ELSE @[j]]]
    /\ UNCHANGED <<seat, hired, link, visit, issued, strayed, orphaned>>

\* Seven days have passed.
ExpireSession(p) ==
    /\ \E j \in Jar : cookie' = [cookie EXCEPT ![p][j] = 0]
    /\ UNCHANGED <<seat, hired, link, visit, issued, strayed, orphaned>>

\* Every request looks the seat up again: a session of the site or of the team
\* by its row, ...
OpensSite(p) == cookie[p]["site"] = seat[p]["site"]
OpensTeam(p) == cookie[p]["tenant"] = seat[p]["tenant"]

\* ... one of a member by address.
OpensArchive(p) == seat[p]["member"] # 0

Opens(p, j) ==
    /\ cookie[p][j] # 0
    /\ \/ j = "site" /\ OpensSite(p)
       \/ j = "tenant" /\ OpensTeam(p)
       \/ j = "member" /\ OpensArchive(p)

-----------------------------------------------------------------------------
Seating(p) == Hire(p) \/ Dismiss(p) \/ JoinList(p) \/ LeaveList(p)

Asking(p, l) ==
    SiteRequest(p, l) \/ TenantRequest(p, l) \/ Invite(p, l) \/ FormRequest(p, l)

SignInNext ==
    \/ \E p \in Person : Seating(p) \/ SignOut(p) \/ ExpireSession(p)
    \/ \E p \in Person, l \in Link : Asking(p, l)
    \/ \E l \in Link : \/ FindSeat(l) \/ SendLink(l) \/ SendMemberLink(l)
                       \/ LoseLink(l) \/ ExpireLink(l)
    \/ \E v \in Visit, l \in Link : Follow(v, l) \/ PickCode(v, l)
    \/ \E v \in Visit : ClaimByCode(v) \/ Admit(v) \/ LoseVisit(v)

SignInSpec == SignInInit /\ [][SignInNext]_signInVars

-----------------------------------------------------------------------------
(* Safety.                                                                 *)

\* A link and the code beside it open one session between them, however many
\* handlers work on the row at once.
OneSessionPerLink == \A l \in Link : issued[l] <= 1

\* A link that is used up without opening a session is explained by a handler
\* that is not done or was lost, by a visit to another tenant with a link for a
\* team, or by a member who left after the look-up that led to the mail.
WastedForAReason ==
    \A l \in Link :
        link[l].state = "used" /\ issued[l] = 0 =>
            \/ \E v \in Visit : visit[v].link = l /\ visit[v].step \in {"claimed", "dead"}
            \/ l \in strayed /\ link[l].jar = "tenant"
            \/ l \in orphaned

\* A session that opens nothing any more comes back only for a member, who
\* returned to the list; a new row of admins does not revive an old session.
RevivesOnlyForMembers ==
    [][\A p \in Person, j \in Jar :
          ~Opens(p, j) /\ Opens(p, j)' /\ cookie'[p][j] = cookie[p][j]
              => j = "member"]_signInVars
=============================================================================
