-------------------------------- MODULE Team --------------------------------
(***************************************************************************)
(* Who runs an instance: the admins and moderators of a tenant, the        *)
(* requests of the team page that change them                              *)
(* (server/routes/admin/team.ts), and the sign-ups that make the first     *)
(* admin of the tenant or of the site (server/routes/admin/auth.ts).       *)
(*                                                                         *)
(* One tenant.  A row is a row of the admins table: its id is never used   *)
(* again, and two rows stand for two addresses.  Each handler runs as its  *)
(* sequence of database calls, interleaved with all the others.            *)
(*                                                                         *)
(* A definition commented "Mutation" is a faulty form of one that follows  *)
(* it; no action of the specification uses it.                             *)
(***************************************************************************)
EXTENDS Naturals, FiniteSets

CONSTANTS
    Row,        \* rows of the admins table, used or not yet
    Handler,    \* handlers of the team page that may run at once
    Founder     \* sign-ups

ASSUME TeamAssumption == IsFiniteSet(Row)

VARIABLES
    tenant,     \* does the tenant exist?
    role,       \* role[x]: "unused", "admin", "moderator" or "removed"
    site,       \* the sign-ups that have a site_admins row
    step,       \* step[h]: how far handler h is with its request
    whom,       \* whom[h]: the row the request is about
    want,       \* want[h]: what the row is to become
    crossed,    \* history: handlers that loaded before another one's write
    overtaken,  \* history: did such a handler write?
    signup,     \* signup[f]: how far sign-up f is
    host,       \* host[f]: "site" or "tenant"
    late        \* history: sign-ups that counted before another one's INSERT

handlerVars == <<step, whom, want, crossed, overtaken>>
founderVars == <<tenant, site, signup, host, late>>
vars == <<role, handlerVars, founderVars>>

Position == {"admin", "moderator"}

TypeOK ==
    /\ tenant \in BOOLEAN
    /\ role \in [Row -> Position \cup {"unused", "removed"}]
    /\ site \in SUBSET Founder
    /\ step \in [Handler -> {"idle", "adding", "loading", "counting", "clear"}]
    /\ whom \in [Handler -> Row]
    /\ want \in [Handler -> Position \cup {"removed"}]
    /\ crossed \in SUBSET Handler
    /\ overtaken \in BOOLEAN
    /\ signup \in [Founder -> {"idle", "founding", "counting", "clear", "joined",
                               "refused"}]
    /\ host \in [Founder -> {"site", "tenant"}]
    /\ late \in SUBSET Founder

Team == {x \in Row : role[x] \in Position}
Admins == {x \in Row : role[x] = "admin"}

\* A tenant is created together with its first admin; host, whom and want are
\* what somebody is going to ask for.
Init ==
    /\ tenant \in BOOLEAN
    /\ role \in [Row -> Position \cup {"unused"}]
    /\ IF tenant THEN Admins # {} ELSE Team = {}
    /\ site = {}
    /\ step = [h \in Handler |-> "idle"]
    /\ whom \in [Handler -> Row]
    /\ want \in [Handler -> Position \cup {"removed"}]
    /\ crossed = {}
    /\ overtaken = FALSE
    /\ signup = [f \in Founder |-> "idle"]
    /\ host \in [Founder -> {"site", "tenant"}]
    /\ late = {}

-----------------------------------------------------------------------------
(* The team page.                                                          *)

\* The middleware reads the row of the session, which has to be an admin's;
\* whose it is does not matter afterwards.  A new row is asked for by POST.
Authorize(h) ==
    /\ step[h] = "idle"
    /\ Admins # {}
    /\ \E x \in Row, p \in Position \cup {"removed"} :
          /\ whom' = [whom EXCEPT ![h] = x]
          /\ want' = [want EXCEPT ![h] = p]
          /\ step' = [step EXCEPT ![h] =
                 IF role[x] = "unused" /\ p # "removed" THEN "adding" ELSE "loading"]
    /\ UNCHANGED <<role, crossed, overtaken, founderVars>>

\* Sign-ups for a host that have counted and not inserted yet.
Joining(where) == {f \in Founder : signup[f] = "clear" /\ host[f] = where}

\* POST: insertTenantAdmin, unless the address is taken.
Add(h) ==
    /\ step[h] = "adding"
    /\ \/ /\ role[whom[h]] = "unused"
          /\ role' = [role EXCEPT ![whom[h]] = want[h]]
          /\ late' = late \cup Joining("tenant")
       \/ UNCHANGED <<role, late>>
    /\ step' = [step EXCEPT ![h] = "idle"]
    /\ UNCHANGED <<whom, want, crossed, overtaken, tenant, site, signup, host>>

\* Mutation: a removal is not counted, only a demotion.
LoadForDemotion(h) ==
    /\ step[h] = "loading"
    /\ step' = [step EXCEPT ![h] =
           IF whom[h] \notin Team THEN "idle"
           ELSE IF whom[h] \in Admins /\ want[h] = "moderator" THEN "counting"
           ELSE "clear"]
    /\ UNCHANGED <<role, whom, want, crossed, overtaken, founderVars>>

\* PATCH and DELETE: getAdminById.  Only an admin who would stop being one is
\* counted against the others.
Load(h) ==
    /\ step[h] = "loading"
    /\ step' = [step EXCEPT ![h] =
           IF whom[h] \notin Team THEN "idle"
           ELSE IF whom[h] \in Admins /\ want[h] # "admin" THEN "counting"
           ELSE "clear"]
    /\ UNCHANGED <<role, whom, want, crossed, overtaken, founderVars>>

\* listAdminsByTenant: the last admin stays.
Count(h) ==
    /\ step[h] = "counting"
    /\ IF Cardinality(Admins) <= 1
       THEN /\ step' = [step EXCEPT ![h] = "idle"]
            /\ crossed' = crossed \ {h}
       ELSE /\ step' = [step EXCEPT ![h] = "clear"]
            /\ UNCHANGED crossed
    /\ UNCHANGED <<role, whom, want, overtaken, founderVars>>

Deciding == {h \in Handler : step[h] \in {"counting", "clear"}}

\* updateAdminRole or deleteTenantAdmin, by id: nothing happens to a row that
\* is gone.
Write(h) ==
    /\ step[h] = "clear"
    /\ step' = [step EXCEPT ![h] = "idle"]
    /\ role' = [role EXCEPT ![whom[h]] = IF @ \in Position THEN want[h] ELSE @]
    /\ crossed' = (crossed \cup Deciding) \ {h}
    /\ overtaken' = (overtaken \/ h \in crossed)
    /\ UNCHANGED <<whom, want, founderVars>>

-----------------------------------------------------------------------------
(* Sign-up.                                                                *)

\* Mutation: the role that the comments of the schema name beside 'admin'.
SchemaRole == "super_admin"

FirstRole == "admin"

\* currentTenant; without a tenant, single-tenant mode founds it.
LookUpTenant(f) ==
    /\ signup[f] = "idle"
    /\ host[f] = "tenant"
    /\ signup' = [signup EXCEPT ![f] = IF tenant THEN "counting" ELSE "founding"]
    /\ UNCHANGED <<role, handlerVars, tenant, site, host, late>>

\* createTenantWithFirstAdmin, one batch.  The slug is UNIQUE: the second of
\* two throws.
Found(f) ==
    /\ signup[f] = "founding"
    /\ IF tenant
       THEN /\ signup' = [signup EXCEPT ![f] = "refused"]
            /\ UNCHANGED <<role, tenant>>
       ELSE /\ \E x \in Row : role[x] = "unused" /\ role' = [role EXCEPT ![x] = FirstRole]
            /\ tenant' = TRUE
            /\ signup' = [signup EXCEPT ![f] = "joined"]
    /\ UNCHANGED <<handlerVars, site, host, late>>

\* Mutation: moderators are not counted.
OpenWithoutAdmin(f) == IF host[f] = "site" THEN site = {} ELSE Admins = {}

\* countSiteAdmins is 0; countAdminsByTenant is 0, which counts moderators too.
Open(f) == IF host[f] = "site" THEN site = {} ELSE Team = {}

CountFirst(f) ==
    /\ signup[f] = IF host[f] = "site" THEN "idle" ELSE "counting"
    /\ signup' = [signup EXCEPT ![f] = IF Open(f) THEN "clear" ELSE "refused"]
    /\ UNCHANGED <<role, handlerVars, tenant, site, host, late>>

\* createSiteAdmin or insertTenantAdmin, after a request to Gravatar.
Join(f) ==
    /\ signup[f] = "clear"
    /\ \/ /\ host[f] = "site"
          /\ site' = site \cup {f}
          /\ UNCHANGED role
       \/ /\ host[f] = "tenant"
          /\ \E x \in Row : role[x] = "unused" /\ role' = [role EXCEPT ![x] = FirstRole]
          /\ UNCHANGED site
    /\ signup' = [signup EXCEPT ![f] = "joined"]
    /\ late' = late \cup (Joining(host[f]) \ {f})
    /\ UNCHANGED <<handlerVars, tenant, host>>

\* The INSERT fails: the address is taken.
JoinRefused(f) ==
    /\ signup[f] = "clear"
    /\ IF host[f] = "site" THEN site # {} ELSE Team # {}
    /\ signup' = [signup EXCEPT ![f] = "refused"]
    /\ UNCHANGED <<role, handlerVars, tenant, site, host, late>>

-----------------------------------------------------------------------------
TeamPage(h) == Authorize(h) \/ Add(h) \/ Load(h) \/ Count(h) \/ Write(h)

SignUp(f) ==
    LookUpTenant(f) \/ Found(f) \/ CountFirst(f) \/ Join(f) \/ JoinRefused(f)

Next ==
    \/ \E h \in Handler : TeamPage(h)
    \/ \E f \in Founder : SignUp(f)

Spec == Init /\ [][Next]_vars

-----------------------------------------------------------------------------
(* Safety.                                                                 *)

\* A tenant loses its last admin only to handlers that overlap: one loaded its
\* row, another one wrote, and the first wrote after it.
AdminLossNeedsOverlap == tenant /\ Admins = {} => overtaken

Deserted(f) == IF host[f] = "site" THEN site = {} ELSE Team = {}

\* Somebody signs up into a site or team that has somebody already only when
\* another INSERT came between the count and the sign-up's own.
FoundersOverlap ==
    [][\A f \in Founder :
          signup[f] # "joined" /\ signup'[f] = "joined" => Deserted(f) \/ f \in late]_vars

-----------------------------------------------------------------------------
(* The inductive invariant behind the theorems of TeamProofs.              *)

\* Nothing happens to a tenant before it exists, and only a sign-up to a tenant
\* founds one.
TenantFirst ==
    /\ ~tenant => Team = {} /\ \A h \in Handler : step[h] = "idle"
    /\ \A f \in Founder : signup[f] = "founding" => host[f] = "tenant"
    /\ \A f \in Founder :
          signup[f] \in {"counting", "clear"} /\ host[f] = "tenant" => tenant

\* A handler that no write crossed knows what it is about to change: the row
\* is the one it loaded, and there is another admin when it takes one away.
KnowsItsRow ==
    \A h \in Handler :
        /\ step[h] \in {"counting", "clear"} => role[whom[h]] # "unused"
        /\ /\ step[h] = "clear"
           /\ h \notin crossed
           /\ want[h] # "admin"
           /\ whom[h] \in Admins
           => \E x \in Admins : x # whom[h]

\* A sign-up that no INSERT preceded finds what it counted.
FindsNobody ==
    \A f \in Founder : signup[f] = "clear" /\ f \notin late => Deserted(f)

IInv ==
    /\ TypeOK
    /\ TenantFirst
    /\ KnowsItsRow
    /\ FindsNobody
    /\ AdminLossNeedsOverlap

-----------------------------------------------------------------------------
(* What a comment says, and the code does not do.                          *)

\* "There must always be at least one admin who can manage the team."
AlwaysAnAdmin == tenant => Admins # {}
=============================================================================
