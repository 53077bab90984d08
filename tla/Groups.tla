------------------------------- MODULE Groups -------------------------------
(***************************************************************************)
(* The groups of a tenant: how they are created, renamed and deleted by    *)
(* its admins (server/routes/admin/groups.ts).                             *)
(*                                                                         *)
(* The local part of a group's address may change, and the group may go,   *)
(* only while it has neither members nor messages.  That is looked for in  *)
(* one statement and relied upon in another.                               *)
(***************************************************************************)
EXTENDS Naturals

CONSTANTS
    Group,      \* groups there may be
    Name,       \* local parts that are typed; invalid ones are refused
    Change      \* requests of the admin page, which may run at once

VARIABLES
    called,     \* called[g]: groups.name, "none" before and after the row
    dead,       \* groups that have been deleted
    filled,     \* groups with a row of members, of any status, or of messages
    change,     \* change[c]: the request
    filledSince,\* history: requests whose group was filled after their count
    wiped,      \* history: requests that deleted a group with all it had
    moved       \* history: requests that changed the address of a filled group

groupRows == <<called, dead, filled>>
groupVars == <<groupRows, change, filledSince, wiped, moved>>

GroupTypeOK ==
    /\ called \in [Group -> Name \cup {"none"}]
    /\ dead \in SUBSET Group
    /\ filled \in SUBSET Group
    /\ change \in [Change -> [step : {"new", "loaded", "counted", "done", "refused"},
                              op : {"rename", "delete"}, group : Group,
                              from : Name, to : Name]]
    /\ filledSince \in SUBSET Change
    /\ wiped \in SUBSET Change
    /\ moved \in SUBSET Change

GroupInit ==
    /\ called = [g \in Group |-> "none"]
    /\ dead = {}
    /\ filled = {}
    /\ \E g \in Group, n \in Name :
          change = [c \in Change |-> [step |-> "new", op |-> "rename", group |-> g,
                                      from |-> n, to |-> n]]
    /\ filledSince = {}
    /\ wiped = {}
    /\ moved = {}

Live(g) == called[g] # "none"

\* UNIQUE(tenant_id, name) stands in the way of g getting this name.
Taken(g, n) == \E h \in Group \ {g} : called[h] = n

groupHistory == <<filledSince, wiped, moved>>

-----------------------------------------------------------------------------
\* createGroup; a name that is taken is answered by an error.
CreateGroup(g, n) ==
    /\ ~Live(g)
    /\ g \notin dead
    /\ ~Taken(g, n)
    /\ called' = [called EXCEPT ![g] = n]
    /\ UNCHANGED <<dead, filled, change, groupHistory>>

\* A member is added or approved, or a message comes in; the foreign key refuses
\* both when the group is gone.
Fill(g) ==
    /\ Live(g)
    /\ filled' = filled \cup {g}
    /\ filledSince' = filledSince \cup
           {c \in Change : change[c].group = g /\ change[c].step = "counted"}
    /\ UNCHANGED <<called, dead, change, wiped, moved>>

SetStep(c, s) == change' = [change EXCEPT ![c].step = s]

\* countGroupActivity: members of any status, or messages.
HasTraffic(g) == g \in filled

\* updateGroup writes by id alone, and nothing happens when the row is gone.
UpdateName(g, n) ==
    called' = IF Live(g) /\ ~Taken(g, n) THEN [called EXCEPT ![g] = n] ELSE called

\* deleteGroup: ON DELETE CASCADE takes members, messages and join requests.
DropGroup(g) ==
    /\ called' = [called EXCEPT ![g] = "none"]
    /\ dead' = dead \cup {g}
    /\ filled' = filled \ {g}

\* getGroupById, at the start of PATCH and DELETE.
LoadGroup(c) ==
    /\ change[c].step = "new"
    /\ \E g \in Group, op \in {"rename", "delete"}, n \in Name :
          /\ Live(g)
          /\ change' = [change EXCEPT ![c] = [step |-> "loaded", op |-> op, group |-> g,
                                              from |-> called[g], to |-> n]]
    /\ UNCHANGED <<groupRows, groupHistory>>

\* Mutation: only a new name is looked at, a group that is to go is not.
CountForRename(c) ==
    /\ change[c].step = "loaded"
    /\ LET r == change[c] IN
          SetStep(c, IF r.op = "rename" /\ (HasTraffic(r.group) \/ r.from = r.to)
                     THEN "refused" ELSE "counted")
    /\ UNCHANGED <<groupRows, groupHistory>>

\* countGroupActivity: a group that has some, or a name that is the one it had
\* when it was loaded, ends the request; the latter leaves the name out of the
\* patch.
CountActivity(c) ==
    /\ change[c].step = "loaded"
    /\ LET r == change[c] IN
          SetStep(c, IF HasTraffic(r.group) \/ (r.op = "rename" /\ r.from = r.to)
                     THEN "refused" ELSE "counted")
    /\ UNCHANGED <<groupRows, groupHistory>>

Rename(c) ==
    /\ change[c].step = "counted"
    /\ change[c].op = "rename"
    /\ LET g == change[c].group
           n == change[c].to
       IN  /\ UpdateName(g, n)
           /\ SetStep(c, IF Live(g) /\ Taken(g, n) THEN "refused" ELSE "done")
           /\ moved' = IF HasTraffic(g) /\ called'[g] # called[g]
                       THEN moved \cup {c} ELSE moved
    /\ UNCHANGED <<dead, filled, filledSince, wiped>>

Delete(c) ==
    /\ change[c].step = "counted"
    /\ change[c].op = "delete"
    /\ LET g == change[c].group IN
          /\ DropGroup(g)
          /\ SetStep(c, IF Live(g) THEN "done" ELSE "refused")
          /\ wiped' = IF HasTraffic(g) THEN wiped \cup {c} ELSE wiped
    /\ UNCHANGED <<filledSince, moved>>

-----------------------------------------------------------------------------
GroupNext ==
    \/ \E g \in Group : Fill(g) \/ \E n \in Name : CreateGroup(g, n)
    \/ \E c \in Change : LoadGroup(c) \/ CountActivity(c) \/ Rename(c) \/ Delete(c)

GroupSpec == GroupInit /\ [][GroupNext]_groupVars

-----------------------------------------------------------------------------
(* Safety.                                                                 *)

\* A group loses its members and messages, or one that has some its address,
\* only by a request between whose count and write they came.
GroupLossNeedsOverlap == wiped \cup moved \subseteq filledSince
=============================================================================
