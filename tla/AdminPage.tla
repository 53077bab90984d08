------------------------------ MODULE AdminPage ------------------------------
(***************************************************************************)
(* The pages of the administration (admin/main.ts and admin/views): a      *)
(* change of the hash draws another page, and the page of a group has tabs *)
(* that share one element.                                                 *)
(*                                                                         *)
(* A view is a call of a render function.  It draws itself once and again  *)
(* whenever an answer comes, into the element that it was given, whoever   *)
(* has drawn there since.                                                  *)
(***************************************************************************)
EXTENDS Naturals

CONSTANTS
    MaxViews,   \* views that are opened, one after the other
    Job,        \* handlers that wait for an answer at once
    MaxChanges  \* changes that the server makes

ASSUME PageAssumption == MaxViews \in Nat \ {0} /\ MaxChanges \in Nat

VARIABLES
    count,      \* views opened so far
    view,       \* view[v]: what was opened, on which page, and the list it has
    mounted,    \* mounted[p]: the view that is drawn in the element of page p
    place,      \* the page in the root element
    chosen,     \* the view that was asked for last
    job,        \* job[j]: the handler
    rows,       \* changes the server has made to its lists
    confirmed,        \* history: the last change that a page has confirmed
    overtaken   \* history: something was asked for that a late answer spoils

pageVars == <<count, view, mounted, place, chosen, job, rows, confirmed, overtaken>>

View == 1..MaxViews
Lists == {"home", "team", "members", "pending", "sites"}
Forms == {"settings", "profile"}
Tabs == {"members", "pending", "settings", "stub"}
Pages == {"home", "team", "profile", "group", "sites"}

\* The pages of one instance: those of a tenant, or those of the whole site.
Routes == IF view[1].kind = "sites" THEN {"sites", "profile"} ELSE Pages \ {"sites"}

Opened == [kind : Lists \cup Forms \cup Tabs \cup Pages, page : View, rows : Nat,
           alert : BOOLEAN]
Handling == [does : {"nothing", "find", "load", "change", "create", "reload", "delete"},
             view : View, done : BOOLEAN, rows : Nat]

PageTypeOK ==
    /\ count \in View
    /\ view \in [View -> Opened]
    /\ mounted \in [View -> View]
    /\ place \in View
    /\ chosen \in View
    /\ job \in [Job -> Handling]
    /\ rows \in Nat
    /\ confirmed \in Nat
    /\ overtaken \in BOOLEAN

Unread(kind, p) == [kind |-> kind, page |-> p, rows |-> 0, alert |-> FALSE]
Free(j) == job[j].does = "nothing"
Resting == \A j \in Job : Free(j)
Waits(j, v) == ~Free(j) /\ job[j].view = v

Work(does, v) == [does |-> does, view |-> v, done |-> FALSE, rows |-> 0]
NoWork == Work("nothing", 1)

\* What a view asks for when it is opened.  The list of tenants came with `me`,
\* when the browser loaded the page.
FirstWork(kind, v) ==
    IF kind \in Lists \ {"sites"} THEN Work("load", v)
    ELSE IF kind = "group" THEN Work("find", v) ELSE NoWork

\* boot, at an address without a hash.
PageInit ==
    /\ count = 1
    /\ mounted = [p \in View |-> 1]
    /\ place = 1
    /\ chosen = 1
    /\ \E j \in Job, kind \in {"home", "sites"} :
          /\ view = [v \in View |-> Unread(IF v = 1 THEN kind ELSE "stub", 1)]
          /\ job = [k \in Job |-> IF k = j THEN FirstWork(kind, 1) ELSE NoWork]
    /\ rows = 0
    /\ confirmed = 0
    /\ overtaken = FALSE

\* These two draw into the root element.
DrawsRoot(v) == view[v].kind \in {"profile", "sites"}

\* Mutation: every view does.
MountShell(v) ==
    /\ mounted' = [mounted EXCEPT ![view[v].page] = v]
    /\ place' = view[v].page

\* mount.  The others have the <main> of their own page, or the element below
\* its tabs.
Mount(v) ==
    /\ mounted' = [mounted EXCEPT ![view[v].page] = v]
    /\ place' = IF DrawsRoot(v) THEN view[v].page ELSE place

\* dispatch: a page of its own, with a shell of its own.
OpenPage(j, kind) ==
    /\ count < MaxViews
    /\ count' = count + 1
    /\ view' = [view EXCEPT ![count + 1] = Unread(kind, count + 1)]
    /\ mounted' = [mounted EXCEPT ![count + 1] = count + 1]
    /\ place' = count + 1
    /\ chosen' = count + 1
    /\ job' = [job EXCEPT ![j] = FirstWork(kind, count + 1)]

\* A view left behind that will draw over the next page, or move on from it.
Spoils(k) ==
    ~Free(k) /\ (DrawsRoot(job[k].view) \/ job[k].does \in {"create", "reload", "delete"})

-----------------------------------------------------------------------------
Navigate(j, kind) ==
    /\ Free(j)
    /\ kind \in Routes
    /\ OpenPage(j, kind)
    /\ overtaken' = (overtaken \/ \E k \in Job : Spoils(k))
    /\ UNCHANGED <<rows, confirmed>>

\* setActive, on the page of a group that was found.
SetActive(j, kind) ==
    /\ Free(j)
    /\ kind \in Tabs
    /\ view[mounted[place]].kind \in Tabs
    /\ count < MaxViews
    /\ count' = count + 1
    /\ view' = [view EXCEPT ![count + 1] = Unread(kind, place)]
    /\ mounted' = [mounted EXCEPT ![place] = count + 1]
    /\ chosen' = count + 1
    /\ job' = [job EXCEPT ![j] = FirstWork(kind, count + 1)]
    /\ overtaken' = (overtaken \/ \E k \in Job : ~Free(k) /\ view[job[k].view].page = place)
    /\ UNCHANGED <<place, rows, confirmed>>

\* A form or a button of the view that is on show: one more member or tenant,
\* another role, a decision, the settings, a new group, a group deleted.
Act(j, does) ==
    LET v == mounted[place] IN
    /\ Free(j)
    /\ \/ does = "change" /\ view[v].kind \in (Lists \ {"home"}) \cup Forms
       \/ does = "create" /\ view[v].kind = "home"
       \/ does = "delete" /\ view[v].kind = "settings"
    /\ job' = [job EXCEPT ![j] = Work(does, v)]
    /\ overtaken' = (overtaken \/ \E k \in Job : Waits(k, v))
    /\ UNCHANGED <<count, view, mounted, place, chosen, rows, confirmed>>

-----------------------------------------------------------------------------
\* The server: it answers later than it acts.
ServerReads(j) ==
    /\ job[j].does \in {"find", "load"}
    /\ ~job[j].done
    /\ job' = [job EXCEPT ![j].done = TRUE, ![j].rows = rows]
    /\ UNCHANGED <<count, view, mounted, place, chosen, rows, confirmed, overtaken>>

ServerActs(j) ==
    /\ job[j].does \in {"change", "create", "delete"}
    /\ ~job[j].done
    /\ rows < MaxChanges
    /\ rows' = rows + 1
    /\ job' = [job EXCEPT ![j].done = TRUE, ![j].rows = rows']
    /\ UNCHANGED <<count, view, mounted, place, chosen, confirmed, overtaken>>

\* renderGroup goes on: the tabs, with the members first.
GroupFound(j) ==
    /\ job[j].does = "find" /\ job[j].done
    /\ view' = [view EXCEPT ![job[j].view].kind = "members"]
    /\ Mount(job[j].view)
    /\ job' = [job EXCEPT ![j] = Work("load", job[j].view)]
    /\ UNCHANGED <<count, chosen, rows, confirmed, overtaken>>

LoadAnswered(j) ==
    /\ job[j].does = "load" /\ job[j].done
    /\ view' = [view EXCEPT ![job[j].view].rows = job[j].rows]
    /\ Mount(job[j].view)
    /\ job' = [job EXCEPT ![j] = NoWork]
    /\ UNCHANGED <<count, chosen, rows, confirmed, overtaken>>

\* A view with a list goes on to `await reload()`; a form has what it sent.
ChangeAnswered(j) ==
    LET v == job[j].view IN
    /\ job[j].does = "change" /\ job[j].done
    /\ view' = [view EXCEPT ![v].alert = FALSE]
    /\ IF view[v].kind \in Lists
       THEN /\ job' = [job EXCEPT ![j] = Work("load", v)]
            /\ confirmed' = IF v = mounted[place] THEN job[j].rows ELSE confirmed
            /\ UNCHANGED <<mounted, place>>
       ELSE /\ job' = [job EXCEPT ![j] = NoWork]
            /\ Mount(v)
            /\ UNCHANGED confirmed
    /\ UNCHANGED <<count, chosen, rows, overtaken>>

\* The home page goes on to `await reload()` before it opens the new group.
GroupMade(j) ==
    /\ job[j].does = "create" /\ job[j].done
    /\ view' = [view EXCEPT ![job[j].view].alert = FALSE]
    /\ job' = [job EXCEPT ![j] = Work("reload", job[j].view)]
    /\ confirmed' = IF job[j].view = mounted[place] THEN job[j].rows ELSE confirmed
    /\ UNCHANGED <<count, mounted, place, chosen, rows, overtaken>>

\* It is opened even when the list could not be had, which nobody sees any more;
\* a group that was deleted leads home.
MoveOn(j) ==
    /\ \/ job[j].does = "reload" /\ OpenPage(j, "group") /\ UNCHANGED confirmed
       \/ job[j].does = "delete" /\ job[j].done /\ OpenPage(j, "home")
          /\ confirmed' = job[j].rows
    /\ UNCHANGED <<rows, overtaken>>

\* The banner of a failure, or the note in a part of the page; the server may
\* have acted all the same.
JobFails(j) ==
    LET v == job[j].view IN
    /\ ~Free(j)
    /\ job[j].does # "reload"
    /\ view' = [view EXCEPT ![v].alert = TRUE]
    /\ \/ job[j].does # "delete" /\ Mount(v)
       \/ job[j].does \in {"change", "delete"} /\ UNCHANGED <<mounted, place>>
    /\ job' = [job EXCEPT ![j] = NoWork]
    /\ UNCHANGED <<count, chosen, rows, confirmed, overtaken>>

-----------------------------------------------------------------------------
PageNext ==
    \/ \E j \in Job, kind \in Pages : Navigate(j, kind)
    \/ \E j \in Job, kind \in Tabs : SetActive(j, kind)
    \/ \E j \in Job, does \in {"change", "create", "delete"} : Act(j, does)
    \/ \E j \in Job : \/ ServerReads(j) \/ ServerActs(j) \/ GroupFound(j)
                      \/ LoadAnswered(j) \/ ChangeAnswered(j) \/ GroupMade(j)
                      \/ MoveOn(j) \/ JobFails(j)

PageSpec == PageInit /\ [][PageNext]_pageVars

-----------------------------------------------------------------------------
(* Safety.                                                                 *)

\* What is on show is what was asked for last, and at rest a list without an
\* alert has every change that was confirmed there; unless an answer was due
\* when somebody left a tab for another, a view that draws the whole page or one
\* that will move on, or used a view again.  The list of tenants keeps that only
\* until it is opened a second time.
PageNeedsQuiet ==
    ~overtaken =>
        /\ mounted[place] = chosen
        /\ Resting /\ view[chosen].kind \in Lists /\ ~view[chosen].alert
           /\ (view[chosen].kind = "sites" => chosen = 1)
              => view[chosen].rows >= confirmed
=============================================================================
