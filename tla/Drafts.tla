------------------------------- MODULE Drafts -------------------------------
(***************************************************************************)
(* Text and images from the language model (server/lib/ai.ts): the daily   *)
(* budget of a tenant, the thread that is promoted to a wiki page, the     *)
(* page drafted behind a red link and the hero image                       *)
(* (server/archive/routes.ts, server/wiki/routes.ts).                      *)
(*                                                                         *)
(* The texts, and the history of a page, are left to Wiki.                 *)
(***************************************************************************)
EXTENDS Naturals, FiniteSets

CONSTANTS
    Draft,      \* requests for a generation, which may run at once
    Candidates, \* slugs tried for a promoted thread
    Cap,        \* config.ai.dailyGenerationCap
    Days        \* bound: how many days pass

ASSUME DraftAssumption ==
    /\ IsFiniteSet(Draft)
    /\ Candidates \in Nat \ {0}
    /\ Cap \in Nat
    /\ Days \in Nat

VARIABLES
    today,      \* the day of ai_usage
    used,       \* used[d]: ai_usage.count
    draft,      \* draft[k]: the request
    page,       \* page[i]: there is a page with the i-th slug
    calls,      \* history: calls[d]: calls of the model on day d
    overnight,  \* history: those whose unit was taken on an earlier day
    cameAfter,  \* history: drafts whose slug got a page after it was tried
    covers      \* history: drafts that were saved over a page

draftVars == <<today, used, draft, page, calls, overnight, cameAfter, covers>>

Slot == 1..Candidates
Kind == {"promote", "autogen", "hero"}
Step == {"new", "asking", "allowed", "picking", "illustrating", "imaging", "drafted", "done"}

Request == [step : Step, kind : Kind, paid : 0..Days, hero : BOOLEAN,
            slot : 1..(Candidates + 1)]

DraftTypeOK ==
    /\ today \in 0..Days
    /\ used \in [0..Days -> Nat]
    /\ draft \in [Draft -> Request]
    /\ page \in [Slot -> BOOLEAN]
    /\ calls \in [0..Days -> Nat]
    /\ overnight \in [0..Days -> Nat]
    /\ cameAfter \in SUBSET Draft
    /\ covers \in SUBSET Draft

DraftInit ==
    /\ today = 0
    /\ used = [d \in 0..Days |-> 0]
    /\ draft = [k \in Draft |-> [step |-> "new", kind |-> "hero", paid |-> 0,
                                 hero |-> FALSE, slot |-> 1]]
    /\ page \in [Slot -> BOOLEAN]
    /\ calls = [d \in 0..Days |-> 0]
    /\ overnight = [d \in 0..Days |-> 0]
    /\ cameAfter = {}
    /\ covers = {}

-----------------------------------------------------------------------------
Midnight ==
    /\ today < Days
    /\ today' = today + 1
    /\ UNCHANGED <<used, draft, page, calls, overnight, cameAfter, covers>>

\* Drafts that have found that there is no page i.
Trusting(i) ==
    {k \in Draft :
        /\ draft[k].slot = i
        /\ \/ draft[k].kind = "promote" /\ draft[k].step = "drafted"
           \/ draft[k].kind = "autogen" /\ draft[k].step # "done"}

\* savePage, whoever calls it.
PutPage(i) ==
    /\ page' = [page EXCEPT ![i] = TRUE]
    /\ cameAfter' = IF page[i] THEN cameAfter ELSE cameAfter \cup Trusting(i)

\* Somebody writes the page by hand.
WritePage(i) ==
    /\ PutPage(i)
    /\ UNCHANGED <<today, used, draft, calls, overnight, covers>>

\* The request, with the features that it needs; a red link is checked to be
\* one.
BeginDraft(k) ==
    /\ draft[k].step = "new"
    /\ \E kind \in Kind, hero \in BOOLEAN, i \in Slot :
          /\ kind = "autogen" => ~page[i]
          /\ kind # "autogen" => ~hero /\ i = 1
          /\ draft' = [draft EXCEPT ![k] = [@ EXCEPT !.step = "asking", !.kind = kind,
                                                     !.hero = hero, !.slot = i]]
    /\ UNCHANGED <<today, used, page, calls, overnight, cameAfter, covers>>

Units == used[today] + 1

\* consumeAiBudget: an upsert that returns the new count.
Within == Units <= Cap

Pay(k, next) ==
    /\ used' = [used EXCEPT ![today] = Units]
    /\ draft' = [draft EXCEPT ![k].paid = today, ![k].step = next]

\* A page is saved without its image when there is no unit left for that.
Consume(k) ==
    /\ \/ draft[k].step = "asking" /\ Pay(k, IF Within THEN "allowed" ELSE "done")
       \/ draft[k].step = "illustrating" /\ Pay(k, IF Within THEN "imaging" ELSE "drafted")
    /\ UNCHANGED <<today, page, calls, overnight, cameAfter, covers>>

\* Where the request may go on from the answer of generateMarkdown and
\* generateImageBytes: without a text it ends, without an image it does not.
AfterCall(k) ==
    IF draft[k].step = "imaging" THEN {"drafted"}
    ELSE {"done"} \cup
         {next \in {"picking", "illustrating", "drafted"} :
             \/ draft[k].kind = "promote" /\ next = "picking"
             \/ draft[k].kind = "autogen" /\ next = IF draft[k].hero THEN "illustrating"
                                                                     ELSE "drafted"}

CallModel(k) ==
    /\ draft[k].step \in {"allowed", "imaging"}
    /\ calls' = [calls EXCEPT ![today] = @ + 1]
    /\ overnight' = IF draft[k].paid < today
                    THEN [overnight EXCEPT ![today] = @ + 1] ELSE overnight
    /\ \E next \in AfterCall(k) : draft' = [draft EXCEPT ![k].step = next]
    /\ UNCHANGED <<today, used, page, cameAfter, covers>>

TryNext(k) == draft' = [draft EXCEPT ![k].slot = draft[k].slot + 1]
TakeSlot(k) == draft' = [draft EXCEPT ![k].step = "drafted"]

\* Mutation: the last candidate is taken without a look.
PickLast(k) ==
    /\ draft[k].step = "picking"
    /\ LET i == draft[k].slot IN
          IF page[i] /\ i < Candidates THEN TryNext(k) ELSE TakeSlot(k)
    /\ UNCHANGED <<today, used, page, calls, overnight, cameAfter, covers>>

\* pickFreeWikiSlug, one call of the Durable Object at a time; after the last
\* candidate a slug with random letters, the slot past the end.
PickSlug(k) ==
    /\ draft[k].step = "picking"
    /\ LET i == draft[k].slot IN
          IF i \in Slot /\ page[i] THEN TryNext(k) ELSE TakeSlot(k)
    /\ UNCHANGED <<today, used, page, calls, overnight, cameAfter, covers>>

\* The page behind a red link is stored at once; a promoted thread when somebody
\* presses Save in the editor, if ever.
SaveDraft(k) ==
    /\ draft[k].step = "drafted"
    /\ draft' = [draft EXCEPT ![k].step = "done"]
    /\ LET i == draft[k].slot IN
          IF i \in Slot
          THEN /\ PutPage(i)
               /\ covers' = IF page[i] THEN covers \cup {k} ELSE covers
          ELSE UNCHANGED <<page, cameAfter, covers>>
    /\ UNCHANGED <<today, used, calls, overnight>>

-----------------------------------------------------------------------------
DraftNext ==
    \/ Midnight
    \/ \E i \in Slot : WritePage(i)
    \/ \E k \in Draft :
          BeginDraft(k) \/ Consume(k) \/ CallModel(k) \/ PickSlug(k) \/ SaveDraft(k)

DraftSpec == DraftInit /\ [][DraftNext]_draftVars

-----------------------------------------------------------------------------
(* Safety.                                                                 *)

\* The model is called no more often in a day than the cap allows, however many
\* requests overlap; calls paid for the day before come on top.
CallsWithinCap == \A d \in 0..Days : calls[d] <= Cap + overnight[d]

\* A draft is saved over a page only if the page appeared after the draft had
\* looked for it.
CoversNeedOverlap == covers \subseteq cameAfter
=============================================================================
