-------------------------------- MODULE Wiki --------------------------------
(***************************************************************************)
(* One page of a tenant's wiki: the Durable Object that keeps its versions *)
(* (server/wiki/do.ts), the request handlers that save, generate and       *)
(* revert it, the R2 copy that public reads are served from, and what runs *)
(* after the response, the change summary and the search index             *)
(* (server/wiki/routes.ts).                                                *)
(*                                                                         *)
(* A call of the Durable Object is one step; the handlers around it        *)
(* interleave.  What a request carries is named by the request: as a text, *)
(* o is the markdown o wrote, as a meta it is the title and visibility o   *)
(* gave the page.                                                          *)
(*                                                                         *)
(* A definition commented "Mutation" is a faulty form of one that follows  *)
(* it; no action of the specification uses it.                             *)
(***************************************************************************)
EXTENDS Naturals, Sequences

CONSTANTS
    Op,          \* requests of editors
    Workload,    \* what they may ask for: save, generate or revert the page
    Reader,      \* requests for the page itself
    Nobody,      \* no request: what a missing page or object is made of
    MaxFaults    \* bound: handlers or background tasks lost half-way

Kind == {"save", "generate", "revert"}

ASSUME WikiAssumption ==
    /\ Nobody \notin Op
    /\ Workload \subseteq [Op -> Kind]
    /\ MaxFaults \in Nat

VARIABLES
    kind,      \* kind[o]: what o asks for; it never changes
    pc,        \* pc[o]: how far its handler is
    target,    \* target[o]: the version that a revert brings back, else 0
    seen,      \* seen[o]: the meta a revert read with the page
    hist,      \* the versions, oldest first
    page,      \* the row of the page: its current version and its meta
    cache,     \* the page's object in R2
    index,     \* its vector in the search index
    due,       \* background tasks not yet run: <<o, "index" or "summary">>
    rpc,       \* rpc[r]: how far reader r is
    got,       \* got[r]: what r has read so far
    torn,      \* history: readers whose object was replaced while they read it
    raced,     \* history: was the page written during another request's write?
    faults     \* history: faults so far

pageVars == <<hist, page>>
opVars == <<kind, pc, target, seen>>
readerVars == <<rpc, got, torn>>
vars == <<pageVars, opVars, cache, index, due, readerVars, raced, faults>>

View == [text : Op, meta : Op]
NoView == [text |-> Nobody, meta |-> Nobody]

Version == [text : Op, prev : Op \cup {Nobody}, meta : Op, by : Op,
            summary : {<<>>} \cup ((Op \cup {Nobody}) \X Op)]

TypeOK ==
    /\ kind \in Workload
    /\ pc \in [Op -> {"idle", "drafting", "loaded", "saved", "done", "refused", "died"}]
    /\ target \in [Op -> 0 .. Len(hist)]
    /\ seen \in [Op -> Op \cup {Nobody}]
    /\ hist \in Seq(Version)
    /\ page \in [cur : 0 .. Len(hist), meta : Op \cup {Nobody}]
    /\ cache \in View \cup {NoView}
    /\ index \in View \cup {NoView}
    /\ due \in SUBSET (Op \X {"index", "summary"})
    /\ rpc \in [Reader -> {"idle", "hit", "miss", "warming", "shown", "empty"}]
    /\ got \in [Reader -> View \cup {NoView}]
    /\ torn \in SUBSET Reader
    /\ raced \in BOOLEAN
    /\ faults \in 0 .. MaxFaults

Init ==
    /\ kind \in Workload
    /\ pc = [o \in Op |-> "idle"]
    /\ target = [o \in Op |-> 0]
    /\ seen = [o \in Op |-> Nobody]
    /\ hist = <<>>
    /\ page = [cur |-> 0, meta |-> Nobody]
    /\ cache = NoView
    /\ index = NoView
    /\ due = {}
    /\ rpc = [r \in Reader |-> "idle"]
    /\ got = [r \in Reader |-> NoView]
    /\ torn = {}
    /\ raced = FALSE
    /\ faults = 0

-----------------------------------------------------------------------------
(* The Durable Object.                                                     *)

Exists == page.cur # 0

\* getPage: the current version, with the title and visibility of the page.
PageView ==
    IF Exists THEN [text |-> hist[page.cur].text, meta |-> page.meta] ELSE NoView

\* Requests that have read or written the page and have yet to write R2.
Writing(except) ==
    \/ \E o \in Op \ {except} : pc[o] \in {"loaded", "saved"}
    \/ \E r \in Reader : rpc[r] = "warming"

\* savePage and revertToVersion add a version, with its delta against the one
\* that was current, and make it the current one.
AddVersion(o, text, meta) ==
    /\ hist' = Append(hist, [text |-> text, prev |-> PageView.text, meta |-> meta,
                             by |-> o, summary |-> <<>>])
    /\ page' = [cur |-> Len(hist) + 1, meta |-> meta]
    /\ raced' = (raced \/ Writing(o))

-----------------------------------------------------------------------------
(* Requests of editors.                                                    *)

\* POST /api/wiki/:slug, up to the answer of savePage: an upsert.
Save(o) ==
    /\ kind[o] = "save"
    /\ pc[o] = "idle"
    /\ AddVersion(o, o, o)
    /\ pc' = [pc EXCEPT ![o] = "saved"]
    /\ UNCHANGED <<kind, target, seen, cache, index, due, readerVars, faults>>

\* POST /wiki/:slug/generate: only a missing page is drafted.
CheckAbsent(o) ==
    /\ kind[o] = "generate"
    /\ pc[o] = "idle"
    /\ pc' = [pc EXCEPT ![o] = IF Exists THEN "refused" ELSE "drafting"]
    /\ UNCHANGED <<pageVars, kind, target, seen, cache, index, due, readerVars,
                   raced, faults>>

\* The budget is used up, or the model returns nothing usable.
DraftFails(o) ==
    /\ pc[o] = "drafting"
    /\ pc' = [pc EXCEPT ![o] = "refused"]
    /\ UNCHANGED <<pageVars, kind, target, seen, cache, index, due, readerVars,
                   raced, faults>>

\* The draft is saved by the same upsert, whatever has become of the page.
SaveDraft(o) ==
    /\ pc[o] = "drafting"
    /\ AddVersion(o, o, o)
    /\ pc' = [pc EXCEPT ![o] = "saved"]
    /\ UNCHANGED <<kind, target, seen, cache, index, due, readerVars, faults>>

\* POST /api/wiki/:slug/revert/:versionId: getPage and getVersion.  Versions
\* never change, so the two reads are one.
LoadPage(o) ==
    /\ kind[o] = "revert"
    /\ pc[o] = "idle"
    /\ \E n \in 1 .. Len(hist) : target' = [target EXCEPT ![o] = n]
    /\ seen' = [seen EXCEPT ![o] = page.meta]
    /\ pc' = [pc EXCEPT ![o] = "loaded"]
    /\ UNCHANGED <<pageVars, kind, cache, index, due, readerVars, raced, faults>>

\* Mutation: the page is pointed back at the old version, no new one is added.
RevertInPlace(o) ==
    /\ pc[o] = "loaded"
    /\ page' = [page EXCEPT !.cur = target[o]]
    /\ raced' = (raced \/ Writing(o))
    /\ pc' = [pc EXCEPT ![o] = "saved"]
    /\ UNCHANGED <<hist, kind, target, seen, cache, index, due, readerVars, faults>>

\* Mutation: the R2 object is not written again after a revert.
RevertWithoutCache(o) ==
    /\ pc[o] = "loaded"
    /\ AddVersion(o, hist[target[o]].text, page.meta)
    /\ pc' = [pc EXCEPT ![o] = "done"]
    /\ UNCHANGED <<kind, target, seen, cache, index, due, readerVars, faults>>

\* revertToVersion: the old text as a new version; title and visibility stay
\* what they are by now.
Revert(o) ==
    /\ pc[o] = "loaded"
    /\ AddVersion(o, hist[target[o]].text, page.meta)
    /\ pc' = [pc EXCEPT ![o] = "saved"]
    /\ UNCHANGED <<kind, target, seen, cache, index, due, readerVars, faults>>

TextOf(o) == IF kind[o] = "revert" THEN hist[target[o]].text ELSE o

\* Mutation: a revert re-caches without title and visibility.
MetaForgotten(o) == IF kind[o] = "revert" THEN Nobody ELSE o

\* Mutation: a revert re-caches with a title of its own.
MetaOfItself(o) == o

\* A revert re-caches with the title and visibility it read at the start.
MetaOf(o) == IF kind[o] = "revert" THEN seen[o] ELSE o

ViewOf(o) == [text |-> TextOf(o), meta |-> MetaOf(o)]

TasksOf(o) ==
    {<<o, "index">>} \cup (IF kind[o] = "save" THEN {<<o, "summary">>} ELSE {})

TornNow == {r \in Reader : rpc[r] = "hit"}

\* Mutation: R2 is written only when it has no object yet.
PutIfCold(o) ==
    /\ pc[o] = "saved"
    /\ cache' = IF cache = NoView THEN ViewOf(o) ELSE cache
    /\ torn' = torn \cup TornNow
    /\ due' = due \cup TasksOf(o)
    /\ pc' = [pc EXCEPT ![o] = "done"]
    /\ UNCHANGED <<pageVars, kind, target, seen, index, rpc, got, raced, faults>>

\* writeR2Page; the summary and the index are left to waitUntil.
Put(o) ==
    /\ pc[o] = "saved"
    /\ cache' = ViewOf(o)
    /\ torn' = torn \cup TornNow
    /\ due' = due \cup TasksOf(o)
    /\ pc' = [pc EXCEPT ![o] = "done"]
    /\ UNCHANGED <<pageVars, kind, target, seen, index, rpc, got, raced, faults>>

\* R2 fails or the isolate is gone: the editor sees an error, the version stays.
PutFault(o) ==
    /\ faults < MaxFaults
    /\ pc[o] = "saved"
    /\ pc' = [pc EXCEPT ![o] = "died"]
    /\ faults' = faults + 1
    /\ UNCHANGED <<pageVars, kind, target, seen, cache, index, due, readerVars,
                   raced>>

-----------------------------------------------------------------------------
(* After the response.                                                     *)

\* tryIndexWikiPage: an upsert under the page's one id.
Index(o) ==
    /\ <<o, "index">> \in due
    /\ index' = ViewOf(o)
    /\ due' = due \ {<<o, "index">>}
    /\ UNCHANGED <<pageVars, opVars, cache, readerVars, raced, faults>>

\* Mutation: the summary goes to the version that is current by now.
SummarizeCurrent(o) ==
    /\ <<o, "summary">> \in due
    /\ \E n \in DOMAIN hist :
          /\ hist[n].by = o
          /\ hist' = [hist EXCEPT ![page.cur].summary = <<hist[n].prev, o>>]
    /\ due' = due \ {<<o, "summary">>}
    /\ UNCHANGED <<page, opVars, cache, index, readerVars, raced, faults>>

\* summarizeAndStore: the change from the text that savePage returned as the
\* previous one, written to the version that savePage made.
Summarize(o) ==
    /\ <<o, "summary">> \in due
    /\ \E n \in DOMAIN hist :
          /\ hist[n].by = o
          /\ hist' = [hist EXCEPT ![n].summary = <<hist[n].prev, o>>]
    /\ due' = due \ {<<o, "summary">>}
    /\ UNCHANGED <<page, opVars, cache, index, readerVars, raced, faults>>

\* Both log their errors, and nothing runs them again.
TaskFault(o) ==
    /\ faults < MaxFaults
    /\ \E t \in due : t[1] = o /\ due' = due \ {t}
    /\ faults' = faults + 1
    /\ UNCHANGED <<pageVars, opVars, cache, index, readerVars, raced>>

-----------------------------------------------------------------------------
(* Readers: renderWikiPage.                                                *)

\* WIKI_R2.get.
GetObject(r) ==
    /\ rpc[r] = "idle"
    /\ rpc' = [rpc EXCEPT ![r] = IF cache = NoView THEN "miss" ELSE "hit"]
    /\ got' = [got EXCEPT ![r] = cache]
    /\ UNCHANGED <<pageVars, opVars, cache, index, due, torn, raced, faults>>

\* WIKI_R2.head: title and visibility come from a second request.
HeadObject(r) ==
    /\ rpc[r] = "hit"
    /\ rpc' = [rpc EXCEPT ![r] = "shown"]
    /\ got' = [got EXCEPT ![r].meta = cache.meta]
    /\ UNCHANGED <<pageVars, opVars, cache, index, due, torn, raced, faults>>

\* Without an object the page comes from the Durable Object.
ReadPage(r) ==
    /\ rpc[r] = "miss"
    /\ rpc' = [rpc EXCEPT ![r] = IF Exists THEN "warming" ELSE "empty"]
    /\ got' = [got EXCEPT ![r] = PageView]
    /\ UNCHANGED <<pageVars, opVars, cache, index, due, torn, raced, faults>>

\* The reader writes what it read to R2, for the next one.
Warm(r) ==
    /\ rpc[r] = "warming"
    /\ rpc' = [rpc EXCEPT ![r] = "shown"]
    /\ cache' = got[r]
    /\ torn' = torn \cup TornNow
    /\ UNCHANGED <<pageVars, opVars, index, due, got, raced, faults>>

-----------------------------------------------------------------------------
Edit(o) ==
    \/ Save(o)
    \/ CheckAbsent(o)
    \/ DraftFails(o)
    \/ SaveDraft(o)
    \/ LoadPage(o)
    \/ Revert(o)
    \/ Put(o)

Task(o) == Index(o) \/ Summarize(o)

Read(r) == GetObject(r) \/ HeadObject(r) \/ ReadPage(r) \/ Warm(r)

Next ==
    \/ \E o \in Op : Edit(o) \/ Task(o) \/ PutFault(o) \/ TaskFault(o)
    \/ \E r \in Reader : Read(r)

Spec == Init /\ [][Next]_vars

\* A request that was taken up is carried on, and so is what it left to
\* waitUntil.
Fairness ==
    /\ \A o \in Op : WF_vars(pc[o] # "idle" /\ Edit(o)) /\ WF_vars(Task(o))
    /\ \A r \in Reader : WF_vars(rpc[r] # "idle" /\ Read(r))

FairSpec == Spec /\ Fairness

-----------------------------------------------------------------------------
(* Safety.                                                                 *)

\* The activity feed adds up: every version records its change against the one
\* before it, and the last one is the page, so replaying the feed gives the
\* page.  Neither a revert nor a concurrent save breaks the chain.
FeedAddsUp ==
    /\ page.cur = Len(hist)
    /\ \A n \in DOMAIN hist :
          hist[n].prev = IF n = 1 THEN Nobody ELSE hist[n - 1].text

\* A summary describes the change of the version it is shown with, however
\* many saves came between that version and the model's answer.
SummaryFits ==
    \A n \in DOMAIN hist :
        hist[n].summary # <<>> => hist[n].summary = <<hist[n].prev, hist[n].text>>

\* Text, title and visibility as the page had them together at some time.
Past == {[text |-> hist[n].text, meta |-> hist[n].meta] : n \in DOMAIN hist}

\* No text is cached, indexed or shown under a title and visibility it never
\* had, but for a request that raced with a write.
NothingInvented ==
    ~raced =>
        /\ {cache, index} \subseteq Past \cup {NoView}
        /\ \A r \in Reader \ torn : rpc[r] = "shown" => got[r] \in Past

\* When no request is half-way, the object in R2 is the page, unless two
\* requests raced or one of them died.
Settled ==
    /\ \A o \in Op : pc[o] \notin {"loaded", "saved"}
    /\ \A r \in Reader : rpc[r] # "warming"

CacheStaleNeedsRace == Settled /\ ~raced /\ faults = 0 => cache = PageView

\* In the end R2 serves the page for good, and nothing is left to do for it.
Converges == <>[](raced \/ faults > 0 \/ (cache = PageView /\ due = {}))

-----------------------------------------------------------------------------
(* The inductive invariant behind the theorems of WikiProofs.              *)

\* A request is at a step of its own kind, and a revert knows its version.
RequestsGrounded ==
    \A o \in Op :
        /\ pc[o] = "drafting" => kind[o] = "generate"
        /\ pc[o] = "loaded" => kind[o] = "revert"
        /\ kind[o] = "revert" /\ pc[o] \in {"loaded", "saved", "done"}
           => target[o] \in DOMAIN hist /\ seen[o] \in Op

\* Tasks are left by requests that are done, summaries only by saves.
TasksGrounded ==
    \A o \in Op :
        /\ <<o, "index">> \in due => pc[o] = "done"
        /\ <<o, "summary">> \in due => kind[o] = "save"

\* What a page, an object or a reader has is of a real request.
ViewsGrounded ==
    /\ Exists => page.meta \in Op
    /\ \A r \in Reader :
          /\ rpc[r] = "hit" => got[r] \in View /\ cache \in View
          /\ rpc[r] = "warming" => got[r] \in View

\* The version that a save made holds its text.
SavesOwnText ==
    \A n \in DOMAIN hist : kind[hist[n].by] = "save" => hist[n].text = hist[n].by

IInv ==
    /\ TypeOK
    /\ FeedAddsUp
    /\ SummaryFits
    /\ RequestsGrounded
    /\ TasksGrounded
    /\ ViewsGrounded
    /\ SavesOwnText

-----------------------------------------------------------------------------
(* What a comment says, and the code does not do.                          *)

\* "Someone created it while the placeholder was open - never overwrite."
NeverOverwrites ==
    [][\A o \in Op : kind[o] = "generate" /\ page'.cur # page.cur /\ pc'[o] # pc[o]
          => ~Exists]_vars
=============================================================================
