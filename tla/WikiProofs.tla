----------------------------- MODULE WikiProofs -----------------------------
(***************************************************************************)
(* Theorems about Wiki, for any number of requests, readers and faults:    *)
(* the feed of versions adds up to the page, a summary describes the       *)
(* version it is shown with, and without a race nobody is shown a text     *)
(* under a title it never had, and R2 has the page when all is done.       *)
(***************************************************************************)
EXTENDS Wiki, SequenceTheorems, TLAPS

\* What is true of the history and the page after every step.
HistoryGrows ==
    /\ hist' \in Seq(Version)
    /\ Len(hist) <= Len(hist')
    /\ \A n \in DOMAIN hist : hist'[n].text = hist[n].text
    /\ page' \in [cur : 0 .. Len(hist'), meta : Op \cup {Nobody}]
    /\ Exists' => page'.meta \in Op

\* The parts of IInv that are about the history alone.
History == FeedAddsUp /\ SummaryFits /\ SavesOwnText

\* No version changes in what a reader sees of it, and the page is the same one.
SameViews ==
    /\ UNCHANGED page
    /\ DOMAIN hist' = DOMAIN hist
    /\ \A n \in DOMAIN hist : hist'[n].text = hist[n].text /\ hist'[n].meta = hist[n].meta

\* A version is added at the end.
LEMMA Appended ==
    ASSUME TypeOK, FeedAddsUp, NEW o \in Op, NEW text \in Op, NEW meta \in Op,
           AddVersion(o, text, meta)
    PROVE  /\ hist' \in Seq(Version)
           /\ Len(hist') = Len(hist) + 1
           /\ DOMAIN hist' = 1 .. Len(hist) + 1
           /\ \A n \in 1 .. Len(hist) : hist'[n] = hist[n]
           /\ hist'[Len(hist) + 1] =
                  [text |-> text, prev |-> PageView.text, meta |-> meta, by |-> o,
                   summary |-> <<>>]
  <1> DEFINE new == [text |-> text, prev |-> PageView.text, meta |-> meta,
                     by |-> o, summary |-> <<>>]
  <1>1. hist \in Seq(Version) /\ Len(hist) \in Nat /\ DOMAIN hist = 1 .. Len(hist)
    BY LenProperties DEF TypeOK
  <1>2. PageView.text = IF Len(hist) = 0 THEN Nobody ELSE hist[Len(hist)].text
    BY <1>1 DEF FeedAddsUp, PageView, Exists, NoView
  <1>3. PageView.text \in Op \cup {Nobody}
    <2>1. Len(hist) # 0 => hist[Len(hist)] \in Version
      BY <1>1, ElementOfSeq
    <2> QED
      BY <1>2, <2>1 DEF Version
  <1>4. new \in Version
    BY <1>3 DEF Version
  <1>5. hist' = Append(hist, new) /\ page' = [cur |-> Len(hist) + 1, meta |-> meta]
    BY DEF AddVersion
  <1> HIDE DEF new
  <1>6. /\ hist' \in Seq(Version)
        /\ Len(hist') = Len(hist) + 1
        /\ \A n \in 1 .. Len(hist) : hist'[n] = hist[n]
        /\ hist'[Len(hist) + 1] = new
    BY <1>1, <1>4, <1>5, AppendProperties
  <1>7. DOMAIN hist' = 1 .. Len(hist) + 1
    BY <1>6, LenProperties
  <1> QED
    BY <1>6, <1>7 DEF new

\* It records the page it replaces.
LEMMA Extended ==
    ASSUME TypeOK, History, NEW o \in Op, NEW text \in Op, NEW meta \in Op,
           AddVersion(o, text, meta), UNCHANGED kind,
           kind[o] = "save" => text = o
    PROVE  HistoryGrows /\ History'
  <1> DEFINE new == [text |-> text, prev |-> PageView.text, meta |-> meta,
                     by |-> o, summary |-> <<>>]
  <1>1. hist \in Seq(Version) /\ Len(hist) \in Nat /\ DOMAIN hist = 1 .. Len(hist)
    BY LenProperties DEF TypeOK
  <1>2. PageView.text = IF Len(hist) = 0 THEN Nobody ELSE hist[Len(hist)].text
    BY <1>1 DEF History, FeedAddsUp, PageView, Exists, NoView
  <1>5. page' = [cur |-> Len(hist) + 1, meta |-> meta]
    BY DEF AddVersion
  <1> HIDE DEF new
  <1>6. /\ hist' \in Seq(Version)
        /\ Len(hist') = Len(hist) + 1
        /\ \A n \in 1 .. Len(hist) : hist'[n] = hist[n]
        /\ hist'[Len(hist) + 1] = new
    BY Appended DEF History, new
  <1>7. DOMAIN hist' = 1 .. Len(hist) + 1
    BY <1>6, LenProperties
  <1>8. HistoryGrows
    BY <1>1, <1>5, <1>6 DEF HistoryGrows, Exists
  <1>9. FeedAddsUp'
    <2>1. page'.cur = Len(hist')
      BY <1>5, <1>6
    <2>2. ASSUME NEW n \in DOMAIN hist'
          PROVE  hist'[n].prev = IF n = 1 THEN Nobody ELSE hist'[n - 1].text
      <3>1. CASE n \in 1 .. Len(hist)
        <4>1. n # 1 => n - 1 \in 1 .. Len(hist)
          BY <1>1, <3>1
        <4> QED
          BY <1>1, <1>6, <3>1, <4>1 DEF History, FeedAddsUp
      <3>2. CASE n = Len(hist) + 1
        <4>1. hist'[n].prev = PageView.text
          BY <1>6, <3>2 DEF new
        <4>2. n # 1 => n - 1 \in 1 .. Len(hist) /\ n - 1 = Len(hist)
          BY <1>1, <3>2
        <4> QED
          BY <1>1, <1>2, <1>6, <3>2, <4>1, <4>2
      <3> QED
        BY <1>1, <1>7, <3>1, <3>2
    <2> QED
      BY <2>1, <2>2 DEF FeedAddsUp
  <1>10. SummaryFits' /\ SavesOwnText'
    <2> SUFFICES ASSUME NEW n \in DOMAIN hist'
                 PROVE  /\ hist'[n].summary # <<>>
                           => hist'[n].summary = <<hist'[n].prev, hist'[n].text>>
                        /\ kind'[hist'[n].by] = "save" => hist'[n].text = hist'[n].by
      BY DEF SummaryFits, SavesOwnText
    <2>1. CASE n \in 1 .. Len(hist)
      BY <1>1, <1>6, <2>1 DEF History, SummaryFits, SavesOwnText
    <2>2. CASE n = Len(hist) + 1
      BY <1>6, <2>2 DEF new
    <2> QED
      BY <1>1, <1>7, <2>1, <2>2
  <1> QED
    BY <1>8, <1>9, <1>10 DEF History

\* A summary goes to the version its request made; nothing else changes.
LEMMA Summarized ==
    ASSUME IInv, NEW o \in Op, Summarize(o)
    PROVE  HistoryGrows /\ History' /\ SameViews
  <1>1. hist \in Seq(Version) /\ Len(hist) \in Nat /\ DOMAIN hist = 1 .. Len(hist)
    BY LenProperties DEF IInv, TypeOK
  <1>2. PICK n \in DOMAIN hist :
            /\ hist[n].by = o
            /\ hist' = [hist EXCEPT ![n].summary = <<hist[n].prev, o>>]
    BY DEF Summarize
  <1> DEFINE new == [hist[n] EXCEPT !.summary = <<hist[n].prev, o>>]
  <1>3. hist' = [hist EXCEPT ![n] = new]
    BY <1>2
  <1>4. hist[n] \in Version
    BY <1>1, ElementOfSeq
  <1>5. /\ new \in Version
        /\ new.text = hist[n].text
        /\ new.meta = hist[n].meta
        /\ new.prev = hist[n].prev
        /\ new.by = hist[n].by
        /\ new.summary = <<hist[n].prev, o>>
    BY <1>4 DEF Version
  <1>6. hist[n].text = o
    <2>1. kind[o] = "save"
      BY DEF IInv, TasksGrounded, Summarize
    <2> QED
      BY <1>2, <2>1 DEF IInv, SavesOwnText
  <1> HIDE DEF new
  <1>7. /\ hist' \in Seq(Version)
        /\ Len(hist') = Len(hist)
        /\ \A m \in 1 .. Len(hist) : hist'[m] = IF m = n THEN new ELSE hist[m]
    BY <1>1, <1>3, <1>5, ExceptSeq
  <1>8. DOMAIN hist' = DOMAIN hist
    BY <1>1, <1>7, LenProperties
  <1>9. \A m \in DOMAIN hist :
            /\ hist'[m].text = hist[m].text
            /\ hist'[m].meta = hist[m].meta
            /\ hist'[m].prev = hist[m].prev
            /\ hist'[m].by = hist[m].by
            /\ hist'[m].summary = IF m = n THEN <<hist[n].prev, hist[n].text>>
                                  ELSE hist[m].summary
    BY <1>1, <1>5, <1>6, <1>7
  <1>10. UNCHANGED <<page, kind>>
    BY DEF Summarize, opVars
  <1>11. HistoryGrows
    BY <1>1, <1>7, <1>9, <1>10 DEF HistoryGrows, IInv, TypeOK, ViewsGrounded, Exists
  <1>12. FeedAddsUp'
    <2>1. ASSUME NEW m \in DOMAIN hist, m # 1
          PROVE  m - 1 \in DOMAIN hist
      BY <1>1, <2>1
    <2> QED
      BY <1>7, <1>8, <1>9, <1>10, <2>1 DEF IInv, FeedAddsUp
  <1>13. SummaryFits' /\ SavesOwnText'
    BY <1>8, <1>9, <1>10 DEF IInv, SummaryFits, SavesOwnText
  <1>14. SameViews
    BY <1>8, <1>9, <1>10 DEF SameViews
  <1> QED
    BY <1>11, <1>12, <1>13, <1>14 DEF History

\* The text of a version is a request's.
LEMMA TextTyped ==
    ASSUME TypeOK, NEW n \in DOMAIN hist
    PROVE  hist[n].text \in Op /\ hist[n].prev \in Op \cup {Nobody}
  <1>1. hist[n] \in Version
    BY LenProperties, ElementOfSeq DEF TypeOK
  <1> QED
    BY <1>1 DEF Version

\* Only a call of the Durable Object or a summary touches the history.
LEMMA HistoryStep ==
    IInv /\ [Next]_vars => HistoryGrows /\ History'
  <1> SUFFICES ASSUME IInv, [Next]_vars
               PROVE  HistoryGrows /\ History'
    OBVIOUS
  <1>1. TypeOK /\ History
    BY DEF IInv, History
  <1>2. CASE UNCHANGED <<kind, hist, page>>
    <2>1. Len(hist) \in Nat
      BY LenProperties DEF IInv, TypeOK
    <2>2. HistoryGrows
      BY <1>2, <2>1 DEF HistoryGrows, IInv, TypeOK, ViewsGrounded, Exists
    <2>3. History'
      BY <1>1, <1>2 DEF History, FeedAddsUp, SummaryFits, SavesOwnText
    <2> QED
      BY <2>2, <2>3
  <1>3. ASSUME NEW o \in Op, Save(o) \/ SaveDraft(o)
        PROVE  HistoryGrows /\ History'
    BY <1>1, <1>3, Extended DEF Save, SaveDraft
  <1>4. ASSUME NEW o \in Op, Revert(o)
        PROVE  HistoryGrows /\ History'
    <2>1. target[o] \in DOMAIN hist /\ kind[o] = "revert"
      BY <1>4 DEF IInv, RequestsGrounded, Revert
    <2>2. hist[target[o]].text \in Op
      BY <1>1, <2>1, TextTyped
    <2>3. Exists
      BY <1>1, <2>1, LenProperties DEF History, FeedAddsUp, Exists, TypeOK
    <2>4. page.meta \in Op
      BY <2>3 DEF IInv, ViewsGrounded
    <2> QED
      BY <1>1, <1>4, <2>1, <2>2, <2>4, Extended DEF Revert
  <1>5. ASSUME NEW o \in Op, Summarize(o)
        PROVE  HistoryGrows /\ History'
    BY <1>5, Summarized
  <1> QED
    <2>1. ASSUME UNCHANGED vars
          PROVE  UNCHANGED <<kind, hist, page>>
      BY <2>1 DEF vars, opVars, pageVars
    <2>2. ASSUME NEW o \in Op, \/ CheckAbsent(o) \/ DraftFails(o) \/ LoadPage(o)
                               \/ Put(o) \/ PutFault(o) \/ Index(o) \/ TaskFault(o)
          PROVE  UNCHANGED <<kind, hist, page>>
      BY <2>2 DEF CheckAbsent, DraftFails, LoadPage, Put, PutFault, Index, TaskFault,
                  opVars, pageVars
    <2>3. ASSUME NEW r \in Reader, Read(r)
          PROVE  UNCHANGED <<kind, hist, page>>
      BY <2>3 DEF Read, GetObject, HeadObject, ReadPage, Warm, opVars, pageVars
    <2> QED
      BY <1>2, <1>3, <1>4, <1>5, <2>1, <2>2, <2>3 DEF Next, Edit, Task

\* The rest of the type invariant; HistoryGrows has the types of hist and page.
RestOK ==
    /\ kind \in Workload
    /\ pc \in [Op -> {"idle", "drafting", "loaded", "saved", "done", "refused", "died"}]
    /\ target \in [Op -> 0 .. Len(hist)]
    /\ seen \in [Op -> Op \cup {Nobody}]
    /\ cache \in View \cup {NoView}
    /\ index \in View \cup {NoView}
    /\ due \in SUBSET (Op \X {"index", "summary"})
    /\ rpc \in [Reader -> {"idle", "hit", "miss", "warming", "shown", "empty"}]
    /\ got \in [Reader -> View \cup {NoView}]
    /\ torn \in SUBSET Reader
    /\ raced \in BOOLEAN
    /\ faults \in 0 .. MaxFaults

\* What a request puts in R2 or the index is of a real request.
LEMMA ViewTyped ==
    ASSUME IInv, NEW o \in Op, pc[o] \in {"saved", "done"}
    PROVE  ViewOf(o) \in View
  <1>1. CASE kind[o] = "revert"
    <2>1. target[o] \in DOMAIN hist /\ seen[o] \in Op
      BY <1>1 DEF IInv, RequestsGrounded
    <2>2. hist[target[o]].text \in Op
      BY <2>1, TextTyped DEF IInv
    <2> QED
      BY <1>1, <2>1, <2>2 DEF ViewOf, TextOf, MetaOf, View
  <1>2. CASE kind[o] # "revert"
    BY <1>2 DEF ViewOf, TextOf, MetaOf, View
  <1> QED
    BY <1>1, <1>2

\* The page as the Durable Object returns it.
LEMMA PageTyped ==
    ASSUME IInv
    PROVE  PageView \in View \cup {NoView} /\ (Exists => PageView \in View)
  <1>1. CASE Exists
    <2>1. page.cur \in DOMAIN hist
      BY <1>1, LenProperties DEF IInv, TypeOK, FeedAddsUp, Exists
    <2>2. hist[page.cur].text \in Op
      BY <2>1, TextTyped DEF IInv
    <2> QED
      BY <1>1, <2>2 DEF PageView, View, IInv, ViewsGrounded
  <1>2. CASE ~Exists
    BY <1>2 DEF PageView
  <1> QED
    BY <1>1, <1>2

\* A missing object is not a view of anything.
LEMMA NoViewIsNone == NoView \notin View
  BY WikiAssumption DEF NoView, View

\* Types, action by action.
LEMMA TypeStep ==
    IInv /\ [Next]_vars => TypeOK'
  <1> SUFFICES ASSUME IInv, [Next]_vars
               PROVE  TypeOK'
    OBVIOUS
  <1>1. HistoryGrows
    BY HistoryStep
  <1>2. RestOK /\ Len(hist) \in Nat /\ Len(hist') \in Nat
    BY <1>1, LenProperties DEF IInv, TypeOK, RestOK, HistoryGrows
  <1>3. DOMAIN hist = 1 .. Len(hist)
    BY LenProperties DEF IInv, TypeOK
  <1>4. \A t : t \in [Op -> 0 .. Len(hist)] => t \in [Op -> 0 .. Len(hist')]
    BY <1>1, <1>2 DEF HistoryGrows
  <1> USE WikiAssumption DEF RestOK, opVars, pageVars, readerVars
  <1>5. ASSUME UNCHANGED vars
        PROVE  RestOK'
    <2>1. UNCHANGED <<kind, pc, target, seen, hist, cache, index, due, rpc, got, torn,
                      raced, faults>>
      BY <1>5 DEF vars
    <2> QED
      BY <1>2, <2>1
  <1>6. ASSUME NEW o \in Op, Save(o) \/ SaveDraft(o) \/ Revert(o)
        PROVE  RestOK'
    <2>1. raced' \in BOOLEAN
      BY <1>6, <1>2 DEF Save, SaveDraft, Revert, AddVersion, Writing
    <2> QED
      BY <1>2, <1>4, <1>6, <2>1 DEF Save, SaveDraft, Revert
  <1>7. ASSUME NEW o \in Op, CheckAbsent(o) \/ DraftFails(o)
        PROVE  RestOK'
    BY <1>2, <1>7 DEF CheckAbsent, DraftFails
  <1>8. ASSUME NEW o \in Op, LoadPage(o)
        PROVE  RestOK'
    BY <1>2, <1>8 DEF LoadPage, IInv, TypeOK
  <1>9. ASSUME NEW o \in Op, Put(o)
        PROVE  RestOK'
    <2>1. ViewOf(o) \in View
      BY <1>9, ViewTyped DEF Put
    <2> QED
      BY <1>2, <1>9, <2>1 DEF Put, TornNow, TasksOf
  <1>10. ASSUME NEW o \in Op, Index(o)
         PROVE  RestOK'
    <2>1. ViewOf(o) \in View
      BY <1>10, ViewTyped DEF Index, IInv, TasksGrounded
    <2> QED
      BY <1>2, <1>10, <2>1 DEF Index
  <1>11. ASSUME NEW o \in Op, Summarize(o)
         PROVE  RestOK'
    BY <1>2, <1>4, <1>11 DEF Summarize
  <1>12. ASSUME NEW o \in Op, PutFault(o) \/ TaskFault(o)
         PROVE  RestOK'
    BY <1>2, <1>12 DEF PutFault, TaskFault
  <1>13. ASSUME NEW r \in Reader, GetObject(r) \/ ReadPage(r)
         PROVE  RestOK'
    <2>1. PageView \in View \cup {NoView}
      BY PageTyped
    <2>2. CASE GetObject(r)
      BY <1>2, <2>2 DEF GetObject
    <2>3. CASE ReadPage(r)
      BY <1>2, <2>1, <2>3 DEF ReadPage
    <2> QED
      BY <1>13, <2>2, <2>3
  <1>14. ASSUME NEW r \in Reader, HeadObject(r)
         PROVE  RestOK'
    <2>1. got[r] \in View /\ cache \in View
      BY <1>14 DEF HeadObject, IInv, ViewsGrounded
    <2>2. [got[r] EXCEPT !.meta = cache.meta] \in View
      BY <2>1 DEF View
    <2> QED
      BY <1>2, <1>14, <2>2 DEF HeadObject
  <1>15. ASSUME NEW r \in Reader, Warm(r)
         PROVE  RestOK'
    BY <1>2, <1>15 DEF Warm, TornNow
  <1> HIDE DEF RestOK
  <1>16. RestOK'
    BY <1>5, <1>6, <1>7, <1>8, <1>9, <1>10, <1>11, <1>12, <1>13, <1>14, <1>15
       DEF Next, Edit, Task, Read
  <1> QED
    BY <1>1, <1>16 DEF RestOK, TypeOK, HistoryGrows

\* Requests pass through the steps of their kind; versions are never lost.
LEMMA RequestsStep ==
    IInv /\ [Next]_vars => RequestsGrounded'
  <1> SUFFICES ASSUME IInv, [Next]_vars
               PROVE  RequestsGrounded'
    OBVIOUS
  <1>1. \A n \in DOMAIN hist : n \in DOMAIN hist'
    BY HistoryStep, LenProperties DEF HistoryGrows, IInv, TypeOK
  <1>2. TypeOK /\ RequestsGrounded
    BY DEF IInv
  <1> USE DEF RequestsGrounded, opVars, pageVars
  <1>3. CASE UNCHANGED vars
    BY <1>2, <1>3 DEF vars
  <1>4. ASSUME NEW o \in Op, Save(o) \/ SaveDraft(o) \/ Revert(o) \/ Put(o)
        PROVE  RequestsGrounded'
    <2>1. UNCHANGED <<kind, target, seen>> /\ pc' \in {[pc EXCEPT ![o] = "saved"],
                                                       [pc EXCEPT ![o] = "done"]}
      BY <1>4 DEF Save, SaveDraft, Revert, Put
    <2>2. kind[o] = "revert" => pc[o] \in {"loaded", "saved"}
      BY <1>2, <1>4 DEF Save, SaveDraft, Revert, Put
    <2> QED
      BY <1>1, <1>2, <2>1, <2>2 DEF TypeOK
  <1>5. ASSUME NEW o \in Op, CheckAbsent(o) \/ DraftFails(o) \/ PutFault(o)
        PROVE  RequestsGrounded'
    BY <1>2, <1>5 DEF TypeOK, CheckAbsent, DraftFails, PutFault
  <1>6. ASSUME NEW o \in Op, LoadPage(o)
        PROVE  RequestsGrounded'
    <2>1. DOMAIN hist = 1 .. Len(hist) /\ Len(hist) \in Nat
      BY <1>2, LenProperties DEF TypeOK
    <2>2. PICK n \in DOMAIN hist : target' = [target EXCEPT ![o] = n]
      BY <1>6, <2>1 DEF LoadPage
    <2>3. page.meta \in Op
      BY <2>1, <2>2 DEF IInv, FeedAddsUp, ViewsGrounded, Exists
    <2> QED
      BY <1>2, <1>6, <2>2, <2>3 DEF TypeOK, LoadPage
  <1>7. ASSUME NEW o \in Op, Index(o) \/ Summarize(o) \/ TaskFault(o)
        PROVE  RequestsGrounded'
    BY <1>1, <1>2, <1>7 DEF Index, Summarize, TaskFault
  <1>8. ASSUME NEW r \in Reader, Read(r)
        PROVE  RequestsGrounded'
    BY <1>2, <1>8 DEF Read, GetObject, HeadObject, ReadPage, Warm
  <1> HIDE DEF RequestsGrounded
  <1> QED
    BY <1>3, <1>4, <1>5, <1>6, <1>7, <1>8 DEF Next, Edit, Task

\* Tasks come from Put alone, and a request that is done stays done.
LEMMA TasksStep ==
    IInv /\ [Next]_vars => TasksGrounded'
  <1> SUFFICES ASSUME IInv, [Next]_vars
               PROVE  TasksGrounded'
    OBVIOUS
  <1>1. TypeOK /\ TasksGrounded
    BY DEF IInv
  <1> USE DEF TasksGrounded, opVars, pageVars
  <1>2. CASE UNCHANGED vars
    BY <1>1, <1>2 DEF vars
  <1>3. ASSUME NEW o \in Op, Edit(o) \/ PutFault(o), ~Put(o)
        PROVE  TasksGrounded'
    <2>1. UNCHANGED <<due, kind>>
      BY <1>3 DEF Edit, Save, CheckAbsent, DraftFails, SaveDraft, LoadPage, Revert,
                  PutFault
    <2>2. pc[o] # "done" /\ \E s : pc' = [pc EXCEPT ![o] = s]
      BY <1>3 DEF Edit, Save, CheckAbsent, DraftFails, SaveDraft, LoadPage, Revert,
                  PutFault
    <2> QED
      BY <1>1, <2>1, <2>2 DEF TypeOK
  <1>4. ASSUME NEW o \in Op, Put(o)
        PROVE  TasksGrounded'
    BY <1>1, <1>4 DEF TypeOK, Put, TasksOf
  <1>5. ASSUME NEW o \in Op, Index(o) \/ Summarize(o) \/ TaskFault(o)
        PROVE  TasksGrounded'
    BY <1>1, <1>5 DEF Index, Summarize, TaskFault
  <1>6. ASSUME NEW r \in Reader, Read(r)
        PROVE  TasksGrounded'
    BY <1>1, <1>6 DEF Read, GetObject, HeadObject, ReadPage, Warm
  <1> HIDE DEF TasksGrounded
  <1> QED
    BY <1>2, <1>3, <1>4, <1>5, <1>6 DEF Next, Task, Edit

\* R2 is never emptied, and a reader warms it with a page it has found.
LEMMA ViewsStep ==
    IInv /\ [Next]_vars => ViewsGrounded'
  <1> SUFFICES ASSUME IInv, [Next]_vars
               PROVE  ViewsGrounded'
    OBVIOUS
  <1> DEFINE Holds ==
               \A r \in Reader :
                  /\ rpc[r] = "hit" => got[r] \in View /\ cache \in View
                  /\ rpc[r] = "warming" => got[r] \in View
  <1>1. TypeOK /\ Holds
    BY DEF IInv, ViewsGrounded
  <1>2. Exists' => page'.meta \in Op
    BY HistoryStep DEF HistoryGrows
  <1>3. ASSUME UNCHANGED <<cache, rpc, got>>
        PROVE  Holds'
    BY <1>1, <1>3
  <1>4. ASSUME NEW o \in Op, Put(o)
        PROVE  Holds'
    <2>1. cache' \in View
      BY <1>4, ViewTyped DEF Put
    <2> QED
      BY <1>1, <1>4, <2>1 DEF Put
  <1>5. ASSUME NEW r \in Reader, GetObject(r)
        PROVE  Holds'
    BY <1>1, <1>5, NoViewIsNone DEF GetObject, TypeOK
  <1>6. ASSUME NEW r \in Reader, HeadObject(r)
        PROVE  Holds'
    BY <1>1, <1>6 DEF HeadObject, TypeOK
  <1>7. ASSUME NEW r \in Reader, ReadPage(r)
        PROVE  Holds'
    BY <1>1, <1>7, PageTyped DEF ReadPage, TypeOK
  <1>8. ASSUME NEW r \in Reader, Warm(r)
        PROVE  Holds'
    BY <1>1, <1>8 DEF Warm, TypeOK
  <1>9. Holds'
    <2>1. ASSUME UNCHANGED vars
          PROVE  UNCHANGED <<cache, rpc, got>>
      BY <2>1 DEF vars, readerVars
    <2>2. ASSUME NEW o \in Op, Edit(o) \/ Task(o) \/ PutFault(o) \/ TaskFault(o), ~Put(o)
          PROVE  UNCHANGED <<cache, rpc, got>>
      BY <2>2 DEF Edit, Task, Save, CheckAbsent, DraftFails, SaveDraft, LoadPage, Revert,
                  PutFault, Index, Summarize, TaskFault, readerVars
    <2> HIDE DEF Holds
    <2> QED
      BY <1>3, <1>4, <1>5, <1>6, <1>7, <1>8, <2>1, <2>2 DEF Next, Read
  <1> QED
    BY <1>2, <1>9 DEF ViewsGrounded

LEMMA InitInductive == Init => IInv
  <1> SUFFICES ASSUME Init
               PROVE  IInv
    OBVIOUS
  <1> USE WikiAssumption DEF Init
  <1>1. hist = <<>> /\ hist \in Seq(Version) /\ Len(hist) = 0 /\ DOMAIN hist = {}
    BY EmptySeq, LenProperties
  <1>2. TypeOK
    <2>1. /\ target \in [Op -> 0 .. Len(hist)]
          /\ page \in [cur : 0 .. Len(hist), meta : Op \cup {Nobody}]
      BY <1>1
    <2>2. got \in [Reader -> View \cup {NoView}] /\ cache \in View \cup {NoView}
              /\ index \in View \cup {NoView}
      OBVIOUS
    <2>3. /\ kind \in Workload
          /\ pc \in [Op -> {"idle", "drafting", "loaded", "saved", "done", "refused",
                            "died"}]
          /\ seen \in [Op -> Op \cup {Nobody}]
          /\ due \in SUBSET (Op \X {"index", "summary"})
      OBVIOUS
    <2>4. /\ rpc \in [Reader -> {"idle", "hit", "miss", "warming", "shown", "empty"}]
          /\ torn \in SUBSET Reader
      OBVIOUS
    <2>5. raced = FALSE /\ faults = 0
      OBVIOUS
    <2>6. 0 \in 0 .. MaxFaults
      BY WikiAssumption
    <2> HIDE DEF Init
    <2> QED
      BY <1>1, <2>1, <2>2, <2>3, <2>4, <2>5, <2>6 DEF TypeOK
  <1>3. FeedAddsUp /\ SummaryFits /\ SavesOwnText
    BY <1>1 DEF FeedAddsUp, SummaryFits, SavesOwnText
  <1>4. RequestsGrounded /\ TasksGrounded /\ ViewsGrounded
    BY DEF RequestsGrounded, TasksGrounded, ViewsGrounded, Exists
  <1> QED
    BY <1>2, <1>3, <1>4 DEF IInv

LEMMA Inductive == IInv /\ [Next]_vars => IInv'
  BY TypeStep, HistoryStep, RequestsStep, TasksStep, ViewsStep DEF IInv, History

LEMMA Invariance == Spec => []IInv
  BY InitInductive, Inductive, PTL DEF Spec

\* Every variable keeps its type.
THEOREM WikiTyped == Spec => []TypeOK
  <1>1. IInv => TypeOK
    BY DEF IInv
  <1> QED
    BY <1>1, Invariance, PTL

\* Replaying the feed of versions gives the page.
THEOREM FeedReplays == Spec => []FeedAddsUp
  <1>1. IInv => FeedAddsUp
    BY DEF IInv
  <1> QED
    BY <1>1, Invariance, PTL

\* The summary of a version describes the change of that version.
THEOREM SummariesFit == Spec => []SummaryFits
  <1>1. IInv => SummaryFits
    BY DEF IInv
  <1> QED
    BY <1>1, Invariance, PTL

-----------------------------------------------------------------------------
(* Without races.                                                          *)

\* The title and visibility of the page are those of its current version.
MetaOfCurrent == Exists => page.meta = hist[page.cur].meta

\* What a request or a reader knows of the page, having read or written it, still
\* holds.
Undisturbed ==
    /\ \A o \in Op : /\ pc[o] = "loaded" => seen[o] = page.meta
                     /\ pc[o] = "saved" => ViewOf(o) = PageView
    /\ \A r \in Reader : rpc[r] = "warming" => got[r] = PageView

\* What is written or shown was once the page.
Genuine ==
    /\ \A o \in Op : pc[o] \in {"saved", "done"} => ViewOf(o) \in Past
    /\ {cache, index} \subseteq Past \cup {NoView}
    /\ \A r \in Reader \ torn : /\ rpc[r] = "hit" => got[r] = cache
                                /\ rpc[r] = "shown" => got[r] \in Past

\* R2 is behind the page only while a request has yet to write it.
CacheFollows == faults = 0 => cache = PageView \/ \E o \in Op : pc[o] = "saved"

Calm == Undisturbed /\ Genuine /\ CacheFollows

CalmInv == IInv /\ MetaOfCurrent /\ (~raced => Calm)

\* The page is a version.
LEMMA PageIsPast ==
    ASSUME IInv, MetaOfCurrent
    PROVE  PageView \in Past \cup {NoView} /\ (Exists => PageView \in Past)
  <1>1. CASE Exists
    <2>1. page.cur \in DOMAIN hist
      BY <1>1, LenProperties DEF IInv, TypeOK, FeedAddsUp, Exists
    <2>2. PageView = [text |-> hist[page.cur].text, meta |-> hist[page.cur].meta]
      BY <1>1 DEF PageView, MetaOfCurrent
    <2> QED
      BY <2>1, <2>2 DEF Past
  <1>2. CASE ~Exists
    BY <1>2 DEF PageView
  <1> QED
    BY <1>1, <1>2

\* A new version is the page, and those before it stay.
LEMMA Written ==
    ASSUME IInv, NEW o \in Op, NEW text \in Op, NEW meta \in Op, AddVersion(o, text, meta)
    PROVE  /\ PageView' = [text |-> text, meta |-> meta] /\ PageView' \in Past'
           /\ MetaOfCurrent' /\ page'.meta = meta
           /\ Past \subseteq Past'
           /\ \A n \in DOMAIN hist : n \in DOMAIN hist' /\ hist'[n].text = hist[n].text
  <1> DEFINE new == [text |-> text, prev |-> PageView.text, meta |-> meta, by |-> o,
                     summary |-> <<>>]
             last == Len(hist) + 1
  <1>1. Len(hist) \in Nat /\ DOMAIN hist = 1 .. Len(hist)
    BY LenProperties DEF IInv, TypeOK
  <1>2. /\ DOMAIN hist' = 1 .. last
        /\ \A n \in 1 .. Len(hist) : hist'[n] = hist[n]
        /\ hist'[last] = new
    BY Appended DEF IInv
  <1>3. page' = [cur |-> last, meta |-> meta]
    BY DEF AddVersion
  <1>4. new.text = text /\ new.meta = meta
    OBVIOUS
  <1>5. last \in DOMAIN hist' /\ last # 0
    BY <1>1, <1>2
  <1>6. \A n \in DOMAIN hist : n \in DOMAIN hist' /\ hist'[n] = hist[n]
    BY <1>1, <1>2
  <1> HIDE DEF new, last
  <1>7. PageView' = [text |-> text, meta |-> meta]
    BY <1>2, <1>3, <1>4, <1>5 DEF PageView, Exists
  <1>8. PageView' \in Past'
    BY <1>2, <1>4, <1>5, <1>7 DEF Past
  <1>9. MetaOfCurrent' /\ page'.meta = meta
    BY <1>2, <1>3, <1>4 DEF MetaOfCurrent
  <1>10. Past \subseteq Past'
    BY <1>6 DEF Past
  <1> QED
    BY <1>6, <1>7, <1>8, <1>9, <1>10

\* Nothing is written.
LEMMA Unwritten ==
    ASSUME IInv, SameViews
    PROVE  /\ PageView' = PageView /\ Past' = Past
           /\ MetaOfCurrent => MetaOfCurrent'
  <1>1. Exists => page.cur \in DOMAIN hist
    BY LenProperties DEF IInv, TypeOK, FeedAddsUp, Exists
  <1>2. Exists' <=> Exists
    BY DEF SameViews, Exists
  <1>3. PageView' = PageView
    BY <1>1, <1>2 DEF SameViews, PageView
  <1>4. Past' = Past
    BY DEF SameViews, Past
  <1>5. MetaOfCurrent => MetaOfCurrent'
    BY <1>1, <1>2 DEF SameViews, MetaOfCurrent
  <1> QED
    BY <1>3, <1>4, <1>5

\* What a request has written under stays what it was.
LEMMA ViewStays ==
    ASSUME IInv, NEW o \in Op, pc[o] \in {"loaded", "saved", "done"},
           UNCHANGED kind, target'[o] = target[o], seen'[o] = seen[o],
           \A n \in DOMAIN hist : hist'[n].text = hist[n].text
    PROVE  ViewOf(o)' = ViewOf(o)
  <1>1. kind[o] = "revert" => target[o] \in DOMAIN hist
    BY DEF IInv, RequestsGrounded
  <1> QED
    BY <1>1 DEF ViewOf, TextOf, MetaOf

\* A request writes a version that nobody was about to write under.
LEMMA WritesCalmly ==
    ASSUME IInv, Genuine, NEW o \in Op, NEW text \in Op, NEW meta \in Op,
           AddVersion(o, text, meta), ~raced', pc' = [pc EXCEPT ![o] = "saved"],
           UNCHANGED <<kind, target, seen, cache, index, readerVars>>,
           ViewOf(o)' = [text |-> text, meta |-> meta]
    PROVE  Calm'
  <1>1. /\ PageView' = [text |-> text, meta |-> meta] /\ PageView' \in Past'
        /\ Past \subseteq Past'
        /\ \A n \in DOMAIN hist : hist'[n].text = hist[n].text
    BY Written
  <1>2. ~Writing(o)
    BY DEF AddVersion
  <1>3. pc'[o] = "saved" /\ \A p \in Op \ {o} : pc'[p] = pc[p]
    BY DEF IInv, TypeOK
  <1>4. \A p \in Op : pc'[p] # "loaded" /\ (pc'[p] = "saved" => p = o)
    BY <1>2, <1>3 DEF Writing
  <1>5. \A r \in Reader : rpc'[r] # "warming"
    BY <1>2 DEF Writing, readerVars
  <1>6. Undisturbed'
    BY <1>1, <1>4, <1>5 DEF Undisturbed
  <1>7. ASSUME NEW p \in Op, pc'[p] \in {"saved", "done"}
        PROVE  ViewOf(p)' \in Past'
    <2>1. CASE p = o
      BY <1>1, <2>1
    <2>2. CASE p # o
      <3>1. pc[p] = "done"
        BY <1>3, <1>4, <1>7, <2>2
      <3>2. ViewOf(p)' = ViewOf(p)
        BY <1>1, <3>1, ViewStays
      <3>3. ViewOf(p) \in Past
        BY <3>1 DEF Genuine
      <3> QED
        BY <1>1, <3>2, <3>3
    <2> QED
      BY <2>1, <2>2
  <1>8. Genuine'
    <2>1. {cache', index'} \subseteq Past' \cup {NoView}
      BY <1>1 DEF Genuine
    <2>2. \A r \in Reader \ torn' : /\ rpc'[r] = "hit" => got'[r] = cache'
                                    /\ rpc'[r] = "shown" => got'[r] \in Past'
      BY <1>1 DEF Genuine, readerVars
    <2> QED
      BY <1>7, <2>1, <2>2 DEF Genuine
  <1>9. CacheFollows'
    BY <1>3 DEF CacheFollows
  <1> QED
    BY <1>6, <1>8, <1>9 DEF Calm

\* The three ways to write a version.
LEMMA Writers ==
    ASSUME CalmInv, NEW o \in Op, Save(o) \/ SaveDraft(o) \/ Revert(o)
    PROVE  MetaOfCurrent' /\ (~raced' => Calm')
  <1>1. IInv
    BY DEF CalmInv
  <1> DEFINE text == IF kind[o] = "revert" THEN hist[target[o]].text ELSE o
             meta == IF kind[o] = "revert" THEN page.meta ELSE o
  <1>2. /\ Save(o) => kind[o] = "save"
        /\ SaveDraft(o) => kind[o] = "generate"
        /\ Revert(o) => kind[o] = "revert" /\ pc[o] = "loaded" /\ target[o] \in DOMAIN hist
    BY <1>1 DEF IInv, RequestsGrounded, Save, SaveDraft, Revert
  <1>3. text \in Op /\ meta \in Op
    <2>1. CASE Revert(o)
      <3>1. hist[target[o]].text \in Op
        BY <1>1, <1>2, <2>1, TextTyped DEF IInv
      <3>2. Exists
        BY <1>1, <1>2, <2>1, LenProperties DEF IInv, FeedAddsUp, Exists, TypeOK
      <3> QED
        BY <1>1, <3>1, <3>2 DEF IInv, ViewsGrounded
    <2>2. CASE ~Revert(o)
      BY <1>2, <2>2
    <2> QED
      BY <2>1, <2>2
  <1>4. /\ AddVersion(o, text, meta)
        /\ pc' = [pc EXCEPT ![o] = "saved"]
        /\ UNCHANGED <<kind, target, seen, cache, index, readerVars>>
    BY <1>2 DEF Save, SaveDraft, Revert
  <1> HIDE DEF text, meta
  <1>5. MetaOfCurrent'
    BY <1>1, <1>3, <1>4, Written
  <1>6. ASSUME ~raced'
        PROVE  Calm'
    <2>1. ~raced /\ Undisturbed /\ Genuine
      BY <1>4, <1>6 DEF AddVersion, CalmInv, Calm
    <2>2. ViewOf(o)' = [text |-> text, meta |-> meta]
      <3>1. CASE Revert(o)
        <4>1. seen[o] = page.meta
          BY <1>2, <2>1, <3>1 DEF Undisturbed
        <4>2. ViewOf(o)' = ViewOf(o)
          <5>1. \A n \in DOMAIN hist : hist'[n].text = hist[n].text
            BY <1>1, <1>3, <1>4, Written
          <5> QED
            BY <1>1, <1>2, <1>4, <3>1, <5>1, ViewStays
        <4> QED
          BY <1>2, <3>1, <4>1, <4>2 DEF ViewOf, TextOf, MetaOf, text, meta
      <3>2. CASE ~Revert(o)
        BY <1>2, <1>4, <3>2 DEF ViewOf, TextOf, MetaOf, text, meta
      <3> QED
        BY <3>1, <3>2
    <2> QED
      BY <1>1, <1>3, <1>4, <1>6, <2>1, <2>2, WritesCalmly
  <1> QED
    BY <1>5, <1>6

\* Steps that leave the versions alone: those of requests ...
LEMMA RequestsCalm ==
    ASSUME IInv, MetaOfCurrent, Calm, SameViews, NEW o \in Op,
           \/ CheckAbsent(o) \/ DraftFails(o) \/ PutFault(o) \/ LoadPage(o) \/ Put(o)
    PROVE  Calm'
  <1>1. PageView' = PageView /\ Past' = Past /\ UNCHANGED page
    BY Unwritten DEF SameViews
  <1>2. \A p \in Op \ {o} : pc'[p] = pc[p] /\ target'[p] = target[p] /\ seen'[p] = seen[p]
    BY DEF CheckAbsent, DraftFails, PutFault, LoadPage, Put, IInv, TypeOK
  <1>3. UNCHANGED kind
    BY DEF CheckAbsent, DraftFails, PutFault, LoadPage, Put
  <1>4. \A p \in Op \ {o} : pc[p] \in {"saved", "done"} => ViewOf(p)' = ViewOf(p)
    BY <1>2, <1>3, ViewStays DEF SameViews
  <1>5. CASE Put(o)
    <2>1. pc[o] = "saved" /\ pc'[o] = "done" /\ cache' = ViewOf(o)
      BY <1>5 DEF Put, IInv, TypeOK
    <2>2. ViewOf(o) = PageView /\ ViewOf(o) \in Past
      BY <2>1 DEF Calm, Undisturbed, Genuine
    <2>3. ViewOf(o)' = ViewOf(o)
      BY <1>5, <2>1, ViewStays DEF Put, SameViews
    <2>4. UNCHANGED <<index, rpc, got, seen>> /\ torn' = torn \cup TornNow
      BY <1>5 DEF Put
    <2>5. Undisturbed'
      BY <1>1, <1>2, <1>4, <2>1, <2>4 DEF Calm, Undisturbed
    <2>6. Genuine'
      BY <1>1, <1>2, <1>4, <2>1, <2>2, <2>3, <2>4 DEF Calm, Genuine, TornNow
    <2>7. CacheFollows'
      BY <1>1, <2>1, <2>2 DEF CacheFollows
    <2> QED
      BY <2>5, <2>6, <2>7 DEF Calm
  <1>6. CASE ~Put(o)
    <2>1. pc'[o] \notin {"saved", "done"} /\ (pc'[o] = "loaded" => seen'[o] = page.meta)
      BY <1>6 DEF CheckAbsent, DraftFails, PutFault, LoadPage, IInv, TypeOK
    <2>2. UNCHANGED <<cache, index, readerVars>>
      BY <1>6 DEF CheckAbsent, DraftFails, PutFault, LoadPage
    <2>3. Undisturbed'
      BY <1>1, <1>2, <1>4, <2>1, <2>2 DEF Calm, Undisturbed, readerVars
    <2>4. Genuine'
      BY <1>1, <1>2, <1>4, <2>1, <2>2 DEF Calm, Genuine, readerVars
    <2>5. pc[o] # "saved" \/ faults' # 0
      BY <1>6 DEF CheckAbsent, DraftFails, PutFault, LoadPage, IInv, TypeOK
    <2>6. faults' = 0 => faults = 0
      BY <1>6 DEF CheckAbsent, DraftFails, PutFault, LoadPage, IInv, TypeOK
    <2>7. CacheFollows'
      BY <1>1, <1>2, <2>2, <2>5, <2>6 DEF Calm, CacheFollows
    <2> QED
      BY <2>3, <2>4, <2>7 DEF Calm
  <1> QED
    BY <1>5, <1>6

\* ... those after a response, ...
LEMMA TasksCalm ==
    ASSUME IInv, MetaOfCurrent, Calm, SameViews, NEW o \in Op,
           Index(o) \/ Summarize(o) \/ TaskFault(o)
    PROVE  Calm'
  <1>1. PageView' = PageView /\ Past' = Past /\ UNCHANGED page
    BY Unwritten DEF SameViews
  <1>2. UNCHANGED <<kind, pc, target, seen, cache, readerVars>>
    BY DEF Index, Summarize, TaskFault, opVars
  <1>3. \A p \in Op : pc[p] \in {"saved", "done"} => ViewOf(p)' = ViewOf(p)
    BY <1>2, ViewStays DEF SameViews
  <1>4. index' \in Past \cup {NoView}
    <2>1. CASE Index(o)
      <3>1. pc[o] = "done" /\ index' = ViewOf(o)
        BY <2>1 DEF Index, IInv, TasksGrounded
      <3> QED
        BY <3>1 DEF Calm, Genuine
    <2>2. CASE ~Index(o)
      BY <2>2 DEF Summarize, TaskFault, Calm, Genuine
    <2> QED
      BY <2>1, <2>2
  <1>5. faults' = 0 => faults = 0
    BY DEF Index, Summarize, TaskFault, IInv, TypeOK
  <1>6. Undisturbed'
    BY <1>1, <1>2, <1>3 DEF Calm, Undisturbed, readerVars
  <1>7. Genuine'
    BY <1>1, <1>2, <1>3, <1>4 DEF Calm, Genuine, readerVars
  <1>8. CacheFollows'
    BY <1>1, <1>2, <1>5 DEF Calm, CacheFollows
  <1> QED
    BY <1>6, <1>7, <1>8 DEF Calm

\* ... and those of readers.
LEMMA ReadersCalm ==
    ASSUME IInv, MetaOfCurrent, Calm, SameViews, NEW r \in Reader, Read(r)
    PROVE  Calm'
  <1>1. PageView' = PageView /\ Past' = Past /\ UNCHANGED page
    BY Unwritten DEF SameViews
  <1>2. UNCHANGED <<kind, pc, target, seen, index, faults>>
    BY DEF Read, GetObject, HeadObject, ReadPage, Warm, opVars
  <1>3. \A p \in Op : pc[p] \in {"saved", "done"} => ViewOf(p)' = ViewOf(p)
    BY <1>2, ViewStays DEF SameViews
  <1>4. \A s \in Reader \ {r} : rpc'[s] = rpc[s] /\ got'[s] = got[s]
    BY DEF Read, GetObject, HeadObject, ReadPage, Warm, IInv, TypeOK
  <1>5. \A o \in Op : /\ pc'[o] = "loaded" => seen'[o] = page'.meta
                      /\ pc'[o] = "saved" => ViewOf(o)' = PageView'
    BY <1>1, <1>2, <1>3 DEF Calm, Undisturbed
  <1>6. \A o \in Op : pc'[o] \in {"saved", "done"} => ViewOf(o)' \in Past'
    BY <1>1, <1>2, <1>3 DEF Calm, Genuine
  <1>7. CASE Warm(r)
    <2>1. /\ rpc[r] = "warming" /\ rpc'[r] = "shown" /\ got' = got /\ cache' = got[r]
          /\ torn' = torn \cup TornNow
      BY <1>7 DEF Warm, IInv, TypeOK
    <2>2. got[r] = PageView /\ got[r] \in View
      BY <2>1 DEF Calm, Undisturbed, IInv, ViewsGrounded
    <2>3. got[r] \in Past
      BY <2>2, PageIsPast, NoViewIsNone
    <2>4. Undisturbed'
      BY <1>1, <1>4, <1>5, <2>1 DEF Calm, Undisturbed
    <2>5. Genuine'
      BY <1>1, <1>2, <1>4, <1>6, <2>1, <2>3 DEF Calm, Genuine, TornNow
    <2>6. CacheFollows'
      BY <1>1, <2>1, <2>2 DEF CacheFollows
    <2> QED
      BY <2>4, <2>5, <2>6 DEF Calm
  <1>8. CASE ~Warm(r)
    <2>1. UNCHANGED <<cache, torn>>
      BY <1>8 DEF Read, GetObject, HeadObject, ReadPage
    <2>2. /\ rpc'[r] = "warming" => got'[r] = PageView
          /\ rpc'[r] = "hit" => got'[r] = cache
          /\ rpc'[r] = "shown" /\ r \notin torn => got'[r] \in Past
      <3>1. CASE GetObject(r)
        BY <3>1 DEF GetObject, IInv, TypeOK
      <3>2. CASE ReadPage(r)
        BY <3>2 DEF ReadPage, IInv, TypeOK
      <3>3. CASE HeadObject(r)
        <4>1. rpc[r] = "hit" /\ rpc'[r] = "shown" /\ got'[r] = [got[r] EXCEPT !.meta = cache.meta]
          BY <3>3 DEF HeadObject, IInv, TypeOK
        <4>2. got[r] \in View /\ cache \in View
          BY <4>1 DEF IInv, ViewsGrounded
        <4>3. cache \in Past
          BY <4>2, NoViewIsNone DEF Calm, Genuine
        <4>4. ASSUME r \notin torn
              PROVE  got'[r] = cache
          <5>1. got[r] = cache
            BY <4>1, <4>4 DEF Calm, Genuine
          <5> QED
            BY <4>1, <4>2, <5>1 DEF View
        <4> QED
          BY <4>1, <4>3, <4>4
      <3> QED
        BY <1>8, <3>1, <3>2, <3>3 DEF Read
    <2>3. Undisturbed'
      BY <1>1, <1>4, <1>5, <2>2 DEF Calm, Undisturbed
    <2>4. Genuine'
      BY <1>1, <1>2, <1>4, <1>6, <2>1, <2>2 DEF Calm, Genuine
    <2>5. CacheFollows'
      BY <1>1, <1>2, <2>1 DEF Calm, CacheFollows
    <2> QED
      BY <2>3, <2>4, <2>5 DEF Calm
  <1> QED
    BY <1>7, <1>8

LEMMA CalmStep == CalmInv /\ [Next]_vars => CalmInv'
  <1> SUFFICES ASSUME CalmInv, [Next]_vars
               PROVE  MetaOfCurrent' /\ (~raced' => Calm')
    BY Inductive DEF CalmInv
  <1>1. IInv /\ MetaOfCurrent
    BY DEF CalmInv
  <1>2. ASSUME UNCHANGED pageVars
        PROVE  SameViews
    BY <1>2 DEF pageVars, SameViews
  <1>3. CASE UNCHANGED vars
    <2>1. UNCHANGED pageVars /\ UNCHANGED opVars /\ UNCHANGED readerVars
              /\ UNCHANGED <<cache, index, raced, faults>>
      BY <1>3 DEF vars
    <2>2. /\ MetaOfCurrent' <=> MetaOfCurrent
          /\ PageView' = PageView /\ Past' = Past
      BY <1>1, <1>2, <2>1, Unwritten DEF CalmInv
    <2>3. \A o \in Op : ViewOf(o)' = ViewOf(o)
      BY <2>1 DEF pageVars, opVars, ViewOf, TextOf, MetaOf
    <2>4. Calm => Calm'
      BY <2>1, <2>2, <2>3
         DEF pageVars, opVars, readerVars, Calm, Undisturbed, Genuine, CacheFollows
    <2> QED
      BY <2>1, <2>2, <2>4 DEF CalmInv
  <1>4. ASSUME NEW o \in Op, Save(o) \/ SaveDraft(o) \/ Revert(o)
        PROVE  MetaOfCurrent' /\ (~raced' => Calm')
    BY <1>4, Writers
  <1>5. ASSUME NEW o \in Op,
               \/ CheckAbsent(o) \/ DraftFails(o) \/ PutFault(o) \/ LoadPage(o) \/ Put(o)
        PROVE  MetaOfCurrent' /\ (~raced' => Calm')
    <2>1. UNCHANGED pageVars /\ UNCHANGED raced
      BY <1>5 DEF CheckAbsent, DraftFails, PutFault, LoadPage, Put
    <2> QED
      BY <1>1, <1>2, <1>5, <2>1, Unwritten, RequestsCalm DEF CalmInv
  <1>6. ASSUME NEW o \in Op, Index(o) \/ Summarize(o) \/ TaskFault(o)
        PROVE  MetaOfCurrent' /\ (~raced' => Calm')
    <2>1. UNCHANGED raced /\ (~Summarize(o) => UNCHANGED pageVars)
      BY <1>6 DEF Index, Summarize, TaskFault
    <2>2. SameViews
      BY <1>1, <1>2, <2>1, Summarized
    <2> QED
      BY <1>1, <1>6, <2>1, <2>2, Unwritten, TasksCalm DEF CalmInv
  <1>7. ASSUME NEW r \in Reader, Read(r)
        PROVE  MetaOfCurrent' /\ (~raced' => Calm')
    <2>1. UNCHANGED pageVars /\ UNCHANGED raced
      BY <1>7 DEF Read, GetObject, HeadObject, ReadPage, Warm
    <2> QED
      BY <1>1, <1>2, <1>7, <2>1, Unwritten, ReadersCalm DEF CalmInv
  <1> QED
    BY <1>3, <1>4, <1>5, <1>6, <1>7 DEF Next, Edit, Task

LEMMA CalmInvHolds == Spec => []CalmInv
  <1>1. Init => CalmInv
    <2> SUFFICES ASSUME Init
                 PROVE  MetaOfCurrent /\ Calm
      BY InitInductive DEF CalmInv
    <2>1. MetaOfCurrent /\ PageView = NoView
      BY DEF Init, MetaOfCurrent, PageView, Exists
    <2> QED
      BY <2>1 DEF Init, Calm, Undisturbed, Genuine, CacheFollows
  <1> QED
    BY <1>1, CalmStep, PTL DEF Spec

\* Nothing is cached, indexed or shown that the page never was, unless a request
\* raced with a write.
THEOREM ViewsAreGenuine == Spec => []NothingInvented
  <1>1. CalmInv => NothingInvented
    BY DEF CalmInv, Calm, Genuine, NothingInvented
  <1> QED
    BY <1>1, CalmInvHolds, PTL

\* When no request is half-way, R2 has the page, unless two requests raced or one
\* of them died.
THEOREM CacheCatchesUp == Spec => []CacheStaleNeedsRace
  <1>1. CalmInv => CacheStaleNeedsRace
    BY DEF CalmInv, Calm, CacheFollows, CacheStaleNeedsRace, Settled
  <1> QED
    BY <1>1, CalmInvHolds, PTL
=============================================================================
