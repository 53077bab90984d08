------------------------------ MODULE HubProofs ------------------------------
(***************************************************************************)
(* Theorems about four parts of the web server that MCHub checks one by    *)
(* one: the groups of a tenant, the drafts of the language model, the      *)
(* migrations and the line diff; for any number of requests, drafts and    *)
(* runs at once, and for texts of any length.  And a theorem about MCHub:  *)
(* it plays each of its nine components by that one's specification.       *)
(***************************************************************************)
EXTENDS MCHub, FiniteSetTheorems, SequenceTheorems, WellFoundedInduction, TLAPS

-----------------------------------------------------------------------------
(* Groups.                                                                 *)

\* A request that has counted, and whose group was not filled since, has an
\* empty group.
CountedIsEmpty ==
    \A c \in Change : change[c].step = "counted" /\ c \notin filledSince
                          => change[c].group \notin filled

GroupInv == GroupTypeOK /\ CountedIsEmpty /\ GroupLossNeedsOverlap

\* Types, action by action.
LEMMA GroupTypeStep ==
    GroupTypeOK /\ [GroupNext]_groupVars => GroupTypeOK'
  <1> SUFFICES ASSUME GroupTypeOK, [GroupNext]_groupVars
               PROVE  GroupTypeOK'
    OBVIOUS
  <1> USE DEF GroupTypeOK, groupRows, groupHistory
  <1>1. CASE UNCHANGED groupVars
    BY <1>1 DEF groupVars
  <1>2. ASSUME NEW g \in Group, Fill(g)
        PROVE  GroupTypeOK'
    BY <1>2 DEF Fill, Live
  <1>3. ASSUME NEW g \in Group, NEW n \in Name, CreateGroup(g, n)
        PROVE  GroupTypeOK'
    BY <1>3 DEF CreateGroup, Live
  <1>4. ASSUME NEW c \in Change, LoadGroup(c)
        PROVE  GroupTypeOK'
    BY <1>4 DEF LoadGroup, Live
  <1>5. ASSUME NEW c \in Change, CountActivity(c)
        PROVE  GroupTypeOK'
    BY <1>5 DEF CountActivity, SetStep, HasTraffic
  <1>6. ASSUME NEW c \in Change, Rename(c)
        PROVE  GroupTypeOK'
    BY <1>6 DEF Rename, SetStep, HasTraffic, UpdateName, Live, Taken
  <1>7. ASSUME NEW c \in Change, Delete(c)
        PROVE  GroupTypeOK'
    BY <1>7 DEF Delete, SetStep, HasTraffic, DropGroup, Live
  <1> QED BY <1>1, <1>2, <1>3, <1>4, <1>5, <1>6, <1>7
       DEF GroupNext

\* Whatever fills a group marks the requests that have counted it.
LEMMA CountedStep ==
    GroupTypeOK /\ CountedIsEmpty /\ [GroupNext]_groupVars => CountedIsEmpty'
  <1> SUFFICES ASSUME GroupTypeOK, CountedIsEmpty, [GroupNext]_groupVars
               PROVE  CountedIsEmpty'
    OBVIOUS
  <1> USE DEF CountedIsEmpty, GroupTypeOK, groupRows, groupHistory
  <1>1. CASE UNCHANGED groupVars
    BY <1>1 DEF groupVars
  <1>2. ASSUME NEW g \in Group, Fill(g)
        PROVE  CountedIsEmpty'
    BY <1>2 DEF Fill, Live
  <1>3. ASSUME NEW g \in Group, NEW n \in Name, CreateGroup(g, n)
        PROVE  CountedIsEmpty'
    BY <1>3 DEF CreateGroup, Live
  <1>4. ASSUME NEW c \in Change, LoadGroup(c)
        PROVE  CountedIsEmpty'
    BY <1>4 DEF LoadGroup, Live
  <1>5. ASSUME NEW c \in Change, CountActivity(c)
        PROVE  CountedIsEmpty'
    BY <1>5 DEF CountActivity, SetStep, HasTraffic
  <1>6. ASSUME NEW c \in Change, Rename(c)
        PROVE  CountedIsEmpty'
    BY <1>6 DEF Rename, SetStep, HasTraffic, UpdateName, Live, Taken
  <1>7. ASSUME NEW c \in Change, Delete(c)
        PROVE  CountedIsEmpty'
    BY <1>7 DEF Delete, SetStep, HasTraffic, DropGroup, Live
  <1> QED BY <1>1, <1>2, <1>3, <1>4, <1>5, <1>6, <1>7
       DEF GroupNext

\* Only a request that has counted writes.
LEMMA GroupLossStep ==
    GroupTypeOK /\ CountedIsEmpty /\ GroupLossNeedsOverlap /\ [GroupNext]_groupVars => GroupLossNeedsOverlap'
  <1> SUFFICES ASSUME GroupTypeOK, CountedIsEmpty, GroupLossNeedsOverlap, [GroupNext]_groupVars
               PROVE  GroupLossNeedsOverlap'
    OBVIOUS
  <1> USE DEF CountedIsEmpty, GroupLossNeedsOverlap, GroupTypeOK, groupRows,
              groupHistory
  <1>1. CASE UNCHANGED groupVars
    BY <1>1 DEF groupVars
  <1>2. ASSUME NEW g \in Group, Fill(g)
        PROVE  GroupLossNeedsOverlap'
    BY <1>2 DEF Fill, Live
  <1>3. ASSUME NEW g \in Group, NEW n \in Name, CreateGroup(g, n)
        PROVE  GroupLossNeedsOverlap'
    BY <1>3 DEF CreateGroup, Live
  <1>4. ASSUME NEW c \in Change, LoadGroup(c)
        PROVE  GroupLossNeedsOverlap'
    BY <1>4 DEF LoadGroup, Live
  <1>5. ASSUME NEW c \in Change, CountActivity(c)
        PROVE  GroupLossNeedsOverlap'
    BY <1>5 DEF CountActivity, SetStep, HasTraffic
  <1>6. ASSUME NEW c \in Change, Rename(c)
        PROVE  GroupLossNeedsOverlap'
    BY <1>6 DEF Rename, SetStep, HasTraffic, UpdateName, Live, Taken
  <1>7. ASSUME NEW c \in Change, Delete(c)
        PROVE  GroupLossNeedsOverlap'
    BY <1>7 DEF Delete, SetStep, HasTraffic, DropGroup, Live
  <1> QED BY <1>1, <1>2, <1>3, <1>4, <1>5, <1>6, <1>7
       DEF GroupNext

LEMMA GroupInvHolds == GroupSpec => []GroupInv
  <1>1. GroupInit => GroupInv
    BY DEF GroupInit, GroupInv, GroupTypeOK, CountedIsEmpty, GroupLossNeedsOverlap
  <1>2. GroupInv /\ [GroupNext]_groupVars => GroupInv'
    BY GroupTypeStep, CountedStep, GroupLossStep DEF GroupInv
  <1> QED
    BY <1>1, <1>2, PTL DEF GroupSpec

\* Every variable of Groups keeps its type.
THEOREM GroupsTyped == GroupSpec => []GroupTypeOK
  <1>1. GroupInv => GroupTypeOK
    BY DEF GroupInv
  <1> QED
    BY <1>1, GroupInvHolds, PTL

\* A group loses what it has, or its address, only to a request that was overtaken
\* between its count and its write.
THEOREM LossNeedsOverlap == GroupSpec => []GroupLossNeedsOverlap
  <1>1. GroupInv => GroupLossNeedsOverlap
    BY DEF GroupInv
  <1> QED
    BY <1>1, GroupInvHolds, PTL

-----------------------------------------------------------------------------
(* Drafts.                                                                 *)

\* Which kinds of request get how far.
KindsOfSteps ==
    \A k \in Draft :
        /\ draft[k].step \in {"illustrating", "imaging"} => draft[k].kind = "autogen"
        /\ draft[k].step = "picking" => draft[k].kind = "promote"
        /\ draft[k].step = "drafted" => draft[k].kind \in {"promote", "autogen"}

\* A draft that trusts its slug to be free is right, or a page came since.
TrustsFreeSlot ==
    \A k \in Draft, i \in Slot :
        k \in Trusting(i) /\ page[i] => k \in cameAfter

DraftInv == DraftTypeOK /\ KindsOfSteps /\ TrustsFreeSlot /\ CoversNeedOverlap

\* A request that is written keeps its form.
LEMMA RequestKept ==
    ASSUME DraftTypeOK, NEW k \in Draft, NEW x \in Request,
           draft' = [draft EXCEPT ![k] = x]
    PROVE  draft' \in [Draft -> Request]
  BY DEF DraftTypeOK

\* A request that goes on to another step.
LEMMA StepKept ==
    ASSUME DraftTypeOK, NEW k \in Draft, NEW next \in Step,
           draft' = [draft EXCEPT ![k].step = next]
    PROVE  /\ draft' \in [Draft -> Request]
           /\ draft'[k].step = next /\ draft'[k].kind = draft[k].kind
           /\ draft'[k].paid = draft[k].paid /\ draft'[k].slot = draft[k].slot
           /\ \A q \in Draft \ {k} : draft'[q] = draft[q]
  BY DEF DraftTypeOK, Request

\* One that has a unit booked besides.
LEMMA PayKept ==
    ASSUME DraftTypeOK, NEW k \in Draft, NEW next \in Step, Pay(k, next)
    PROVE  /\ draft' \in [Draft -> Request]
           /\ draft'[k].step = next /\ draft'[k].kind = draft[k].kind
           /\ draft'[k].paid = today /\ draft'[k].slot = draft[k].slot
           /\ \A q \in Draft \ {k} : draft'[q] = draft[q]
           /\ used' = [used EXCEPT ![today] = used[today] + 1]
  BY DEF DraftTypeOK, Request, Pay, Units

\* The steps that a request may go on to from its first unit, or from its second.
LEMMA ConsumeCases ==
    ASSUME NEW k \in Draft, Consume(k)
    PROVE  \E next \in Step :
              /\ Pay(k, next)
              /\ \/ draft[k].step = "asking" /\ next = "allowed" /\ Within
                 \/ draft[k].step = "asking" /\ next = "done"
                 \/ draft[k].step = "illustrating" /\ next = "imaging" /\ Within
                 \/ draft[k].step = "illustrating" /\ next = "drafted"
  BY DEF Consume, Step

\* What a request that begins has.
LEMMA BeginKept ==
    ASSUME DraftTypeOK, NEW k \in Draft, BeginDraft(k)
    PROVE  /\ draft' \in [Draft -> Request]
           /\ draft'[k].paid = draft[k].paid
           /\ draft[k].step = "new" /\ draft'[k].step = "asking"
           /\ draft'[k].slot \in Slot
           /\ draft'[k].kind = "autogen" => ~page[draft'[k].slot]
           /\ draft'[k].kind = "promote" \/ draft'[k].kind = "autogen"
                  \/ draft'[k].kind = "hero"
           /\ \A q \in Draft \ {k} : draft'[q] = draft[q]
  <1>1. PICK kind \in Kind, hero \in BOOLEAN, i \in Slot :
           /\ kind = "autogen" => ~page[i]
           /\ draft' = [draft EXCEPT ![k] = [draft[k] EXCEPT !.step = "asking",
                             !.kind = kind, !.hero = hero, !.slot = i]]
    BY DEF BeginDraft
  <1>2. i \in 1..(Candidates + 1)
    BY DraftAssumption DEF Slot
  <1>3. draft[k] \in Request
    BY DEF DraftTypeOK
  <1>4. /\ [draft[k] EXCEPT !.step = "asking", !.kind = kind, !.hero = hero, !.slot = i]
               \in Request
        /\ draft'[k].step = "asking" /\ draft'[k].kind = kind /\ draft'[k].slot = i
        /\ draft'[k].paid = draft[k].paid
        /\ \A q \in Draft \ {k} : draft'[q] = draft[q]
    BY <1>1, <1>2, <1>3 DEF Request, Step, DraftTypeOK
  <1>5. draft' \in [Draft -> Request]
    BY <1>1, <1>4, RequestKept
  <1> QED
    BY <1>1, <1>4, <1>5 DEF BeginDraft, Kind

\* The next candidate, or the one that is free.
LEMMA PickKept ==
    ASSUME DraftTypeOK, NEW k \in Draft, PickSlug(k)
    PROVE  /\ draft' \in [Draft -> Request]
           /\ draft[k].step = "picking" /\ draft'[k].kind = draft[k].kind
           /\ draft'[k].paid = draft[k].paid
           /\ \/ draft'[k].step = "picking"
              \/ /\ draft'[k].step = "drafted" /\ draft'[k].slot = draft[k].slot
                 /\ draft[k].slot \in Slot => ~page[draft[k].slot]
           /\ \A q \in Draft \ {k} : draft'[q] = draft[q]
  <1>1. CASE draft[k].slot \in Slot /\ page[draft[k].slot]
    <2>1. draft' = [draft EXCEPT ![k].slot = draft[k].slot + 1]
      BY <1>1 DEF PickSlug, TryNext
    <2>2. draft[k].slot + 1 \in 1..(Candidates + 1)
      BY <1>1, DraftAssumption DEF Slot
    <2>3. /\ draft' \in [Draft -> Request]
          /\ draft'[k].step = draft[k].step /\ draft'[k].kind = draft[k].kind
          /\ draft'[k].paid = draft[k].paid
          /\ \A q \in Draft \ {k} : draft'[q] = draft[q]
      BY <2>1, <2>2 DEF Request, DraftTypeOK
    <2> QED
      BY <2>3 DEF PickSlug
  <1>2. CASE ~(draft[k].slot \in Slot /\ page[draft[k].slot])
    <2>1. draft' = [draft EXCEPT ![k].step = "drafted"]
      BY <1>2 DEF PickSlug, TakeSlot
    <2> QED
      BY <1>2, <2>1, StepKept DEF PickSlug, Step
  <1> QED
    BY <1>1, <1>2

\* Where a request goes on to after the model.
LEMMA CallCases ==
    ASSUME NEW k \in Draft, CallModel(k)
    PROVE  \E next \in Step :
              /\ draft' = [draft EXCEPT ![k].step = next]
              /\ \/ next = "done"
                 \/ next = "drafted" /\ draft[k].step = "imaging"
                 \/ next = "picking" /\ draft[k].kind = "promote"
                 \/ next \in {"illustrating", "drafted"} /\ draft[k].kind = "autogen"
  BY DEF CallModel, AfterCall, Step

\* One more of something that is counted.
LEMMA CountedOnce ==
    ASSUME NEW D, NEW f \in [D -> Nat], NEW d \in D
    PROVE  [f EXCEPT ![d] = @ + 1] \in [D -> Nat]
  OBVIOUS

\* Types, action by action.
LEMMA DraftTypeStep ==
    DraftTypeOK /\ [DraftNext]_draftVars => DraftTypeOK'
  <1> SUFFICES ASSUME DraftTypeOK, [DraftNext]_draftVars
               PROVE  DraftTypeOK'
    OBVIOUS
  <1> USE DraftAssumption DEF DraftTypeOK
  <1>1. CASE UNCHANGED draftVars
    BY <1>1 DEF draftVars
  <1>2. ASSUME Midnight
        PROVE  DraftTypeOK'
    BY SMTT(40), <1>2 DEF Midnight
  <1>3. ASSUME NEW i \in Slot, WritePage(i)
        PROVE  DraftTypeOK'
    <2>1. page' \in [Slot -> BOOLEAN]
      BY <1>3 DEF WritePage, PutPage
    <2>2. cameAfter' \in SUBSET Draft
      BY <1>3 DEF WritePage, PutPage, Trusting
    <2> QED
      BY <1>3, <2>1, <2>2 DEF WritePage
  <1>4. ASSUME NEW k \in Draft, BeginDraft(k)
        PROVE  DraftTypeOK'
    BY <1>4, BeginKept DEF BeginDraft
  <1>5. ASSUME NEW k \in Draft, Consume(k)
        PROVE  DraftTypeOK'
    <2>1. PICK next \in Step :
             /\ Pay(k, next)
             /\ \/ draft[k].step = "asking" /\ next = "allowed" /\ Within
                \/ draft[k].step = "asking" /\ next = "done"
                \/ draft[k].step = "illustrating" /\ next = "imaging" /\ Within
                \/ draft[k].step = "illustrating" /\ next = "drafted"
      BY <1>5, ConsumeCases
    <2>2. draft' \in [Draft -> Request]
      BY <2>1, PayKept
    <2>3. used' \in [0..Days -> Nat]
      BY <2>1 DEF Pay, Units
    <2> QED
      BY <1>5, <2>2, <2>3 DEF Consume
  <1>6. ASSUME NEW k \in Draft, CallModel(k)
        PROVE  DraftTypeOK'
    <2>1. PICK next \in Step :
             /\ draft' = [draft EXCEPT ![k].step = next]
             /\ \/ next = "done"
                \/ next = "drafted" /\ draft[k].step = "imaging"
                \/ next = "picking" /\ draft[k].kind = "promote"
                \/ next \in {"illustrating", "drafted"} /\ draft[k].kind = "autogen"
      BY <1>6, CallCases
    <2>2. draft' \in [Draft -> Request]
      BY <2>1, StepKept
    <2>3. calls' \in [0..Days -> Nat] /\ overnight' \in [0..Days -> Nat]
      <3>1. /\ calls' = [calls EXCEPT ![today] = @ + 1]
            /\ \/ overnight' = [overnight EXCEPT ![today] = @ + 1]
               \/ overnight' = overnight
        BY <1>6 DEF CallModel
      <3>2. /\ [calls EXCEPT ![today] = @ + 1] \in [0..Days -> Nat]
            /\ [overnight EXCEPT ![today] = @ + 1] \in [0..Days -> Nat]
        BY CountedOnce
      <3> QED
        BY <3>1, <3>2
    <2> QED
      BY <1>6, <2>2, <2>3 DEF CallModel
  <1>7. ASSUME NEW k \in Draft, PickSlug(k)
        PROVE  DraftTypeOK'
    BY <1>7, PickKept DEF PickSlug
  <1>8. ASSUME NEW k \in Draft, SaveDraft(k)
        PROVE  DraftTypeOK'
    <2>1. draft' = [draft EXCEPT ![k].step = "done"]
      BY <1>8 DEF SaveDraft
    <2>2. "done" \in Step
      BY DEF Step
    <2>3. draft' \in [Draft -> Request]
      BY <2>1, <2>2, StepKept
    <2>4. page' \in [Slot -> BOOLEAN]
      BY <1>8 DEF SaveDraft, PutPage
    <2>5. cameAfter' \in SUBSET Draft /\ covers' \in SUBSET Draft
      BY <1>8 DEF SaveDraft, PutPage, Trusting
    <2> QED
      BY <1>8, <2>3, <2>4, <2>5 DEF SaveDraft
  <1> QED BY <1>1, <1>2, <1>3, <1>4, <1>5, <1>6, <1>7, <1>8
       DEF DraftNext

\* A request goes the way of its kind.
LEMMA KindsStep ==
    DraftTypeOK /\ KindsOfSteps /\ [DraftNext]_draftVars => KindsOfSteps'
  <1> SUFFICES ASSUME DraftTypeOK, KindsOfSteps, [DraftNext]_draftVars
               PROVE  KindsOfSteps'
    OBVIOUS
  <1> USE DraftAssumption DEF KindsOfSteps, DraftTypeOK
  <1>1. CASE UNCHANGED draftVars
    BY <1>1 DEF draftVars
  <1>2. ASSUME Midnight
        PROVE  KindsOfSteps'
    BY <1>2 DEF Midnight
  <1>3. ASSUME NEW i \in Slot, WritePage(i)
        PROVE  KindsOfSteps'
    BY <1>3 DEF WritePage, PutPage
  <1>4. ASSUME NEW k \in Draft, BeginDraft(k)
        PROVE  KindsOfSteps'
    BY ZenonT(40), <1>4, BeginKept DEF BeginDraft
  <1>5. ASSUME NEW k \in Draft, Consume(k)
        PROVE  KindsOfSteps'
    <2>1. PICK next \in Step :
             /\ Pay(k, next)
             /\ \/ draft[k].step = "asking" /\ next = "allowed" /\ Within
                \/ draft[k].step = "asking" /\ next = "done"
                \/ draft[k].step = "illustrating" /\ next = "imaging" /\ Within
                \/ draft[k].step = "illustrating" /\ next = "drafted"
      BY <1>5, ConsumeCases
    <2>2. /\ draft'[k].step = next /\ draft'[k].kind = draft[k].kind
          /\ \A q \in Draft \ {k} : draft'[q] = draft[q]
      BY <2>1, PayKept
    <2> HIDE DEF DraftTypeOK
    <2> QED
      BY <2>1, <2>2
  <1>6. ASSUME NEW k \in Draft, CallModel(k)
        PROVE  KindsOfSteps'
    <2>1. PICK next \in Step :
             /\ draft' = [draft EXCEPT ![k].step = next]
             /\ \/ next = "done"
                \/ next = "drafted" /\ draft[k].step = "imaging"
                \/ next = "picking" /\ draft[k].kind = "promote"
                \/ next \in {"illustrating", "drafted"} /\ draft[k].kind = "autogen"
      BY <1>6, CallCases
    <2> QED
      BY <1>6, <2>1, StepKept, ZenonT(40) DEF CallModel
  <1>7. ASSUME NEW k \in Draft, PickSlug(k)
        PROVE  KindsOfSteps'
    BY ZenonT(40), <1>7, PickKept DEF PickSlug
  <1>8. ASSUME NEW k \in Draft, SaveDraft(k)
        PROVE  KindsOfSteps'
    <2>1. draft' = [draft EXCEPT ![k].step = "done"]
      BY <1>8 DEF SaveDraft
    <2>2. "done" \in Step
      BY DEF Step
    <2> QED
      BY <1>8, <2>1, <2>2, StepKept DEF SaveDraft, PutPage
  <1> QED BY <1>1, <1>2, <1>3, <1>4, <1>5, <1>6, <1>7, <1>8
       DEF DraftNext

\* A step that makes no page, after which one draft may trust its slug.
LEMMA TrustKept ==
    ASSUME TrustsFreeSlot, NEW k \in Draft, UNCHANGED <<page, cameAfter>>,
           \A q \in Draft \ {k} : draft'[q] = draft[q],
           \A i \in Slot : k \in Trusting(i)' /\ page[i] => k \in cameAfter
    PROVE  TrustsFreeSlot'
  <1> SUFFICES ASSUME NEW q \in Draft, NEW i \in Slot, q \in Trusting(i)', page[i]
               PROVE  q \in cameAfter
    BY DEF TrustsFreeSlot, Slot
  <1>1. CASE q = k
    BY <1>1
  <1>2. CASE q # k
    <2>1. q \in Trusting(i)
      BY <1>2 DEF Trusting
    <2> QED
      BY <2>1 DEF TrustsFreeSlot
  <1> QED
    BY <1>1, <1>2

\* A draft that trusted its slug, and still does.
LEMMA TrustsStill ==
    ASSUME TrustsFreeSlot, NEW k \in Draft, UNCHANGED <<page, cameAfter>>,
           \A q \in Draft \ {k} : draft'[q] = draft[q],
           draft'[k].kind = draft[k].kind, draft'[k].slot = draft[k].slot,
           draft'[k].kind = "promote" => draft'[k].step # "drafted",
           draft[k].step # "done"
    PROVE  TrustsFreeSlot'
  <1>1. ASSUME NEW i \in Slot, k \in Trusting(i)', page[i]
        PROVE  k \in cameAfter
    <2>1. k \in Trusting(i)
      BY <1>1 DEF Trusting
    <2> QED
      BY <1>1, <2>1 DEF TrustsFreeSlot
  <1> QED
    BY <1>1, TrustKept

\* Whoever makes a page marks those who trust that there is none.
LEMMA TrustStep ==
    DraftTypeOK /\ KindsOfSteps /\ TrustsFreeSlot /\ [DraftNext]_draftVars => TrustsFreeSlot'
  <1> SUFFICES ASSUME DraftTypeOK, KindsOfSteps, TrustsFreeSlot, [DraftNext]_draftVars
               PROVE  TrustsFreeSlot'
    OBVIOUS
  <1>1. CASE UNCHANGED draftVars
    BY <1>1 DEF draftVars, TrustsFreeSlot, Trusting, Slot
  <1>2. ASSUME Midnight
        PROVE  TrustsFreeSlot'
    BY <1>2 DEF Midnight, TrustsFreeSlot, Trusting
  <1>3. ASSUME NEW i \in Slot, WritePage(i)
        PROVE  TrustsFreeSlot'
    BY <1>3 DEF WritePage, PutPage, TrustsFreeSlot, Trusting
  <1>4. ASSUME NEW k \in Draft, BeginDraft(k)
        PROVE  TrustsFreeSlot'
    <2>1. /\ draft'[k].step = "asking" /\ draft'[k].slot \in Slot
          /\ draft'[k].kind = "autogen" => ~page[draft'[k].slot]
          /\ \A q \in Draft \ {k} : draft'[q] = draft[q]
      BY <1>4, BeginKept
    <2>2. UNCHANGED <<page, cameAfter>>
      BY <1>4 DEF BeginDraft
    <2>3. ASSUME NEW i \in Slot, k \in Trusting(i)', page[i]
          PROVE  k \in cameAfter
      BY <2>1, <2>3 DEF Trusting
    <2> QED
      BY <2>1, <2>2, <2>3, TrustKept
  <1>5. ASSUME NEW k \in Draft, Consume(k)
        PROVE  TrustsFreeSlot'
    <2>1. PICK next \in Step :
             /\ Pay(k, next)
             /\ \/ draft[k].step = "asking" /\ next = "allowed" /\ Within
                \/ draft[k].step = "asking" /\ next = "done"
                \/ draft[k].step = "illustrating" /\ next = "imaging" /\ Within
                \/ draft[k].step = "illustrating" /\ next = "drafted"
      BY <1>5, ConsumeCases
    <2>2. /\ draft'[k].step = next /\ draft'[k].kind = draft[k].kind
          /\ draft'[k].slot = draft[k].slot
          /\ \A q \in Draft \ {k} : draft'[q] = draft[q]
      BY <2>1, PayKept
    <2>3. draft'[k].kind = "promote" => draft'[k].step # "drafted"
      BY <2>1, <2>2 DEF KindsOfSteps
    <2>4. UNCHANGED <<page, cameAfter>>
      BY <1>5 DEF Consume
    <2> QED
      BY <2>1, <2>2, <2>3, <2>4, TrustsStill
  <1>6. ASSUME NEW k \in Draft, CallModel(k)
        PROVE  TrustsFreeSlot'
    <2>1. PICK next \in Step :
             /\ draft' = [draft EXCEPT ![k].step = next]
             /\ \/ next = "done"
                \/ next = "drafted" /\ draft[k].step = "imaging"
                \/ next = "picking" /\ draft[k].kind = "promote"
                \/ next \in {"illustrating", "drafted"} /\ draft[k].kind = "autogen"
      BY <1>6, CallCases
    <2>2. /\ draft'[k].step = next /\ draft'[k].kind = draft[k].kind
          /\ draft'[k].slot = draft[k].slot
          /\ \A q \in Draft \ {k} : draft'[q] = draft[q]
      BY <2>1, StepKept
    <2>3. draft'[k].kind = "promote" => draft'[k].step # "drafted"
      BY <2>1, <2>2 DEF KindsOfSteps
    <2>4. UNCHANGED <<page, cameAfter>> /\ draft[k].step # "done"
      BY <1>6 DEF CallModel
    <2> QED
      BY <2>2, <2>3, <2>4, TrustsStill
  <1>7. ASSUME NEW k \in Draft, PickSlug(k)
        PROVE  TrustsFreeSlot'
    <2>1. /\ draft[k].step = "picking" /\ draft'[k].kind = draft[k].kind
          /\ \/ draft'[k].step = "picking"
             \/ /\ draft'[k].step = "drafted" /\ draft'[k].slot = draft[k].slot
                /\ draft[k].slot \in Slot => ~page[draft[k].slot]
          /\ \A q \in Draft \ {k} : draft'[q] = draft[q]
      BY <1>7, PickKept
    <2>2. draft'[k].kind = "promote"
      BY <2>1 DEF KindsOfSteps
    <2>3. UNCHANGED <<page, cameAfter>>
      BY <1>7 DEF PickSlug
    <2>4. ASSUME NEW i \in Slot, k \in Trusting(i)', page[i]
          PROVE  k \in cameAfter
      BY <2>1, <2>2, <2>4 DEF Trusting
    <2> QED
      BY <2>1, <2>3, <2>4, TrustKept
  <1>8. ASSUME NEW k \in Draft, SaveDraft(k)
        PROVE  TrustsFreeSlot'
    <2>1. draft' = [draft EXCEPT ![k].step = "done"] /\ "done" \in Step
      BY <1>8 DEF SaveDraft, Step
    <2>2. draft'[k].step = "done" /\ \A q \in Draft \ {k} : draft'[q] = draft[q]
      BY <2>1, StepKept
    <2> SUFFICES ASSUME NEW q \in Draft, NEW i \in Slot, q \in Trusting(i)', page'[i]
                 PROVE  q \in cameAfter'
      BY DEF TrustsFreeSlot, Slot
    <2>3. q # k /\ q \in Trusting(i)
      BY <2>2 DEF Trusting
    <2>4. CASE page[i]
      BY <1>8, <2>3, <2>4 DEF SaveDraft, PutPage, TrustsFreeSlot
    <2>5. CASE ~page[i]
      <3>1. i = draft[k].slot /\ cameAfter' = cameAfter \cup Trusting(i)
        BY <1>8, <2>5 DEF SaveDraft, PutPage, DraftTypeOK
      <3> QED
        BY <2>3, <3>1
    <2> QED
      BY <2>4, <2>5
  <1> QED BY <1>1, <1>2, <1>3, <1>4, <1>5, <1>6, <1>7, <1>8
       DEF DraftNext

\* A draft that is saved over a page has trusted its slug.
LEMMA CoversStep ==
    DraftTypeOK /\ KindsOfSteps /\ TrustsFreeSlot /\ CoversNeedOverlap /\ [DraftNext]_draftVars => CoversNeedOverlap'
  <1> SUFFICES ASSUME DraftTypeOK, KindsOfSteps, TrustsFreeSlot, CoversNeedOverlap, [DraftNext]_draftVars
               PROVE  CoversNeedOverlap'
    OBVIOUS
  <1> USE DraftAssumption DEF KindsOfSteps, TrustsFreeSlot, Trusting,
              CoversNeedOverlap, DraftTypeOK, Slot, Kind, Step
  <1>1. CASE UNCHANGED draftVars
    BY <1>1 DEF draftVars
  <1>2. ASSUME Midnight
        PROVE  CoversNeedOverlap'
    BY <1>2 DEF Midnight
  <1>3. ASSUME NEW i \in Slot, WritePage(i)
        PROVE  CoversNeedOverlap'
    BY <1>3 DEF WritePage, PutPage
  <1>4. ASSUME NEW k \in Draft, BeginDraft(k)
        PROVE  CoversNeedOverlap'
    BY <1>4 DEF BeginDraft
  <1>5. ASSUME NEW k \in Draft, Consume(k)
        PROVE  CoversNeedOverlap'
    BY <1>5 DEF Consume, Pay, Units, Within
  <1>6. ASSUME NEW k \in Draft, CallModel(k)
        PROVE  CoversNeedOverlap'
    BY <1>6 DEF CallModel, AfterCall
  <1>7. ASSUME NEW k \in Draft, PickSlug(k)
        PROVE  CoversNeedOverlap'
    BY <1>7 DEF PickSlug, TryNext, TakeSlot
  <1>8. ASSUME NEW k \in Draft, SaveDraft(k)
        PROVE  CoversNeedOverlap'
    BY <1>8 DEF SaveDraft, PutPage
  <1> QED BY <1>1, <1>2, <1>3, <1>4, <1>5, <1>6, <1>7, <1>8
       DEF DraftNext

LEMMA DraftInvHolds == DraftSpec => []DraftInv
  <1>1. DraftInit => DraftInv
    <2> SUFFICES ASSUME DraftInit
                 PROVE  DraftInv
      OBVIOUS
    <2>1. [step |-> "new", kind |-> "hero", paid |-> 0, hero |-> FALSE, slot |-> 1] \in Request
      BY DraftAssumption DEF Request, Step, Kind
    <2>2. DraftTypeOK
      BY <2>1, DraftAssumption DEF DraftInit, DraftTypeOK
    <2>3. KindsOfSteps /\ TrustsFreeSlot /\ CoversNeedOverlap
      BY DEF DraftInit, KindsOfSteps, TrustsFreeSlot, CoversNeedOverlap, Trusting
    <2> QED
      BY <2>2, <2>3 DEF DraftInv
  <1>2. DraftInv /\ [DraftNext]_draftVars => DraftInv'
    BY DraftTypeStep, KindsStep, TrustStep, CoversStep DEF DraftInv
  <1> QED
    BY <1>1, <1>2, PTL DEF DraftSpec

\* Every variable of Drafts keeps its type.
THEOREM DraftsTyped == DraftSpec => []DraftTypeOK
  <1>1. DraftInv => DraftTypeOK
    BY DEF DraftInv
  <1> QED
    BY <1>1, DraftInvHolds, PTL

\* A draft covers a page only if that came after the look for it.
THEOREM CoveredPagesCameLater == DraftSpec => []CoversNeedOverlap
  <1>1. DraftInv => CoversNeedOverlap
    BY DEF DraftInv
  <1> QED
    BY <1>1, DraftInvHolds, PTL

\* Requests with a unit of day d that have not called the model with it yet.
Booked(d) == {k \in Draft : draft[k].step \in {"allowed", "imaging"} /\ draft[k].paid = d}

\* The calls of a day, with those that are still to come from its units, are
\* within the units that were taken and within the cap.
CallsAreBooked ==
    \A d \in 0..Days :
        /\ calls[d] + Cardinality(Booked(d)) <= used[d] + overnight[d]
        /\ calls[d] + Cardinality(Booked(d)) <= Cap + overnight[d]

\* No unit is of a day to come.
PaidByNow == \A k \in Draft : draft[k].paid <= today

LEMMA BookedIsFinite ==
    ASSUME NEW d
    PROVE  IsFiniteSet(Booked(d)) /\ Cardinality(Booked(d)) \in Nat
  <1>1. Booked(d) \subseteq Draft
    BY DEF Booked
  <1> QED
    BY <1>1, DraftAssumption, FS_Subset, FS_CardinalityType

LEMMA NumbersTyped ==
    ASSUME DraftTypeOK, NEW d \in 0..Days
    PROVE  calls[d] \in Nat /\ used[d] \in Nat /\ overnight[d] \in Nat
  BY DEF DraftTypeOK

\* A step that neither books a unit nor uses one.
LEMMA NothingBooked ==
    ASSUME DraftTypeOK, CallsAreBooked, UNCHANGED <<used, calls, overnight>>,
           \A d \in 0..Days : Booked(d)' = Booked(d)
    PROVE  CallsAreBooked'
  BY DEF CallsAreBooked

\* One draft goes on; it had no unit to use, and has none.
LEMMA OneWithoutUnit ==
    ASSUME NEW k \in Draft, \A q \in Draft \ {k} : draft'[q] = draft[q],
           draft[k].step \notin {"allowed", "imaging"},
           draft'[k].step \notin {"allowed", "imaging"}
    PROVE  \A d \in 0..Days : Booked(d)' = Booked(d)
  BY DEF Booked

\* A call uses up a unit of its day, or of one before.
LEMMA CallsStep ==
    DraftTypeOK /\ PaidByNow /\ CallsAreBooked /\ [DraftNext]_draftVars => CallsAreBooked'
  <1> SUFFICES ASSUME DraftTypeOK, PaidByNow, CallsAreBooked, [DraftNext]_draftVars
               PROVE  CallsAreBooked'
    OBVIOUS
  <1>1. CASE UNCHANGED draftVars
    BY <1>1 DEF draftVars, CallsAreBooked, Booked
  <1>2. ASSUME Midnight
        PROVE  CallsAreBooked'
    BY <1>2 DEF Midnight, CallsAreBooked, Booked
  <1>3. ASSUME NEW i \in Slot, WritePage(i)
        PROVE  CallsAreBooked'
    BY <1>3 DEF WritePage, CallsAreBooked, Booked
  <1>4. ASSUME NEW k \in Draft, BeginDraft(k)
        PROVE  CallsAreBooked'
    <2>1. /\ draft[k].step = "new" /\ draft'[k].step = "asking"
          /\ \A q \in Draft \ {k} : draft'[q] = draft[q]
      BY <1>4, BeginKept
    <2>2. UNCHANGED <<used, calls, overnight>>
      BY <1>4 DEF BeginDraft
    <2>3. \A d \in 0..Days : Booked(d)' = Booked(d)
      BY <2>1, OneWithoutUnit
    <2> QED
      BY <2>2, <2>3, NothingBooked
  <1>5. ASSUME NEW k \in Draft, Consume(k)
        PROVE  CallsAreBooked'
    <2>1. PICK next \in Step :
             /\ Pay(k, next)
             /\ \/ draft[k].step = "asking" /\ next = "allowed" /\ Within
                \/ draft[k].step = "asking" /\ next = "done"
                \/ draft[k].step = "illustrating" /\ next = "imaging" /\ Within
                \/ draft[k].step = "illustrating" /\ next = "drafted"
      BY <1>5, ConsumeCases
    <2>2. /\ draft'[k].step = next /\ draft'[k].paid = today
          /\ \A q \in Draft \ {k} : draft'[q] = draft[q]
          /\ used' = [used EXCEPT ![today] = used[today] + 1]
      BY <2>1, PayKept
    <2>3. UNCHANGED <<today, calls, overnight>> /\ today \in 0..Days
      BY <1>5 DEF Consume, DraftTypeOK
    <2> SUFFICES ASSUME NEW d \in 0..Days
                 PROVE  /\ calls[d] + Cardinality(Booked(d)') <= used'[d] + overnight[d]
                        /\ calls[d] + Cardinality(Booked(d)') <= Cap + overnight[d]
      BY <2>3 DEF CallsAreBooked
    <2>4. /\ calls[d] + Cardinality(Booked(d)) <= used[d] + overnight[d]
          /\ calls[d] + Cardinality(Booked(d)) <= Cap + overnight[d]
      BY DEF CallsAreBooked
    <2>5. /\ calls[d] \in Nat /\ used[d] \in Nat /\ overnight[d] \in Nat
          /\ Cardinality(Booked(d)) \in Nat /\ Cap \in Nat
      BY NumbersTyped, BookedIsFinite, DraftAssumption
    <2>6. used'[d] = IF d = today THEN used[d] + 1 ELSE used[d]
      BY <2>2, <2>3 DEF DraftTypeOK
    <2>7. CASE next \in {"allowed", "imaging"} /\ d = today
      <3>1. k \notin Booked(d) /\ Booked(d)' = Booked(d) \cup {k}
        BY <2>1, <2>2, <2>7 DEF Booked
      <3>2. Cardinality(Booked(d)') = Cardinality(Booked(d)) + 1
        BY <3>1, BookedIsFinite, FS_AddElement
      <3>3. used[d] + 1 <= Cap
        BY <2>1, <2>7 DEF Within, Units
      <3> HIDE DEF Booked
      <3> QED
        BY <2>4, <2>5, <2>6, <2>7, <3>2, <3>3
    <2>8. CASE ~(next \in {"allowed", "imaging"} /\ d = today)
      <3>1. Booked(d)' = Booked(d)
        BY <2>1, <2>2, <2>8 DEF Booked
      <3> QED
        BY <2>4, <2>5, <2>6, <3>1
    <2> QED
      BY <2>7, <2>8
  <1>6. ASSUME NEW k \in Draft, CallModel(k)
        PROVE  CallsAreBooked'
    <2>1. PICK next \in Step :
             /\ draft' = [draft EXCEPT ![k].step = next]
             /\ next \notin {"allowed", "imaging"}
      BY <1>6, CallCases
    <2>2. /\ draft'[k].step = next
          /\ \A q \in Draft \ {k} : draft'[q] = draft[q]
      BY <2>1, StepKept
    <2>3. /\ draft[k].step \in {"allowed", "imaging"} /\ used' = used
          /\ today \in 0..Days /\ draft[k].paid \in Nat /\ draft[k].paid <= today
          /\ calls' = [calls EXCEPT ![today] = calls[today] + 1]
          /\ overnight' = IF draft[k].paid < today
                          THEN [overnight EXCEPT ![today] = overnight[today] + 1]
                          ELSE overnight
      <3>1. draft[k].paid \in Nat
        BY DraftAssumption DEF DraftTypeOK, Request
      <3> QED
        BY <1>6, <3>1 DEF CallModel, DraftTypeOK, PaidByNow
    <2> SUFFICES ASSUME NEW d \in 0..Days
                 PROVE  /\ calls'[d] + Cardinality(Booked(d)') <= used[d] + overnight'[d]
                        /\ calls'[d] + Cardinality(Booked(d)') <= Cap + overnight'[d]
      BY <2>3 DEF CallsAreBooked
    <2>4. /\ calls[d] + Cardinality(Booked(d)) <= used[d] + overnight[d]
          /\ calls[d] + Cardinality(Booked(d)) <= Cap + overnight[d]
      BY DEF CallsAreBooked
    <2>5. /\ calls[d] \in Nat /\ used[d] \in Nat /\ overnight[d] \in Nat
          /\ Cardinality(Booked(d)) \in Nat /\ Cap \in Nat
      BY NumbersTyped, BookedIsFinite, DraftAssumption
    <2>6. Booked(d)' = Booked(d) \ {k}
      BY <2>1, <2>2 DEF Booked
    <2>7. Cardinality(Booked(d)') \in Nat /\ Cardinality(Booked(d)') <= Cardinality(Booked(d))
      BY <2>6, BookedIsFinite, FS_Subset, FS_CardinalityType
    <2>8. CASE d # today
      <3>1. calls'[d] = calls[d] /\ overnight'[d] = overnight[d]
        BY <2>3, <2>8 DEF DraftTypeOK
      <3> QED
        BY <2>4, <2>5, <2>7, <3>1
    <2>9. CASE d = today /\ draft[k].paid < today
      <3>1. calls'[d] = calls[d] + 1 /\ overnight'[d] = overnight[d] + 1
        BY <2>3, <2>9 DEF DraftTypeOK
      <3> QED
        BY <2>4, <2>5, <2>7, <3>1
    <2>10. CASE d = today /\ draft[k].paid = today
      <3>1. calls'[d] = calls[d] + 1 /\ overnight'[d] = overnight[d]
        BY <2>3, <2>10 DEF DraftTypeOK
      <3>2. k \in Booked(d)
        BY <2>3, <2>10 DEF Booked
      <3>3. Cardinality(Booked(d)') = Cardinality(Booked(d)) - 1
        BY <2>6, <3>2, BookedIsFinite, FS_RemoveElement
      <3> QED
        BY <2>4, <2>5, <3>1, <3>3
    <2>11. today \in Nat
      BY <2>3, DraftAssumption
    <2> QED
      BY <2>3, <2>8, <2>9, <2>10, <2>11
  <1>7. ASSUME NEW k \in Draft, PickSlug(k)
        PROVE  CallsAreBooked'
    <2>1. /\ draft[k].step = "picking" /\ draft'[k].step \in {"picking", "drafted"}
          /\ \A q \in Draft \ {k} : draft'[q] = draft[q]
      BY <1>7, PickKept
    <2>2. UNCHANGED <<used, calls, overnight>>
      BY <1>7 DEF PickSlug
    <2>3. \A d \in 0..Days : Booked(d)' = Booked(d)
      BY <2>1, OneWithoutUnit
    <2> QED
      BY <2>2, <2>3, NothingBooked
  <1>8. ASSUME NEW k \in Draft, SaveDraft(k)
        PROVE  CallsAreBooked'
    <2>1. draft' = [draft EXCEPT ![k].step = "done"] /\ "done" \in Step
      BY <1>8 DEF SaveDraft, Step
    <2>2. /\ draft[k].step = "drafted" /\ draft'[k].step = "done"
          /\ \A q \in Draft \ {k} : draft'[q] = draft[q]
      BY <1>8, <2>1, StepKept DEF SaveDraft
    <2>3. UNCHANGED <<used, calls, overnight>>
      BY <1>8 DEF SaveDraft
    <2>4. \A d \in 0..Days : Booked(d)' = Booked(d)
      BY <2>2, OneWithoutUnit
    <2> QED
      BY <2>3, <2>4, NothingBooked
  <1> QED BY <1>1, <1>2, <1>3, <1>4, <1>5, <1>6, <1>7, <1>8
       DEF DraftNext

\* Units are booked for the day it is.
LEMMA PaidStep ==
    DraftTypeOK /\ PaidByNow /\ [DraftNext]_draftVars => PaidByNow'
  <1> SUFFICES ASSUME DraftTypeOK, PaidByNow, [DraftNext]_draftVars
               PROVE  PaidByNow'
    OBVIOUS
  <1>1. CASE UNCHANGED draftVars
    BY <1>1 DEF draftVars, PaidByNow
  <1>2. ASSUME Midnight
        PROVE  PaidByNow'
    <2>1. \A k \in Draft : draft[k].paid \in Nat
      BY DraftAssumption DEF DraftTypeOK, Request
    <2>2. today \in Nat
      BY DraftAssumption DEF DraftTypeOK
    <2> QED
      BY <1>2, <2>1, <2>2 DEF Midnight, PaidByNow
  <1>3. ASSUME NEW i \in Slot, WritePage(i)
        PROVE  PaidByNow'
    BY <1>3 DEF WritePage, PaidByNow
  <1>4. ASSUME NEW k \in Draft, BeginDraft(k)
        PROVE  PaidByNow'
    <2>1. /\ draft'[k].paid = draft[k].paid
          /\ \A q \in Draft \ {k} : draft'[q] = draft[q]
      BY <1>4, BeginKept
    <2> QED
      BY <1>4, <2>1 DEF BeginDraft, PaidByNow
  <1>5. ASSUME NEW k \in Draft, Consume(k)
        PROVE  PaidByNow'
    <2>1. PICK next \in Step : Pay(k, next)
      BY <1>5, ConsumeCases
    <2>2. /\ draft'[k].paid = today
          /\ \A q \in Draft \ {k} : draft'[q] = draft[q]
      BY <2>1, PayKept
    <2>3. today \in Nat /\ today' = today
      BY <1>5, DraftAssumption DEF Consume, DraftTypeOK
    <2> QED
      BY <2>2, <2>3 DEF PaidByNow
  <1>6. ASSUME NEW k \in Draft, CallModel(k)
        PROVE  PaidByNow'
    <2>1. PICK next \in Step : draft' = [draft EXCEPT ![k].step = next]
      BY <1>6, CallCases
    <2>2. /\ draft'[k].paid = draft[k].paid
          /\ \A q \in Draft \ {k} : draft'[q] = draft[q]
      BY <2>1, StepKept
    <2> QED
      BY <1>6, <2>2 DEF CallModel, PaidByNow
  <1>7. ASSUME NEW k \in Draft, PickSlug(k)
        PROVE  PaidByNow'
    <2>1. /\ draft'[k].paid = draft[k].paid
          /\ \A q \in Draft \ {k} : draft'[q] = draft[q]
      BY <1>7, PickKept
    <2> QED
      BY <1>7, <2>1 DEF PickSlug, PaidByNow
  <1>8. ASSUME NEW k \in Draft, SaveDraft(k)
        PROVE  PaidByNow'
    <2>1. draft' = [draft EXCEPT ![k].step = "done"] /\ "done" \in Step
      BY <1>8 DEF SaveDraft, Step
    <2>2. /\ draft'[k].paid = draft[k].paid
          /\ \A q \in Draft \ {k} : draft'[q] = draft[q]
      BY <2>1, StepKept
    <2> QED
      BY <1>8, <2>2 DEF SaveDraft, PaidByNow
  <1> QED BY <1>1, <1>2, <1>3, <1>4, <1>5, <1>6, <1>7, <1>8
       DEF DraftNext

\* The model is called within the cap of the day, but for calls that were paid for
\* the day before, however many requests overlap.
THEOREM CapHolds == DraftSpec => []CallsWithinCap
  <1>1. DraftInit => PaidByNow /\ CallsAreBooked
    <2> SUFFICES ASSUME DraftInit
                 PROVE  PaidByNow /\ CallsAreBooked
      OBVIOUS
    <2>1. \A d \in 0..Days : Booked(d) = {}
      BY DEF DraftInit, Booked
    <2>2. PaidByNow
      BY DEF DraftInit, PaidByNow
    <2>3. ASSUME NEW d \in 0..Days
          PROVE  /\ calls[d] = 0 /\ used[d] = 0 /\ overnight[d] = 0
                 /\ Cardinality(Booked(d)) = 0
      BY <2>1, FS_EmptySet DEF DraftInit
    <2> QED
      BY <2>2, <2>3, DraftAssumption DEF CallsAreBooked
  <1>2. DraftTypeOK /\ PaidByNow /\ CallsAreBooked /\ [DraftNext]_draftVars
            => (PaidByNow /\ CallsAreBooked)'
    BY CallsStep, PaidStep
  <1>3. DraftTypeOK /\ CallsAreBooked => CallsWithinCap
    <2> SUFFICES ASSUME DraftTypeOK, CallsAreBooked, NEW d \in 0..Days
                 PROVE  calls[d] <= Cap + overnight[d]
      BY DEF CallsWithinCap
    <2>1. calls[d] \in Nat /\ overnight[d] \in Nat /\ Cardinality(Booked(d)) \in Nat
              /\ Cap \in Nat
      BY NumbersTyped, BookedIsFinite, DraftAssumption
    <2> QED
      BY <2>1 DEF CallsAreBooked
  <1> QED
    BY <1>1, <1>2, <1>3, DraftsTyped, PTL DEF DraftSpec

-----------------------------------------------------------------------------
(* Migrations.                                                             *)

\* What is there in part was there in part from the start.
PartByHand == \A f \in File : schema[f] = "part" => f \in byHand

\* A file is there before its row, and before a run writes that.
AppliedFirst ==
    /\ \A f \in recorded : schema[f] # "none"
    /\ \A r \in Runner : run[r].step = "record" => schema[run[r].at] # "none"

\* A run is at the first of its files, and those it has not are recorded.
InOrder ==
    \A r \in Runner :
        run[r].step \in {"apply", "record"} =>
            /\ run[r].at \in run[r].pending
            /\ \A g \in run[r].pending : run[r].at <= g
            /\ File \ run[r].pending \subseteq recorded

MigrateInv == MigrateTypeOK /\ PartByHand /\ AppliedFirst /\ InOrder

\* There is a first among some files.
LEMMA FirstIsFirst ==
    ASSUME NEW T \in SUBSET File, T # {}
    PROVE  First(T) \in T /\ \A g \in T : First(T) <= g
  <1> DEFINE R == OpToRel(<, Nat)
  <1>1. T \subseteq Nat
    BY MigrateConstants DEF File
  <1>2. IsWellFoundedOn(R, Nat)
    BY NatLessThanWellFounded
  <1> HIDE DEF R
  <1>3. PICK f \in T : \A g \in T : ~ (<<g, f>> \in R)
    BY <1>1, <1>2, WFMin
  <1>4. ASSUME NEW g \in T
        PROVE  f <= g
    <2>1. g \in Nat /\ f \in Nat
      BY <1>1
    <2>2. g < f => <<g, f>> \in R
      BY <2>1 DEF R, OpToRel
    <2> QED
      BY <1>3, <2>1, <2>2
  <1> QED
    BY <1>3, <1>4 DEF First

\* What a run has after it was given some files to do.
LEMMA Advanced ==
    ASSUME MigrateTypeOK, NEW r \in Runner, NEW T \in SUBSET File, Advance(r, T)
    PROVE  /\ run' \in [Runner -> [step : {"idle", "apply", "record", "stopped"},
                                   pending : SUBSET File, at : File]]
           /\ \A q \in Runner \ {r} : run'[q] = run[q]
           /\ run'[r].step \in {"apply", "stopped"}
           /\ run'[r].step = "apply" =>
                  /\ run'[r].pending = T
                  /\ run'[r].at \in T
                  /\ \A g \in T : run'[r].at <= g
  <1>1. CASE T = {}
    <2>1. run' = [run EXCEPT ![r] = [step |-> "stopped", pending |-> {}, at |-> 1]]
      BY <1>1 DEF Advance
    <2>2. 1 \in File
      BY MigrateConstants DEF File
    <2> QED
      BY <2>1, <2>2 DEF MigrateTypeOK
  <1>2. CASE T # {}
    <2>1. run' = [run EXCEPT ![r] = [step |-> "apply", pending |-> T, at |-> First(T)]]
      BY <1>2 DEF Advance
    <2>2. First(T) \in T /\ \A g \in T : First(T) <= g
      BY <1>2, FirstIsFirst
    <2> QED
      BY <2>1, <2>2 DEF MigrateTypeOK
  <1> QED
    BY <1>1, <1>2

LEMMA Stopped ==
    ASSUME MigrateTypeOK, NEW r \in Runner, Stop(r)
    PROVE  /\ run' \in [Runner -> [step : {"idle", "apply", "record", "stopped"},
                                   pending : SUBSET File, at : File]]
           /\ \A q \in Runner \ {r} : run'[q] = run[q]
           /\ run'[r].step = "stopped"
  BY DEF MigrateTypeOK, Stop

\* A file that is carried out is there afterwards, and was not there in part if it
\* is whole.
LEMMA Carried ==
    ASSUME MigrateTypeOK, NEW f \in File,
           \/ schema' = [schema EXCEPT ![f] = IF @ = "none" THEN "whole" ELSE @]
           \/ schema' = schema
    PROVE  /\ schema' \in [File -> {"none", "part", "whole"}]
           /\ \A g \in File : schema'[g] = schema[g] \/ schema'[g] = "whole"
  BY DEF MigrateTypeOK

\* A run that stops claims nothing; one that goes on is at the next of its files.
LEMMA MigrateStep ==
    MigrateInv /\ [MigrateNext]_migrateVars => MigrateInv'
  <1> SUFFICES ASSUME MigrateInv, [MigrateNext]_migrateVars
               PROVE  MigrateInv'
    OBVIOUS
  <1>1. CASE UNCHANGED migrateVars
    BY <1>1 DEF migrateVars, MigrateInv, MigrateTypeOK, PartByHand, AppliedFirst,
       InOrder
  <1>2. ASSUME NEW r \in Runner, StartRun(r)
        PROVE  MigrateInv'
    <2>1. PICK known \in {recorded, {}} : Advance(r, File \ known)
      BY <1>2 DEF StartRun
    <2>2. UNCHANGED <<schema, recorded, byHand>> /\ known \subseteq recorded
      BY <1>2 DEF StartRun
    <2>3. /\ run' \in [Runner -> [step : {"idle", "apply", "record", "stopped"},
                                   pending : SUBSET File, at : File]]
          /\ \A q \in Runner \ {r} : run'[q] = run[q]
          /\ run'[r].step \in {"apply", "stopped"}
          /\ run'[r].step = "apply" =>
                 /\ run'[r].pending = File \ known
                 /\ run'[r].at \in File \ known
                 /\ \A g \in File \ known : run'[r].at <= g
      BY <2>1, Advanced DEF MigrateInv
    <2>4. MigrateTypeOK' /\ PartByHand'
      BY <2>2, <2>3 DEF MigrateInv, MigrateTypeOK, PartByHand
    <2>5. AppliedFirst'
      BY <2>2, <2>3 DEF MigrateInv, MigrateTypeOK, AppliedFirst
    <2>6. InOrder'
      BY <2>2, <2>3 DEF MigrateInv, MigrateTypeOK, InOrder
    <2> QED
      BY <2>4, <2>5, <2>6 DEF MigrateInv
  <1>3. ASSUME NEW r \in Runner, ApplyFile(r)
        PROVE  MigrateInv'
    <2>1. UNCHANGED <<recorded, byHand>> /\ run[r].step = "apply" /\ run[r].at \in File
      BY <1>3 DEF ApplyFile, MigrateInv, MigrateTypeOK
    <2>2. /\ schema' \in [File -> {"none", "part", "whole"}]
          /\ \A g \in File : schema'[g] = schema[g] \/ schema'[g] = "whole"
      BY <1>3, <2>1, Carried DEF ApplyFile, MigrateInv
    <2>3. schema'[run[r].at] # "none"
      BY <1>3, <2>1 DEF ApplyFile, MigrateInv, MigrateTypeOK
    <2>4. /\ run' \in [Runner -> [step : {"idle", "apply", "record", "stopped"},
                                   pending : SUBSET File, at : File]]
          /\ \A q \in Runner \ {r} : run'[q] = run[q]
          /\ run'[r].step = "record" /\ run'[r].at = run[r].at
          /\ run'[r].pending = run[r].pending
      BY <1>3 DEF ApplyFile, MigrateInv, MigrateTypeOK
    <2>5. MigrateTypeOK' /\ PartByHand'
      BY <2>1, <2>2, <2>3, <2>4 DEF MigrateInv, MigrateTypeOK, PartByHand
    <2>6. AppliedFirst'
      BY <2>1, <2>2, <2>3, <2>4 DEF MigrateInv, MigrateTypeOK, AppliedFirst
    <2>7. InOrder'
      BY <2>1, <2>2, <2>3, <2>4 DEF MigrateInv, MigrateTypeOK, InOrder
    <2> QED
      BY <2>5, <2>6, <2>7 DEF MigrateInv
  <1>4. ASSUME NEW r \in Runner, ApplyFails(r)
        PROVE  MigrateInv'
    <2>1. UNCHANGED <<recorded, byHand>> /\ run[r].at \in File
      BY <1>4 DEF ApplyFails, MigrateInv, MigrateTypeOK
    <2>2. /\ schema' \in [File -> {"none", "part", "whole"}]
          /\ \A g \in File : schema'[g] = schema[g] \/ schema'[g] = "whole"
      BY <1>4, <2>1, Carried DEF ApplyFails, MigrateInv
    <2>3. /\ run' \in [Runner -> [step : {"idle", "apply", "record", "stopped"},
                                   pending : SUBSET File, at : File]]
          /\ \A q \in Runner \ {r} : run'[q] = run[q]
          /\ run'[r].step = "stopped"
      BY <1>4, Stopped DEF ApplyFails, MigrateInv
    <2>4. MigrateTypeOK' /\ PartByHand'
      BY <2>1, <2>2, <2>3 DEF MigrateInv, MigrateTypeOK, PartByHand
    <2>5. AppliedFirst'
      BY <2>1, <2>2, <2>3 DEF MigrateInv, MigrateTypeOK, AppliedFirst
    <2>6. InOrder'
      BY <2>1, <2>2, <2>3 DEF MigrateInv, MigrateTypeOK, InOrder
    <2> QED
      BY <2>4, <2>5, <2>6 DEF MigrateInv
  <1>5. ASSUME NEW r \in Runner, RecordFile(r)
        PROVE  MigrateInv'
    <2>1. /\ UNCHANGED <<schema, byHand>> /\ run[r].step = "record" /\ run[r].at \in File
          /\ recorded' = recorded \cup {run[r].at} /\ run[r].pending \in SUBSET File
      BY <1>5 DEF RecordFile, MigrateInv, MigrateTypeOK
    <2>2. /\ run' \in [Runner -> [step : {"idle", "apply", "record", "stopped"},
                                   pending : SUBSET File, at : File]]
          /\ \A q \in Runner \ {r} : run'[q] = run[q]
          /\ run'[r].step \in {"apply", "stopped"}
          /\ run'[r].step = "apply" =>
                 /\ run'[r].pending = run[r].pending \ {run[r].at}
                 /\ run'[r].at \in run'[r].pending
                 /\ \A g \in run'[r].pending : run'[r].at <= g
      <3>1. CASE run[r].at \in recorded
        BY <1>5, <3>1, Stopped DEF RecordFile, MigrateInv
      <3>2. CASE run[r].at \notin recorded
        <4>1. Advance(r, run[r].pending \ {run[r].at})
          BY <1>5, <3>2 DEF RecordFile
        <4>2. run[r].pending \ {run[r].at} \in SUBSET File
          BY <2>1
        <4> QED
          BY <4>1, <4>2, Advanced DEF MigrateInv
      <3> QED
        BY <3>1, <3>2
    <2>3. MigrateTypeOK' /\ PartByHand'
      BY <2>1, <2>2 DEF MigrateInv, MigrateTypeOK, PartByHand
    <2>4. AppliedFirst'
      BY <2>1, <2>2 DEF MigrateInv, MigrateTypeOK, AppliedFirst
    <2>5. InOrder'
      BY <2>1, <2>2 DEF MigrateInv, MigrateTypeOK, InOrder
    <2> QED
      BY <2>3, <2>4, <2>5 DEF MigrateInv
  <1>6. ASSUME NEW r \in Runner, DieBeforeRecord(r)
        PROVE  MigrateInv'
    <2>1. UNCHANGED <<schema, recorded, byHand>>
      BY <1>6 DEF DieBeforeRecord
    <2>2. /\ run' \in [Runner -> [step : {"idle", "apply", "record", "stopped"},
                                   pending : SUBSET File, at : File]]
          /\ \A q \in Runner \ {r} : run'[q] = run[q]
          /\ run'[r].step = "stopped"
      BY <1>6, Stopped DEF DieBeforeRecord, MigrateInv
    <2>3. MigrateTypeOK' /\ PartByHand'
      BY <2>1, <2>2 DEF MigrateInv, MigrateTypeOK, PartByHand
    <2>4. AppliedFirst'
      BY <2>1, <2>2 DEF MigrateInv, MigrateTypeOK, AppliedFirst
    <2>5. InOrder'
      BY <2>1, <2>2 DEF MigrateInv, MigrateTypeOK, InOrder
    <2> QED
      BY <2>3, <2>4, <2>5 DEF MigrateInv
  <1> QED BY <1>1, <1>2, <1>3, <1>4, <1>5, <1>6
       DEF MigrateNext

LEMMA MigrateInvHolds == MigrateSpec => []MigrateInv
  <1>1. MigrateInit => MigrateInv
    <2>1. 1 \in File
      BY MigrateConstants DEF File
    <2> QED
      BY <2>1 DEF MigrateInit, MigrateInv, MigrateTypeOK, PartByHand, AppliedFirst, InOrder
  <1> QED
    BY <1>1, MigrateStep, PTL DEF MigrateSpec

\* Every variable of Migrate keeps its type.
THEOREM MigrationsTyped == MigrateSpec => []MigrateTypeOK
  <1>1. MigrateInv => MigrateTypeOK
    BY DEF MigrateInv
  <1> QED
    BY <1>1, MigrateInvHolds, PTL

\* A migration that is recorded is in the database, and those before a file come
\* before it, however the runs die and overlap.
THEOREM MigrationsAreWhole == MigrateSpec => []RecordedIsWhole
  <1>1. MigrateInv => RecordedIsWhole
    <2> SUFFICES ASSUME MigrateInv
                 PROVE  RecordedIsWhole
      OBVIOUS
    <2>1. ASSUME NEW f \in recorded
          PROVE  schema[f] = "whole" \/ (schema[f] = "part" /\ f \in byHand)
      BY DEF MigrateInv, MigrateTypeOK, PartByHand, AppliedFirst
    <2>2. ASSUME NEW r \in Runner, NEW f \in File,
                 run[r].step \in {"apply", "record"}, f < run[r].at
          PROVE  f \in recorded
      <3>1. f \in Nat /\ run[r].at \in Nat
        BY MigrateConstants DEF MigrateInv, MigrateTypeOK, File
      <3>2. f \notin run[r].pending
        BY <2>2, <3>1 DEF MigrateInv, InOrder
      <3> QED
        BY <2>2, <3>2 DEF MigrateInv, InOrder
    <2> QED
      BY <2>1, <2>2 DEF RecordedIsWhole
  <1> QED
    BY <1>1, MigrateInvHolds, PTL

-----------------------------------------------------------------------------
(* The line diff.  What its loops and its table compute is proved by        *)
(* induction on how far they are, with the induction over a set of numbers. *)

\* Induction with the property as a set, which the provers can instantiate.
LEMMA SetInduction ==
    ASSUME NEW S, 0 \in S, \A n \in Nat : n \in S => n + 1 \in S
    PROVE  Nat \subseteq S
  <1> SUFFICES ASSUME Nat \ S # {} PROVE FALSE
    OBVIOUS
  <1> DEFINE T == Nat \ S
             R == OpToRel(<, Nat)
  <1>1. PICK x \in T : \A y \in T : <<y, x>> \notin R
    <2>1. IsWellFoundedOn(R, Nat)
      BY NatLessThanWellFounded
    <2>2. T \subseteq Nat /\ T # {}
      OBVIOUS
    <2> HIDE DEF T, R
    <2> QED
      BY <2>1, <2>2, WFMin
  <1>2. x # 0 /\ x \in Nat
    OBVIOUS
  <1>3. x - 1 \in Nat
    BY <1>2
  <1>4. <<x - 1, x>> \in R
    BY <1>2, <1>3 DEF OpToRel
  <1>5. x - 1 \in S
    BY <1>1, <1>3, <1>4
  <1>6. (x - 1) + 1 = x
    BY <1>2
  <1> QED
    BY <1>2, <1>3, <1>5, <1>6

\* A loop: f[<<t, k>>] is what the k-th turn makes of t.
Loop(g, n, base, f) ==
    g[0] = base /\ \A k \in 1..n : g[k] = f[<<g[k - 1], k>>]

\* Such a loop can be run, whatever its turns do.
LEMMA LoopExists ==
    ASSUME NEW n \in Nat, NEW T, NEW base \in T, NEW f,
           \A t \in T, k \in 1..n : f[<<t, k>>] \in T
    PROVE  \E g \in [0..n -> T] : Loop(g, n, base, f)
  <1> DEFINE S == {m \in Nat : m <= n => \E g \in [0..m -> T] : Loop(g, m, base, f)}
  <1>1. 0 \in S
    <2>1. [k \in 0..0 |-> base] \in [0..0 -> T]
      OBVIOUS
    <2>2. Loop([k \in 0..0 |-> base], 0, base, f)
      BY DEF Loop
    <2> QED
      BY <2>1, <2>2
  <1>2. ASSUME NEW m \in Nat, m \in S
        PROVE  m + 1 \in S
    <2> SUFFICES ASSUME m + 1 <= n
                 PROVE  \E g \in [0..(m + 1) -> T] : Loop(g, m + 1, base, f)
      OBVIOUS
    <2>1. PICK g \in [0..m -> T] : Loop(g, m, base, f)
      BY <1>2
    <2> DEFINE h == [k \in 0..(m + 1) |-> IF k = m + 1 THEN f[<<g[m], m + 1>>] ELSE g[k]]
    <2>2. h \in [0..(m + 1) -> T]
      OBVIOUS
    <2>3. Loop(h, m + 1, base, f)
      <3>1. h[0] = base
        BY <2>1 DEF Loop
      <3>2. ASSUME NEW k \in 1..(m + 1)
            PROVE  h[k] = f[<<h[k - 1], k>>]
        <4>1. CASE k = m + 1
          BY <4>1
        <4>2. CASE k # m + 1
          <5>1. k \in 1..m /\ h[k] = g[k] /\ h[k - 1] = g[k - 1]
            BY <4>2
          <5> QED
            BY <2>1, <5>1 DEF Loop
        <4> QED
          BY <4>1, <4>2
      <3> QED
        BY <3>1, <3>2 DEF Loop
    <2> HIDE DEF h
    <2> QED
      BY <2>2, <2>3
  <1> HIDE DEF S
  <1>3. n \in S
    BY <1>1, <1>2, SetInduction
  <1> QED
    BY <1>3 DEF S

\* Two loops that start alike and go on alike.
Alike(g, h, n) ==
    /\ h[0] = g[0]
    /\ \A k \in 1..n : h[k - 1] = g[k - 1] => h[k] = g[k]

\* Two that are alike are the same.
LEMMA SameLoop ==
    ASSUME NEW n \in Nat, NEW g, NEW h, Alike(g, h, n)
    PROVE  \A k \in 0..n : h[k] = g[k]
  <1> USE DEF Alike
  <1> DEFINE S == {m \in Nat : m <= n => h[m] = g[m]}
  <1>1. 0 \in S
    OBVIOUS
  <1>2. ASSUME NEW m \in Nat, m \in S, m + 1 <= n
        PROVE  h[m + 1] = g[m + 1]
    <2>1. m + 1 \in 1..n /\ (m + 1) - 1 = m
      BY <1>2
    <2> QED
      BY <1>2, <2>1
  <1>3. \A m \in Nat : m \in S => m + 1 \in S
    BY <1>2
  <1> HIDE DEF S
  <1>4. Nat \subseteq S
    BY <1>1, <1>3, SetInduction
  <1> QED
    BY <1>4 DEF S

\* The loop of Side.
SideTurns(g, kind, s) ==
    /\ g[0] = <<>>
    /\ \A k \in 1..Len(s) :
          g[k] = IF s[k].kind \in {"eq", kind} THEN Append(g[k - 1], s[k].line)
                 ELSE g[k - 1]

\* Side is what its loop gives.
LEMMA SideLoop ==
    ASSUME NEW kind, NEW s \in Seq(Op)
    PROVE  \E g \in [0..Len(s) -> Seq(Line)] :
             SideTurns(g, kind, s) /\ Side(kind, s) = g[Len(s)]
  <1> DEFINE Turn(t, k) == IF s[k].kind \in {"eq", kind} THEN Append(t, s[k].line) ELSE t
             f == [x \in Seq(Line) \X (1..Len(s)) |-> Turn(x[1], x[2])]
  <1>1. \A t \in Seq(Line), k \in 1..Len(s) : Turn(t, k) \in Seq(Line)
    <2> SUFFICES ASSUME NEW t \in Seq(Line), NEW k \in 1..Len(s)
                 PROVE  Turn(t, k) \in Seq(Line)
      OBVIOUS
    <2>1. s[k] \in Op
      OBVIOUS
    <2>2. s[k].line \in Line
      BY <2>1 DEF Op
    <2> QED
      BY <2>2
  <1> HIDE DEF Turn
  <1>2. \A t \in Seq(Line), k \in 1..Len(s) : f[<<t, k>>] = Turn(t, k)
    OBVIOUS
  <1>3. PICK g \in [0..Len(s) -> Seq(Line)] : Loop(g, Len(s), <<>>, f)
    <2> HIDE DEF f
    <2>1. <<>> \in Seq(Line) /\ Len(s) \in Nat
      OBVIOUS
    <2>2. \A t \in Seq(Line), k \in 1..Len(s) : f[<<t, k>>] \in Seq(Line)
      BY <1>1, <1>2
    <2> QED
      BY <2>1, <2>2, LoopExists
  <1> HIDE DEF f
  <1>4. g[0] = <<>> /\ \A k \in 1..Len(s) : g[k] = Turn(g[k - 1], k)
    <2>1. \A k \in 1..Len(s) : k - 1 \in 0..Len(s)
      OBVIOUS
    <2>2. \A k \in 1..Len(s) : g[k - 1] \in Seq(Line)
      BY <1>3, <2>1
    <2>3. g[0] = <<>> /\ \A k \in 1..Len(s) : g[k] = f[<<g[k - 1], k>>]
      BY <1>3 DEF Loop
    <2> QED
      BY <1>2, <2>2, <2>3
  <1> DEFINE Rule(h, k) == IF k = 0 THEN <<>> ELSE Turn(h[k - 1], k)
             lines == CHOOSE h : h = [k \in 0..Len(s) |-> Rule(h, k)]
  <1>5. g = [k \in 0..Len(s) |-> Rule(g, k)]
    <2>1. \A k \in 0..Len(s) : g[k] = Rule(g, k)
      BY <1>4
    <2> HIDE DEF Rule
    <2> QED
      BY <2>1
  <1>6. lines = [k \in 0..Len(s) |-> Rule(lines, k)]
    <2> HIDE DEF Rule
    <2> QED
      BY <1>5, Zenon
  <1>7. \A n \in 0..Len(s) : lines[n] = g[n]
    <2> HIDE DEF lines
    <2>1. \A k \in 0..Len(s) : lines[k] = Rule(lines, k)
      <3> HIDE DEF Rule
      <3> QED
        BY <1>6, Zenon
    <2>2. lines[0] = g[0]
      BY <1>4, <2>1
    <2>3. \A k \in 1..Len(s) : lines[k] = Turn(lines[k - 1], k)
      BY <2>1
    <2>4. Len(s) \in Nat
      OBVIOUS
    <2> QED
      <3>1. Alike(g, lines, Len(s))
        BY <1>4, <2>2, <2>3 DEF Alike
      <3> QED
        BY <2>4, <3>1, SameLoop
  <1>8. Side(kind, s) = lines[Len(s)]
    BY DEF Side, Turn
  <1> HIDE DEF lines
  <1>9. Side(kind, s) = g[Len(s)]
    BY <1>7, <1>8
  <1> QED
    BY <1>4, <1>9 DEF Turn, SideTurns

\* A side of a diff is a sequence of lines.
LEMMA SideType ==
    ASSUME NEW kind, NEW s \in Seq(Op)
    PROVE  Side(kind, s) \in Seq(Line) /\ Len(Side(kind, s)) \in Nat
  <1>1. PICK g \in [0..Len(s) -> Seq(Line)] : Side(kind, s) = g[Len(s)]
    BY SideLoop
  <1>2. Len(s) \in 0..Len(s)
    OBVIOUS
  <1> QED
    BY <1>1, <1>2

\* No operations, no lines.
LEMMA SideOfNothing ==
    ASSUME NEW kind
    PROVE  Side(kind, <<>>) = <<>>
  <1>1. <<>> \in Seq(Op) /\ Len(<<>>) = 0
    OBVIOUS
  <1>2. PICK g : SideTurns(g, kind, <<>>) /\ Side(kind, <<>>) = g[Len(<<>>)]
    BY <1>1, SideLoop
  <1> QED
    BY <1>1, <1>2 DEF SideTurns

\* What is appended to the second of two sequences.
LEMMA ConcatOfAppend ==
    ASSUME NEW T, NEW s \in Seq(T), NEW t \in Seq(T), NEW e \in T
    PROVE  s \o Append(t, e) = Append(s \o t, e)
  <1>1. <<e>> \in Seq(T) /\ s \o t \in Seq(T)
    BY ConcatProperties
  <1>2. Append(t, e) = t \o <<e>> /\ Append(s \o t, e) = (s \o t) \o <<e>>
    BY <1>1, AppendIsConcat
  <1> QED
    BY <1>1, <1>2, ConcatAssociative

\* The last operation adds its line to the sides that have it.
LEMMA SideOfAppend ==
    ASSUME NEW kind, NEW s \in Seq(Op), NEW op \in Op
    PROVE  Side(kind, Append(s, op)) = IF op.kind \in {"eq", kind}
                                       THEN Append(Side(kind, s), op.line)
                                       ELSE Side(kind, s)
  <1> DEFINE t == Append(s, op)
             n == Len(s)
  <1>1. /\ n \in Nat /\ t \in Seq(Op) /\ Len(t) = n + 1
        /\ t[n + 1] = op
        /\ \A k \in 1..n : t[k] = s[k]
    BY AppendProperties
  <1>2. PICK g \in [0..n -> Seq(Line)] :
             SideTurns(g, kind, s) /\ Side(kind, s) = g[n]
    BY SideLoop
  <1> HIDE DEF t
  <1>3. PICK h \in [0..Len(t) -> Seq(Line)] :
             SideTurns(h, kind, t) /\ Side(kind, t) = h[Len(t)]
    BY <1>1, SideLoop
  <1>4. \A k \in 1..n : k \in 1..Len(t)
    BY <1>1
  <1> HIDE DEF n
  <1>5. \A k \in 0..n : h[k] = g[k]
    <2>1. Alike(g, h, n)
      BY <1>1, <1>2, <1>3, <1>4 DEF Alike, SideTurns, n
    <2>2. n \in Nat
      BY <1>1
    <2> QED
      BY <2>1, <2>2, SameLoop
  <1>6. h[n] = g[n] /\ n + 1 \in 1..Len(t) /\ (n + 1) - 1 = n
    BY <1>1, <1>5
  <1> QED
    BY <1>1, <1>2, <1>3, <1>6 DEF t, SideTurns

\* The lines of a diff in two parts are those of the parts.
LEMMA SideOfConcat ==
    ASSUME NEW kind, NEW s \in Seq(Op), NEW t \in Seq(Op)
    PROVE  Side(kind, s \o t) = Side(kind, s) \o Side(kind, t)
  <1> DEFINE S == {n \in Nat : \A u \in Seq(Op) :
                     Len(u) = n => Side(kind, s \o u) = Side(kind, s) \o Side(kind, u)}
  <1>1. 0 \in S
    <2> SUFFICES ASSUME NEW u \in Seq(Op), Len(u) = 0
                 PROVE  Side(kind, s \o u) = Side(kind, s) \o Side(kind, u)
      OBVIOUS
    <2>1. u = <<>>
      BY EmptySeq
    <2> QED
      BY <2>1, SideOfNothing, SideType, ConcatEmptySeq
  <1>2. ASSUME NEW n \in Nat, n \in S
        PROVE  n + 1 \in S
    <2> SUFFICES ASSUME NEW u \in Seq(Op), Len(u) = n + 1
                 PROVE  Side(kind, s \o u) = Side(kind, s) \o Side(kind, u)
      OBVIOUS
    <2>1. PICK v \in Seq(Op), op \in Op : u = Append(v, op)
      <3>1. u # <<>>
        OBVIOUS
      <3> QED
        BY <3>1, SequenceEmptyOrAppend
    <2>2. Len(v) = n
      BY <2>1, AppendProperties
    <2>3. Side(kind, s \o v) = Side(kind, s) \o Side(kind, v)
      BY <1>2, <2>2
    <2>4. s \o u = Append(s \o v, op) /\ s \o v \in Seq(Op)
      BY <2>1, ConcatProperties, ConcatOfAppend
    <2>5. op.line \in Line
      BY DEF Op
    <2>6. CASE op.kind \in {"eq", kind}
      <3>1. Side(kind, u) = Append(Side(kind, v), op.line)
        BY <2>1, <2>6, SideOfAppend
      <3>2. Side(kind, s \o u) = Append(Side(kind, s) \o Side(kind, v), op.line)
        BY <2>3, <2>4, <2>6, SideOfAppend
      <3>3. Side(kind, s) \in Seq(Line) /\ Side(kind, v) \in Seq(Line)
        BY SideType
      <3>4. Append(Side(kind, s) \o Side(kind, v), op.line)
              = Side(kind, s) \o Append(Side(kind, v), op.line)
        <4>1. \A a, b \in Seq(Line), e \in Line : a \o Append(b, e) = Append(a \o b, e)
          BY ConcatOfAppend
        <4> QED
          BY <2>5, <3>3, <4>1
      <3> QED
        BY <3>1, <3>2, <3>4
    <2>7. CASE op.kind \notin {"eq", kind}
      <3>1. Side(kind, u) = Side(kind, v)
        BY <2>1, <2>7, SideOfAppend
      <3>2. Side(kind, Append(s \o v, op)) = Side(kind, s \o v)
        BY <2>4, <2>7, SideOfAppend
      <3> QED
        BY <2>3, <2>4, <3>1, <3>2
    <2> QED
      BY <2>6, <2>7
  <1> HIDE DEF S
  <1>3. Len(t) \in S
    BY <1>1, <1>2, SetInduction
  <1> QED
    BY <1>3 DEF S

\* Where nothing changes, both texts have the same lines.
LEMMA SidesOfKept ==
    ASSUME NEW s \in Seq(Op), \A k \in 1..Len(s) : s[k].kind = "eq"
    PROVE  Old(s) = New(s)
  <1>1. PICK g \in [0..Len(s) -> Seq(Line)] :
             SideTurns(g, "del", s) /\ Side("del", s) = g[Len(s)]
    BY SideLoop
  <1>2. PICK h \in [0..Len(s) -> Seq(Line)] :
             SideTurns(h, "add", s) /\ Side("add", s) = h[Len(s)]
    BY SideLoop
  <1>3. Alike(g, h, Len(s))
    BY <1>1, <1>2 DEF Alike, SideTurns
  <1>4. Len(s) \in Nat /\ Len(s) \in 0..Len(s)
    OBVIOUS
  <1>5. \A k \in 0..Len(s) : h[k] = g[k]
    BY <1>3, <1>4, SameLoop
  <1> QED
    BY <1>1, <1>2, <1>4, <1>5 DEF Old, New

-----------------------------------------------------------------------------
(* The table of common subsequences.                                       *)

Places(a, b) == (0..Len(a)) \X (0..Len(b))

\* How a place of the table follows from those after it.
TableRule(a, b, t, i, j) ==
    IF i = Len(a) \/ j = Len(b) THEN 0
    ELSE IF a[i + 1] = b[j + 1] THEN t[<<i + 1, j + 1>>] + 1
    ELSE IF t[<<i + 1, j>>] >= t[<<i, j + 1>>] THEN t[<<i + 1, j>>]
    ELSE t[<<i, j + 1>>]

\* t is right for the places from which at most n lines are left.
RightUpTo(a, b, t, n) ==
    \A i \in 0..Len(a), j \in 0..Len(b) :
        (Len(a) - i) + (Len(b) - j) <= n => t[<<i, j>>] = TableRule(a, b, t, i, j)

\* There is a table that is right for the places near the ends of both texts:
\* the rule refers to places that have fewer lines left.
LEMMA TableExists ==
    ASSUME NEW a \in Seq(Line), NEW b \in Seq(Line), NEW n \in Nat
    PROVE  \E t \in [Places(a, b) -> Nat] : RightUpTo(a, b, t, n)
  <1> DEFINE P == Places(a, b)
             S == {m \in Nat : \E t \in [P -> Nat] : RightUpTo(a, b, t, m)}
  <1>1. Len(a) \in Nat /\ Len(b) \in Nat
    OBVIOUS
  <1>2. 0 \in S
    <2> DEFINE t == [p \in P |-> 0]
    <2>1. t \in [P -> Nat]
      OBVIOUS
    <2>2. \A i \in 0..Len(a), j \in 0..Len(b) : t[<<i, j>>] = 0
      BY DEF Places
    <2> HIDE DEF t
    <2>3. RightUpTo(a, b, t, 0)
      <3> SUFFICES ASSUME NEW i \in 0..Len(a), NEW j \in 0..Len(b),
                          (Len(a) - i) + (Len(b) - j) <= 0
                   PROVE  t[<<i, j>>] = TableRule(a, b, t, i, j)
        BY DEF RightUpTo
      <3>1. i = Len(a)
        BY <1>1
      <3> QED
        BY <2>2, <3>1 DEF TableRule
    <2> QED
      BY <2>1, <2>3
  <1>3. ASSUME NEW m \in Nat, m \in S
        PROVE  m + 1 \in S
    <2>1. PICK t \in [P -> Nat] : RightUpTo(a, b, t, m)
      BY <1>3
    <2> DEFINE Left(i, j) == (Len(a) - i) + (Len(b) - j)
               u == [p \in P |-> IF Left(p[1], p[2]) = m + 1
                                 THEN TableRule(a, b, t, p[1], p[2])
                                 ELSE t[p]]
    <2>2. \A i \in 0..Len(a), j \in 0..Len(b) : <<i, j>> \in P
      BY DEF Places
    <2>3. \A i \in 0..Len(a), j \in 0..Len(b) :
            u[<<i, j>>] = IF Left(i, j) = m + 1 THEN TableRule(a, b, t, i, j) ELSE t[<<i, j>>]
      BY <2>2
    <2>4. \A i \in 0..Len(a), j \in 0..Len(b) : TableRule(a, b, t, i, j) \in Nat
      <3> SUFFICES ASSUME NEW i \in 0..Len(a), NEW j \in 0..Len(b)
                   PROVE  TableRule(a, b, t, i, j) \in Nat
        OBVIOUS
      <3>1. CASE i = Len(a) \/ j = Len(b)
        BY <3>1 DEF TableRule
      <3>2. CASE i # Len(a) /\ j # Len(b)
        <4>1. i + 1 \in 0..Len(a) /\ j + 1 \in 0..Len(b)
          BY <1>1, <3>2
        <4>2. t[<<i + 1, j + 1>>] \in Nat /\ t[<<i + 1, j>>] \in Nat /\ t[<<i, j + 1>>] \in Nat
          BY <2>2, <4>1
        <4> QED
          BY <3>2, <4>2 DEF TableRule
      <3> QED
        BY <3>1, <3>2
    <2>5. u \in [P -> Nat]
      <3>1. \A p \in P : p[1] \in 0..Len(a) /\ p[2] \in 0..Len(b)
        BY DEF Places
      <3> QED
        BY <2>4, <3>1
    <2> HIDE DEF u, P
    <2>6. RightUpTo(a, b, u, m + 1)
      <3> SUFFICES ASSUME NEW i \in 0..Len(a), NEW j \in 0..Len(b), Left(i, j) <= m + 1
                   PROVE  u[<<i, j>>] = TableRule(a, b, u, i, j)
        BY DEF RightUpTo
      <3>1. TableRule(a, b, u, i, j) = TableRule(a, b, t, i, j)
        <4>1. CASE i = Len(a) \/ j = Len(b)
          BY <4>1 DEF TableRule
        <4>2. CASE i # Len(a) /\ j # Len(b)
          <5>1. i + 1 \in 0..Len(a) /\ j + 1 \in 0..Len(b)
            BY <1>1, <4>2
          <5>2. /\ Left(i + 1, j + 1) # m + 1
                /\ Left(i + 1, j) # m + 1
                /\ Left(i, j + 1) # m + 1
            BY <1>1
          <5>3. /\ u[<<i + 1, j + 1>>] = t[<<i + 1, j + 1>>]
                /\ u[<<i + 1, j>>] = t[<<i + 1, j>>]
                /\ u[<<i, j + 1>>] = t[<<i, j + 1>>]
            BY <2>3, <5>1, <5>2
          <5> QED
            BY <4>2, <5>3 DEF TableRule
        <4> QED
          BY <4>1, <4>2
      <3>2. CASE Left(i, j) = m + 1
        BY <2>3, <3>1, <3>2
      <3>3. CASE Left(i, j) # m + 1
        <4>1. Left(i, j) <= m
          <5>1. Left(i, j) \in Int
            BY <1>1
          <5> HIDE DEF Left
          <5> QED
            BY <3>3, <5>1
        <4>2. t[<<i, j>>] = TableRule(a, b, t, i, j)
          BY <2>1, <4>1 DEF RightUpTo
        <4> QED
          BY <2>3, <3>1, <3>3, <4>2
      <3> QED
        BY <3>2, <3>3
    <2> QED
      BY <2>5, <2>6
  <1> HIDE DEF S
  <1>4. n \in S
    BY <1>2, <1>3, SetInduction
  <1> QED
    BY <1>4 DEF S

\* The table that diffOps fills is right everywhere.
LEMMA LcsTable ==
    ASSUME NEW a \in Seq(Line), NEW b \in Seq(Line)
    PROVE  /\ Lcs(a, b) \in [Places(a, b) -> Nat]
           /\ \A i \in 0..Len(a), j \in 0..Len(b) :
                 Lcs(a, b)[<<i, j>>] = TableRule(a, b, Lcs(a, b), i, j)
  <1>1. /\ Len(a) \in Nat /\ Len(b) \in Nat
        /\ Len(a) + Len(b) \in Nat
        /\ \A i \in 0..Len(a), j \in 0..Len(b) :
              (Len(a) - i) + (Len(b) - j) <= Len(a) + Len(b)
    <2>1. Len(a) \in Nat /\ Len(b) \in Nat
      OBVIOUS
    <2> QED
      BY <2>1
  <1>2. PICK t \in [Places(a, b) -> Nat] : RightUpTo(a, b, t, Len(a) + Len(b))
    <2>1. Len(a) + Len(b) \in Nat
      BY <1>1
    <2> QED
      BY <2>1, TableExists
  <1> DEFINE Rule(h, p) ==
                IF p[1] = Len(a) \/ p[2] = Len(b) THEN 0
                ELSE IF a[p[1] + 1] = b[p[2] + 1] THEN h[<<p[1] + 1, p[2] + 1>>] + 1
                ELSE LET down == h[<<p[1] + 1, p[2]>>]
                         right == h[<<p[1], p[2] + 1>>]
                     IN  IF down >= right THEN down ELSE right
             P == (0..Len(a)) \X (0..Len(b))
             longest == CHOOSE h : h = [p \in P |-> Rule(h, p)]
  <1>3. \A h : \A i \in 0..Len(a), j \in 0..Len(b) :
          Rule(h, <<i, j>>) = TableRule(a, b, h, i, j)
    BY DEF TableRule
  <1>4. Lcs(a, b) = longest
    BY DEF Lcs
  <1> HIDE DEF Rule
  <1>5. \A p \in P : p[1] \in 0..Len(a) /\ p[2] \in 0..Len(b) /\ p = <<p[1], p[2]>>
    OBVIOUS
  <1>6. \A i \in 0..Len(a), j \in 0..Len(b) : <<i, j>> \in P
    OBVIOUS
  <1>7. t = [p \in P |-> Rule(t, p)]
    <2>1. \A i \in 0..Len(a), j \in 0..Len(b) : t[<<i, j>>] = TableRule(a, b, t, i, j)
      BY <1>1, <1>2 DEF RightUpTo
    <2>2. \A p \in P : t[p] = Rule(t, p)
      BY <1>3, <1>5, <2>1
    <2>3. t \in [P -> Nat]
      BY <1>2 DEF Places
    <2> HIDE DEF P
    <2> QED
      BY <2>2, <2>3
  <1> HIDE DEF P
  <1>8. longest = [p \in P |-> Rule(longest, p)]
    BY <1>7, Zenon
  <1> HIDE DEF longest
  <1>9. \A i \in 0..Len(a), j \in 0..Len(b) : longest[<<i, j>>] = TableRule(a, b, longest, i, j)
    <2>1. \A p \in P : longest[p] = Rule(longest, p)
      BY <1>8, Zenon
    <2> QED
      BY <1>3, <1>6, <2>1
  \* What is right is unique: by induction on what is left, longest is t.
  <1>10. \A i \in 0..Len(a), j \in 0..Len(b) : longest[<<i, j>>] = t[<<i, j>>]
    <2> DEFINE Left(i, j) == (Len(a) - i) + (Len(b) - j)
               S == {n \in Nat : \A i \in 0..Len(a), j \in 0..Len(b) :
                        Left(i, j) <= n => longest[<<i, j>>] = t[<<i, j>>]}
    <2>1. \A i \in 0..Len(a), j \in 0..Len(b) : t[<<i, j>>] = TableRule(a, b, t, i, j)
      BY <1>1, <1>2 DEF RightUpTo
    <2>2. 0 \in S
      <3> SUFFICES ASSUME NEW i \in 0..Len(a), NEW j \in 0..Len(b), Left(i, j) <= 0
                   PROVE  longest[<<i, j>>] = t[<<i, j>>]
        OBVIOUS
      <3>1. i = Len(a)
        BY <1>1
      <3> QED
        BY <1>9, <2>1, <3>1 DEF TableRule
    <2>3. ASSUME NEW n \in Nat, n \in S
          PROVE  n + 1 \in S
      <3> SUFFICES ASSUME NEW i \in 0..Len(a), NEW j \in 0..Len(b), Left(i, j) <= n + 1
                   PROVE  longest[<<i, j>>] = t[<<i, j>>]
        OBVIOUS
      <3>1. CASE i = Len(a) \/ j = Len(b)
        BY <1>9, <2>1, <3>1 DEF TableRule
      <3>2. CASE i # Len(a) /\ j # Len(b)
        <4>1. i + 1 \in 0..Len(a) /\ j + 1 \in 0..Len(b)
          BY <1>1, <3>2
        <4>2. Left(i + 1, j + 1) <= n /\ Left(i + 1, j) <= n /\ Left(i, j + 1) <= n
          BY <1>1
        <4>3. /\ longest[<<i + 1, j + 1>>] = t[<<i + 1, j + 1>>]
              /\ longest[<<i + 1, j>>] = t[<<i + 1, j>>]
              /\ longest[<<i, j + 1>>] = t[<<i, j + 1>>]
          BY <2>3, <4>1, <4>2
        <4>4. TableRule(a, b, longest, i, j) = TableRule(a, b, t, i, j)
          BY <4>3 DEF TableRule
        <4> QED
          BY <1>9, <2>1, <4>4
      <3> QED
        BY <3>1, <3>2
    <2> HIDE DEF S
    <2>4. Len(a) + Len(b) \in S
      BY <1>1, <2>2, <2>3, SetInduction
    <2> QED
      BY <1>1, <2>4 DEF S
  <1>11. longest \in [Places(a, b) -> Nat]
    <2>1. \A p \in P : longest[p] \in Nat
      <3>1. \A p \in P : t[p] \in Nat
        BY <1>2 DEF Places, P
      <3> QED
        BY <1>5, <1>10, <3>1
    <2>2. P = Places(a, b)
      BY DEF P, Places
    <2> QED
      BY <1>8, <2>1, <2>2
  <1> QED
    BY <1>4, <1>9, <1>11

-----------------------------------------------------------------------------
(* The walk.                                                               *)

\* How far the walk is: the operations say what was passed of both texts, and
\* those it kept, with what the table still promises, are the longest
\* subsequence the texts have in common.
WalkInv ==
    /\ DiffTypeOK
    /\ Old(ops) = SubSeq(before, 1, row)
    /\ New(ops) = SubSeq(after, 1, col)
    /\ Count("add") = Len(ops) - row
    /\ Count("del") = Len(ops) - col
    /\ (row + col - Len(ops)) + lcs[<<row, col>>] = lcs[<<0, 0>>]
    /\ before = after => row = col /\ \A k \in DOMAIN ops : ops[k].kind = "eq"

\* A text is a sequence of lines.
LEMMA TextsAreSeqs == TextLines \subseteq Seq(Line)
  BY DiffConstants DEF TextLines

\* One more operation.
LEMMA CountOfPush ==
    ASSUME ops \in Seq(Op), NEW kind, NEW new, NEW line, Push(new, line),
           [kind |-> new, line |-> line] \in Op
    PROVE  /\ IsFiniteSet({k \in DOMAIN ops : ops[k].kind = kind})
           /\ Count(kind) \in Nat
           /\ Count(kind)' = IF new = kind THEN Count(kind) + 1 ELSE Count(kind)
  <1> DEFINE n == Len(ops)
             K == {k \in DOMAIN ops : ops[k].kind = kind}
             L == {k \in DOMAIN ops' : ops'[k].kind = kind}
  <1>1. n \in Nat /\ DOMAIN ops = 1..n
    OBVIOUS
  <1>2. /\ DOMAIN ops' = 1..(n + 1)
        /\ ops'[n + 1] = [kind |-> new, line |-> line]
        /\ \A k \in 1..n : ops'[k] = ops[k]
    BY <1>1 DEF Push
  <1>3. IsFiniteSet(K)
    <2>1. IsFiniteSet(1..n)
      BY <1>1, FS_Interval
    <2>2. K \subseteq 1..n
      BY <1>1
    <2> QED
      BY <2>1, <2>2, FS_Subset
  <1>4. Cardinality(K) \in Nat
    BY <1>3, FS_CardinalityType
  <1>5. n + 1 \notin K
    BY <1>1
  <1>6. L = IF new = kind THEN K \cup {n + 1} ELSE K
    BY <1>1, <1>2
  <1>7. Cardinality(K \cup {n + 1}) = Cardinality(K) + 1
    <2> HIDE DEF K, n
    <2> QED
      BY <1>3, <1>5, FS_AddElement
  <1>8. Count(kind) = Cardinality(K) /\ Count(kind)' = Cardinality(L)
    BY DEF Count
  <1> HIDE DEF K, L, n
  <1>9. Count(kind)' = IF new = kind THEN Count(kind) + 1 ELSE Count(kind)
    BY <1>6, <1>7, <1>8
  <1> QED
    BY <1>3, <1>4, <1>8, <1>9 DEF K

\* One more line of a text.
LEMMA OneMoreLine ==
    ASSUME NEW t \in Seq(Line), NEW n \in Nat, n < Len(t)
    PROVE  /\ t[n + 1] \in Line
           /\ Append(SubSeq(t, 1, n), t[n + 1]) = SubSeq(t, 1, n + 1)
  <1>1. n + 1 \in 1..Len(t)
    OBVIOUS
  <1>2. t[n + 1] \in Line /\ 1 \in 1..Len(t) /\ n + 1 \in 1..Len(t) /\ (n + 1) - 1 = n
    BY <1>1
  <1>3. SubSeq(t, 1, n + 1) = SubSeq(t, 1, n) \o <<t[n + 1]>>
    BY <1>2, SubSeqRecursiveSecond
  <1>4. SubSeq(t, 1, n) \in Seq(Line)
    OBVIOUS
  <1>5. Append(SubSeq(t, 1, n), t[n + 1]) = SubSeq(t, 1, n) \o <<t[n + 1]>>
    BY <1>2, <1>4, AppendIsConcat
  <1> QED
    BY <1>2, <1>3, <1>5

\* It holds before the first step.
LEMMA WalkInit == DiffInit => WalkInv
  <1> SUFFICES ASSUME DiffInit PROVE WalkInv
    OBVIOUS
  <1> USE DEF DiffInit
  <1>1. before \in Seq(Line) /\ after \in Seq(Line)
    BY TextsAreSeqs
  <1>2. Len(before) \in Nat /\ Len(after) \in Nat
    BY <1>1
  <1>3. DiffTypeOK
    BY <1>2 DEF DiffTypeOK
  <1>4. Old(ops) = SubSeq(before, 1, row) /\ New(ops) = SubSeq(after, 1, col)
    <2>1. SubSeq(before, 1, 0) = <<>> /\ SubSeq(after, 1, 0) = <<>>
      BY <1>1, SubSeqEmpty
    <2> QED
      BY <2>1, SideOfNothing DEF Old, New
  <1>5. \A kind : Count(kind) = 0
    <2>1. \A kind : {k \in DOMAIN ops : ops[k].kind = kind} = {}
      OBVIOUS
    <2> QED
      BY <2>1, FS_EmptySet DEF Count
  <1>6. lcs[<<0, 0>>] \in Nat
    <2>1. <<0, 0>> \in Places(before, after)
      BY <1>2 DEF Places
    <2>2. lcs \in [Places(before, after) -> Nat]
      BY <1>1, LcsTable DEF lcs
    <2> HIDE DEF DiffInit
    <2> QED
      BY <2>1, <2>2
  <1>7. Len(ops) = 0 /\ DOMAIN ops = {}
    OBVIOUS
  <1> QED
    BY <1>3, <1>4, <1>5, <1>6, <1>7 DEF WalkInv

\* What every step of the walk has in common.
LEMMA PushKept ==
    ASSUME DiffTypeOK, NEW kind \in {"eq", "del", "add"}, NEW line \in Line,
           Push(kind, line), UNCHANGED <<before, after>>
    PROVE  /\ ops' \in Seq(Op) /\ Len(ops') = Len(ops) + 1 /\ Len(ops) \in Nat
           /\ Old(ops)' = IF kind = "add" THEN Old(ops) ELSE Append(Old(ops), line)
           /\ New(ops)' = IF kind = "del" THEN New(ops) ELSE Append(New(ops), line)
           /\ Count("add")' = IF kind = "add" THEN Count("add") + 1 ELSE Count("add")
           /\ Count("del")' = IF kind = "del" THEN Count("del") + 1 ELSE Count("del")
           /\ Count("add") \in Nat /\ Count("del") \in Nat
           /\ lcs' = lcs
           /\ kind = "eq" /\ (\A k \in DOMAIN ops : ops[k].kind = "eq")
                => \A k \in DOMAIN ops' : ops'[k].kind = "eq"
  <1> DEFINE op == [kind |-> kind, line |-> line]
  <1>1. op \in Op
    BY DEF Op
  <1>2. ops' = Append(ops, op) /\ ops \in Seq(Op)
    BY DEF Push, DiffTypeOK
  <1>3. ops' \in Seq(Op) /\ Len(ops') = Len(ops) + 1 /\ Len(ops) \in Nat
    BY <1>1, <1>2, AppendProperties
  <1>4. Old(ops)' = Old(ops') /\ New(ops)' = New(ops')
    BY DEF Old, New
  <1>5. op.kind = kind /\ op.line = line
    OBVIOUS
  <1> HIDE DEF op
  <1>6. Old(ops)' = IF kind = "add" THEN Old(ops) ELSE Append(Old(ops), line)
    <2>1. Side("del", Append(ops, op)) = IF op.kind \in {"eq", "del"}
                                         THEN Append(Side("del", ops), op.line)
                                         ELSE Side("del", ops)
      BY <1>1, <1>2, SideOfAppend
    <2> QED
      BY <1>2, <1>4, <1>5, <2>1 DEF Old
  <1>7. New(ops)' = IF kind = "del" THEN New(ops) ELSE Append(New(ops), line)
    <2>1. Side("add", Append(ops, op)) = IF op.kind \in {"eq", "add"}
                                         THEN Append(Side("add", ops), op.line)
                                         ELSE Side("add", ops)
      BY <1>1, <1>2, SideOfAppend
    <2> QED
      BY <1>2, <1>4, <1>5, <2>1 DEF New
  <1>8. \A x \in {"add", "del"} :
          Count(x) \in Nat /\ Count(x)' = IF kind = x THEN Count(x) + 1 ELSE Count(x)
    BY <1>1, <1>2, CountOfPush DEF op
  <1>9. lcs' = lcs
    BY DEF lcs
  <1>10. ASSUME kind = "eq", \A k \in DOMAIN ops : ops[k].kind = "eq"
         PROVE  \A k \in DOMAIN ops' : ops'[k].kind = "eq"
    <2>1. DOMAIN ops = 1..Len(ops) /\ DOMAIN ops' = 1..(Len(ops) + 1)
      BY <1>2, <1>3
    <2>2. /\ ops'[Len(ops) + 1] = op
          /\ \A k \in 1..Len(ops) : ops'[k] = ops[k]
      BY <1>1, <1>2, AppendProperties
    <2> QED
      BY <1>3, <1>5, <1>10, <2>1, <2>2
  <1> QED
    BY <1>3, <1>6, <1>7, <1>8, <1>9, <1>10

\* Each turn of the walk, and what is left of one text after it, keeps it.
LEMMA WalkStep == WalkInv /\ [DiffNext]_diffVars => WalkInv'
  <1> SUFFICES ASSUME WalkInv, [DiffNext]_diffVars
               PROVE  WalkInv'
    OBVIOUS
  <1>1. /\ before \in Seq(Line) /\ after \in Seq(Line)
        /\ Len(before) \in Nat /\ Len(after) \in Nat
        /\ row \in 0..Len(before) /\ col \in 0..Len(after)
        /\ DiffTypeOK
    BY TextsAreSeqs DEF WalkInv, DiffTypeOK
  <1>2. /\ lcs \in [Places(before, after) -> Nat]
        /\ \A i \in 0..Len(before), j \in 0..Len(after) :
              lcs[<<i, j>>] = TableRule(before, after, lcs, i, j)
    BY <1>1, LcsTable DEF lcs
  <1>3. \A i \in 0..Len(before), j \in 0..Len(after) : lcs[<<i, j>>] \in Nat
    BY <1>2 DEF Places
  <1>4. lcs[<<0, 0>>] \in Nat /\ lcs[<<row, col>>] \in Nat
    BY <1>1, <1>3
  <1> DEFINE here == lcs[<<row, col>>]
             onBoth == lcs[<<row + 1, col + 1>>]
             down == lcs[<<row + 1, col>>]
             right == lcs[<<row, col + 1>>]
  <1>5. here = IF row = Len(before) \/ col = Len(after) THEN 0
                   ELSE IF before[row + 1] = after[col + 1] THEN onBoth + 1
                   ELSE IF down >= right THEN down ELSE right
    <2>1. here = TableRule(before, after, lcs, row, col)
      BY <1>1, <1>2
    <2> QED
      BY <2>1 DEF TableRule
  <1>6. row < Len(before) => down \in Nat /\ (col = Len(after) => down = 0)
    <2>1. ASSUME row < Len(before)
          PROVE  row + 1 \in 0..Len(before)
      BY <1>1, <2>1
    <2>2. ASSUME row < Len(before), col = Len(after)
          PROVE  down = TableRule(before, after, lcs, row + 1, col)
      BY <1>1, <1>2, <2>1, <2>2
    <2> QED
      BY <1>1, <1>3, <2>1, <2>2 DEF TableRule
  <1>7. col < Len(after) => right \in Nat /\ (row = Len(before) => right = 0)
    <2>1. ASSUME col < Len(after)
          PROVE  col + 1 \in 0..Len(after)
      BY <1>1, <2>1
    <2>2. ASSUME col < Len(after), row = Len(before)
          PROVE  right = TableRule(before, after, lcs, row, col + 1)
      BY <1>1, <1>2, <2>1, <2>2
    <2> QED
      BY <1>1, <1>3, <2>1, <2>2 DEF TableRule
  <1>8. CASE UNCHANGED diffVars
    <2>1. UNCHANGED <<before, after, row, col, ops>>
      BY <1>8 DEF diffVars
    <2>2. lcs' = lcs /\ Old(ops)' = Old(ops) /\ New(ops)' = New(ops)
      BY <2>1 DEF lcs, Old, New
    <2>3. \A kind : Count(kind)' = Count(kind)
      BY <2>1 DEF Count
    <2> QED
      BY <2>1, <2>2, <2>3 DEF WalkInv, DiffTypeOK
  <1>9. CASE Keep
    <2> DEFINE line == before[row + 1]
    <2>1. /\ row < Len(before) /\ col < Len(after) /\ line = after[col + 1]
          /\ Push("eq", line) /\ row' = row + 1 /\ col' = col + 1
          /\ UNCHANGED <<before, after>>
      BY <1>9 DEF Keep, Both, Same
    <2>2. /\ line \in Line
          /\ Append(SubSeq(before, 1, row), line) = SubSeq(before, 1, row + 1)
          /\ Append(SubSeq(after, 1, col), line) = SubSeq(after, 1, col + 1)
      BY <1>1, <2>1, OneMoreLine
    <2> HIDE DEF line
    <2>3. /\ ops' \in Seq(Op) /\ Len(ops') = Len(ops) + 1 /\ Len(ops) \in Nat
          /\ Old(ops)' = Append(Old(ops), line)
          /\ New(ops)' = Append(New(ops), line)
          /\ Count("add")' = Count("add") /\ Count("del")' = Count("del")
          /\ lcs' = lcs
          /\ (\A k \in DOMAIN ops : ops[k].kind = "eq")
                => \A k \in DOMAIN ops' : ops'[k].kind = "eq"
      BY <1>1, <2>1, <2>2, PushKept
    <2>4. lcs[<<row, col>>] = lcs[<<row + 1, col + 1>>] + 1
      BY <1>1, <1>5, <2>1 DEF line
    <2>5. lcs[<<row + 1, col + 1>>] \in Nat
      BY <1>1, <1>3, <2>1, SMTT(60)
    <2>6. DiffTypeOK'
      <3>1. row + 1 \in 0..Len(before) /\ col + 1 \in 0..Len(after)
        BY <1>1, <2>1
      <3> QED
        BY <1>1, <2>1, <2>3, <3>1 DEF DiffTypeOK
    <2>7. Old(ops)' = SubSeq(before, 1, row)' /\ New(ops)' = SubSeq(after, 1, col)'
      BY <2>1, <2>2, <2>3 DEF WalkInv
    <2>8. Count("add")' = Len(ops') - row' /\ Count("del")' = Len(ops') - col'
      BY <1>1, <2>1, <2>3 DEF WalkInv
    <2>9. (row' + col' - Len(ops')) + lcs'[<<row', col'>>] = lcs'[<<0, 0>>]
      BY <1>1, <1>4, <2>1, <2>3, <2>4, <2>5, SMTT(60) DEF WalkInv
    <2>10. before' = after' => row' = col' /\ \A k \in DOMAIN ops' : ops'[k].kind = "eq"
      BY <2>1, <2>3 DEF WalkInv
    <2> QED
      BY <2>6, <2>7, <2>8, <2>9, <2>10 DEF WalkInv
  <1>10. CASE Drop
    <2> DEFINE line == before[row + 1]
    <2>1. /\ row < Len(before) /\ Push("del", line) /\ row' = row + 1
          /\ Both => ~Same /\ Downward
          /\ UNCHANGED <<before, after, col>>
      BY <1>10 DEF Drop
    <2>2. line \in Line /\ Append(SubSeq(before, 1, row), line) = SubSeq(before, 1, row + 1)
      BY <1>1, <2>1, OneMoreLine
    <2>3. before # after
      BY <1>1, <2>1 DEF WalkInv, Both, Same
    <2> HIDE DEF line
    <2>4. /\ ops' \in Seq(Op) /\ Len(ops') = Len(ops) + 1 /\ Len(ops) \in Nat
          /\ Old(ops)' = Append(Old(ops), line)
          /\ New(ops)' = New(ops)
          /\ Count("add")' = Count("add") /\ Count("del")' = Count("del") + 1
          /\ Count("del") \in Nat
          /\ lcs' = lcs
      BY <1>1, <2>1, <2>2, PushKept
    <2>5. here = down
      BY <1>1, <1>5, <1>6, <2>1 DEF Both, Same, Downward
    <2>6. DiffTypeOK'
      BY <1>1, <2>1, <2>4 DEF DiffTypeOK
    <2>7. Old(ops)' = SubSeq(before, 1, row)' /\ New(ops)' = SubSeq(after, 1, col)'
      BY <2>1, <2>2, <2>4 DEF WalkInv
    <2>8. Count("add")' = Len(ops') - row' /\ Count("del")' = Len(ops') - col'
      BY <1>1, <2>1, <2>4 DEF WalkInv
    <2>9. (row' + col' - Len(ops')) + lcs'[<<row', col'>>] = lcs'[<<0, 0>>]
      BY <1>1, <1>4, <2>1, <2>4, <2>5 DEF WalkInv
    <2> QED
      BY <2>1, <2>3, <2>6, <2>7, <2>8, <2>9 DEF WalkInv
  <1>11. CASE Add
    <2> DEFINE line == after[col + 1]
    <2>1. /\ col < Len(after) /\ Push("add", line) /\ col' = col + 1
          /\ Both => ~Same /\ ~Downward
          /\ row < Len(before) => Both
          /\ UNCHANGED <<before, after, row>>
      BY <1>11 DEF Add
    <2>2. line \in Line /\ Append(SubSeq(after, 1, col), line) = SubSeq(after, 1, col + 1)
      BY <1>1, <2>1, OneMoreLine
    <2>3. before # after
      BY <1>1, <2>1 DEF WalkInv, Both, Same
    <2> HIDE DEF line
    <2>4. /\ ops' \in Seq(Op) /\ Len(ops') = Len(ops) + 1 /\ Len(ops) \in Nat
          /\ Old(ops)' = Old(ops)
          /\ New(ops)' = Append(New(ops), line)
          /\ Count("add")' = Count("add") + 1 /\ Count("del")' = Count("del")
          /\ Count("add") \in Nat
          /\ lcs' = lcs
      BY <1>1, <2>1, <2>2, PushKept
    <2>5. here = right
      BY <1>1, <1>5, <1>7, <2>1 DEF Both, Same, Downward
    <2>6. DiffTypeOK'
      BY <1>1, <2>1, <2>4 DEF DiffTypeOK
    <2>7. Old(ops)' = SubSeq(before, 1, row)' /\ New(ops)' = SubSeq(after, 1, col)'
      BY <2>1, <2>2, <2>4 DEF WalkInv
    <2>8. Count("add")' = Len(ops') - row' /\ Count("del")' = Len(ops') - col'
      BY <1>1, <2>1, <2>4 DEF WalkInv
    <2>9. (row' + col' - Len(ops')) + lcs'[<<row', col'>>] = lcs'[<<0, 0>>]
      BY <1>1, <1>4, <2>1, <2>4, <2>5 DEF WalkInv
    <2> QED
      BY <2>1, <2>3, <2>6, <2>7, <2>8, <2>9 DEF WalkInv
  <1> QED
    BY <1>8, <1>9, <1>10, <1>11 DEF DiffNext

\* So it always holds.
LEMMA WalkInvHolds == DiffSpec => []WalkInv
  BY WalkInit, WalkStep, PTL DEF DiffSpec

\* Every variable of Diff keeps its type: the walk stays inside both texts.
THEOREM DiffTyped == DiffSpec => []DiffTypeOK
  <1>1. WalkInv => DiffTypeOK
    BY DEF WalkInv
  <1> QED
    BY <1>1, WalkInvHolds, PTL

-----------------------------------------------------------------------------
(* The groups of changes.                                                  *)

GroupBounds == [first : 1..Len(ops), last : 1..Len(ops)]

\* Nothing changes from operation i to operation j.
Unchanged(i, j) == \A k \in i..j : ops[k].kind = "eq"

\* What the groups are once k operations have been looked at: in order, too far
\* apart to meet, and with nothing that changes between and around them.
GroupedUpTo(groups, k) ==
    LET n == Len(groups)
    IN  /\ groups \in Seq(GroupBounds)
        /\ \A i \in 1..n : /\ groups[i].first <= groups[i].last
                           /\ groups[i].last <= k
                           /\ ops[groups[i].last].kind # "eq"
        /\ \A i \in 1..(n - 1) :
              /\ groups[i + 1].first - groups[i].last > 2 * Context
              /\ Unchanged(groups[i].last + 1, groups[i + 1].first - 1)
        /\ n = 0 => Unchanged(1, k)
        /\ n > 0 => /\ Unchanged(1, groups[1].first - 1)
                    /\ Unchanged(groups[n].last + 1, k)

\* One turn of the loop.
Grouped(groups, k) == IF ops[k].kind = "eq" THEN groups ELSE Join(groups, k)

\* A change makes the last group longer or opens one of its own.
LEMMA JoinType ==
    ASSUME NEW groups \in Seq(GroupBounds), NEW k \in 1..Len(ops)
    PROVE  /\ Join(groups, k) \in Seq(GroupBounds)
           /\ \/ /\ groups # <<>> /\ k - groups[Len(groups)].last <= 2 * Context
                 /\ Len(Join(groups, k)) = Len(groups)
                 /\ \A i \in 1..(Len(groups) - 1) : Join(groups, k)[i] = groups[i]
                 /\ Join(groups, k)[Len(groups)].first = groups[Len(groups)].first
                 /\ Join(groups, k)[Len(groups)].last = k
              \/ /\ groups = <<>> \/ ~(k - groups[Len(groups)].last <= 2 * Context)
                 /\ Len(Join(groups, k)) = Len(groups) + 1
                 /\ \A i \in 1..Len(groups) : Join(groups, k)[i] = groups[i]
                 /\ Join(groups, k)[Len(groups) + 1] = [first |-> k, last |-> k]
  <1> DEFINE n == Len(groups)
  <1>1. n \in Nat
    OBVIOUS
  <1>2. CASE groups # <<>> /\ Near(groups[n].last, k)
    <2> DEFINE e == [groups[n] EXCEPT !.last = k]
    <2>1. n \in 1..Len(groups)
      BY <1>2
    <2>2. groups[n] \in GroupBounds
      BY <2>1
    <2>3. e \in GroupBounds /\ e.first = groups[n].first /\ e.last = k
      BY <2>2 DEF GroupBounds
    <2>4. Join(groups, k) = [groups EXCEPT ![n] = e]
      BY <1>2 DEF Join
    <2> HIDE DEF e
    <2>5. /\ Join(groups, k) \in Seq(GroupBounds)
          /\ Len(Join(groups, k)) = n
          /\ \A i \in 1..n : Join(groups, k)[i] = IF i = n THEN e ELSE groups[i]
      BY <2>1, <2>3, <2>4, ExceptSeq
    <2> QED
      BY <1>1, <1>2, <2>1, <2>3, <2>5, SMTT(60) DEF Near
  <1>3. CASE ~(groups # <<>> /\ Near(groups[n].last, k))
    <2> DEFINE e == [first |-> k, last |-> k]
    <2>1. e \in GroupBounds
      BY DEF GroupBounds
    <2>2. Join(groups, k) = Append(groups, e)
      BY <1>3 DEF Join
    <2>3. /\ Join(groups, k) \in Seq(GroupBounds)
          /\ Len(Join(groups, k)) = n + 1
          /\ \A i \in 1..n : Join(groups, k)[i] = groups[i]
          /\ Join(groups, k)[n + 1] = e
      BY <2>1, <2>2, AppendProperties
    <2> QED
      BY <1>3, <2>3 DEF Near
  <1> QED
    BY <1>2, <1>3

\* One turn of the loop keeps what is said of the groups.
LEMMA GroupedStep ==
    ASSUME ops \in Seq(Op), NEW k \in 1..Len(ops), NEW groups, GroupedUpTo(groups, k - 1)
    PROVE  GroupedUpTo(Grouped(groups, k), k)
  <1> DEFINE n == Len(groups)
  <1>1. groups \in Seq(GroupBounds) /\ n \in Nat /\ k \in Nat
    BY DEF GroupedUpTo
  <1>2. \A i \in 1..n : groups[i].first \in Nat /\ groups[i].last \in Nat
    <2>1. \A i \in 1..n : groups[i] \in GroupBounds
      BY <1>1
    <2> QED
      BY <2>1 DEF GroupBounds
  <1>3. CASE ops[k].kind = "eq"
    <2>1. Grouped(groups, k) = groups
      BY <1>3 DEF Grouped
    <2>2. \A i \in Nat : Unchanged(i, k - 1) => Unchanged(i, k)
      BY <1>1, <1>3 DEF Unchanged
    <2>3. n > 0 => n \in 1..n /\ groups[n].last + 1 \in Nat
      BY <1>1, <1>2
    <2> QED
      BY <1>1, <1>2, <2>1, <2>2, <2>3 DEF GroupedUpTo
  <1>4. CASE ops[k].kind # "eq"
    <2> DEFINE new == Join(groups, k)
    <2>1. Grouped(groups, k) = new
      BY <1>4 DEF Grouped
    <2>2. CASE /\ groups # <<>>
               /\ Len(new) = n
               /\ \A i \in 1..(n - 1) : new[i] = groups[i]
               /\ new[n].first = groups[n].first
               /\ new[n].last = k
      <3>1. n > 0 /\ n \in 1..n
        BY <1>1, <2>2
      <3>2. new \in Seq(GroupBounds)
        BY <1>1, JoinType
      <3> HIDE DEF new
      <3>3. \A i \in 1..n : new[i].first = groups[i].first
        BY <1>1, <2>2
      <3>4. \A i \in 1..n : /\ new[i].first <= new[i].last /\ new[i].last <= k
                            /\ ops[new[i].last].kind # "eq"
        <4> SUFFICES ASSUME NEW i \in 1..n
                     PROVE  /\ new[i].first <= new[i].last /\ new[i].last <= k
                            /\ ops[new[i].last].kind # "eq"
          OBVIOUS
        <4>1. /\ groups[i].first <= groups[i].last /\ groups[i].last <= k - 1
              /\ ops[groups[i].last].kind # "eq"
          BY DEF GroupedUpTo
        <4>2. CASE i = n
          BY <1>1, <1>2, <1>4, <2>2, <3>3, <4>1, <4>2
        <4>3. CASE i # n
          <5>1. new[i] = groups[i]
            BY <1>1, <2>2, <4>3
          <5> QED
            BY <1>1, <1>2, <4>1, <5>1
        <4> QED
          BY <4>2, <4>3
      <3>5. \A i \in 1..(n - 1) :
              /\ new[i + 1].first - new[i].last > 2 * Context
              /\ Unchanged(new[i].last + 1, new[i + 1].first - 1)
        <4> SUFFICES ASSUME NEW i \in 1..(n - 1)
                     PROVE  /\ new[i + 1].first - new[i].last > 2 * Context
                            /\ Unchanged(new[i].last + 1, new[i + 1].first - 1)
          OBVIOUS
        <4>1. /\ groups[i + 1].first - groups[i].last > 2 * Context
              /\ Unchanged(groups[i].last + 1, groups[i + 1].first - 1)
          BY DEF GroupedUpTo
        <4>2. i + 1 \in 1..n
          BY <1>1
        <4>3. new[i] = groups[i] /\ new[i + 1].first = groups[i + 1].first
          BY <2>2, <3>3, <4>2
        <4> QED
          BY <4>1, <4>3
      <3>6. Unchanged(1, new[1].first - 1)
        <4>1. 1 \in 1..n
          BY <1>1, <3>1
        <4>2. Unchanged(1, groups[1].first - 1)
          BY <3>1 DEF GroupedUpTo
        <4> QED
          BY <3>3, <4>1, <4>2
      <3>7. Unchanged(new[n].last + 1, k)
        BY <1>1, <2>2 DEF Unchanged
      <3> QED
        BY <1>1, <2>1, <2>2, <3>1, <3>2, <3>4, <3>5, <3>6, <3>7 DEF GroupedUpTo
    <2>3. CASE /\ groups = <<>> \/ ~(k - groups[n].last <= 2 * Context)
               /\ Len(new) = n + 1
               /\ \A i \in 1..n : new[i] = groups[i]
               /\ new[n + 1] = [first |-> k, last |-> k]
      <3>1. new \in Seq(GroupBounds)
        BY <1>1, JoinType
      <3>2. new[n + 1].first = k /\ new[n + 1].last = k
        BY <2>3
      <3> HIDE DEF new
      <3>3. n = 0 => groups = <<>>
        BY <1>1, EmptySeq
      <3>4. n > 0 => groups # <<>> /\ n \in 1..n
        BY <1>1
      <3>5. \A i \in 1..(n + 1) : /\ new[i].first <= new[i].last /\ new[i].last <= k
                                  /\ ops[new[i].last].kind # "eq"
        <4> SUFFICES ASSUME NEW i \in 1..(n + 1)
                     PROVE  /\ new[i].first <= new[i].last /\ new[i].last <= k
                            /\ ops[new[i].last].kind # "eq"
          OBVIOUS
        <4>1. CASE i = n + 1
          BY <1>1, <1>4, <3>2, <4>1
        <4>2. CASE i # n + 1
          <5>1. i \in 1..n
            BY <1>1, <4>2
          <5>2. /\ groups[i].first <= groups[i].last /\ groups[i].last <= k - 1
                /\ ops[groups[i].last].kind # "eq"
            BY <5>1 DEF GroupedUpTo
          <5>3. new[i] = groups[i]
            BY <2>3, <5>1
          <5> QED
            BY <1>1, <1>2, <5>1, <5>2, <5>3
        <4> QED
          BY <4>1, <4>2
      <3>6. \A i \in 1..n :
              /\ new[i + 1].first - new[i].last > 2 * Context
              /\ Unchanged(new[i].last + 1, new[i + 1].first - 1)
        <4> SUFFICES ASSUME NEW i \in 1..n
                     PROVE  /\ new[i + 1].first - new[i].last > 2 * Context
                            /\ Unchanged(new[i].last + 1, new[i + 1].first - 1)
          OBVIOUS
        <4>1. new[i] = groups[i]
          BY <2>3
        <4>2. CASE i = n
          <5>1. k - groups[n].last > 2 * Context
            BY <1>1, <1>2, <2>3, <3>4, <4>2, DiffConstants
          <5>2. Unchanged(groups[n].last + 1, k - 1)
            BY <1>1, <4>2 DEF GroupedUpTo
          <5> QED
            BY <3>2, <4>1, <4>2, <5>1, <5>2
        <4>3. CASE i # n
          <5>1. i \in 1..(n - 1) /\ i + 1 \in 1..n
            BY <1>1, <4>3
          <5>2. new[i + 1] = groups[i + 1]
            BY <2>3, <5>1
          <5>3. /\ groups[i + 1].first - groups[i].last > 2 * Context
                /\ Unchanged(groups[i].last + 1, groups[i + 1].first - 1)
            BY <5>1 DEF GroupedUpTo
          <5> QED
            BY <4>1, <5>2, <5>3
        <4> QED
          BY <4>2, <4>3
      <3>7. Unchanged(1, new[1].first - 1)
        <4>1. CASE n = 0
          <5>1. Unchanged(1, k - 1)
            BY <4>1 DEF GroupedUpTo
          <5> QED
            BY <3>2, <4>1, <5>1
        <4>2. CASE n > 0
          <5>1. 1 \in 1..n
            BY <1>1, <4>2
          <5>2. Unchanged(1, groups[1].first - 1)
            BY <4>2 DEF GroupedUpTo
          <5> QED
            BY <2>3, <5>1, <5>2
        <4> QED
          BY <1>1, <4>1, <4>2
      <3>8. Unchanged(new[n + 1].last + 1, k)
        BY <1>1, <3>2 DEF Unchanged
      <3>9. (n + 1) - 1 = n /\ n + 1 > 0
        BY <1>1
      <3> HIDE DEF n
      <3> QED
        BY <2>1, <2>3, <3>1, <3>5, <3>6, <3>7, <3>8, <3>9 DEF GroupedUpTo
    <2> QED
      BY <1>1, <2>2, <2>3, JoinType
  <1> QED
    BY <1>3, <1>4

\* The groups of the whole walk.
LEMMA GroupsOfWalk ==
    ASSUME ops \in Seq(Op)
    PROVE  GroupedUpTo(GroupChanges, Len(ops))
  <1> DEFINE N == Len(ops)
             T == Seq(GroupBounds)
             f == [x \in T \X (1..N) |-> Grouped(x[1], x[2])]
  <1>1. N \in Nat /\ <<>> \in T
    OBVIOUS
  <1>2. \A t \in T, k \in 1..N : f[<<t, k>>] = Grouped(t, k)
    OBVIOUS
  <1>3. \A t \in T, k \in 1..N : Grouped(t, k) \in T
    BY JoinType DEF Grouped
  <1> HIDE DEF f, T, N
  <1>4. \A t \in T, k \in 1..N : f[<<t, k>>] \in T
    BY <1>2, <1>3
  <1>5. PICK g \in [0..N -> T] : Loop(g, N, <<>>, f)
    BY <1>1, <1>4, LoopExists
  <1>6. g[0] = <<>> /\ \A k \in 1..N : g[k] = Grouped(g[k - 1], k)
    <2>1. \A k \in 1..N : k - 1 \in 0..N
      BY <1>1
    <2>2. \A k \in 1..N : g[k - 1] \in T
      BY <1>5, <2>1
    <2>3. g[0] = <<>> /\ \A k \in 1..N : g[k] = f[<<g[k - 1], k>>]
      BY <1>5 DEF Loop
    <2> QED
      BY <1>2, <2>2, <2>3
  <1> DEFINE Rule(h, k) == IF k = 0 THEN <<>> ELSE Grouped(h[k - 1], k)
             groups == CHOOSE h : h = [k \in 0..N |-> Rule(h, k)]
  <1>7. g = [k \in 0..N |-> Rule(g, k)]
    <2>1. \A k \in 0..N : g[k] = Rule(g, k)
      BY <1>1, <1>6
    <2> HIDE DEF Rule
    <2> QED
      BY <1>5, <2>1
  <1>8. \A k \in 0..N : groups[k] = Rule(groups, k)
    <2> HIDE DEF Rule
    <2>1. groups = [k \in 0..N |-> Rule(groups, k)]
      BY <1>7, Zenon
    <2> HIDE DEF groups
    <2> QED
      BY <2>1, Zenon
  <1>9. GroupChanges = groups[N]
    BY DEF GroupChanges, Grouped, N
  <1> HIDE DEF groups
  <1>10. Alike(g, groups, N)
    <2>1. groups[0] = <<>> /\ \A k \in 1..N : groups[k] = Grouped(groups[k - 1], k)
      BY <1>1, <1>8
    <2> QED
      BY <1>6, <2>1 DEF Alike
  <1>11. GroupChanges = g[N]
    <2>1. \A k \in 0..N : groups[k] = g[k]
      BY <1>1, <1>10, SameLoop
    <2> QED
      BY <1>1, <1>9, <2>1
  <1> DEFINE S == {k \in Nat : k <= N => GroupedUpTo(g[k], k)}
  <1>12. 0 \in S
    <2>1. GroupedUpTo(<<>>, 0)
      BY DEF GroupedUpTo, Unchanged
    <2> QED
      BY <1>6, <2>1
  <1>13. ASSUME NEW k \in Nat, k \in S, k + 1 <= N
         PROVE  GroupedUpTo(g[k + 1], k + 1)
    <2>1. k <= N /\ k + 1 \in 1..N /\ (k + 1) - 1 = k
      BY <1>1, <1>13
    <2>2. GroupedUpTo(g[k], k)
      BY <1>13, <2>1
    <2>3. g[k + 1] = Grouped(g[k], k + 1)
      BY <1>6, <2>1
    <2>4. GroupedUpTo(Grouped(g[k], k + 1), k + 1)
      BY <2>1, <2>2, GroupedStep DEF N
    <2> QED
      BY <2>3, <2>4
  <1>14. \A k \in Nat : k \in S => k + 1 \in S
    BY <1>13
  <1> HIDE DEF S
  <1>15. N \in S
    BY <1>1, <1>12, <1>14, SetInduction
  <1>16. GroupedUpTo(g[N], N)
    BY <1>1, <1>15 DEF S
  <1> QED
    BY <1>11, <1>16 DEF N

-----------------------------------------------------------------------------
(* The hunks, applied.                                                     *)

\* The first e operations, and what has become of the texts after them.
Upto(e) == SubSeq(ops, 1, e)
PatchedTo(e) == [at |-> Len(Old(Upto(e))), out |-> New(Upto(e)), fits |-> TRUE]

\* The middle one of three sequences.
LEMMA Middle ==
    ASSUME NEW T, NEW x \in Seq(T), NEW y \in Seq(T), NEW z \in Seq(T)
    PROVE  SubSeq((x \o y) \o z, Len(x) + 1, Len(x) + Len(y)) = y
  <1> DEFINE s == (x \o y) \o z
             m == Len(x)
             n == Len(y)
  <1>1. m \in Nat /\ n \in Nat /\ Len(z) \in Nat
    OBVIOUS
  <1>2. x \o y \in Seq(T) /\ Len(x \o y) = m + n
    BY ConcatProperties
  <1>3. \A i \in 1..(m + n) : (x \o y)[i] = IF i <= m THEN x[i] ELSE y[i - m]
    BY ConcatProperties
  <1>4. s \in Seq(T) /\ Len(s) = m + n + Len(z)
    BY <1>2, ConcatProperties
  <1>5. \A i \in 1..(m + n + Len(z)) : s[i] = IF i <= m + n THEN (x \o y)[i] ELSE z[i - (m + n)]
    BY <1>2, ConcatProperties
  <1> HIDE DEF s, m, n
  <1>6. \A i \in 1..n : s[m + i] = y[i]
    <2> SUFFICES ASSUME NEW i \in 1..n PROVE s[m + i] = y[i]
      OBVIOUS
    <2>1. m + i \in 1..(m + n) /\ ~(m + i <= m) /\ (m + i) - m = i
          /\ m + i \in 1..(m + n + Len(z)) /\ m + i <= m + n
      BY <1>1
    <2> QED
      BY <1>3, <1>5, <2>1
  <1>7. \A i \in 1..n : y[i] \in T
    BY DEF n
  <1>8. \A i \in (m + 1)..(m + n) : s[i] \in T
    <2> SUFFICES ASSUME NEW i \in (m + 1)..(m + n) PROVE s[i] \in T
      OBVIOUS
    <2>1. i - m \in 1..n /\ m + (i - m) = i
      BY <1>1
    <2> QED
      BY <1>6, <1>7, <2>1
  <1> DEFINE r == SubSeq(s, m + 1, m + n)
  <1>9. /\ r \in Seq(T)
        /\ Len(r) = IF m + 1 <= m + n THEN (m + n) - (m + 1) + 1 ELSE 0
        /\ \A i \in 1..((m + n) - (m + 1) + 1) : r[i] = s[(m + 1) + i - 1]
    <2>1. m + 1 \in Int /\ m + n \in Int
      BY <1>1
    <2> QED
      BY <1>8, <2>1, SubSeqProperties
  <1>10. Len(r) = n
    BY <1>1, <1>9
  <1>11. \A i \in 1..n : r[i] = y[i]
    <2> SUFFICES ASSUME NEW i \in 1..n PROVE r[i] = y[i]
      OBVIOUS
    <2>1. i \in 1..((m + n) - (m + 1) + 1) /\ (m + 1) + i - 1 = m + i
      BY <1>1
    <2> QED
      BY <1>6, <1>9, <2>1
  <1> HIDE DEF r
  <1>12. r = y
    BY <1>9, <1>10, <1>11, SeqEqual DEF n
  <1> QED
    BY <1>12 DEF r, s, m, n

\* The lines of a stretch of operations come after those of the stretch before.
LEMMA SideOfStretch ==
    ASSUME ops \in Seq(Op), NEW i \in 0..Len(ops), NEW j \in i..Len(ops), NEW kind
    PROVE  /\ Upto(i) \in Seq(Op) /\ SubSeq(ops, i + 1, j) \in Seq(Op)
           /\ Side(kind, Upto(j)) = Side(kind, Upto(i)) \o Side(kind, SubSeq(ops, i + 1, j))
           /\ Len(Side(kind, Upto(j)))
                = Len(Side(kind, Upto(i))) + Len(Side(kind, SubSeq(ops, i + 1, j)))
  <1>1. Len(ops) \in Nat /\ i \in Nat /\ j \in Nat /\ i <= j /\ j <= Len(ops)
    OBVIOUS
  <1>2. Upto(i) \in Seq(Op) /\ SubSeq(ops, i + 1, j) \in Seq(Op)
    <2>1. \A m, n \in Nat : 1 <= m /\ n <= Len(ops) => SubSeq(ops, m, n) \in Seq(Op)
      BY SubSeqProperties
    <2> QED
      BY <1>1, <2>1 DEF Upto
  <1>3. SubSeq(ops, 1, i) \o SubSeq(ops, i + 1, j) = SubSeq(ops, 1, j)
    <2>1. 1 \in 1..(Len(ops) + 1) /\ i \in (1 - 1)..Len(ops) /\ j \in i..Len(ops)
      BY <1>1
    <2> QED
      BY <2>1, ConcatAdjacentSubSeq
  <1>4. Side(kind, Upto(j)) = Side(kind, Upto(i)) \o Side(kind, SubSeq(ops, i + 1, j))
    BY <1>2, <1>3, SideOfConcat, ZenonT(60) DEF Upto
  <1>5. /\ Side(kind, Upto(i)) \in Seq(Line)
        /\ Side(kind, SubSeq(ops, i + 1, j)) \in Seq(Line)
    BY <1>2, SideType
  <1> QED
    BY <1>2, <1>4, <1>5, ConcatProperties

\* A stretch of operations is a stretch of each text.
LEMMA LinesOfStretch ==
    ASSUME ops \in Seq(Op), NEW i \in 0..Len(ops), NEW j \in i..Len(ops), NEW kind
    PROVE  SubSeq(Side(kind, ops), Len(Side(kind, Upto(i))) + 1, Len(Side(kind, Upto(j))))
             = Side(kind, SubSeq(ops, i + 1, j))
  <1> DEFINE x == Side(kind, Upto(i))
             y == Side(kind, SubSeq(ops, i + 1, j))
             z == Side(kind, SubSeq(ops, j + 1, Len(ops)))
  <1>1. j \in 0..Len(ops) /\ Len(ops) \in j..Len(ops)
    OBVIOUS
  <1>2. /\ Side(kind, Upto(j)) = x \o y
        /\ Len(Side(kind, Upto(j))) = Len(x) + Len(y)
    BY SideOfStretch
  <1>3. Side(kind, Upto(Len(ops))) = Side(kind, Upto(j)) \o z
    BY <1>1, SideOfStretch
  <1>4. Upto(Len(ops)) = ops
    BY SubSeqFull DEF Upto
  <1>5. x \in Seq(Line) /\ y \in Seq(Line)
    <2>1. Upto(i) \in Seq(Op) /\ SubSeq(ops, i + 1, j) \in Seq(Op)
      BY SideOfStretch
    <2> QED
      BY <2>1, SideType
  <1>6. z \in Seq(Line)
    <2>1. SubSeq(ops, j + 1, Len(ops)) \in Seq(Op)
      BY <1>1, SideOfStretch
    <2> QED
      BY <2>1, SideType
  <1> HIDE DEF x, y, z
  <1>7. SubSeq((x \o y) \o z, Len(x) + 1, Len(x) + Len(y)) = y
    BY <1>5, <1>6, Middle
  <1> QED
    BY <1>2, <1>3, <1>4, <1>7 DEF x, y

\* Where nothing changes, both texts have the same stretch.
LEMMA KeptStretch ==
    ASSUME ops \in Seq(Op), NEW i \in 0..Len(ops), NEW j \in i..Len(ops), Unchanged(i + 1, j)
    PROVE  Old(SubSeq(ops, i + 1, j)) = New(SubSeq(ops, i + 1, j))
  <1> DEFINE s == SubSeq(ops, i + 1, j)
  <1>1. Len(ops) \in Nat /\ i \in Nat /\ j \in Nat /\ i <= j /\ j <= Len(ops)
    OBVIOUS
  <1>2. s \in Seq(Op)
    BY SideOfStretch
  <1>3. /\ Len(s) = IF i + 1 <= j THEN j - (i + 1) + 1 ELSE 0
        /\ \A k \in 1..(j - (i + 1) + 1) : s[k] = ops[(i + 1) + k - 1]
    <2>1. \A k \in (i + 1)..j : ops[k] \in Op
      BY <1>1
    <2>2. i + 1 \in Int /\ j \in Int
      BY <1>1
    <2> QED
      BY <2>1, <2>2, SubSeqProperties
  <1>4. \A k \in 1..Len(s) : s[k].kind = "eq"
    <2> SUFFICES ASSUME NEW k \in 1..Len(s) PROVE s[k].kind = "eq"
      OBVIOUS
    <2>1. k \in 1..(j - (i + 1) + 1) /\ (i + 1) + k - 1 \in (i + 1)..j
      BY <1>1, <1>3
    <2> QED
      BY <1>3, <2>1 DEF Unchanged
  <1> HIDE DEF s
  <1>5. Old(s) = New(s)
    BY <1>2, <1>4, SidesOfKept
  <1> QED
    BY <1>5 DEF s

FirstLine(first) == IF first - Context < 1 THEN 1 ELSE first - Context
LastLine(last) == IF last + Context > Len(ops) THEN Len(ops) ELSE last + Context

\* buildHunk, with its texts named.
LEMMA HunkIs ==
    ASSUME NEW first, NEW last
    PROVE  LET passed == Upto(FirstLine(first) - 1)
               lines == SubSeq(ops, FirstLine(first), LastLine(last))
               h == BuildHunk(first, last)
           IN  /\ h.lines = lines
               /\ h.oldLen = Len(Old(lines)) /\ h.newLen = Len(New(lines))
               /\ h.oldStart = IF Old(lines) = <<>> THEN Len(Old(passed)) ELSE Len(Old(passed)) + 1
               /\ h.newStart = IF New(lines) = <<>> THEN Len(New(passed)) ELSE Len(New(passed)) + 1
  BY DEF BuildHunk, FirstLine, LastLine, Upto

\* A hunk fits where it says, and takes the patch to where it ends.
LEMMA HunkFits ==
    ASSUME ops \in Seq(Op), before = Old(ops), NEW e \in 0..Len(ops),
           NEW first \in 1..Len(ops), NEW last \in 1..Len(ops), first <= last,
           e <= FirstLine(first) - 1, Unchanged(e + 1, FirstLine(first) - 1)
    PROVE  /\ LastLine(last) \in 0..Len(ops)
           /\ Patch(PatchedTo(e), BuildHunk(first, last)) = PatchedTo(LastLine(last))
  <1> DEFINE i == FirstLine(first) - 1
             j == LastLine(last)
             h == BuildHunk(first, last)
             gap == SubSeq(ops, e + 1, i)
             lines == SubSeq(ops, i + 1, j)
             oldAt == Len(Old(Upto(i)))
             newAt == Len(New(Upto(i)))
  <1>1. /\ i \in 0..Len(ops) /\ j \in i..Len(ops) /\ j \in 0..Len(ops)
        /\ e \in 0..Len(ops) /\ i \in e..Len(ops)
        /\ i + 1 = FirstLine(first)
    BY DiffConstants DEF FirstLine, LastLine
  <1>2. /\ Upto(i) \in Seq(Op) /\ lines \in Seq(Op) /\ gap \in Seq(Op)
    BY <1>1, SideOfStretch
  <1>3. /\ Old(lines) \in Seq(Line) /\ New(lines) \in Seq(Line)
        /\ Old(Upto(i)) \in Seq(Line) /\ New(Upto(i)) \in Seq(Line)
        /\ oldAt \in Nat /\ newAt \in Nat
        /\ Len(Old(lines)) \in Nat /\ Len(New(lines)) \in Nat
    BY <1>2, SideType DEF Old, New
  <1>4. /\ Len(Old(lines)) = 0 <=> Old(lines) = <<>>
        /\ Len(New(lines)) = 0 <=> New(lines) = <<>>
    BY <1>3, EmptySeq
  <1>5. /\ h.lines = lines
        /\ h.oldLen = Len(Old(lines)) /\ h.newLen = Len(New(lines))
        /\ h.oldStart = IF Old(lines) = <<>> THEN oldAt ELSE oldAt + 1
        /\ h.newStart = IF New(lines) = <<>> THEN newAt ELSE newAt + 1
    BY <1>1, HunkIs
  <1> DEFINE at == IF h.oldLen = 0 THEN h.oldStart ELSE h.oldStart - 1
             out == New(Upto(e)) \o SubSeq(before, Len(Old(Upto(e))) + 1, at)
  <1>6. at = oldAt
    <2> HIDE DEF h, oldAt, newAt, lines
    <2> QED
      BY <1>3, <1>4, <1>5
  <1>7. Unchanged(e + 1, i)
    OBVIOUS
  <1> HIDE DEF i, j
  <1>8. SubSeq(before, Len(Old(Upto(e))) + 1, oldAt) = Old(gap)
    BY <1>1, LinesOfStretch DEF Old
  <1>9. Old(gap) = New(gap)
    BY <1>1, <1>7, KeptStretch
  <1>10. New(Upto(i)) = New(Upto(e)) \o New(gap)
    BY <1>1, SideOfStretch DEF New
  <1>11. out = New(Upto(i))
    BY <1>6, <1>8, <1>9, <1>10
  <1>12. Len(Old(Upto(e))) \in Nat /\ oldAt >= Len(Old(Upto(e)))
    <2>1. oldAt = Len(Old(Upto(e))) + Len(Old(gap))
      BY <1>1, SideOfStretch DEF Old
    <2>2. Upto(e) \in Seq(Op)
      BY <1>1, SideOfStretch
    <2>3. Len(Old(Upto(e))) \in Nat /\ Len(Old(gap)) \in Nat
      BY <1>2, <2>2, SideType DEF Old
    <2> QED
      BY <2>1, <2>3
  <1>13. /\ Len(Old(Upto(j))) = oldAt + Len(Old(lines))
         /\ New(Upto(j)) = New(Upto(i)) \o New(lines)
    BY <1>1, SideOfStretch DEF Old, New
  <1>14. SubSeq(before, oldAt + 1, oldAt + Len(Old(lines))) = Old(lines)
    <2>1. SubSeq(Old(ops), oldAt + 1, Len(Old(Upto(j)))) = Old(lines)
      BY <1>1, LinesOfStretch DEF Old
    <2> QED
      BY <1>13, <2>1
  <1>15. Len(out) = IF h.newLen = 0 THEN h.newStart ELSE h.newStart - 1
    <2> HIDE DEF h, out, lines
    <2> QED
      BY <1>3, <1>4, <1>5, <1>11
  <1>16. Patch(PatchedTo(e), h)
           = [at |-> at + h.oldLen,
              out |-> out \o New(h.lines),
              fits |-> /\ TRUE
                       /\ at >= Len(Old(Upto(e)))
                       /\ SubSeq(before, at + 1, at + h.oldLen) = Old(h.lines)
                       /\ Len(out) = IF h.newLen = 0 THEN h.newStart ELSE h.newStart - 1]
    <2> HIDE DEF h
    <2> QED
      BY DEF Patch, PatchedTo
  <1> HIDE DEF at, out, h, lines, oldAt
  <1>17. /\ at >= Len(Old(Upto(e)))
         /\ SubSeq(before, at + 1, at + h.oldLen) = Old(h.lines)
         /\ Len(out) = IF h.newLen = 0 THEN h.newStart ELSE h.newStart - 1
         /\ at + h.oldLen = Len(Old(Upto(j)))
         /\ out \o New(h.lines) = New(Upto(j))
    BY <1>5, <1>6, <1>11, <1>12, <1>13, <1>14, <1>15
  <1>18. Patch(PatchedTo(e), h) = PatchedTo(j)
    BY <1>16, <1>17 DEF PatchedTo
  <1> QED
    BY <1>1, <1>18 DEF h, j

\* The loop that applies the hunks, whatever leads from one to the next.
LEMMA PatchLoop ==
    ASSUME NEW n \in Nat, Len(UnifiedDiff) = n, NEW g,
           g = [k \in 0..n |-> g[k]],
           g[0] = [at |-> 0, out |-> <<>>, fits |-> TRUE],
           \A k \in 1..n : g[k] = Patch(g[k - 1], UnifiedDiff[k])
    PROVE  Patched = g[n]
  <1> DEFINE Rule(h, k) == IF k = 0 THEN [at |-> 0, out |-> <<>>, fits |-> TRUE]
                           ELSE Patch(h[k - 1], UnifiedDiff[k])
             patched == CHOOSE h : h = [k \in 0..n |-> Rule(h, k)]
  <1>1. Patched = patched[n]
    BY DEF Patched
  <1>2. g = [k \in 0..n |-> Rule(g, k)]
    <2>1. \A k \in 0..n : g[k] = Rule(g, k)
      <3>1. \A k \in 0..n : k = 0 \/ k \in 1..n
        OBVIOUS
      <3> QED
        BY <3>1
    <2> HIDE DEF Rule
    <2>2. [k \in 0..n |-> g[k]] = [k \in 0..n |-> Rule(g, k)]
      BY <2>1
    <2> QED
      BY <2>2
  <1>3. \A k \in 0..n : patched[k] = Rule(patched, k)
    <2> HIDE DEF Rule
    <2>1. patched = [k \in 0..n |-> Rule(patched, k)]
      BY <1>2, Zenon
    <2> HIDE DEF patched
    <2> QED
      BY <2>1, Zenon
  <1> HIDE DEF patched
  <1>4. Alike(g, patched, n)
    <2>1. /\ patched[0] = [at |-> 0, out |-> <<>>, fits |-> TRUE]
          /\ \A k \in 1..n : patched[k] = Patch(patched[k - 1], UnifiedDiff[k])
      BY <1>3
    <2> QED
      BY <2>1 DEF Alike
  <1>5. \A k \in 0..n : patched[k] = g[k]
    BY <1>4, SameLoop
  <1> QED
    BY <1>1, <1>5

\* Hunk by hunk: what is left when all are applied is the same in both texts.
LEMMA HunksFit ==
    ASSUME ops \in Seq(Op), before = Old(ops), before # <<>> \/ after = <<>>
    PROVE  \E e \in 0..Len(ops) :
             /\ Patched = PatchedTo(e)
             /\ Unchanged(e + 1, Len(ops))
             /\ UnifiedDiff = <<>> <=> Unchanged(1, Len(ops))
  <1> DEFINE N == Len(ops)
             groups == GroupChanges
             n == Len(groups)
             Ended(k) == IF k = 0 THEN 0 ELSE LastLine(groups[k].last)
             g == [k \in 0..n |-> PatchedTo(Ended(k))]
             hunks == [k \in DOMAIN groups |-> BuildHunk(groups[k].first, groups[k].last)]
  <1>1. GroupedUpTo(groups, N)
    BY GroupsOfWalk
  <1>2. UnifiedDiff = hunks
    BY DEF UnifiedDiff
  <1> HIDE DEF groups
  <1>3. groups \in Seq(GroupBounds) /\ n \in Nat /\ N \in Nat /\ DOMAIN groups = 1..n
    BY <1>1 DEF GroupedUpTo
  <1>4. /\ Len(UnifiedDiff) = n
        /\ \A k \in 1..n : UnifiedDiff[k] = BuildHunk(groups[k].first, groups[k].last)
    <2>1. hunks = [k \in 1..n |-> BuildHunk(groups[k].first, groups[k].last)]
      BY <1>3
    <2> HIDE DEF hunks
    <2> QED
      BY <1>2, <1>3, <2>1
  <1>5. \A k \in 1..n : groups[k].first \in 1..N /\ groups[k].last \in 1..N
                        /\ groups[k].first <= groups[k].last
    <2> SUFFICES ASSUME NEW k \in 1..n
                 PROVE  groups[k].first \in 1..N /\ groups[k].last \in 1..N
                        /\ groups[k].first <= groups[k].last
      OBVIOUS
    <2>1. groups[k] \in GroupBounds
      BY <1>3
    <2>2. groups[k].first <= groups[k].last
      BY <1>1 DEF GroupedUpTo
    <2> QED
      BY <2>1, <2>2 DEF GroupBounds
  <1>6. \A k \in 0..n : Ended(k) \in 0..N /\ (k > 0 => groups[k].last <= Ended(k)
                                                     /\ Ended(k) <= groups[k].last + Context)
    <2> SUFFICES ASSUME NEW k \in 0..n
                 PROVE  Ended(k) \in 0..N /\ (k > 0 => groups[k].last <= Ended(k)
                                                     /\ Ended(k) <= groups[k].last + Context)
      OBVIOUS
    <2>1. CASE k = 0
      BY <1>3, <2>1
    <2>2. CASE k > 0
      <3>1. k \in 1..n
        BY <1>3, <2>2
      <3> QED
        BY <1>3, <1>5, <2>2, <3>1, DiffConstants DEF LastLine
    <2> QED
      BY <1>3, <2>1, <2>2
  <1>7. \A k \in 1..n : Patch(g[k - 1], UnifiedDiff[k]) = g[k]
    <2> SUFFICES ASSUME NEW k \in 1..n
                 PROVE  Patch(g[k - 1], UnifiedDiff[k]) = g[k]
      OBVIOUS
    <2> DEFINE e == Ended(k - 1)
               first == groups[k].first
               last == groups[k].last
    <2>1. k - 1 \in 0..n /\ k \in 0..n /\ k # 0 /\ (k - 1) + 1 = k
      BY <1>3
    <2>2. e \in 0..N
      BY <1>6, <2>1
    <2>3. first \in 1..N /\ last \in 1..N /\ first <= last
      BY <1>5
    <2>4. e <= FirstLine(first) - 1 /\ Unchanged(e + 1, FirstLine(first) - 1)
      <3>1. CASE k = 1
        <4>1. Unchanged(1, groups[1].first - 1)
          BY <1>1, <1>3, <3>1 DEF GroupedUpTo
        <4>2. e = 0
          BY <3>1
        <4> QED
          BY <1>3, <2>3, <3>1, <4>1, <4>2, DiffConstants DEF FirstLine, Unchanged
      <3>2. CASE k # 1
        <4>1. k - 1 \in 1..(n - 1) /\ k - 1 \in 1..n /\ k - 1 > 0
          BY <1>3, <3>2
        <4>2. /\ groups[(k - 1) + 1].first - groups[k - 1].last > 2 * Context
              /\ Unchanged(groups[k - 1].last + 1, groups[(k - 1) + 1].first - 1)
          BY <1>1, <4>1 DEF GroupedUpTo
        <4>3. groups[k - 1].last <= e /\ e <= groups[k - 1].last + Context
          BY <1>6, <2>1, <4>1
        <4>4. groups[k - 1].last \in 1..N
          BY <1>5, <4>1
        <4>5. /\ first - groups[k - 1].last > 2 * Context
              /\ Unchanged(groups[k - 1].last + 1, first - 1)
          BY <2>1, <4>2
        <4> HIDE DEF e, first, last
        <4>6. FirstLine(first) = first - Context /\ e <= FirstLine(first) - 1
          <5> DEFINE l == groups[k - 1].last
          <5>1. /\ l \in Nat /\ l >= 1 /\ first \in Nat /\ e \in Nat
                /\ e <= l + Context /\ first - l > 2 * Context
            BY <1>3, <2>2, <2>3, <4>3, <4>4, <4>5
          <5> HIDE DEF l
          <5>2. first - Context > l + Context /\ ~(first - Context < 1)
            BY <5>1, DiffConstants
          <5> QED
            BY <5>1, <5>2, DiffConstants DEF FirstLine
        <4>7. (e + 1)..(FirstLine(first) - 1) \subseteq (groups[k - 1].last + 1)..(first - 1)
          BY <1>3, <2>2, <2>3, <4>3, <4>4, <4>6, DiffConstants, SMTT(60)
        <4> QED
          BY <4>5, <4>6, <4>7 DEF Unchanged
      <3> QED
        BY <3>1, <3>2
    <2>5. g[k - 1] = PatchedTo(e) /\ g[k] = PatchedTo(LastLine(last))
      BY <2>1
    <2>6. UnifiedDiff[k] = BuildHunk(first, last)
      BY <1>4
    <2> HIDE DEF e, first, last, g
    <2>7. Patch(PatchedTo(e), BuildHunk(first, last)) = PatchedTo(LastLine(last))
      BY <2>2, <2>3, <2>4, HunkFits
    <2> QED
      BY <2>5, <2>6, <2>7
  <1>8. g[0] = [at |-> 0, out |-> <<>>, fits |-> TRUE]
    <2>1. g[0] = PatchedTo(0)
      BY <1>3
    <2>2. Upto(0) = <<>>
      BY SubSeqEmpty DEF Upto
    <2>3. Old(Upto(0)) = <<>> /\ New(Upto(0)) = <<>>
      BY <2>2, SideOfNothing DEF Old, New
    <2>4. Len(<<>>) = 0
      OBVIOUS
    <2> HIDE DEF g
    <2> QED
      BY <2>1, <2>3, <2>4 DEF PatchedTo
  <1>9. Patched = g[n]
    <2>1. g = [k \in 0..n |-> g[k]]
      OBVIOUS
    <2>2. \A k \in 1..n : g[k] = Patch(g[k - 1], UnifiedDiff[k])
      BY <1>7
    <2> HIDE DEF g
    <2> QED
      BY <1>3, <1>4, <1>8, <2>1, <2>2, PatchLoop
  <1>10. n \in 0..n /\ g[n] = PatchedTo(Ended(n))
    BY <1>3
  <1>11. Unchanged(Ended(n) + 1, N)
    <2>1. CASE n = 0
      <3>1. Unchanged(1, N)
        BY <1>1, <2>1 DEF GroupedUpTo
      <3> QED
        BY <2>1, <3>1
    <2>2. CASE n > 0
      <3>1. Unchanged(groups[n].last + 1, N)
        BY <1>1, <2>2 DEF GroupedUpTo
      <3>2. groups[n].last <= Ended(n) /\ Ended(n) \in 0..N
        BY <1>6, <1>10, <2>2
      <3>3. groups[n].last \in 1..N
        BY <1>3, <1>5, <2>2
      <3> HIDE DEF Ended
      <3> QED
        BY <1>3, <3>1, <3>2, <3>3 DEF Unchanged
    <2> QED
      BY <1>3, <2>1, <2>2
  <1>12. UnifiedDiff = <<>> <=> Unchanged(1, N)
    <2>1. CASE n = 0
      <3>1. groups = <<>>
        BY <1>3, <2>1, EmptySeq
      <3>2. UnifiedDiff = <<>>
        BY <1>2, <3>1
      <3>3. Unchanged(1, N)
        BY <1>1, <2>1 DEF GroupedUpTo
      <3> QED
        BY <3>2, <3>3
    <2>2. CASE n > 0
      <3>1. UnifiedDiff # <<>>
        BY <1>4, <2>2
      <3>2. ops[groups[n].last].kind # "eq" /\ groups[n].last \in 1..N
        BY <1>1, <1>3, <1>5, <2>2 DEF GroupedUpTo
      <3> QED
        BY <3>1, <3>2 DEF Unchanged
    <2> QED
      BY <1>3, <2>1, <2>2
  <1>13. Ended(n) \in 0..N
    BY <1>6, <1>10
  <1> HIDE DEF Ended, g
  <1> QED
    BY <1>9, <1>10, <1>11, <1>12, <1>13

\* A text that was not there before comes in one hunk.
LEMMA FirstText ==
    ASSUME ops \in Seq(Op), before = Old(ops), after = New(ops),
           before = <<>>, after # <<>>
    PROVE  /\ Patched = [at |-> 0, out |-> after, fits |-> TRUE]
           /\ UnifiedDiff # <<>>
  <1> DEFINE hunk == [lines |-> ops, oldStart |-> 0, oldLen |-> 0,
                      newStart |-> 1, newLen |-> Len(after)]
             base == [at |-> 0, out |-> <<>>, fits |-> TRUE]
             done == [at |-> 0, out |-> after, fits |-> TRUE]
             g == [k \in 0..1 |-> IF k = 0 THEN base ELSE done]
  <1>1. UnifiedDiff = <<hunk>>
    BY DEF UnifiedDiff
  <1>2. after \in Seq(Line)
    BY SideType DEF New
  <1>3. Len(after) \in Nat /\ Len(after) # 0
    BY <1>2, EmptySeq
  <1>4. SubSeq(<<>>, 0 + 1, 0) = <<>>
    BY SubSeqEmpty
  <1>5. Patch(base, hunk) = done
    <2>1. <<>> \o <<>> = <<>> /\ <<>> \o after = after /\ Len(<<>>) = 0
      BY <1>2
    <2>2. /\ hunk.lines = ops /\ hunk.oldStart = 0 /\ hunk.oldLen = 0
          /\ hunk.newStart = 1 /\ hunk.newLen = Len(after)
      OBVIOUS
    <2>3. base.at = 0 /\ base.out = <<>> /\ base.fits = TRUE
      OBVIOUS
    <2> HIDE DEF hunk, base
    <2>4. Patch(base, hunk)
            = [at |-> 0 + 0,
               out |-> (<<>> \o SubSeq(<<>>, 0 + 1, 0)) \o New(ops),
               fits |-> /\ TRUE
                        /\ 0 >= 0
                        /\ SubSeq(<<>>, 0 + 1, 0 + 0) = Old(ops)
                        /\ Len(<<>> \o SubSeq(<<>>, 0 + 1, 0))
                              = IF Len(after) = 0 THEN 1 ELSE 1 - 1]
      BY <2>2, <2>3 DEF Patch
    <2>5. /\ 0 + 0 = 0
          /\ (<<>> \o SubSeq(<<>>, 0 + 1, 0)) \o New(ops) = after
          /\ 0 >= 0
          /\ SubSeq(<<>>, 0 + 1, 0 + 0) = Old(ops)
          /\ Len(<<>> \o SubSeq(<<>>, 0 + 1, 0)) = IF Len(after) = 0 THEN 1 ELSE 1 - 1
      <3>1. <<>> \o SubSeq(<<>>, 0 + 1, 0) = <<>> /\ SubSeq(<<>>, 0 + 1, 0 + 0) = <<>>
        <4>1. 0 + 0 = 0
          OBVIOUS
        <4> QED
          BY <1>4, <2>1, <4>1, Zenon
      <3>2. 0 + 0 = 0 /\ 0 >= 0 /\ 1 - 1 = 0
        OBVIOUS
      <3> QED
        BY <1>3, <2>1, <3>1, <3>2, Zenon
    <2> QED
      BY <2>4, <2>5
  <1>6. Len(UnifiedDiff) = 1 /\ UnifiedDiff[1] = hunk
    BY <1>1
  <1>7. /\ g = [k \in 0..1 |-> g[k]]
        /\ g[0] = base /\ g[1] = done
    OBVIOUS
  <1> HIDE DEF g, hunk
  <1>8. \A k \in 1..1 : g[k] = Patch(g[k - 1], UnifiedDiff[k])
    <2>1. g[1] = Patch(g[0], UnifiedDiff[1])
      BY <1>5, <1>6, <1>7
    <2>2. \A k \in 1..1 : k = 1 /\ k - 1 = 0
      OBVIOUS
    <2> QED
      BY <2>1, <2>2
  <1>9. Patched = g[1]
    <2>1. 1 \in Nat
      OBVIOUS
    <2> QED
      BY <1>6, <1>7, <1>8, <2>1, PatchLoop
  <1> QED
    BY <1>1, <1>7, <1>9

\* The counts, and what both texts keep.
LEMMA DeltaOfWalk ==
    ASSUME WalkInv, Walked
    PROVE  /\ ops \in Seq(Op) /\ Old(ops) = before /\ New(ops) = after
           /\ before \in Seq(Line) /\ after \in Seq(Line)
           /\ LineDelta = [added |-> Len(after) - lcs[<<0, 0>>],
                           removed |-> Len(before) - lcs[<<0, 0>>]]
           /\ before = after => Unchanged(1, Len(ops))
  <1>1. /\ before \in Seq(Line) /\ after \in Seq(Line)
        /\ Len(before) \in Nat /\ Len(after) \in Nat
        /\ ops \in Seq(Op) /\ Len(ops) \in Nat
    BY TextsAreSeqs DEF WalkInv, DiffTypeOK
  <1>2. Old(ops) = before /\ New(ops) = after
    BY <1>1, SubSeqFull DEF WalkInv, Walked
  <1>3. \A i \in 0..Len(before), j \in 0..Len(after) :
          lcs[<<i, j>>] = TableRule(before, after, lcs, i, j)
    BY <1>1, LcsTable DEF lcs
  <1>4. lcs[<<row, col>>] = 0
    <2>1. row \in 0..Len(before) /\ col \in 0..Len(after) /\ row = Len(before)
      BY <1>1 DEF Walked
    <2> QED
      BY <1>3, <2>1 DEF TableRule
  <1>5. (Len(before) + Len(after) - Len(ops)) + 0 = lcs[<<0, 0>>]
    BY <1>4 DEF WalkInv, Walked
  <1>6. before = <<>> \/ after = <<>> => lcs[<<0, 0>>] = 0
    <2>1. 0 \in 0..Len(before) /\ 0 \in 0..Len(after)
      BY <1>1
    <2>2. lcs[<<0, 0>>] = TableRule(before, after, lcs, 0, 0)
      BY <1>3, <2>1
    <2>3. Len(<<>>) = 0
      OBVIOUS
    <2> QED
      BY <2>2, <2>3 DEF TableRule
  <1>7. Count("add") = Len(ops) - Len(before) /\ Count("del") = Len(ops) - Len(after)
    BY DEF WalkInv, Walked
  <1>8. LineDelta = [added |-> Len(after) - lcs[<<0, 0>>],
                     removed |-> Len(before) - lcs[<<0, 0>>]]
    <2>1. CASE before = <<>>
      <3>1. Len(before) = 0
        BY <2>1
      <3> QED
        BY <1>1, <1>6, <2>1, <3>1 DEF LineDelta
    <2>2. CASE before # <<>> /\ after = <<>>
      <3>1. Len(after) = 0
        BY <2>2
      <3> QED
        BY <1>1, <1>6, <2>2, <3>1 DEF LineDelta
    <2>3. CASE before # <<>> /\ after # <<>>
      <3>1. LineDelta = [added |-> Count("add"), removed |-> Count("del")]
        BY <2>3 DEF LineDelta
      <3>2. /\ Count("add") = Len(after) - lcs[<<0, 0>>]
            /\ Count("del") = Len(before) - lcs[<<0, 0>>]
        BY <1>1, <1>5, <1>7
      <3> QED
        BY <3>1, <3>2
    <2> QED
      BY <2>1, <2>2, <2>3
  <1>9. before = after => Unchanged(1, Len(ops))
    BY <1>1 DEF WalkInv, Unchanged
  <1> QED
    BY <1>1, <1>2, <1>8, <1>9

\* summary.ts: the hunks that the model is given turn the old text into the new
\* one, each where its header says, and the counts beside them agree; for texts of
\* any length and any number of lines of context.
THEOREM DiffsReplay == DiffSpec => []DiffReplays
  <1>1. WalkInv => DiffReplays
    <2> SUFFICES ASSUME WalkInv, Walked
                 PROVE  /\ Patched.fits
                        /\ Patched.out \o SubSeq(before, Patched.at + 1, Len(before)) = after
                        /\ UnifiedDiff = <<>> <=> before = after
      BY DeltaOfWalk DEF DiffReplays
    <2> DEFINE N == Len(ops)
    <2>1. /\ ops \in Seq(Op) /\ Old(ops) = before /\ New(ops) = after
          /\ before \in Seq(Line) /\ after \in Seq(Line)
          /\ before = after => Unchanged(1, N)
      BY DeltaOfWalk
    <2>2. N \in Nat /\ Upto(N) = ops
      BY <2>1, SubSeqFull DEF Upto
    <2>3. CASE before = <<>> /\ after # <<>>
      <3>1. Patched = [at |-> 0, out |-> after, fits |-> TRUE] /\ UnifiedDiff # <<>>
        BY <2>1, <2>3, FirstText
      <3>2. SubSeq(before, 0 + 1, Len(before)) = <<>>
        <4>1. Len(before) = 0
          BY <2>3
        <4> QED
          BY <4>1, SubSeqEmpty
      <3>3. after \o <<>> = after
        BY <2>1, ConcatEmptySeq
      <3> QED
        BY <2>3, <3>1, <3>2, <3>3
    <2>4. CASE before # <<>> \/ after = <<>>
      <3>1. PICK e \in 0..N :
               /\ Patched = PatchedTo(e)
               /\ Unchanged(e + 1, N)
               /\ UnifiedDiff = <<>> <=> Unchanged(1, N)
        BY <2>1, <2>4, HunksFit
      <3>2. N \in e..N
        BY <2>2
      <3>3. /\ SubSeq(before, Len(Old(Upto(e))) + 1, Len(before)) = Old(SubSeq(ops, e + 1, N))
            /\ Old(SubSeq(ops, e + 1, N)) = New(SubSeq(ops, e + 1, N))
            /\ after = New(Upto(e)) \o New(SubSeq(ops, e + 1, N))
        <4>1. SubSeq(Old(ops), Len(Old(Upto(e))) + 1, Len(Old(Upto(N))))
                = Old(SubSeq(ops, e + 1, N))
          BY <2>1, <3>2, LinesOfStretch DEF Old
        <4>2. New(Upto(N)) = New(Upto(e)) \o New(SubSeq(ops, e + 1, N))
          BY <2>1, <3>2, SideOfStretch DEF New
        <4>3. Old(SubSeq(ops, e + 1, N)) = New(SubSeq(ops, e + 1, N))
          BY <2>1, <3>1, <3>2, KeptStretch
        <4> QED
          BY <2>1, <2>2, <4>1, <4>2, <4>3
      <3>4. Patched.fits /\ Patched.at = Len(Old(Upto(e))) /\ Patched.out = New(Upto(e))
        BY <3>1 DEF PatchedTo
      <3>5. Unchanged(1, N) => before = after
        <4> SUFFICES ASSUME Unchanged(1, N) PROVE before = after
          OBVIOUS
        <4>1. \A k \in 1..Len(ops) : ops[k].kind = "eq"
          BY DEF Unchanged
        <4> QED
          BY <2>1, <4>1, SidesOfKept
      <3> QED
        BY <2>1, <3>1, <3>3, <3>4, <3>5
    <2> QED
      BY <2>3, <2>4
  <1> QED
    BY <1>1, WalkInvHolds, PTL

-----------------------------------------------------------------------------
(* No other way from one text to the other keeps more lines.               *)

\* n lines that two texts have in common, in the same order, after line i of one
\* and line j of the other: the k-th of them is line f[k] of a and line g[k] of b.
CommonAfter(a, b, i, j, n, f, g) ==
    \A k \in 1..n :
        /\ f[k] \in 1..Len(a) /\ i < f[k]
        /\ g[k] \in 1..Len(b) /\ j < g[k]
        /\ a[f[k]] = b[g[k]]
        /\ \A m \in 1..n : k < m => f[k] < f[m] /\ g[k] < g[m]

\* Arithmetic of lines in a row.
LEMMA Beyond ==
    ASSUME NEW i \in Nat, NEW x \in Nat, NEW y \in Nat
    PROVE  /\ i < x /\ x < y => i + 1 < y
           /\ i + 1 < x /\ x < y => i + 1 < y
           /\ i < x /\ ~(i + 1 < x) => x = i + 1
  OBVIOUS

\* Line by line: either a common line comes first on both sides, or the first of
\* one text is not used.
LEMMA LcsIsLongest ==
    ASSUME NEW a \in Seq(Line), NEW b \in Seq(Line), NEW n \in Nat, NEW f, NEW g,
           CommonAfter(a, b, 0, 0, n, f, g)
    PROVE  n <= Lcs(a, b)[<<0, 0>>]
  <1> DEFINE t == Lcs(a, b)
             Left(i, j) == (Len(a) - i) + (Len(b) - j)
             Bounded(i, j) == \A c \in Nat : \A p, q :
                                 CommonAfter(a, b, i, j, c, p, q) => c <= t[<<i, j>>]
             S == {m \in Nat : \A i \in 0..Len(a), j \in 0..Len(b) :
                     Left(i, j) <= m => Bounded(i, j)}
  <1>1. /\ Len(a) \in Nat /\ Len(b) \in Nat
        /\ Len(a) + Len(b) \in Nat
        /\ 0 \in 0..Len(a) /\ 0 \in 0..Len(b)
        /\ Left(0, 0) <= Len(a) + Len(b)
    <2>1. Len(a) \in Nat /\ Len(b) \in Nat
      OBVIOUS
    <2> QED
      BY <2>1
  <1>2. /\ t \in [Places(a, b) -> Nat]
        /\ \A i \in 0..Len(a), j \in 0..Len(b) : t[<<i, j>>] = TableRule(a, b, t, i, j)
    BY LcsTable
  <1> HIDE DEF t
  <1>3. \A i \in 0..Len(a), j \in 0..Len(b) : t[<<i, j>>] \in Nat
    BY <1>2 DEF Places
  \* One place of the table, when those after it are bounds.
  <1>4. ASSUME NEW i \in 0..Len(a), NEW j \in 0..Len(b),
               i < Len(a) /\ j < Len(b) => /\ Bounded(i + 1, j + 1)
                                           /\ Bounded(i + 1, j)
                                           /\ Bounded(i, j + 1)
        PROVE  Bounded(i, j)
    <2> SUFFICES ASSUME NEW c \in Nat, NEW p, NEW q, CommonAfter(a, b, i, j, c, p, q)
                 PROVE  c <= t[<<i, j>>]
      OBVIOUS
    <2>1. CASE c = 0
      BY <1>3, <2>1
    <2>2. CASE c # 0
      <3>1. /\ 1 \in 1..c
            /\ p[1] \in 1..Len(a) /\ i < p[1]
            /\ q[1] \in 1..Len(b) /\ j < q[1]
            /\ a[p[1]] = b[q[1]]
        BY <2>2 DEF CommonAfter
      <3>8. /\ i \in Nat /\ j \in Nat
              /\ p[1] \in Nat /\ p[1] <= Len(a) /\ q[1] \in Nat /\ q[1] <= Len(b)
        BY <1>1, <3>1
      <3>2. i < Len(a) /\ j < Len(b)
        BY <1>1, <3>1, <3>8
      <3>3. i + 1 \in 0..Len(a) /\ j + 1 \in 0..Len(b)
        BY <1>1, <3>2
      <3> DEFINE onBoth == t[<<i + 1, j + 1>>]
                 down == t[<<i + 1, j>>]
                 right == t[<<i, j + 1>>]
      <3>4. onBoth \in Nat /\ down \in Nat /\ right \in Nat
        BY <1>3, <3>3
      <3>5. t[<<i, j>>] = IF a[i + 1] = b[j + 1] THEN onBoth + 1
                          ELSE IF down >= right THEN down ELSE right
        <4>1. t[<<i, j>>] = TableRule(a, b, t, i, j)
          BY <1>2
        <4> QED
          BY <3>2, <4>1 DEF TableRule
      <3>6. CASE a[i + 1] = b[j + 1]
        <4> DEFINE u == [k \in 1..(c - 1) |-> p[k + 1]]
                   v == [k \in 1..(c - 1) |-> q[k + 1]]
        <4>1. c - 1 \in Nat
          BY <2>2
        <4>2. CommonAfter(a, b, i + 1, j + 1, c - 1, u, v)
          <5> SUFFICES ASSUME NEW k \in 1..(c - 1)
                       PROVE  /\ u[k] \in 1..Len(a) /\ i + 1 < u[k]
                              /\ v[k] \in 1..Len(b) /\ j + 1 < v[k]
                              /\ a[u[k]] = b[v[k]]
                              /\ \A m \in 1..(c - 1) : k < m => u[k] < u[m] /\ v[k] < v[m]
            BY DEF CommonAfter
          <5>1. k + 1 \in 1..c /\ 1 < k + 1
            BY <4>1
          <5>2. /\ p[k + 1] \in 1..Len(a) /\ q[k + 1] \in 1..Len(b)
                /\ a[p[k + 1]] = b[q[k + 1]]
                /\ p[1] < p[k + 1] /\ q[1] < q[k + 1]
            BY <3>1, <5>1 DEF CommonAfter
          <5>3. u[k] = p[k + 1] /\ v[k] = q[k + 1]
            OBVIOUS
          <5>4. ASSUME NEW m \in 1..(c - 1), k < m
                PROVE  u[k] < u[m] /\ v[k] < v[m]
            <6>1. m + 1 \in 1..c /\ k + 1 < m + 1
              BY <4>1, <5>4
            <6>2. p[k + 1] < p[m + 1] /\ q[k + 1] < q[m + 1]
              BY <5>1, <6>1 DEF CommonAfter
            <6> QED
              BY <6>2
          <5> HIDE DEF u, v
          <5>5. i + 1 < u[k] /\ j + 1 < v[k]
            <6>1. p[k + 1] \in Nat /\ q[k + 1] \in Nat
              BY <5>2
            <6> QED
              BY <3>1, <3>8, <5>2, <5>3, <6>1, Beyond
          <5> QED
            BY <5>2, <5>3, <5>4, <5>5
        <4> HIDE DEF u, v
        <4>3. c - 1 <= onBoth
          BY <1>4, <3>2, <4>1, <4>2
        <4> QED
          BY <3>4, <3>5, <3>6, <4>3
      <3>7. CASE a[i + 1] # b[j + 1]
        <4>1. i + 1 < p[1] \/ j + 1 < q[1]
          <5>1. ~(i + 1 < p[1]) => p[1] = i + 1
            BY <3>1, <3>8, Beyond
          <5>2. ~(j + 1 < q[1]) => q[1] = j + 1
            BY <3>1, <3>8, Beyond
          <5> QED
            BY <3>1, <3>7, <5>1, <5>2
        <4>2. \A k \in 1..c : /\ i + 1 < p[1] => i + 1 < p[k]
                              /\ j + 1 < q[1] => j + 1 < q[k]
          <5> SUFFICES ASSUME NEW k \in 1..c, k # 1
                       PROVE  /\ i + 1 < p[1] => i + 1 < p[k]
                              /\ j + 1 < q[1] => j + 1 < q[k]
            OBVIOUS
          <5>1. p[k] \in 1..Len(a) /\ q[k] \in 1..Len(b)
            BY DEF CommonAfter
          <5>2. p[1] < p[k] /\ q[1] < q[k]
            <6>1. 1 < k
              OBVIOUS
            <6> QED
              BY <3>1, <6>1 DEF CommonAfter
          <5>3. p[k] \in Nat /\ q[k] \in Nat
            BY <1>1, <5>1
          <5> QED
            BY <3>8, <5>2, <5>3, Beyond
        <4>3. CASE i + 1 < p[1]
          <5>1. CommonAfter(a, b, i + 1, j, c, p, q)
            BY <4>2, <4>3 DEF CommonAfter
          <5>2. c <= down
            BY <1>4, <3>2, <5>1
          <5> HIDE DEF onBoth, down, right
          <5> QED
            BY <3>4, <3>5, <3>7, <5>2
        <4>4. CASE j + 1 < q[1]
          <5>1. CommonAfter(a, b, i, j + 1, c, p, q)
            BY <4>2, <4>4 DEF CommonAfter
          <5>2. c <= right
            BY <1>4, <3>2, <5>1
          <5> HIDE DEF onBoth, down, right
          <5> QED
            BY <3>4, <3>5, <3>7, <5>2
        <4> QED
          BY <4>1, <4>3, <4>4
      <3> QED
        BY <3>6, <3>7
    <2> QED
      BY <2>1, <2>2
  <1> HIDE DEF Bounded
  <1>5. 0 \in S
    <2> SUFFICES ASSUME NEW i \in 0..Len(a), NEW j \in 0..Len(b), Left(i, j) <= 0
                 PROVE  Bounded(i, j)
      OBVIOUS
    <2>1. i = Len(a)
      BY <1>1
    <2> QED
      BY <1>1, <1>4, <2>1
  <1>6. ASSUME NEW m \in Nat, m \in S
        PROVE  m + 1 \in S
    <2> SUFFICES ASSUME NEW i \in 0..Len(a), NEW j \in 0..Len(b), Left(i, j) <= m + 1
                 PROVE  Bounded(i, j)
      OBVIOUS
    <2>1. ASSUME i < Len(a), j < Len(b)
          PROVE  Bounded(i + 1, j + 1) /\ Bounded(i + 1, j) /\ Bounded(i, j + 1)
      <3>1. i + 1 \in 0..Len(a) /\ j + 1 \in 0..Len(b)
        BY <1>1, <2>1
      <3>2. Left(i + 1, j + 1) <= m /\ Left(i + 1, j) <= m /\ Left(i, j + 1) <= m
        BY <1>1
      <3> QED
        BY <1>6, <3>1, <3>2
    <2> QED
      BY <1>4, <2>1
  <1> HIDE DEF S
  <1>7. Len(a) + Len(b) \in S
    BY <1>1, <1>5, <1>6, SetInduction
  <1>8. Bounded(0, 0)
    BY <1>1, <1>7 DEF S
  <1> QED
    BY <1>8 DEF Bounded, t

\* The counts are the smallest that any diff of the two texts can show.
DeltaIsLeast ==
    Walked => \A n \in Nat : \A f, g :
        CommonAfter(before, after, 0, 0, n, f, g) =>
            LineDelta.added <= Len(after) - n /\ LineDelta.removed <= Len(before) - n

\* summary.ts, "deterministic ground-truth signal": whatever n lines of the old
\* text one keeps for the new one, at least as many lines are added and removed as
\* computeLineDelta counts.
THEOREM CountsAreLeast == DiffSpec => []DeltaIsLeast
  <1>1. WalkInv => DeltaIsLeast
    <2> SUFFICES ASSUME WalkInv, Walked, NEW n \in Nat, NEW f, NEW g,
                        CommonAfter(before, after, 0, 0, n, f, g)
                 PROVE  LineDelta.added <= Len(after) - n /\ LineDelta.removed <= Len(before) - n
      BY DEF DeltaIsLeast
    <2>1. /\ before \in Seq(Line) /\ after \in Seq(Line)
          /\ LineDelta = [added |-> Len(after) - lcs[<<0, 0>>],
                          removed |-> Len(before) - lcs[<<0, 0>>]]
      BY DeltaOfWalk
    <2>2. n <= lcs[<<0, 0>>]
      BY <2>1, LcsIsLongest DEF lcs
    <2>3. lcs[<<0, 0>>] \in Nat /\ Len(before) \in Nat /\ Len(after) \in Nat
      <3>1. Len(before) \in Nat /\ Len(after) \in Nat
        BY <2>1
      <3>2. <<0, 0>> \in Places(before, after)
        BY <3>1 DEF Places
      <3>3. lcs \in [Places(before, after) -> Nat]
        BY <2>1, LcsTable DEF lcs
      <3> QED
        BY <3>1, <3>2, <3>3
    <2>4. /\ LineDelta.added = Len(after) - lcs[<<0, 0>>]
          /\ LineDelta.removed = Len(before) - lcs[<<0, 0>>]
      BY <2>1
    <2> QED
      BY <2>2, <2>3, <2>4
  <1> QED
    BY <1>1, WalkInvHolds, PTL
-----------------------------------------------------------------------------
(* The scenes of MCHub.                                                    *)

\* A step of HubNext is one of the component that is on.
OneScene ==
    \/ SignInNext /\ UNCHANGED notSignIn
    \/ DigestNext /\ UNCHANGED notDigest
    \/ GroupNext /\ UNCHANGED notGroup
    \/ DraftNext /\ UNCHANGED notDraft
    \/ DiffNext /\ UNCHANGED notDiff
    \/ MigrateNext /\ UNCHANGED notMigrate
    \/ EditorNext /\ UNCHANGED notEditor
    \/ FormNext /\ UNCHANGED notForm
    \/ PageNext /\ UNCHANGED notPage

LEMMA StepsOfScenes == HubNext => OneScene
  BY DEF HubNext, OneScene, SignInNext, DigestNext, GroupNext, DraftNext, DiffNext, MigrateNext, EditorNext, FormNext, PageNext,
         Seating, Asking, Routes, Pages

\* The components share no state, so what HubSpec does to the variables of one of
\* them is what that component may do: a run of HubSpec checks the specification
\* of each, and what is proved of them holds of HubSpec.
THEOREM HubPlaysItsParts ==
    HubSpec =>
        /\ SignInSpec
        /\ DigestSpec
        /\ GroupSpec
        /\ DraftSpec
        /\ DiffSpec
        /\ MigrateSpec
        /\ EditorSpec
        /\ FormSpec
        /\ PageSpec
  <1>1. HubSpec => SignInSpec
    <2>1. HubInit => SignInInit
      BY DEF HubInit
    <2>2. [HubNext]_hubVars => [SignInNext]_signInVars
      BY StepsOfScenes DEF OneScene, hubVars, notDigest, notGroup, notDraft, notDiff, notMigrate, notEditor, notForm, notPage
    <2> QED
      BY <2>1, <2>2, PTL DEF HubSpec, SignInSpec
  <1>2. HubSpec => DigestSpec
    <2>1. HubInit => DigestInit
      BY DEF HubInit
    <2>2. [HubNext]_hubVars => [DigestNext]_digestVars
      BY StepsOfScenes DEF OneScene, hubVars, notSignIn, notGroup, notDraft, notDiff, notMigrate, notEditor, notForm, notPage
    <2> QED
      BY <2>1, <2>2, PTL DEF HubSpec, DigestSpec
  <1>3. HubSpec => GroupSpec
    <2>1. HubInit => GroupInit
      BY DEF HubInit
    <2>2. [HubNext]_hubVars => [GroupNext]_groupVars
      BY StepsOfScenes DEF OneScene, hubVars, notSignIn, notDigest, notDraft, notDiff, notMigrate, notEditor, notForm, notPage
    <2> QED
      BY <2>1, <2>2, PTL DEF HubSpec, GroupSpec
  <1>4. HubSpec => DraftSpec
    <2>1. HubInit => DraftInit
      BY DEF HubInit
    <2>2. [HubNext]_hubVars => [DraftNext]_draftVars
      BY StepsOfScenes DEF OneScene, hubVars, notSignIn, notDigest, notGroup, notDiff, notMigrate, notEditor, notForm, notPage
    <2> QED
      BY <2>1, <2>2, PTL DEF HubSpec, DraftSpec
  <1>5. HubSpec => DiffSpec
    <2>1. HubInit => DiffInit
      BY DEF HubInit
    <2>2. [HubNext]_hubVars => [DiffNext]_diffVars
      BY StepsOfScenes DEF OneScene, hubVars, notSignIn, notDigest, notGroup, notDraft, notMigrate, notEditor, notForm, notPage
    <2> QED
      BY <2>1, <2>2, PTL DEF HubSpec, DiffSpec
  <1>6. HubSpec => MigrateSpec
    <2>1. HubInit => MigrateInit
      BY DEF HubInit
    <2>2. [HubNext]_hubVars => [MigrateNext]_migrateVars
      BY StepsOfScenes DEF OneScene, hubVars, notSignIn, notDigest, notGroup, notDraft, notDiff, notEditor, notForm, notPage
    <2> QED
      BY <2>1, <2>2, PTL DEF HubSpec, MigrateSpec
  <1>7. HubSpec => EditorSpec
    <2>1. HubInit => EditorInit
      BY DEF HubInit
    <2>2. [HubNext]_hubVars => [EditorNext]_editorVars
      BY StepsOfScenes DEF OneScene, hubVars, notSignIn, notDigest, notGroup, notDraft, notDiff, notMigrate, notForm, notPage
    <2> QED
      BY <2>1, <2>2, PTL DEF HubSpec, EditorSpec
  <1>8. HubSpec => FormSpec
    <2>1. HubInit => FormInit
      BY DEF HubInit
    <2>2. [HubNext]_hubVars => [FormNext]_formVars
      BY StepsOfScenes DEF OneScene, hubVars, notSignIn, notDigest, notGroup, notDraft, notDiff, notMigrate, notEditor, notPage
    <2> QED
      BY <2>1, <2>2, PTL DEF HubSpec, FormSpec
  <1>9. HubSpec => PageSpec
    <2>1. HubInit => PageInit
      BY DEF HubInit
    <2>2. [HubNext]_hubVars => [PageNext]_pageVars
      BY StepsOfScenes DEF OneScene, hubVars, notSignIn, notDigest, notGroup, notDraft, notDiff, notMigrate, notEditor, notForm
    <2> QED
      BY <2>1, <2>2, PTL DEF HubSpec, PageSpec
  <1> QED
    BY <1>1, <1>2, <1>3, <1>4, <1>5, <1>6, <1>7, <1>8, <1>9
=============================================================================
