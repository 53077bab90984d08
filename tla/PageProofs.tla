------------------------------ MODULE PageProofs ------------------------------
(***************************************************************************)
(* Theorems about the weekly digest and about three pages of the browser:  *)
(* the editor, the sign-in form and the administration; for any number of  *)
(* handlers that wait for an answer at once.                               *)
(***************************************************************************)
EXTENDS Digest, Editor, SignInForm, AdminPage, TLAPS

-----------------------------------------------------------------------------
(* The digest.                                                             *)

\* The rows an address had when it last opted out have kept the mark.
RefusedRowsMarked == \A h \in Human : refused[h] \subseteq optedOut[h]

\* Types, action by action.
LEMMA DigestTypeStep ==
    DigestTypeOK /\ [DigestNext]_digestVars => DigestTypeOK'
  <1> SUFFICES ASSUME DigestTypeOK, [DigestNext]_digestVars
               PROVE  DigestTypeOK'
    OBVIOUS
  <1> USE DigestAssumption DEF DigestTypeOK, membersVars, runVars, weeklyFrame
  <1>1. CASE UNCHANGED digestVars
    BY <1>1 DEF digestVars
  <1>2. ASSUME NEW h \in Human, NEW g \in List, Enter(h, g)
        PROVE  DigestTypeOK'
    BY <1>2 DEF Enter, SetRow
  <1>3. ASSUME NEW h \in Human, NEW g \in List, ConfirmRow(h, g)
        PROVE  DigestTypeOK'
    BY <1>3 DEF ConfirmRow, SetRow
  <1>4. ASSUME NEW h \in Human, NEW g \in List, LeaveRow(h, g)
        PROVE  DigestTypeOK'
    BY <1>4 DEF LeaveRow, SetRow
  <1>5. ASSUME NEW h \in Human, OptOut(h)
        PROVE  DigestTypeOK'
    BY <1>5 DEF OptOut, Rows
  <1>6. ASSUME NEW h \in Human, Compose(h)
        PROVE  DigestTypeOK'
    BY <1>6 DEF Compose, Visible, Active
  <1>7. ASSUME ReadActivity
        PROVE  DigestTypeOK'
    <2>1. weeks' \in 0..Weeks
      BY <1>7, DigestAssumption DEF ReadActivity, DigestTypeOK
    <2> QED
      BY <1>7, <2>1 DEF ReadActivity
  <1>8. ASSUME ListRecipients
        PROVE  DigestTypeOK'
    BY <1>8 DEF ListRecipients, Recipients, Active
  <1>9. ASSUME MailDigest
        PROVE  DigestTypeOK'
    BY <1>9 DEF MailDigest
  <1>10. ASSUME EndWeekly
        PROVE  DigestTypeOK'
    BY <1>10 DEF EndWeekly
  <1> QED BY <1>1, <1>2, <1>3, <1>4, <1>5, <1>6, <1>7, <1>8, <1>9, <1>10
       DEF DigestNext

\* OptOut marks every row there is, and no step takes a mark away.
LEMMA MarkedStep ==
    DigestTypeOK /\ RefusedRowsMarked /\ [DigestNext]_digestVars => RefusedRowsMarked'
  <1> SUFFICES ASSUME DigestTypeOK, RefusedRowsMarked, [DigestNext]_digestVars
               PROVE  RefusedRowsMarked'
    OBVIOUS
  <1> USE DigestAssumption DEF DigestTypeOK, RefusedRowsMarked, membersVars,
              runVars, weeklyFrame
  <1>1. CASE UNCHANGED digestVars
    BY <1>1 DEF digestVars
  <1>2. ASSUME NEW h \in Human, NEW g \in List, Enter(h, g)
        PROVE  RefusedRowsMarked'
    BY <1>2 DEF Enter, SetRow
  <1>3. ASSUME NEW h \in Human, NEW g \in List, ConfirmRow(h, g)
        PROVE  RefusedRowsMarked'
    BY <1>3 DEF ConfirmRow, SetRow
  <1>4. ASSUME NEW h \in Human, NEW g \in List, LeaveRow(h, g)
        PROVE  RefusedRowsMarked'
    BY <1>4 DEF LeaveRow, SetRow
  <1>5. ASSUME NEW h \in Human, OptOut(h)
        PROVE  RefusedRowsMarked'
    BY <1>5 DEF OptOut, Rows
  <1>6. ASSUME NEW h \in Human, Compose(h)
        PROVE  RefusedRowsMarked'
    BY <1>6 DEF Compose, Visible, Active
  <1>7. ASSUME ReadActivity
        PROVE  RefusedRowsMarked'
    BY <1>7 DEF ReadActivity
  <1>8. ASSUME ListRecipients
        PROVE  RefusedRowsMarked'
    BY <1>8 DEF ListRecipients, Recipients, Active
  <1>9. ASSUME MailDigest
        PROVE  RefusedRowsMarked'
    BY <1>9 DEF MailDigest
  <1>10. ASSUME EndWeekly
        PROVE  RefusedRowsMarked'
    BY <1>10 DEF EndWeekly
  <1> QED BY <1>1, <1>2, <1>3, <1>4, <1>5, <1>6, <1>7, <1>8, <1>9, <1>10
       DEF DigestNext

LEMMA DigestInvHolds == DigestSpec => [](DigestTypeOK /\ RefusedRowsMarked)
  <1>1. DigestInit => DigestTypeOK /\ RefusedRowsMarked
    <2> SUFFICES ASSUME DigestInit
                 PROVE  DigestTypeOK /\ RefusedRowsMarked
      OBVIOUS
    <2>1. current \in [who : Human, names : SUBSET List]
      BY DEF DigestInit
    <2>2. 0 \in 0..Weeks
      BY DigestAssumption
    <2> QED
      BY <2>1, <2>2 DEF DigestInit, DigestTypeOK, RefusedRowsMarked
  <1>2. DigestTypeOK /\ RefusedRowsMarked /\ [DigestNext]_digestVars
            => (DigestTypeOK /\ RefusedRowsMarked)'
    BY DigestTypeStep, MarkedStep
  <1> QED
    BY <1>1, <1>2, PTL DEF DigestSpec

\* Every variable of Digest keeps its type.
THEOREM DigestTyped == DigestSpec => []DigestTypeOK
  BY DigestInvHolds, PTL

\* Who is listed has no active row with the mark.
ListsWilling == \A h \in waiting' \ waiting : refused[h] \cap Active(h) = {}

LEMMA ListsWillingStep ==
    DigestTypeOK /\ RefusedRowsMarked /\ [DigestNext]_digestVars => ListsWilling
  <1> SUFFICES ASSUME DigestTypeOK, RefusedRowsMarked, [DigestNext]_digestVars
               PROVE  ListsWilling
    OBVIOUS
  <1>1. CASE ListRecipients
    BY <1>1 DEF ListRecipients, Recipients, RefusedRowsMarked, ListsWilling, DigestTypeOK
  <1>2. CASE ~ListRecipients
    <2>1. waiting' \subseteq waiting
      BY <1>2 DEF DigestNext, digestVars, Enter, ConfirmRow, LeaveRow, SetRow, OptOut,
         Compose, ReadActivity, MailDigest, EndWeekly, runVars
    <2> QED
      BY <2>1 DEF ListsWilling
  <1> QED
    BY <1>1, <1>2

\* Nobody is listed who has opted out and is still in one of the groups of then.
THEOREM OptOutsLast == DigestSpec => OptOutLasts
  <1>1. DigestTypeOK /\ RefusedRowsMarked /\ [DigestNext]_digestVars
            => [ListsWilling]_digestVars
    BY ListsWillingStep
  <1>2. DigestSpec => [][ListsWilling]_digestVars
    BY <1>1, DigestInvHolds, PTL DEF DigestSpec
  <1> QED
    BY <1>2 DEF OptOutLasts, ListsWilling

-----------------------------------------------------------------------------
(* The editor.                                                             *)

\* Clicks that come one after the other, and where the work is meanwhile.
Orderly ==
    /\ \A c, d \in Click : Busy(c) /\ Busy(d) => c = d
    /\ previewing => typed \subseteq workingMd \cup OnServer
    /\ ~previewing /\ (\A c \in Click : click[c].does # "cancel")
           => typed \subseteq editor \cup OnServer
    /\ \A c \in Click :
          /\ click[c].does = "cancel" =>
                 ~previewing /\ typed \subseteq click[c].md \cup OnServer
          /\ click[c].does = "insert" =>
                 ~previewing /\ typed \subseteq click[c].md \cup OnServer
          /\ click[c].does \in {"save", "hero"} => ~previewing
          /\ click[c].does \in {"preview", "revert"} => previewing
          /\ click[c].does = "revert" => typed = {}

\* The buttons, but while the editor is being built anew.
ButtonsAgree ==
    (\A c \in Click : click[c].does \notin {"preview", "cancel"}) =>
        (saveOff <=> previewing) /\ (banner <=> previewing)

EditorInv == EditorTypeOK /\ (~crossed => Orderly /\ ButtonsAgree)

\* Types, action by action.
LEMMA EditorTypeStep ==
    EditorTypeOK /\ [EditorNext]_editorVars => EditorTypeOK'
  <1> SUFFICES ASSUME EditorTypeOK, [EditorNext]_editorVars
               PROVE  EditorTypeOK'
    OBVIOUS
  <1> USE DEF EditorTypeOK, EditedText, bar
  <1>1. CASE UNCHANGED editorVars
    BY <1>1 DEF editorVars
  <1>2. ASSUME NEW e \in Edit, Type(e)
        PROVE  EditorTypeOK'
    BY <1>2 DEF Type, Rebuilding
  <1>3. ASSUME NEW c \in Click, NEW v \in stored, EnterPreview(c, v)
        PROVE  EditorTypeOK'
    BY <1>3 DEF EnterPreview, Begin, Busy, Idle
  <1>4. ASSUME NEW c \in Click, ShowPreview(c)
        PROVE  EditorTypeOK'
    BY <1>4 DEF ShowPreview, End
  <1>5. ASSUME NEW c \in Click, ExitPreview(c)
        PROVE  EditorTypeOK'
    BY <1>5 DEF ExitPreview, Begin, Busy, Idle
  <1>6. ASSUME NEW c \in Click, RestoreWork(c)
        PROVE  EditorTypeOK'
    BY <1>6 DEF RestoreWork, End
  <1>7. ASSUME NEW c \in Click, ClickRevert(c)
        PROVE  EditorTypeOK'
    BY <1>7 DEF ClickRevert, Begin, Busy, Idle
  <1>8. ASSUME NEW c \in Click, Reload(c)
        PROVE  EditorTypeOK'
    BY <1>8 DEF Reload
  <1>9. ASSUME NEW c \in Click, ClickSave(c)
        PROVE  EditorTypeOK'
    BY <1>9 DEF ClickSave, Begin, Busy, Idle
  <1>10. ASSUME NEW c \in Click, SaveAnswered(c)
        PROVE  EditorTypeOK'
    BY <1>10 DEF SaveAnswered, End
  <1>11. ASSUME NEW c \in Click, RequestFails(c)
        PROVE  EditorTypeOK'
    BY <1>11 DEF RequestFails, End
  <1>12. ASSUME NEW c \in Click, ClickHero(c)
        PROVE  EditorTypeOK'
    BY <1>12 DEF ClickHero, Begin, Busy, Idle
  <1>13. ASSUME NEW c \in Click, HeroAnswered(c)
        PROVE  EditorTypeOK'
    BY <1>13 DEF HeroAnswered
  <1>14. ASSUME NEW c \in Click, HeroFails(c)
        PROVE  EditorTypeOK'
    BY <1>14 DEF HeroFails, End
  <1>15. ASSUME NEW c \in Click, InsertHero(c)
        PROVE  EditorTypeOK'
    BY <1>15 DEF InsertHero, End
  <1> QED BY <1>1, <1>2, <1>3, <1>4, <1>5, <1>6, <1>7, <1>8, <1>9, <1>10,
        <1>11, <1>12, <1>13, <1>14, <1>15
       DEF EditorNext

\* One click at a time hands the work on.
LEMMA OrderlyStep ==
    EditorTypeOK /\ ~crossed /\ Orderly /\ ~crossed' /\ [EditorNext]_editorVars => Orderly'
  <1> SUFFICES ASSUME EditorTypeOK, ~crossed, Orderly, ~crossed', [EditorNext]_editorVars
               PROVE  Orderly'
    OBVIOUS
  <1> USE DEF EditorTypeOK, EditedText, Orderly, OnServer, Busy, bar
  <1>1. CASE UNCHANGED editorVars
    BY <1>1 DEF editorVars
  <1>2. ASSUME NEW e \in Edit, Type(e)
        PROVE  Orderly'
    BY <1>2 DEF Type, Rebuilding
  <1>3. ASSUME NEW c \in Click, NEW v \in stored, EnterPreview(c, v)
        PROVE  Orderly'
    BY <1>3 DEF EnterPreview, Begin, Busy, Idle
  <1>4. ASSUME NEW c \in Click, ShowPreview(c)
        PROVE  Orderly'
    BY <1>4 DEF ShowPreview, End
  <1>5. ASSUME NEW c \in Click, ExitPreview(c)
        PROVE  Orderly'
    <2>1. /\ \A k \in Click : ~Busy(k)
          /\ click' = [click EXCEPT ![c] = [does |-> "cancel", md |-> workingMd]]
          /\ previewing /\ ~previewing'
          /\ UNCHANGED <<workingMd, stored, typed>>
      BY <1>5 DEF ExitPreview, Begin, Idle, Busy
    <2>2. /\ click'[c].does = "cancel" /\ click'[c].md = workingMd
          /\ \A k \in Click \ {c} : click'[k].does = "nothing"
      BY <2>1 DEF Busy
    <2>3. typed \subseteq workingMd \cup OnServer
      BY <2>1 DEF Orderly
    <2> QED
      BY <2>1, <2>2, <2>3 DEF Orderly, Busy
  <1>6. ASSUME NEW c \in Click, RestoreWork(c)
        PROVE  Orderly'
    BY <1>6 DEF RestoreWork, End
  <1>7. ASSUME NEW c \in Click, ClickRevert(c)
        PROVE  Orderly'
    BY <1>7 DEF ClickRevert, Begin, Busy, Idle
  <1>8. ASSUME NEW c \in Click, Reload(c)
        PROVE  Orderly'
    BY <1>8 DEF Reload
  <1>9. ASSUME NEW c \in Click, ClickSave(c)
        PROVE  Orderly'
    BY <1>9 DEF ClickSave, Begin, Busy, Idle
  <1>10. ASSUME NEW c \in Click, SaveAnswered(c)
        PROVE  Orderly'
    BY <1>10 DEF SaveAnswered, End
  <1>11. ASSUME NEW c \in Click, RequestFails(c)
        PROVE  Orderly'
    BY <1>11 DEF RequestFails, End
  <1>12. ASSUME NEW c \in Click, ClickHero(c)
        PROVE  Orderly'
    BY <1>12 DEF ClickHero, Begin, Busy, Idle
  <1>13. ASSUME NEW c \in Click, HeroAnswered(c)
        PROVE  Orderly'
    BY <1>13 DEF HeroAnswered
  <1>14. ASSUME NEW c \in Click, HeroFails(c)
        PROVE  Orderly'
    BY <1>14 DEF HeroFails, End
  <1>15. ASSUME NEW c \in Click, InsertHero(c)
        PROVE  Orderly'
    BY <1>15 DEF InsertHero, End
  <1> QED BY <1>1, <1>2, <1>3, <1>4, <1>5, <1>6, <1>7, <1>8, <1>9, <1>10,
        <1>11, <1>12, <1>13, <1>14, <1>15
       DEF EditorNext

\* The buttons are set when the editor has been built.
LEMMA ButtonsStep ==
    EditorTypeOK /\ ~crossed /\ Orderly /\ ButtonsAgree /\ ~crossed' /\ [EditorNext]_editorVars => ButtonsAgree'
  <1> SUFFICES ASSUME EditorTypeOK, ~crossed, Orderly, ButtonsAgree, ~crossed', [EditorNext]_editorVars
               PROVE  ButtonsAgree'
    OBVIOUS
  <1> USE DEF EditorTypeOK, EditedText, Orderly, ButtonsAgree, Busy, bar
  <1>1. CASE UNCHANGED editorVars
    BY <1>1 DEF editorVars
  <1>2. ASSUME NEW e \in Edit, Type(e)
        PROVE  ButtonsAgree'
    BY <1>2 DEF Type, Rebuilding
  <1>3. ASSUME NEW c \in Click, NEW v \in stored, EnterPreview(c, v)
        PROVE  ButtonsAgree'
    BY <1>3 DEF EnterPreview, Begin, Busy, Idle
  <1>4. ASSUME NEW c \in Click, ShowPreview(c)
        PROVE  ButtonsAgree'
    BY <1>4 DEF ShowPreview, End
  <1>5. ASSUME NEW c \in Click, ExitPreview(c)
        PROVE  ButtonsAgree'
    BY <1>5 DEF ExitPreview, Begin, Busy, Idle
  <1>6. ASSUME NEW c \in Click, RestoreWork(c)
        PROVE  ButtonsAgree'
    BY <1>6 DEF RestoreWork, End
  <1>7. ASSUME NEW c \in Click, ClickRevert(c)
        PROVE  ButtonsAgree'
    BY <1>7 DEF ClickRevert, Begin, Busy, Idle
  <1>8. ASSUME NEW c \in Click, Reload(c)
        PROVE  ButtonsAgree'
    BY <1>8 DEF Reload
  <1>9. ASSUME NEW c \in Click, ClickSave(c)
        PROVE  ButtonsAgree'
    BY <1>9 DEF ClickSave, Begin, Busy, Idle
  <1>10. ASSUME NEW c \in Click, SaveAnswered(c)
        PROVE  ButtonsAgree'
    BY <1>10 DEF SaveAnswered, End
  <1>11. ASSUME NEW c \in Click, RequestFails(c)
        PROVE  ButtonsAgree'
    BY <1>11 DEF RequestFails, End
  <1>12. ASSUME NEW c \in Click, ClickHero(c)
        PROVE  ButtonsAgree'
    BY <1>12 DEF ClickHero, Begin, Busy, Idle
  <1>13. ASSUME NEW c \in Click, HeroAnswered(c)
        PROVE  ButtonsAgree'
    BY <1>13 DEF HeroAnswered
  <1>14. ASSUME NEW c \in Click, HeroFails(c)
        PROVE  ButtonsAgree'
    BY <1>14 DEF HeroFails, End
  <1>15. ASSUME NEW c \in Click, InsertHero(c)
        PROVE  ButtonsAgree'
    BY <1>15 DEF InsertHero, End
  <1> QED BY <1>1, <1>2, <1>3, <1>4, <1>5, <1>6, <1>7, <1>8, <1>9, <1>10,
        <1>11, <1>12, <1>13, <1>14, <1>15
       DEF EditorNext

\* A click that has come too early stays so.
LEMMA CrossedStays == [EditorNext]_editorVars /\ crossed => crossed'
  BY DEF EditorNext, editorVars, Type, EnterPreview, ShowPreview, ExitPreview, RestoreWork,
     ClickRevert, Reload, ClickSave, SaveAnswered, RequestFails, ClickHero, HeroAnswered,
     HeroFails, InsertHero, Begin

LEMMA EditorInvHolds == EditorSpec => []EditorInv
  <1>1. EditorInit => EditorInv
    <2> SUFFICES ASSUME EditorInit
                 PROVE  EditorInv
      OBVIOUS
    <2>1. EditorTypeOK
      BY DEF EditorInit, EditorTypeOK, EditedText
    <2>2. Orderly /\ ButtonsAgree
      BY DEF EditorInit, Orderly, ButtonsAgree, Busy
    <2> QED
      BY <2>1, <2>2 DEF EditorInv
  <1>2. EditorInv /\ [EditorNext]_editorVars => EditorInv'
    BY EditorTypeStep, OrderlyStep, ButtonsStep, CrossedStays DEF EditorInv
  <1> QED
    BY <1>1, <1>2, PTL DEF EditorSpec

\* Every variable of Editor keeps its type.
THEOREM EditorTyped == EditorSpec => []EditorTypeOK
  <1>1. EditorInv => EditorTypeOK
    BY DEF EditorInv
  <1> QED
    BY <1>1, EditorInvHolds, PTL

\* What was typed is lost only to clicks that cross, and the buttons agree with
\* what is on show.
THEOREM WorkIsKept == EditorSpec => []WorkLostNeedsOverlap
  <1>1. EditorInv => WorkLostNeedsOverlap
    <2> SUFFICES ASSUME EditorTypeOK, Orderly, ButtonsAgree
                 PROVE  /\ typed \subseteq Kept
                        /\ Idle => (saveOff <=> previewing) /\ (banner <=> previewing)
      BY DEF EditorInv, WorkLostNeedsOverlap
    <2>1. typed \subseteq Kept
      <3>1. CASE previewing
        BY <3>1 DEF Orderly, Kept
      <3>2. CASE \E c \in Click : click[c].does = "cancel"
        <4>1. PICK c \in Click : click[c].does = "cancel"
          BY <3>2
        <4>2. typed \subseteq click[c].md \cup OnServer
          BY <4>1 DEF Orderly
        <4> SUFFICES ASSUME NEW e \in typed
                     PROVE  e \in Kept
          OBVIOUS
        <4>3. CASE e \in click[c].md
          <5>1. e \in UnderWay
            BY <4>3 DEF UnderWay
          <5> QED
            BY <5>1 DEF Kept
        <4>4. CASE e \in OnServer
          BY <4>4 DEF Kept
        <4> QED
          BY <4>2, <4>3, <4>4
      <3>3. CASE ~previewing /\ \A c \in Click : click[c].does # "cancel"
        BY <3>3 DEF Orderly, Kept
      <3> QED
        BY <3>1, <3>2, <3>3
    <2> QED
      BY <2>1 DEF ButtonsAgree, Idle, Busy
  <1> QED
    BY <1>1, EditorInvHolds, PTL

-----------------------------------------------------------------------------
(* The sign-in form.                                                       *)

\* One request for a code at a time, for the address that was sent last.
AsksOnce ==
    ~outrun => \A r \in Call : Under(r, "ask") =>
        /\ call[r].email = asked
        /\ \A k \in Call : Under(k, "ask") => k = r

FormInv == FormTypeOK /\ AsksOnce /\ AsksForLastAddress

\* Types, action by action.
LEMMA FormTypeStep ==
    FormTypeOK /\ [FormNext]_formVars => FormTypeOK'
  <1> SUFFICES ASSUME FormTypeOK, [FormNext]_formVars
               PROVE  FormTypeOK'
    OBVIOUS
  <1> USE DEF FormTypeOK, setup
  <1>1. CASE UNCHANGED formVars
    BY <1>1 DEF formVars
  <1>2. ASSUME Probe
        PROVE  FormTypeOK'
    BY <1>2 DEF Probe, Draw
  <1>3. ASSUME ChangeEmail
        PROVE  FormTypeOK'
    BY <1>3 DEF ChangeEmail, Draw
  <1>4. ASSUME StartOver
        PROVE  FormTypeOK'
    BY <1>4 DEF StartOver, Draw
  <1>5. ASSUME SwitchMode
        PROVE  FormTypeOK'
    BY <1>5 DEF SwitchMode, Draw
  <1>6. ASSUME NEW r \in Call, NEW a \in Address, SubmitEmail(r, a)
        PROVE  FormTypeOK'
    BY <1>6 DEF SubmitEmail, Send, Under
  <1>7. ASSUME NEW r \in Call, NEW a \in Address, SubmitClaim(r, a)
        PROVE  FormTypeOK'
    BY <1>7 DEF SubmitClaim, Send, Under
  <1>8. ASSUME NEW r \in Call, EmailSent(r)
        PROVE  FormTypeOK'
    BY <1>8 DEF EmailSent, Return, Draw, Under
  <1>9. ASSUME NEW r \in Call, CallFails(r)
        PROVE  FormTypeOK'
    BY <1>9 DEF CallFails, Return, Draw, Under
  <1>10. ASSUME NEW r \in Call, ResendCode(r)
        PROVE  FormTypeOK'
    BY <1>10 DEF ResendCode, Send, Draw, Under, AtCode
  <1>11. ASSUME NEW r \in Call, CallSent(r)
        PROVE  FormTypeOK'
    BY <1>11 DEF CallSent, Return, Draw, Under
  <1>12. ASSUME NEW r \in Call, SubmitCode(r)
        PROVE  FormTypeOK'
    BY <1>12 DEF SubmitCode, Send, Under, AtCode
  <1> QED BY <1>1, <1>2, <1>3, <1>4, <1>5, <1>6, <1>7, <1>8, <1>9, <1>10,
        <1>11, <1>12
       DEF FormNext

\* A second form that is sent before the answer outruns the first.
LEMMA AsksOnceStep ==
    FormTypeOK /\ AsksOnce /\ [FormNext]_formVars => AsksOnce'
  <1> SUFFICES ASSUME FormTypeOK, AsksOnce, [FormNext]_formVars
               PROVE  AsksOnce'
    OBVIOUS
  <1> USE DEF FormTypeOK, AsksOnce, Under, setup
  <1>1. CASE UNCHANGED formVars
    BY <1>1 DEF formVars
  <1>2. ASSUME Probe
        PROVE  AsksOnce'
    BY <1>2 DEF Probe, Draw
  <1>3. ASSUME ChangeEmail
        PROVE  AsksOnce'
    BY <1>3 DEF ChangeEmail, Draw
  <1>4. ASSUME StartOver
        PROVE  AsksOnce'
    BY <1>4 DEF StartOver, Draw
  <1>5. ASSUME SwitchMode
        PROVE  AsksOnce'
    BY <1>5 DEF SwitchMode, Draw
  <1>6. ASSUME NEW r \in Call, NEW a \in Address, SubmitEmail(r, a)
        PROVE  AsksOnce'
    BY <1>6 DEF SubmitEmail, Send, Under
  <1>7. ASSUME NEW r \in Call, NEW a \in Address, SubmitClaim(r, a)
        PROVE  AsksOnce'
    BY <1>7 DEF SubmitClaim, Send, Under
  <1>8. ASSUME NEW r \in Call, EmailSent(r)
        PROVE  AsksOnce'
    BY <1>8 DEF EmailSent, Return, Draw, Under
  <1>9. ASSUME NEW r \in Call, CallFails(r)
        PROVE  AsksOnce'
    BY <1>9 DEF CallFails, Return, Draw, Under
  <1>10. ASSUME NEW r \in Call, ResendCode(r)
        PROVE  AsksOnce'
    BY <1>10 DEF ResendCode, Send, Draw, Under, AtCode
  <1>11. ASSUME NEW r \in Call, CallSent(r)
        PROVE  AsksOnce'
    BY <1>11 DEF CallSent, Return, Draw, Under
  <1>12. ASSUME NEW r \in Call, SubmitCode(r)
        PROVE  AsksOnce'
    BY <1>12 DEF SubmitCode, Send, Under, AtCode
  <1> QED BY <1>1, <1>2, <1>3, <1>4, <1>5, <1>6, <1>7, <1>8, <1>9, <1>10,
        <1>11, <1>12
       DEF FormNext

\* The form for the code comes with the answer.
LEMMA LastAddressStep ==
    FormTypeOK /\ AsksOnce /\ AsksForLastAddress /\ [FormNext]_formVars => AsksForLastAddress'
  <1> SUFFICES ASSUME FormTypeOK, AsksOnce, AsksForLastAddress, [FormNext]_formVars
               PROVE  AsksForLastAddress'
    OBVIOUS
  <1> USE DEF FormTypeOK, AsksOnce, AsksForLastAddress, Under, setup
  <1>1. CASE UNCHANGED formVars
    BY <1>1 DEF formVars
  <1>2. ASSUME Probe
        PROVE  AsksForLastAddress'
    BY <1>2 DEF Probe, Draw
  <1>3. ASSUME ChangeEmail
        PROVE  AsksForLastAddress'
    BY <1>3 DEF ChangeEmail, Draw
  <1>4. ASSUME StartOver
        PROVE  AsksForLastAddress'
    BY <1>4 DEF StartOver, Draw
  <1>5. ASSUME SwitchMode
        PROVE  AsksForLastAddress'
    BY <1>5 DEF SwitchMode, Draw
  <1>6. ASSUME NEW r \in Call, NEW a \in Address, SubmitEmail(r, a)
        PROVE  AsksForLastAddress'
    BY <1>6 DEF SubmitEmail, Send, Under
  <1>7. ASSUME NEW r \in Call, NEW a \in Address, SubmitClaim(r, a)
        PROVE  AsksForLastAddress'
    BY <1>7 DEF SubmitClaim, Send, Under
  <1>8. ASSUME NEW r \in Call, EmailSent(r)
        PROVE  AsksForLastAddress'
    BY <1>8 DEF EmailSent, Return, Draw, Under
  <1>9. ASSUME NEW r \in Call, CallFails(r)
        PROVE  AsksForLastAddress'
    BY <1>9 DEF CallFails, Return, Draw, Under
  <1>10. ASSUME NEW r \in Call, ResendCode(r)
        PROVE  AsksForLastAddress'
    BY <1>10 DEF ResendCode, Send, Draw, Under, AtCode
  <1>11. ASSUME NEW r \in Call, CallSent(r)
        PROVE  AsksForLastAddress'
    BY <1>11 DEF CallSent, Return, Draw, Under
  <1>12. ASSUME NEW r \in Call, SubmitCode(r)
        PROVE  AsksForLastAddress'
    BY <1>12 DEF SubmitCode, Send, Under, AtCode
  <1> QED BY <1>1, <1>2, <1>3, <1>4, <1>5, <1>6, <1>7, <1>8, <1>9, <1>10,
        <1>11, <1>12
       DEF FormNext

LEMMA FormInvHolds == FormSpec => []FormInv
  <1>1. FormInit => FormInv
    <2> SUFFICES ASSUME FormInit
                 PROVE  FormInv
      OBVIOUS
    <2>1. PICK a \in Address :
             /\ pendingEmail = a /\ asked = a
             /\ call = [r \in Call |-> [does |-> "nothing", email |-> a]]
      BY DEF FormInit
    <2>2. FormTypeOK
      BY <2>1 DEF FormInit, FormTypeOK
    <2>3. AsksOnce /\ AsksForLastAddress
      BY <2>1 DEF FormInit, AsksOnce, AsksForLastAddress, Under
    <2> QED
      BY <2>2, <2>3 DEF FormInv
  <1>2. FormInv /\ [FormNext]_formVars => FormInv'
    BY FormTypeStep, AsksOnceStep, LastAddressStep DEF FormInv
  <1> QED
    BY <1>1, <1>2, PTL DEF FormSpec

\* Every variable of SignInForm keeps its type.
THEOREM FormTyped == FormSpec => []FormTypeOK
  <1>1. FormInv => FormTypeOK
    BY DEF FormInv
  <1> QED
    BY <1>1, FormInvHolds, PTL

\* The form for the code asks for the address that was sent last, unless one form
\* outran another.
THEOREM LastAddressAsked == FormSpec => []AsksForLastAddress
  <1>1. FormInv => AsksForLastAddress
    BY DEF FormInv
  <1> QED
    BY <1>1, FormInvHolds, PTL

-----------------------------------------------------------------------------
(* The administration.                                                     *)

\* Views are numbered as they are opened, and nothing is newer than the server.
InScope ==
    /\ chosen = count
    /\ place <= count
    /\ \A v \in View : view[v].page <= count /\ mounted[v] <= count
    /\ \A j \in Job : job[j].view <= count /\ job[j].rows <= rows
    /\ confirmed <= rows

\* What was asked for last is on show, with one handler at most, and those of the
\* views before it draw elsewhere.
OnShow ==
    /\ mounted[place] = chosen
    /\ view[chosen].page = place
    /\ \A j \in Job : ~Free(j) /\ job[j].view # chosen =>
          /\ view[job[j].view].page # place
          /\ ~DrawsRoot(job[j].view)
          /\ job[j].does \notin {"create", "reload", "delete"}
    /\ \A j, k \in Job : Waits(j, chosen) /\ Waits(k, chosen) => j = k

\* A list of which one expects the changes that it has confirmed.
Listing ==
    /\ view[chosen].kind \in Lists
    /\ ~view[chosen].alert
    /\ view[chosen].kind = "sites" => chosen = 1

\* It has them, or will have.
UpToDate ==
    Listing =>
        /\ (\A j \in Job : ~Waits(j, chosen)) => confirmed <= view[chosen].rows
        /\ \A j \in Job : Waits(j, chosen) /\ job[j].does = "load" /\ job[j].done
                              => confirmed <= job[j].rows

PageInv == PageTypeOK /\ InScope /\ (~overtaken => OnShow /\ UpToDate)

\* The work of a handler.
LEMMA WorkTyped ==
    ASSUME NEW v \in View,
           NEW does \in {"nothing", "find", "load", "change", "create", "reload", "delete"}
    PROVE  /\ Work(does, v) \in Handling
           /\ Work(does, v).does = does /\ Work(does, v).view = v
           /\ Work(does, v).done = FALSE /\ Work(does, v).rows = 0
  BY DEF Work, Handling

LEMMA FirstWorkTyped ==
    ASSUME NEW v \in View, NEW kind
    PROVE  /\ FirstWork(kind, v) \in Handling
           /\ FirstWork(kind, v).does \in {"nothing", "find", "load"}
           /\ FirstWork(kind, v).view \in {1, v}
           /\ FirstWork(kind, v).done = FALSE /\ FirstWork(kind, v).rows = 0
           /\ FirstWork(kind, v).does # "nothing" => FirstWork(kind, v).view = v
           /\ kind \in Lists \ {"sites"} =>
                  FirstWork(kind, v).does = "load" /\ FirstWork(kind, v).view = v
  BY PageAssumption DEF FirstWork, NoWork, Work, Handling, View

LEMMA UnreadTyped ==
    ASSUME NEW p \in View, NEW kind \in Lists \cup Forms \cup Tabs \cup Pages
    PROVE  /\ Unread(kind, p) \in Opened
           /\ Unread(kind, p).kind = kind /\ Unread(kind, p).page = p
           /\ Unread(kind, p).rows = 0 /\ Unread(kind, p).alert = FALSE
  BY DEF Unread, Opened

\* The number of the next view.
LEMMA NextView ==
    ASSUME PageTypeOK, count < MaxViews
    PROVE  count + 1 \in View /\ count \in Nat
  BY PageAssumption DEF PageTypeOK, View

LEMMA NoWorkTyped ==
    NoWork \in Handling /\ NoWork.does = "nothing" /\ NoWork.view = 1 /\ NoWork.done = FALSE
        /\ NoWork.rows = 0
  <1>1. 1 \in View
    BY PageAssumption DEF View
  <1> QED
    BY ZenonT(40), <1>1, WorkTyped DEF NoWork

\* What a view or a handler becomes that changes in part.
LEMMA ViewKept ==
    ASSUME PageTypeOK, NEW v \in View,
           \/ view' = [view EXCEPT ![v].kind = "members"]
           \/ \E n \in Nat : view' = [view EXCEPT ![v].rows = n]
           \/ \E b \in BOOLEAN : view' = [view EXCEPT ![v].alert = b]
    PROVE  view' \in [View -> Opened]
  <1>1. "members" \in Lists \cup Forms \cup Tabs \cup Pages
    BY DEF Lists
  <1> QED
    BY <1>1 DEF PageTypeOK, Opened

LEMMA JobKept ==
    ASSUME PageTypeOK, NEW j \in Job, NEW x \in Handling, job' = [job EXCEPT ![j] = x]
    PROVE  job' \in [Job -> Handling]
  BY DEF PageTypeOK

\* The server has acted.
LEMMA ServedKept ==
    ASSUME PageTypeOK, NEW j \in Job, NEW n \in Nat,
           job' = [job EXCEPT ![j].done = TRUE, ![j].rows = n]
    PROVE  /\ job' \in [Job -> Handling]
           /\ job'[j].does = job[j].does /\ job'[j].view = job[j].view
           /\ job'[j].done = TRUE /\ job'[j].rows = n
           /\ \A k \in Job \ {j} : job'[k] = job[k]
  BY DEF PageTypeOK, Handling

LEMMA JobParts ==
    ASSUME PageTypeOK, NEW j \in Job
    PROVE  job[j].view \in View /\ job[j].rows \in Nat /\ job[j].done \in BOOLEAN
  BY DEF PageTypeOK, Handling

LEMMA ViewParts ==
    ASSUME PageTypeOK, NEW v \in View
    PROVE  /\ view[v].page \in View /\ view[v].rows \in Nat /\ view[v].alert \in BOOLEAN
           /\ view[v].kind \in Lists \cup Forms \cup Tabs \cup Pages
  BY DEF PageTypeOK, Opened

\* Types, action by action.
LEMMA PageTypeStep ==
    PageTypeOK /\ [PageNext]_pageVars => PageTypeOK'
  <1> SUFFICES ASSUME PageTypeOK, [PageNext]_pageVars
               PROVE  PageTypeOK'
    OBVIOUS
  <1>1. CASE UNCHANGED pageVars
    BY <1>1 DEF pageVars, PageTypeOK
  <1>2. ASSUME NEW j \in Job, NEW kind \in Pages, Navigate(j, kind)
        PROVE  PageTypeOK'
    <2>1. count + 1 \in View /\ kind \in Lists \cup Forms \cup Tabs \cup Pages
      BY <1>2, NextView DEF Navigate, OpenPage
    <2>2. view' \in [View -> Opened]
      BY <1>2, <2>1, UnreadTyped DEF Navigate, OpenPage, PageTypeOK
    <2>3. job' \in [Job -> Handling]
      BY <1>2, <2>1, FirstWorkTyped, JobKept DEF Navigate, OpenPage
    <2>4. overtaken' \in BOOLEAN
      BY <1>2 DEF Navigate, PageTypeOK
    <2> QED
      BY <1>2, <2>1, <2>2, <2>3, <2>4 DEF Navigate, OpenPage, PageTypeOK
  <1>3. ASSUME NEW j \in Job, NEW kind \in Tabs, SetActive(j, kind)
        PROVE  PageTypeOK'
    <2>1. count + 1 \in View /\ kind \in Lists \cup Forms \cup Tabs \cup Pages
      BY <1>3, NextView DEF SetActive
    <2>2. view' \in [View -> Opened]
      BY <1>3, <2>1, UnreadTyped DEF SetActive, PageTypeOK
    <2>3. job' \in [Job -> Handling]
      BY <1>3, <2>1, FirstWorkTyped, JobKept DEF SetActive
    <2>4. overtaken' \in BOOLEAN
      BY <1>3 DEF SetActive, PageTypeOK
    <2> QED
      BY <1>3, <2>1, <2>2, <2>3, <2>4 DEF SetActive, PageTypeOK
  <1>4. ASSUME NEW j \in Job, NEW does \in {"change", "create", "delete"}, Act(j, does)
        PROVE  PageTypeOK'
    <2>1. mounted[place] \in View
      BY DEF PageTypeOK
    <2>2. Work(does, mounted[place]) \in Handling
      BY <2>1, WorkTyped
    <2>3. job' \in [Job -> Handling]
      BY <1>4, <2>2, JobKept DEF Act
    <2>4. overtaken' \in BOOLEAN
      BY <1>4 DEF Act, PageTypeOK
    <2> QED
      BY <1>4, <2>3, <2>4 DEF Act, PageTypeOK
  <1>5. ASSUME NEW j \in Job, ServerReads(j)
        PROVE  PageTypeOK'
    <2>1. rows \in Nat
      BY DEF PageTypeOK
    <2>2. job' \in [Job -> Handling]
      BY <1>5, <2>1, ServedKept DEF ServerReads
    <2> QED
      BY <1>5, <2>2 DEF ServerReads, PageTypeOK
  <1>6. ASSUME NEW j \in Job, ServerActs(j)
        PROVE  PageTypeOK'
    <2>1. rows' \in Nat
      BY <1>6 DEF ServerActs, PageTypeOK
    <2>2. job' \in [Job -> Handling]
      BY <1>6, <2>1, ServedKept DEF ServerActs
    <2> QED
      BY <1>6, <2>1, <2>2 DEF ServerActs, PageTypeOK
  <1>7. ASSUME NEW j \in Job, GroupFound(j)
        PROVE  PageTypeOK'
    <2>1. job[j].view \in View
      BY JobParts
    <2>2. view' \in [View -> Opened]
      BY <1>7, <2>1, ViewKept DEF GroupFound
    <2>3. mounted' \in [View -> View] /\ place' \in View
      BY <1>7, <2>1, ViewParts DEF GroupFound, Mount, PageTypeOK
    <2>4. Work("load", job[j].view) \in Handling
      BY <2>1, WorkTyped
    <2>5. job' \in [Job -> Handling]
      BY <1>7, <2>4, JobKept DEF GroupFound
    <2> QED
      BY <1>7, <2>2, <2>3, <2>5 DEF GroupFound, PageTypeOK
  <1>8. ASSUME NEW j \in Job, LoadAnswered(j)
        PROVE  PageTypeOK'
    <2>1. job[j].view \in View /\ job[j].rows \in Nat
      BY JobParts
    <2>2. view' \in [View -> Opened]
      BY <1>8, <2>1, ViewKept DEF LoadAnswered
    <2>3. mounted' \in [View -> View] /\ place' \in View
      BY <1>8, <2>1, ViewParts DEF LoadAnswered, Mount, PageTypeOK
    <2>4. job' \in [Job -> Handling]
      BY <1>8, NoWorkTyped, JobKept DEF LoadAnswered
    <2> QED
      BY <1>8, <2>2, <2>3, <2>4 DEF LoadAnswered, PageTypeOK
  <1>9. ASSUME NEW j \in Job, ChangeAnswered(j)
        PROVE  PageTypeOK'
    <2>1. job[j].view \in View /\ job[j].rows \in Nat
      BY JobParts
    <2>2. view' \in [View -> Opened]
      BY <1>9, <2>1, ViewKept DEF ChangeAnswered
    <2>3. mounted' \in [View -> View] /\ place' \in View
      BY <1>9, <2>1, ViewParts DEF ChangeAnswered, Mount, PageTypeOK
    <2>4. Work("load", job[j].view) \in Handling
      BY <2>1, WorkTyped
    <2>5. job' \in [Job -> Handling]
      BY <1>9, <2>4, NoWorkTyped, JobKept DEF ChangeAnswered
    <2>6. confirmed' \in Nat
      BY <1>9, <2>1 DEF ChangeAnswered, PageTypeOK
    <2> QED
      BY <1>9, <2>2, <2>3, <2>5, <2>6 DEF ChangeAnswered, PageTypeOK
  <1>10. ASSUME NEW j \in Job, GroupMade(j)
        PROVE  PageTypeOK'
    <2>1. job[j].view \in View /\ job[j].rows \in Nat
      BY JobParts
    <2>2. view' \in [View -> Opened]
      BY <1>10, <2>1, ViewKept DEF GroupMade
    <2>3. Work("reload", job[j].view) \in Handling
      BY <2>1, WorkTyped
    <2>4. job' \in [Job -> Handling]
      BY <1>10, <2>3, JobKept DEF GroupMade
    <2>5. confirmed' \in Nat
      BY <1>10, <2>1 DEF GroupMade, PageTypeOK
    <2> QED
      BY <1>10, <2>2, <2>4, <2>5 DEF GroupMade, PageTypeOK
  <1>11. ASSUME NEW j \in Job, MoveOn(j)
        PROVE  PageTypeOK'
    <2>1. PICK kind \in Pages : OpenPage(j, kind)
      BY <1>11 DEF MoveOn, Pages
    <2>2. count + 1 \in View /\ kind \in Lists \cup Forms \cup Tabs \cup Pages
      BY <2>1, NextView DEF OpenPage
    <2>3. view' \in [View -> Opened]
      BY <2>1, <2>2, UnreadTyped DEF OpenPage, PageTypeOK
    <2>4. job' \in [Job -> Handling]
      BY <2>1, <2>2, FirstWorkTyped, JobKept DEF OpenPage
    <2>5. confirmed' \in Nat
      BY <1>11, JobParts DEF MoveOn, PageTypeOK
    <2> QED
      BY <1>11, <2>1, <2>2, <2>3, <2>4, <2>5 DEF MoveOn, OpenPage, PageTypeOK
  <1>12. ASSUME NEW j \in Job, JobFails(j)
        PROVE  PageTypeOK'
    <2>1. job[j].view \in View
      BY JobParts
    <2>2. view' \in [View -> Opened]
      BY <1>12, <2>1, ViewKept DEF JobFails
    <2>3. mounted' \in [View -> View] /\ place' \in View
      BY <1>12, <2>1, ViewParts DEF JobFails, Mount, PageTypeOK
    <2>4. job' \in [Job -> Handling]
      BY <1>12, NoWorkTyped, JobKept DEF JobFails
    <2> QED
      BY <1>12, <2>2, <2>3, <2>4 DEF JobFails, PageTypeOK
  <1> QED BY <1>1, <1>2, <1>3, <1>4, <1>5, <1>6, <1>7, <1>8, <1>9, <1>10,
        <1>11, <1>12
       DEF PageNext

\* What opening a view changes, whatever opens it.
Opens(j, n, p) ==
    /\ n = count + 1 /\ n \in View /\ p \in View
    /\ view'[n].page = p /\ view'[n].rows = 0 /\ view'[n].alert = FALSE
    /\ \A v \in View \ {n} : view'[v] = view[v]
    /\ job'[j].does \in {"nothing", "find", "load"} /\ job'[j].view \in {1, n}
    /\ job'[j].does # "nothing" => job'[j].view = n
    /\ view'[n].kind \in Lists \ {"sites"} => job'[j].does = "load" /\ job'[j].view = n
    /\ job'[j].done = FALSE /\ job'[j].rows = 0
    /\ \A k \in Job \ {j} : job'[k] = job[k]
    /\ count' = n /\ chosen' = n /\ place' = p
    /\ mounted'[p] = n /\ \A q \in View \ {p} : mounted'[q] = mounted[q]
    /\ UNCHANGED rows

LEMMA OpenPageOpens ==
    ASSUME PageTypeOK, NEW j \in Job, NEW kind \in Pages, OpenPage(j, kind),
           UNCHANGED rows
    PROVE  Opens(j, count + 1, count + 1)
  <1>1. count + 1 \in View /\ kind \in Lists \cup Forms \cup Tabs \cup Pages
    BY NextView DEF OpenPage
  <1>2. /\ view'[count + 1] = Unread(kind, count + 1)
        /\ \A v \in View \ {count + 1} : view'[v] = view[v]
        /\ job'[j] = FirstWork(kind, count + 1)
        /\ \A k \in Job \ {j} : job'[k] = job[k]
        /\ mounted'[count + 1] = count + 1
        /\ \A q \in View \ {count + 1} : mounted'[q] = mounted[q]
    BY <1>1 DEF OpenPage, PageTypeOK
  <1> DEFINE n == count + 1
             u == Unread(kind, n)
             w == FirstWork(kind, n)
  <1>3. u.kind = kind /\ u.page = n /\ u.rows = 0 /\ u.alert = FALSE
    BY <1>1, UnreadTyped
  <1>4. /\ w.does \in {"nothing", "find", "load"} /\ w.view \in {1, n}
        /\ w.done = FALSE /\ w.rows = 0
        /\ w.does # "nothing" => w.view = n
        /\ kind \in Lists \ {"sites"} => w.does = "load" /\ w.view = n
    BY <1>1, FirstWorkTyped
  <1>5. view'[n] = u /\ job'[j] = w
    BY <1>2
  <1> HIDE DEF u, w
  <1> QED
    BY <1>1, <1>2, <1>3, <1>4, <1>5 DEF OpenPage, Opens

LEMMA SetActiveOpens ==
    ASSUME PageTypeOK, NEW j \in Job, NEW kind \in Tabs, SetActive(j, kind)
    PROVE  Opens(j, count + 1, place)
  <1>1. /\ count + 1 \in View /\ place \in View
        /\ kind \in Lists \cup Forms \cup Tabs \cup Pages
    BY NextView DEF SetActive, PageTypeOK
  <1>2. /\ view'[count + 1] = Unread(kind, place)
        /\ \A v \in View \ {count + 1} : view'[v] = view[v]
        /\ job'[j] = FirstWork(kind, count + 1)
        /\ \A k \in Job \ {j} : job'[k] = job[k]
        /\ mounted'[place] = count + 1
        /\ \A q \in View \ {place} : mounted'[q] = mounted[q]
    BY <1>1 DEF SetActive, PageTypeOK
  <1> DEFINE n == count + 1
             u == Unread(kind, place)
             w == FirstWork(kind, n)
  <1>3. u.kind = kind /\ u.page = place /\ u.rows = 0 /\ u.alert = FALSE
    BY <1>1, UnreadTyped
  <1>4. /\ w.does \in {"nothing", "find", "load"} /\ w.view \in {1, n}
        /\ w.done = FALSE /\ w.rows = 0
        /\ w.does # "nothing" => w.view = n
        /\ kind \in Lists \ {"sites"} => w.does = "load" /\ w.view = n
    BY <1>1, FirstWorkTyped
  <1>5. view'[n] = u /\ job'[j] = w
    BY <1>2
  <1> HIDE DEF u, w
  <1> QED
    BY <1>1, <1>2, <1>3, <1>4, <1>5 DEF SetActive, Opens

\* What a handler changes that stays on its view: the view may get other rows, an
\* alert or the members of a group, and is mounted or not.
Goes(j, v) ==
    /\ v \in View /\ job[j].view = v /\ ~Free(j)
    /\ view'[v].page = view[v].page
    /\ view'[v].kind \in {view[v].kind, "members"}
    /\ \A w \in View \ {v} : view'[w] = view[w]
    /\ job'[j].does = "nothing" \/ job'[j].view = v
    /\ job'[j].view \in {1, v} /\ job'[j].rows = 0
    /\ \A k \in Job \ {j} : job'[k] = job[k]
    /\ \/ mounted' = mounted /\ place' = place
       \/ /\ mounted' = [mounted EXCEPT ![view[v].page] = v]
          /\ place' = IF DrawsRoot(v) THEN view[v].page ELSE place
    /\ UNCHANGED <<count, chosen, rows, overtaken>>

LEMMA GroupFoundGoes ==
    ASSUME PageTypeOK, NEW j \in Job, GroupFound(j)
    PROVE  Goes(j, job[j].view)
  <1>1. job[j].view \in View
    BY JobParts
  <1>2. /\ view'[job[j].view].page = view[job[j].view].page
        /\ view'[job[j].view].kind \in {view[job[j].view].kind, "members"}
        /\ \A w \in View \ {job[j].view} : view'[w] = view[w]
    BY <1>1 DEF GroupFound, PageTypeOK, Opened
  <1>3. job'[j] \in {NoWork, Work("load", job[j].view)}
            /\ \A k \in Job \ {j} : job'[k] = job[k]
    BY DEF GroupFound, PageTypeOK
  <1>4. /\ job'[j].does = "nothing" \/ job'[j].view = job[j].view
        /\ job'[j].view \in {1, job[j].view} /\ job'[j].rows = 0
    <2>1. Work("load", job[j].view).view = job[j].view
              /\ Work("load", job[j].view).rows = 0
      BY <1>1, WorkTyped
    <2> QED
      BY <1>3, <2>1, NoWorkTyped
  <1>5. ~Free(j)
    BY DEF GroupFound, Free
  <1> QED
    BY <1>1, <1>2, <1>3, <1>4, <1>5 DEF GroupFound, Goes, Mount

LEMMA LoadAnsweredGoes ==
    ASSUME PageTypeOK, NEW j \in Job, LoadAnswered(j)
    PROVE  Goes(j, job[j].view)
  <1>1. job[j].view \in View
    BY JobParts
  <1>2. /\ view'[job[j].view].page = view[job[j].view].page
        /\ view'[job[j].view].kind \in {view[job[j].view].kind, "members"}
        /\ \A w \in View \ {job[j].view} : view'[w] = view[w]
    BY <1>1 DEF LoadAnswered, PageTypeOK, Opened
  <1>3. job'[j] \in {NoWork, Work("load", job[j].view)}
            /\ \A k \in Job \ {j} : job'[k] = job[k]
    BY DEF LoadAnswered, PageTypeOK
  <1>4. /\ job'[j].does = "nothing" \/ job'[j].view = job[j].view
        /\ job'[j].view \in {1, job[j].view} /\ job'[j].rows = 0
    <2>1. Work("load", job[j].view).view = job[j].view
              /\ Work("load", job[j].view).rows = 0
      BY <1>1, WorkTyped
    <2> QED
      BY <1>3, <2>1, NoWorkTyped
  <1>5. ~Free(j)
    BY DEF LoadAnswered, Free
  <1> QED
    BY <1>1, <1>2, <1>3, <1>4, <1>5 DEF LoadAnswered, Goes, Mount

LEMMA ChangeAnsweredGoes ==
    ASSUME PageTypeOK, NEW j \in Job, ChangeAnswered(j)
    PROVE  Goes(j, job[j].view)
  <1>1. job[j].view \in View
    BY JobParts
  <1>2. /\ view'[job[j].view].page = view[job[j].view].page
        /\ view'[job[j].view].kind \in {view[job[j].view].kind, "members"}
        /\ \A w \in View \ {job[j].view} : view'[w] = view[w]
    BY <1>1 DEF ChangeAnswered, PageTypeOK, Opened
  <1>3. job'[j] \in {NoWork, Work("load", job[j].view)}
            /\ \A k \in Job \ {j} : job'[k] = job[k]
    BY DEF ChangeAnswered, PageTypeOK
  <1>4. /\ job'[j].does = "nothing" \/ job'[j].view = job[j].view
        /\ job'[j].view \in {1, job[j].view} /\ job'[j].rows = 0
    <2>1. Work("load", job[j].view).view = job[j].view
              /\ Work("load", job[j].view).rows = 0
      BY <1>1, WorkTyped
    <2> QED
      BY <1>3, <2>1, NoWorkTyped
  <1>5. ~Free(j)
    BY DEF ChangeAnswered, Free
  <1> QED
    BY <1>1, <1>2, <1>3, <1>4, <1>5 DEF ChangeAnswered, Goes, Mount

LEMMA JobFailsGoes ==
    ASSUME PageTypeOK, NEW j \in Job, JobFails(j)
    PROVE  Goes(j, job[j].view)
  <1>1. job[j].view \in View
    BY JobParts
  <1>2. /\ view'[job[j].view].page = view[job[j].view].page
        /\ view'[job[j].view].kind \in {view[job[j].view].kind, "members"}
        /\ \A w \in View \ {job[j].view} : view'[w] = view[w]
    BY <1>1 DEF JobFails, PageTypeOK, Opened
  <1>3. job'[j] \in {NoWork, Work("load", job[j].view)}
            /\ \A k \in Job \ {j} : job'[k] = job[k]
    BY DEF JobFails, PageTypeOK
  <1>4. /\ job'[j].does = "nothing" \/ job'[j].view = job[j].view
        /\ job'[j].view \in {1, job[j].view} /\ job'[j].rows = 0
    <2>1. Work("load", job[j].view).view = job[j].view
              /\ Work("load", job[j].view).rows = 0
      BY <1>1, WorkTyped
    <2> QED
      BY <1>3, <2>1, NoWorkTyped
  <1>5. ~Free(j)
    BY DEF JobFails, Free
  <1> QED
    BY <1>1, <1>2, <1>3, <1>4, <1>5 DEF JobFails, Goes, Mount

LEMMA GroupMadeGoes ==
    ASSUME PageTypeOK, NEW j \in Job, GroupMade(j)
    PROVE  Goes(j, job[j].view)
  <1>1. job[j].view \in View
    BY JobParts
  <1>2. /\ view'[job[j].view].page = view[job[j].view].page
        /\ view'[job[j].view].kind \in {view[job[j].view].kind, "members"}
        /\ \A w \in View \ {job[j].view} : view'[w] = view[w]
    BY <1>1 DEF GroupMade, PageTypeOK, Opened
  <1>3. job'[j] \in {NoWork, Work("reload", job[j].view)}
            /\ \A k \in Job \ {j} : job'[k] = job[k]
    BY DEF GroupMade, PageTypeOK
  <1>4. /\ job'[j].does = "nothing" \/ job'[j].view = job[j].view
        /\ job'[j].view \in {1, job[j].view} /\ job'[j].rows = 0
    <2>1. Work("reload", job[j].view).view = job[j].view
              /\ Work("reload", job[j].view).rows = 0
      BY <1>1, WorkTyped
    <2> QED
      BY <1>3, <2>1, NoWorkTyped
  <1>5. ~Free(j)
    BY DEF GroupMade, Free
  <1> QED
    BY <1>1, <1>2, <1>3, <1>4, <1>5 DEF GroupMade, Goes

\* Numbers that are compared.
LEMMA Numbers ==
    ASSUME PageTypeOK
    PROVE  /\ count \in Nat /\ 1 <= count /\ rows \in Nat /\ confirmed \in Nat
           /\ place \in Nat
           /\ \A v \in View : /\ v \in Nat /\ mounted[v] \in Nat
                              /\ view[v].page \in Nat /\ view[v].rows \in Nat
           /\ \A j \in Job : job[j].view \in Nat /\ job[j].rows \in Nat
  <1>1. \A v \in View : v \in Nat /\ 1 <= v
    BY PageAssumption DEF View
  <1> QED
    BY <1>1, ViewParts, JobParts DEF PageTypeOK

LEMMA OpensInScope ==
    ASSUME PageTypeOK, InScope, NEW j \in Job, NEW p, Opens(j, count + 1, p),
           p <= count + 1, confirmed' \in {confirmed, job[j].rows}
    PROVE  InScope'
  <1>1. \A v \in View : view'[v].page <= count + 1 /\ mounted'[v] <= count + 1
    BY Numbers DEF Opens, InScope
  <1>2. \A k \in Job : job'[k].view <= count + 1 /\ job'[k].rows <= rows
    BY Numbers DEF Opens, InScope
  <1>3. confirmed' <= rows
    BY DEF InScope
  <1> QED
    BY <1>1, <1>2, <1>3 DEF Opens, InScope

LEMMA GoesInScope ==
    ASSUME PageTypeOK, InScope, NEW j \in Job, NEW v, Goes(j, v),
           confirmed' \in {confirmed, job[j].rows}
    PROVE  InScope'
  <1>1. \A w \in View : view'[w].page <= count /\ mounted'[w] <= count
    <2>1. \A w \in View : view'[w].page <= count
      BY DEF Goes, InScope
    <2>2. v <= count
      BY DEF Goes, InScope
    <2>3. \A w \in View : mounted'[w] \in {mounted[w], v}
      BY ViewParts DEF Goes, PageTypeOK
    <2> QED
      BY <2>1, <2>2, <2>3 DEF InScope
  <1>2. \A k \in Job : job'[k].view <= count /\ job'[k].rows <= rows
    BY Numbers DEF Goes, InScope
  <1>3. confirmed' <= rows /\ place' <= count
    BY DEF InScope, Goes
  <1> QED
    BY <1>1, <1>2, <1>3 DEF Goes, InScope

\* Those that go on elsewhere while a view is opened leave it alone.
LEMMA OpensOnShow ==
    ASSUME PageTypeOK, InScope, NEW j \in Job, NEW p, Opens(j, count + 1, p),
           \A k \in Job \ {j} : ~Free(k) =>
               /\ view[job[k].view].page # p
               /\ ~DrawsRoot(job[k].view)
               /\ job[k].does \notin {"create", "reload", "delete"}
    PROVE  OnShow'
  <1>1. ASSUME NEW k \in Job \ {j}
        PROVE  /\ job'[k] = job[k] /\ job[k].view \in View
               /\ view'[job[k].view] = view[job[k].view]
               /\ job[k].view # count + 1
    <2>1. job[k].view \in View /\ job[k].view <= count
      BY JobParts DEF InScope
    <2>2. job[k].view # count + 1
      BY <2>1, Numbers
    <2> QED
      BY <2>1, <2>2 DEF Opens
  <1>2. mounted'[place'] = chosen' /\ view'[chosen'].page = place'
    BY DEF Opens
  <1>3. ASSUME NEW k \in Job, ~Free(k)', job'[k].view # chosen'
        PROVE  /\ view'[job'[k].view].page # place'
               /\ view'[job'[k].view].kind \notin {"profile", "sites"}
               /\ job'[k].does \notin {"create", "reload", "delete"}
    <2>1. k # j
      BY <1>3 DEF Opens, Free
    <2> QED
      BY <1>1, <1>3, <2>1 DEF Opens, Free, DrawsRoot
  <1>4. ASSUME NEW k \in Job, NEW i \in Job, Waits(k, chosen)', Waits(i, chosen)'
        PROVE  k = i
    <2>1. k = j /\ i = j
      BY <1>1, <1>4 DEF Waits, Opens
    <2> QED
      BY <2>1
  <1> QED
    BY <1>2, <1>3, <1>4 DEF OnShow, DrawsRoot, Waits, Free

\* A handler that stays on its view leaves what is on show where it is.
LEMMA GoesOnShow ==
    ASSUME PageTypeOK, InScope, OnShow, NEW j \in Job, NEW v, Goes(j, v),
           v = chosen \/ job'[j].does \notin {"create", "reload", "delete"}
    PROVE  OnShow'
  <1>1. mounted'[place'] = chosen /\ place' = place
    <2>1. CASE v = chosen
      BY <2>1, ViewParts DEF Goes, OnShow, PageTypeOK
    <2>2. CASE v # chosen
      <3>1. view[v].page # place /\ ~DrawsRoot(v)
        BY <2>2 DEF Goes, OnShow
      <3> QED
        BY <3>1 DEF Goes, OnShow, PageTypeOK
    <2> QED
      BY <2>1, <2>2
  <1>2. chosen' = chosen /\ \A w \in View : view'[w].page = view[w].page
    BY DEF Goes
  <1>3. chosen \in View
    BY DEF PageTypeOK
  <1>4. ASSUME NEW k \in Job, ~Free(k)', job'[k].view # chosen
        PROVE  /\ view'[job'[k].view].page # place
               /\ view'[job'[k].view].kind \notin {"profile", "sites"}
               /\ job'[k].does \notin {"create", "reload", "delete"}
    <2>1. job'[k].view = job[k].view /\ ~Free(k) /\ job[k].view \in View
      BY <1>4, JobParts DEF Goes, Free
    <2>2. view[job[k].view].page # place /\ ~DrawsRoot(job[k].view)
      BY <1>4, <2>1 DEF OnShow
    <2>3. view'[job[k].view].kind \in {view[job[k].view].kind, "members"}
      BY <2>1 DEF Goes
    <2>5. view'[job'[k].view].kind \notin {"profile", "sites"}
      BY <2>1, <2>2, <2>3 DEF DrawsRoot
    <2>4. job'[k].does \notin {"create", "reload", "delete"}
      BY <1>4, <2>1 DEF Goes, OnShow
    <2> QED
      BY <1>2, <2>1, <2>2, <2>5, <2>4
  <1>5. ASSUME NEW k \in Job, NEW i \in Job, Waits(k, chosen)', Waits(i, chosen)'
        PROVE  k = i
    <2>1. Waits(k, chosen) /\ Waits(i, chosen)
      BY <1>2, <1>5 DEF Waits, Goes, Free
    <2> QED
      BY <2>1 DEF OnShow
  <1> QED
    BY <1>1, <1>2, <1>3, <1>4, <1>5 DEF OnShow, DrawsRoot, Waits, Free

\* A list that is opened is loaded, but for that of the tenants.
LEMMA OpensUpToDate ==
    ASSUME PageTypeOK, InScope, NEW j \in Job, NEW p, Opens(j, count + 1, p)
    PROVE  UpToDate'
  <1>1. count + 1 # 1
    BY Numbers
  <1>2. SUFFICES ASSUME Listing'
                 PROVE  /\ Waits(j, chosen)'
                        /\ \A k \in Job : Waits(k, chosen)' => k = j
    BY DEF Opens, UpToDate
  <1>3. view'[count + 1].kind \in Lists \ {"sites"}
    BY <1>1, <1>2 DEF Opens, Listing
  <1>4. Waits(j, chosen)'
    BY <1>3 DEF Opens, Waits, Free
  <1>5. ASSUME NEW k \in Job, Waits(k, chosen)'
        PROVE  k = j
    <2>1. job[k].view # count + 1
      BY Numbers DEF InScope
    <2> QED
      BY <1>5, <2>1 DEF Opens, Waits
  <1> QED
    BY <1>4, <1>5

\* A handler of another view does nothing to the list.
LEMMA ElsewhereUpToDate ==
    ASSUME PageTypeOK, UpToDate, NEW j \in Job, NEW v, Goes(j, v), v # chosen,
           confirmed' = confirmed
    PROVE  UpToDate'
  <1>1. view'[chosen] = view[chosen] /\ chosen' = chosen
    BY DEF Goes, PageTypeOK
  <1>2. ASSUME NEW k \in Job
        PROVE  /\ Waits(k, chosen)' <=> Waits(k, chosen)
               /\ Waits(k, chosen) => job'[k] = job[k]
    <2>1. CASE k = j
      <3>1. ~Waits(k, chosen)
        BY <2>1 DEF Goes, Waits
      <3>2. ~Waits(k, chosen)'
        BY <2>1 DEF Goes, Waits, Free
      <3> QED
        BY <3>1, <3>2
    <2>2. CASE k # j
      BY <1>1, <2>2 DEF Goes, Waits, Free
    <2> QED
      BY <2>1, <2>2
  <1>3. Listing' <=> Listing
    BY <1>1 DEF Listing
  <1> QED
    BY <1>1, <1>2, <1>3 DEF UpToDate

\* The one handler of the view on show goes on.
LEMMA HereUpToDate ==
    ASSUME PageTypeOK, OnShow, NEW j \in Job, Goes(j, chosen),
           Listing' => \/ ~Free(j)' /\ (job'[j].does = "load" => ~job'[j].done)
                       \/ Free(j)' /\ confirmed' <= view'[chosen].rows
    PROVE  UpToDate'
  <1>1. ASSUME NEW k \in Job, Waits(k, chosen)'
        PROVE  k = j
    <2>1. Waits(j, chosen) /\ Waits(k, chosen)
      BY <1>1 DEF Goes, Waits, Free
    <2> QED
      BY <2>1 DEF OnShow
  <1>2. ~Free(j)' => Waits(j, chosen)'
    BY DEF Goes, Waits, Free
  <1>3. chosen' = chosen
    BY DEF Goes
  <1>4. Waits(j, chosen)' => ~Free(j)'
    BY DEF Waits
  <1> QED
    BY <1>1, <1>2, <1>3, <1>4 DEF UpToDate, Waits, Free

\* Views and changes, action by action.
LEMMA InScopeStep ==
    PageTypeOK /\ InScope /\ [PageNext]_pageVars => InScope'
  <1> SUFFICES ASSUME PageTypeOK, InScope, [PageNext]_pageVars
               PROVE  InScope'
    OBVIOUS
  <1>1. CASE UNCHANGED pageVars
    BY <1>1 DEF pageVars, InScope
  <1>2. ASSUME NEW j \in Job, NEW kind \in Pages, Navigate(j, kind)
        PROVE  InScope'
    <2>1. Opens(j, count + 1, count + 1)
      BY <1>2, OpenPageOpens DEF Navigate
    <2>2. confirmed' \in {confirmed, job[j].rows}
      BY <1>2 DEF Navigate
    <2> QED
      BY <2>1, <2>2, Numbers, OpensInScope
  <1>3. ASSUME NEW j \in Job, NEW kind \in Tabs, SetActive(j, kind)
        PROVE  InScope'
    <2>1. Opens(j, count + 1, place)
      BY <1>3, SetActiveOpens
    <2>2. confirmed' \in {confirmed, job[j].rows}
      BY <1>3 DEF SetActive
    <2>3. place <= count + 1
      BY Numbers DEF InScope
    <2> QED
      BY <2>1, <2>2, <2>3, OpensInScope
  <1>4. ASSUME NEW j \in Job, NEW does \in {"change", "create", "delete"}, Act(j, does)
        PROVE  InScope'
    <2>1. mounted[place] \in View /\ mounted[place] <= count
      BY DEF PageTypeOK, InScope
    <2>2. job'[j] = Work(does, mounted[place]) /\ \A k \in Job \ {j} : job'[k] = job[k]
      BY <1>4 DEF Act, PageTypeOK
    <2>3. job'[j].view = mounted[place] /\ job'[j].rows = 0
      <3>2. does \in {"nothing", "find", "load", "change", "create", "reload", "delete"}
        OBVIOUS
      <3>1. /\ Work(does, mounted[place]).view = mounted[place]
            /\ Work(does, mounted[place]).rows = 0
        BY ZenonT(40), <2>1, <3>2, WorkTyped
      <3> QED
        BY <2>2, <3>1
    <2>4. \A k \in Job : job'[k].view <= count /\ job'[k].rows <= rows
      BY <2>1, <2>2, <2>3, Numbers DEF InScope
    <2> QED
      BY <1>4, <2>4 DEF Act, InScope
  <1>5. ASSUME NEW j \in Job, ServerReads(j)
        PROVE  InScope'
    <2>1. /\ job'[j].view = job[j].view /\ job'[j].rows = rows
          /\ \A k \in Job \ {j} : job'[k] = job[k]
      <3>1. rows \in Nat /\ job' = [job EXCEPT ![j].done = TRUE, ![j].rows = rows]
        BY <1>5, Numbers DEF ServerReads
      <3> QED
        BY <3>1, ServedKept
    <2>2. rows' = rows /\ UNCHANGED <<count, view, mounted, place, chosen, confirmed>>
      BY <1>5 DEF ServerReads
    <2>3. rows <= rows' /\ rows' \in Nat
      BY <2>2, Numbers
    <2>4. \A k \in Job : job'[k].view <= count
      BY <2>1 DEF InScope
    <2>5. \A k \in Job : job'[k].rows <= rows'
      BY <2>1, <2>2, <2>3, Numbers DEF InScope
    <2> QED
      BY <2>2, <2>3, <2>4, <2>5, Numbers DEF InScope
  <1>6. ASSUME NEW j \in Job, ServerActs(j)
        PROVE  InScope'
    <2>1. /\ job'[j].view = job[j].view /\ job'[j].rows = rows + 1
          /\ \A k \in Job \ {j} : job'[k] = job[k]
      <3>1. rows + 1 \in Nat /\ job' = [job EXCEPT ![j].done = TRUE, ![j].rows = rows + 1]
        BY <1>6, Numbers DEF ServerActs
      <3> QED
        BY <3>1, ServedKept
    <2>2. rows' = rows + 1 /\ UNCHANGED <<count, view, mounted, place, chosen, confirmed>>
      BY <1>6 DEF ServerActs
    <2>3. rows <= rows' /\ rows' \in Nat
      BY <2>2, Numbers
    <2>4. \A k \in Job : job'[k].view <= count
      BY <2>1 DEF InScope
    <2>5. \A k \in Job : job'[k].rows <= rows'
      BY <2>1, <2>2, <2>3, Numbers DEF InScope
    <2> QED
      BY <2>2, <2>3, <2>4, <2>5, Numbers DEF InScope
  <1>7. ASSUME NEW j \in Job, GroupFound(j)
        PROVE  InScope'
    <2>1. confirmed' \in {confirmed, job[j].rows}
      BY <1>7 DEF GroupFound
    <2> QED
      BY <1>7, <2>1, GroupFoundGoes, GoesInScope
  <1>8. ASSUME NEW j \in Job, LoadAnswered(j)
        PROVE  InScope'
    <2>1. confirmed' \in {confirmed, job[j].rows}
      BY <1>8 DEF LoadAnswered
    <2> QED
      BY <1>8, <2>1, LoadAnsweredGoes, GoesInScope
  <1>9. ASSUME NEW j \in Job, ChangeAnswered(j)
        PROVE  InScope'
    <2>1. confirmed' \in {confirmed, job[j].rows}
      BY <1>9 DEF ChangeAnswered
    <2> QED
      BY <1>9, <2>1, ChangeAnsweredGoes, GoesInScope
  <1>10. ASSUME NEW j \in Job, GroupMade(j)
        PROVE  InScope'
    <2>1. confirmed' \in {confirmed, job[j].rows}
      BY <1>10 DEF GroupMade
    <2> QED
      BY <1>10, <2>1, GroupMadeGoes, GoesInScope
  <1>11. ASSUME NEW j \in Job, MoveOn(j)
        PROVE  InScope'
    <2>1. Opens(j, count + 1, count + 1)
      BY <1>11, OpenPageOpens DEF MoveOn, Pages
    <2>2. confirmed' \in {confirmed, job[j].rows}
      BY <1>11 DEF MoveOn
    <2> QED
      BY <2>1, <2>2, Numbers, OpensInScope
  <1>12. ASSUME NEW j \in Job, JobFails(j)
        PROVE  InScope'
    <2>1. confirmed' \in {confirmed, job[j].rows}
      BY <1>12 DEF JobFails
    <2> QED
      BY <1>12, <2>1, JobFailsGoes, GoesInScope
  <1> QED BY <1>1, <1>2, <1>3, <1>4, <1>5, <1>6, <1>7, <1>8, <1>9, <1>10,
        <1>11, <1>12
       DEF PageNext

\* What was spoilt stays so.
LEMMA OvertakenStays == [PageNext]_pageVars /\ overtaken => overtaken'
  BY DEF PageNext, pageVars, Navigate, SetActive, Act, ServerReads, ServerActs, GroupFound,
         LoadAnswered, ChangeAnswered, GroupMade, MoveOn, JobFails

\* Where what was asked for is drawn, action by action.
LEMMA OnShowStep ==
    PageTypeOK /\ InScope /\ OnShow /\ ~overtaken'
        /\ [PageNext]_pageVars => OnShow'
  <1> SUFFICES ASSUME PageTypeOK, InScope, OnShow, ~overtaken', [PageNext]_pageVars
               PROVE  OnShow'
    OBVIOUS
  <1>1. CASE UNCHANGED pageVars
    BY <1>1 DEF pageVars, OnShow, DrawsRoot, Waits, Free
  <1>2. ASSUME NEW j \in Job, NEW kind \in Pages, Navigate(j, kind)
        PROVE  OnShow'
    <2>1. Opens(j, count + 1, count + 1)
      BY <1>2, OpenPageOpens DEF Navigate
    <2>2. ASSUME NEW k \in Job \ {j}, ~Free(k)
          PROVE  /\ view[job[k].view].page # count + 1
                 /\ ~DrawsRoot(job[k].view)
                 /\ job[k].does \notin {"create", "reload", "delete"}
      <3>1. ~Spoils(k)
        BY <1>2 DEF Navigate
      <3>2. view[job[k].view].page <= count /\ view[job[k].view].page \in Nat
        BY JobParts, Numbers DEF InScope
      <3> QED
        BY <2>2, <3>1, <3>2, Numbers DEF Spoils
    <2> QED
      BY <2>1, <2>2, OpensOnShow
  <1>3. ASSUME NEW j \in Job, NEW kind \in Tabs, SetActive(j, kind)
        PROVE  OnShow'
    <2>1. Opens(j, count + 1, place)
      BY <1>3, SetActiveOpens
    <2>2. ASSUME NEW k \in Job \ {j}, ~Free(k)
          PROVE  /\ view[job[k].view].page # place
                 /\ ~DrawsRoot(job[k].view)
                 /\ job[k].does \notin {"create", "reload", "delete"}
      <3>1. view[job[k].view].page # place
        BY <1>3, <2>2 DEF SetActive
      <3> QED
        BY <2>2, <3>1 DEF OnShow
    <2> QED
      BY <2>1, <2>2, OpensOnShow
  <1>4. ASSUME NEW j \in Job, NEW does \in {"change", "create", "delete"}, Act(j, does)
        PROVE  OnShow'
    <2>1. mounted[place] \in View /\ mounted[place] = chosen
      BY DEF PageTypeOK, OnShow
    <2>2. job'[j] = Work(does, chosen) /\ \A k \in Job \ {j} : job'[k] = job[k]
      BY <1>4, <2>1 DEF Act, PageTypeOK
    <2>3. job'[j].view = chosen /\ job'[j].does # "nothing"
      <3>2. does \in {"nothing", "find", "load", "change", "create", "reload", "delete"}
        OBVIOUS
      <3>1. Work(does, chosen).view = chosen /\ Work(does, chosen).does = does
        BY ZenonT(40), <2>1, <3>2, WorkTyped
      <3> QED
        BY <2>2, <3>1
    <2>4. \A k \in Job : ~Waits(k, chosen)
      BY <1>4, <2>1 DEF Act
    <2> QED
      BY <1>4, <2>2, <2>3, <2>4 DEF Act, OnShow, DrawsRoot, Waits, Free
  <1>5. ASSUME NEW j \in Job, ServerReads(j)
        PROVE  OnShow'
    <2>1. \A k \in Job : job'[k].does = job[k].does /\ job'[k].view = job[k].view
      <3>1. rows \in Nat /\ job' = [job EXCEPT ![j].done = TRUE, ![j].rows = rows]
        BY <1>5, Numbers DEF ServerReads
      <3> QED
        BY <3>1, ServedKept
    <2>2. UNCHANGED <<view, mounted, place, chosen>>
      BY <1>5 DEF ServerReads
    <2> QED
      BY <2>1, <2>2 DEF OnShow, DrawsRoot, Waits, Free
  <1>6. ASSUME NEW j \in Job, ServerActs(j)
        PROVE  OnShow'
    <2>1. \A k \in Job : job'[k].does = job[k].does /\ job'[k].view = job[k].view
      <3>1. rows + 1 \in Nat /\ job' = [job EXCEPT ![j].done = TRUE, ![j].rows = rows + 1]
        BY <1>6, Numbers DEF ServerActs
      <3> QED
        BY <3>1, ServedKept
    <2>2. UNCHANGED <<view, mounted, place, chosen>>
      BY <1>6 DEF ServerActs
    <2> QED
      BY <2>1, <2>2 DEF OnShow, DrawsRoot, Waits, Free
  <1>7. ASSUME NEW j \in Job, GroupFound(j)
        PROVE  OnShow'
    <2>1. job'[j] \in {NoWork, Work("load", job[j].view)}
      BY <1>7 DEF GroupFound, PageTypeOK
    <2>2. job'[j].does \in {"nothing", "load"}
      <3>1. Work("load", job[j].view).does = "load"
        BY WorkTyped, JobParts
      <3> QED
        BY <2>1, <3>1, NoWorkTyped
    <2> QED
      BY <1>7, <2>2, GroupFoundGoes, GoesOnShow
  <1>8. ASSUME NEW j \in Job, LoadAnswered(j)
        PROVE  OnShow'
    <2>1. job'[j] \in {NoWork, Work("load", job[j].view)}
      BY <1>8 DEF LoadAnswered, PageTypeOK
    <2>2. job'[j].does \in {"nothing", "load"}
      <3>1. Work("load", job[j].view).does = "load"
        BY WorkTyped, JobParts
      <3> QED
        BY <2>1, <3>1, NoWorkTyped
    <2> QED
      BY <1>8, <2>2, LoadAnsweredGoes, GoesOnShow
  <1>9. ASSUME NEW j \in Job, ChangeAnswered(j)
        PROVE  OnShow'
    <2>1. job'[j] \in {NoWork, Work("load", job[j].view)}
      BY <1>9 DEF ChangeAnswered, PageTypeOK
    <2>2. job'[j].does \in {"nothing", "load"}
      <3>1. Work("load", job[j].view).does = "load"
        BY WorkTyped, JobParts
      <3> QED
        BY <2>1, <3>1, NoWorkTyped
    <2> QED
      BY <1>9, <2>2, ChangeAnsweredGoes, GoesOnShow
  <1>10. ASSUME NEW j \in Job, GroupMade(j)
        PROVE  OnShow'
    <2>1. job[j].view = chosen
      BY <1>10 DEF GroupMade, OnShow, Free
    <2> QED
      BY <1>10, <2>1, GroupMadeGoes, GoesOnShow
  <1>11. ASSUME NEW j \in Job, MoveOn(j)
        PROVE  OnShow'
    <2>1. Opens(j, count + 1, count + 1)
      BY <1>11, OpenPageOpens DEF MoveOn, Pages
    <2>2. Waits(j, chosen)
      BY <1>11 DEF MoveOn, OnShow, Waits, Free
    <2>3. ASSUME NEW k \in Job \ {j}, ~Free(k)
          PROVE  /\ view[job[k].view].page # count + 1
                 /\ ~DrawsRoot(job[k].view)
                 /\ job[k].does \notin {"create", "reload", "delete"}
      <3>1. job[k].view # chosen
        BY <2>2, <2>3 DEF OnShow, Waits
      <3>2. view[job[k].view].page <= count /\ view[job[k].view].page \in Nat
        BY JobParts, Numbers DEF InScope
      <3> QED
        BY <2>3, <3>1, <3>2, Numbers DEF OnShow
    <2> QED
      BY <2>1, <2>3, OpensOnShow
  <1>12. ASSUME NEW j \in Job, JobFails(j)
        PROVE  OnShow'
    <2>1. job'[j] \in {NoWork, Work("load", job[j].view)}
      BY <1>12 DEF JobFails, PageTypeOK
    <2>2. job'[j].does \in {"nothing", "load"}
      <3>1. Work("load", job[j].view).does = "load"
        BY WorkTyped, JobParts
      <3> QED
        BY <2>1, <3>1, NoWorkTyped
    <2> QED
      BY <1>12, <2>2, JobFailsGoes, GoesOnShow
  <1> QED BY <1>1, <1>2, <1>3, <1>4, <1>5, <1>6, <1>7, <1>8, <1>9, <1>10,
        <1>11, <1>12
       DEF PageNext

\* Whether a list has what it confirmed, action by action.
LEMMA UpToDateStep ==
    PageTypeOK /\ InScope /\ OnShow /\ UpToDate /\ ~overtaken'
        /\ [PageNext]_pageVars => UpToDate'
  <1> SUFFICES ASSUME PageTypeOK, InScope, OnShow, UpToDate, ~overtaken', [PageNext]_pageVars
               PROVE  UpToDate'
    OBVIOUS
  <1>1. CASE UNCHANGED pageVars
    BY <1>1 DEF pageVars, UpToDate, Listing, Waits, Free
  <1>2. ASSUME NEW j \in Job, NEW kind \in Pages, Navigate(j, kind)
        PROVE  UpToDate'
    <2>1. Opens(j, count + 1, count + 1)
      BY <1>2, OpenPageOpens DEF Navigate
    <2> QED
      BY <2>1, OpensUpToDate
  <1>3. ASSUME NEW j \in Job, NEW kind \in Tabs, SetActive(j, kind)
        PROVE  UpToDate'
    <2>1. Opens(j, count + 1, place)
      BY <1>3, SetActiveOpens
    <2> QED
      BY <2>1, OpensUpToDate
  <1>4. ASSUME NEW j \in Job, NEW does \in {"change", "create", "delete"}, Act(j, does)
        PROVE  UpToDate'
    <2>1. mounted[place] \in View /\ mounted[place] = chosen
      BY DEF PageTypeOK, OnShow
    <2>2. job'[j] = Work(does, chosen) /\ \A k \in Job \ {j} : job'[k] = job[k]
      BY <1>4, <2>1 DEF Act, PageTypeOK
    <2>3. job'[j].view = chosen /\ job'[j].does = does
      <3>2. does \in {"nothing", "find", "load", "change", "create", "reload", "delete"}
        OBVIOUS
      <3>1. Work(does, chosen).view = chosen /\ Work(does, chosen).does = does
        BY ZenonT(40), <2>1, <3>2, WorkTyped
      <3> QED
        BY <2>2, <3>1
    <2>4. \A k \in Job : ~Waits(k, chosen)
      BY <1>4, <2>1 DEF Act
    <2>5. chosen' = chosen
      BY <1>4 DEF Act
    <2> QED
      BY <2>2, <2>3, <2>4, <2>5 DEF UpToDate, Waits, Free
  <1>5. ASSUME NEW j \in Job, ServerReads(j)
        PROVE  UpToDate'
    <2>1. /\ job'[j].does = job[j].does /\ job'[j].view = job[j].view
          /\ job'[j].rows = rows /\ \A k \in Job \ {j} : job'[k] = job[k]
      BY <1>5, Numbers, ServedKept DEF ServerReads
    <2>2. confirmed <= rows
      BY DEF InScope
    <2> QED
      BY <1>5, <2>1, <2>2 DEF ServerReads, UpToDate, Listing, Waits, Free
  <1>6. ASSUME NEW j \in Job, ServerActs(j)
        PROVE  UpToDate'
    <2>1. /\ job'[j].does = job[j].does /\ job'[j].view = job[j].view
          /\ job[j].does # "load" /\ \A k \in Job \ {j} : job'[k] = job[k]
      <3>1. rows + 1 \in Nat /\ job' = [job EXCEPT ![j].done = TRUE, ![j].rows = rows + 1]
        BY <1>6, Numbers DEF ServerActs
      <3> QED
        BY <1>6, <3>1, ServedKept DEF ServerActs
    <2> QED
      BY <1>6, <2>1 DEF ServerActs, UpToDate, Listing, Waits, Free
  <1>7. ASSUME NEW j \in Job, GroupFound(j)
        PROVE  UpToDate'
    <2>1. CASE job[j].view # chosen
      <3>1. confirmed' = confirmed
        BY <1>7, <2>1 DEF GroupFound, OnShow
      <3> QED
        BY <1>7, <2>1, <3>1, GroupFoundGoes, ElsewhereUpToDate
    <2>2. CASE job[j].view = chosen
      <3>1. Listing' => \/ ~Free(j)' /\ (job'[j].does = "load" => ~job'[j].done)
                        \/ Free(j)' /\ confirmed' <= view'[chosen].rows
        <4>1. job'[j] = Work("load", chosen)
          BY <1>7, <2>2 DEF GroupFound, PageTypeOK
        <4>2. /\ Work("load", chosen).does = "load"
              /\ Work("load", chosen).done = FALSE
          BY WorkTyped DEF PageTypeOK
        <4> QED
          BY <4>1, <4>2 DEF Free
      <3> QED
        BY <1>7, <2>2, <3>1, GroupFoundGoes, HereUpToDate
    <2> QED
      BY <2>1, <2>2
  <1>8. ASSUME NEW j \in Job, LoadAnswered(j)
        PROVE  UpToDate'
    <2>1. CASE job[j].view # chosen
      <3>1. confirmed' = confirmed
        BY <1>8, <2>1 DEF LoadAnswered, OnShow
      <3> QED
        BY <1>8, <2>1, <3>1, LoadAnsweredGoes, ElsewhereUpToDate
    <2>2. CASE job[j].view = chosen
      <3>1. Listing' => \/ ~Free(j)' /\ (job'[j].does = "load" => ~job'[j].done)
                        \/ Free(j)' /\ confirmed' <= view'[chosen].rows
        <4>1. Free(j)'
          BY <1>8, NoWorkTyped DEF LoadAnswered, PageTypeOK, Free
        <4>2. /\ view'[chosen].rows = job[j].rows /\ view'[chosen].kind = view[chosen].kind
              /\ view'[chosen].alert = view[chosen].alert
          BY <1>8, <2>2 DEF LoadAnswered, PageTypeOK, Opened
        <4>3. Listing' => confirmed <= job[j].rows
          BY <1>8, <2>2, <4>2 DEF LoadAnswered, Listing, UpToDate, Waits, Free
        <4> QED
          BY <1>8, <4>1, <4>2, <4>3 DEF LoadAnswered
      <3> QED
        BY <1>8, <2>2, <3>1, LoadAnsweredGoes, HereUpToDate
    <2> QED
      BY <2>1, <2>2
  <1>9. ASSUME NEW j \in Job, ChangeAnswered(j)
        PROVE  UpToDate'
    <2>1. CASE job[j].view # chosen
      <3>1. confirmed' = confirmed
        BY <1>9, <2>1 DEF ChangeAnswered, OnShow
      <3> QED
        BY <1>9, <2>1, <3>1, ChangeAnsweredGoes, ElsewhereUpToDate
    <2>2. CASE job[j].view = chosen
      <3>1. Listing' => \/ ~Free(j)' /\ (job'[j].does = "load" => ~job'[j].done)
                        \/ Free(j)' /\ confirmed' <= view'[chosen].rows
        <4>1. CASE view[chosen].kind \in Lists
          <5>1. job'[j] = Work("load", chosen)
            BY <1>9, <2>2, <4>1 DEF ChangeAnswered, PageTypeOK
          <5>2. Work("load", chosen).does = "load" /\ Work("load", chosen).done = FALSE
            BY WorkTyped DEF PageTypeOK
          <5> QED
            BY <5>1, <5>2 DEF Free
        <4>2. CASE view[chosen].kind \notin Lists
          <5>1. view'[chosen].kind = view[chosen].kind /\ chosen' = chosen
            BY <1>9, <2>2 DEF ChangeAnswered, PageTypeOK, Opened
          <5> QED
            BY <4>2, <5>1 DEF Listing
        <4> QED
          BY <4>1, <4>2
      <3> QED
        BY <1>9, <2>2, <3>1, ChangeAnsweredGoes, HereUpToDate
    <2> QED
      BY <2>1, <2>2
  <1>10. ASSUME NEW j \in Job, GroupMade(j)
        PROVE  UpToDate'
    <2>1. CASE job[j].view # chosen
      <3>1. confirmed' = confirmed
        BY <1>10, <2>1 DEF GroupMade, OnShow
      <3> QED
        BY <1>10, <2>1, <3>1, GroupMadeGoes, ElsewhereUpToDate
    <2>2. CASE job[j].view = chosen
      <3>1. Listing' => \/ ~Free(j)' /\ (job'[j].does = "load" => ~job'[j].done)
                        \/ Free(j)' /\ confirmed' <= view'[chosen].rows
        <4>1. job'[j] = Work("reload", chosen)
          BY <1>10, <2>2 DEF GroupMade, PageTypeOK
        <4>2. /\ Work("reload", chosen).does = "reload"
              /\ Work("reload", chosen).done = FALSE
          BY WorkTyped DEF PageTypeOK
        <4> QED
          BY <4>1, <4>2 DEF Free
      <3> QED
        BY <1>10, <2>2, <3>1, GroupMadeGoes, HereUpToDate
    <2> QED
      BY <2>1, <2>2
  <1>11. ASSUME NEW j \in Job, MoveOn(j)
        PROVE  UpToDate'
    <2>1. Opens(j, count + 1, count + 1)
      BY <1>11, OpenPageOpens DEF MoveOn, Pages
    <2> QED
      BY <2>1, OpensUpToDate
  <1>12. ASSUME NEW j \in Job, JobFails(j)
        PROVE  UpToDate'
    <2>1. CASE job[j].view # chosen
      <3>1. confirmed' = confirmed
        BY <1>12, <2>1 DEF JobFails, OnShow
      <3> QED
        BY <1>12, <2>1, <3>1, JobFailsGoes, ElsewhereUpToDate
    <2>2. CASE job[j].view = chosen
      <3>1. Listing' => \/ ~Free(j)' /\ (job'[j].does = "load" => ~job'[j].done)
                        \/ Free(j)' /\ confirmed' <= view'[chosen].rows
        <4>1. view'[chosen].alert = TRUE /\ chosen' = chosen
          BY <1>12, <2>2 DEF JobFails, PageTypeOK, Opened
        <4> QED
          BY <4>1 DEF Listing
      <3> QED
        BY <1>12, <2>2, <3>1, JobFailsGoes, HereUpToDate
    <2> QED
      BY <2>1, <2>2
  <1> QED BY <1>1, <1>2, <1>3, <1>4, <1>5, <1>6, <1>7, <1>8, <1>9, <1>10,
        <1>11, <1>12
       DEF PageNext

LEMMA PageStarts == PageInit => PageInv
  <1> SUFFICES ASSUME PageInit
               PROVE  PageInv
    OBVIOUS
  <1>1. PICK j \in Job, kind \in {"home", "sites"} :
           /\ view = [v \in View |-> Unread(IF v = 1 THEN kind ELSE "stub", 1)]
           /\ job = [k \in Job |-> IF k = j THEN FirstWork(kind, 1) ELSE NoWork]
    BY DEF PageInit
  <1>2. 1 \in View
    BY PageAssumption DEF View
  <1>3. ASSUME NEW v \in View
        PROVE  /\ view[v] \in Opened /\ view[v].page = 1 /\ view[v].rows = 0
               /\ view[1].kind = kind
    <2>1. kind \in Lists \cup Forms \cup Tabs \cup Pages
            /\ "stub" \in Lists \cup Forms \cup Tabs \cup Pages
      BY DEF Lists, Tabs
    <2> DEFINE first == Unread(kind, 1)
               other == Unread("stub", 1)
    <2>2. /\ first \in Opened /\ first.page = 1 /\ first.rows = 0 /\ first.kind = kind
          /\ other \in Opened /\ other.page = 1 /\ other.rows = 0
      BY <1>2, <2>1, UnreadTyped
    <2>3. view[v] \in {first, other} /\ view[1] = first
      BY <1>1, <1>2
    <2> HIDE DEF first, other
    <2> QED
      BY <2>2, <2>3
  <1>4. ASSUME NEW k \in Job
        PROVE  /\ job[k] \in Handling /\ job[k].view = 1 /\ job[k].done = FALSE
               /\ job[k].rows = 0 /\ job[k].does \in {"nothing", "load"}
               /\ k # j => Free(k)
               /\ kind = "home" => ~Free(j)
    <2>1. /\ kind = "home" => job[j] = Work("load", 1)
          /\ kind = "sites" => job[j] = NoWork
          /\ k # j => job[k] = NoWork
      BY <1>1 DEF FirstWork, Lists
    <2>2. /\ Work("load", 1) \in Handling /\ Work("load", 1).does = "load"
          /\ Work("load", 1).view = 1 /\ Work("load", 1).done = FALSE
          /\ Work("load", 1).rows = 0
      BY <1>2, WorkTyped
    <2> QED
      BY <2>1, <2>2, NoWorkTyped DEF Free
  <1>5. PageTypeOK
    BY <1>1, <1>2, <1>3, <1>4 DEF PageInit, PageTypeOK
  <1>6. InScope
    <2>1. /\ count = 1 /\ chosen = 1 /\ place = 1 /\ rows = 0 /\ confirmed = 0
          /\ \A p \in View : mounted[p] = 1
      BY DEF PageInit
    <2>2. \A v \in View : view[v].page <= count /\ mounted[v] <= count
      BY <1>3, <2>1
    <2>3. \A k \in Job : job[k].view <= count /\ job[k].rows <= rows
      <3>1. \A k \in Job : job[k].view = 1 /\ job[k].rows = 0
        BY <1>4
      <3>2. 1 <= count /\ 0 <= rows
        BY <2>1
      <3> QED
        BY <3>1, <3>2
    <2> QED
      BY <2>1, <2>2, <2>3 DEF InScope
  <1>7. OnShow
    BY <1>2, <1>3, <1>4 DEF PageInit, OnShow, Waits
  <1>8. UpToDate
    <2>1. confirmed <= view[chosen].rows
      BY <1>2, <1>3 DEF PageInit
    <2> QED
      BY <1>4, <2>1 DEF UpToDate
  <1> QED
    BY <1>5, <1>6, <1>7, <1>8 DEF PageInv

LEMMA PageInvHolds == PageSpec => []PageInv
  <1>1. PageInv /\ [PageNext]_pageVars => PageInv'
    <2> SUFFICES ASSUME PageInv, [PageNext]_pageVars
                 PROVE  PageInv'
      OBVIOUS
    <2>1. PageTypeOK' /\ InScope'
      BY PageTypeStep, InScopeStep DEF PageInv
    <2>2. ASSUME ~overtaken'
          PROVE  OnShow' /\ UpToDate'
      <3>1. ~overtaken
        BY <2>2, OvertakenStays
      <3> QED
        BY <2>2, <3>1, OnShowStep, UpToDateStep DEF PageInv
    <2> QED
      BY <2>1, <2>2 DEF PageInv
  <1> QED
    BY <1>1, PageStarts, PTL DEF PageSpec

\* Every variable of AdminPage keeps its type.
THEOREM PageTyped == PageSpec => []PageTypeOK
  <1>1. PageInv => PageTypeOK
    BY DEF PageInv
  <1> QED
    BY <1>1, PageInvHolds, PTL

\* What is on show is what was asked for last, and a list at rest has what it has
\* confirmed, unless a late answer was overtaken (mount and reload, admin/main.ts and
\* admin/views).
THEOREM QuietPages == PageSpec => []PageNeedsQuiet
  <1>1. PageInv => PageNeedsQuiet
    <2> SUFFICES ASSUME PageInv, ~overtaken
                 PROVE  PageNeedsQuiet
      BY DEF PageNeedsQuiet
    <2>1. mounted[place] = chosen
      BY DEF PageInv, OnShow
    <2>2. ASSUME Resting, Listing
          PROVE  confirmed <= view[chosen].rows
      BY <2>2 DEF PageInv, UpToDate, Resting, Waits
    <2> QED
      BY <2>1, <2>2, Numbers DEF PageNeedsQuiet, Listing, PageInv, PageTypeOK
  <1> QED
    BY <1>1, PageInvHolds, PTL
=============================================================================
