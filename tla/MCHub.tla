-------------------------------- MODULE MCHub --------------------------------
(***************************************************************************)
(* Model of the parts of the web server and of its pages that share no     *)
(* state: signing in, the weekly digest, the groups of a tenant, the       *)
(* drafts of the language model, the line diff and the migrations, and in  *)
(* the browser the editor, the sign-in form and the administration.  A     *)
(* behaviour plays one scene and leaves the other components as they are,  *)
(* so the states add up instead of multiplying.                            *)
(***************************************************************************)
EXTENDS SignIn, Digest, Groups, Drafts, Diff, Migrate, Editor, SignInForm, AdminPage

VARIABLE scene

hubVars == <<scene, signInVars, digestVars, groupVars, draftVars, diffVars,
             migrateVars, editorVars, formVars, pageVars>>

\* What a scene leaves alone.
notSignIn == <<scene, digestVars, groupVars, draftVars, diffVars,
               migrateVars, editorVars, formVars, pageVars>>
notDigest == <<scene, signInVars, groupVars, draftVars, diffVars,
               migrateVars, editorVars, formVars, pageVars>>
notGroup == <<scene, signInVars, digestVars, draftVars, diffVars,
              migrateVars, editorVars, formVars, pageVars>>
notDraft == <<scene, signInVars, digestVars, groupVars, diffVars,
              migrateVars, editorVars, formVars, pageVars>>
notDiff == <<scene, signInVars, digestVars, groupVars, draftVars,
             migrateVars, editorVars, formVars, pageVars>>
notMigrate == <<scene, signInVars, digestVars, groupVars, draftVars,
                diffVars, editorVars, formVars, pageVars>>
notEditor == <<scene, signInVars, digestVars, groupVars, draftVars,
               diffVars, migrateVars, formVars, pageVars>>
notForm == <<scene, signInVars, digestVars, groupVars, draftVars,
             diffVars, migrateVars, editorVars, pageVars>>
notPage == <<scene, signInVars, digestVars, groupVars, draftVars,
             diffVars, migrateVars, editorVars, formVars>>

\* A component that is not on keeps one of its initial states.
HubInit ==
    /\ scene \in {"sign-in", "digest", "group", "draft", "diff", "migrate",
                 "editor", "form", "page"}
    /\ SignInInit
    /\ \/ scene = "sign-in"
       \/ /\ \A p \in Person, j \in Jar : seat[p][j] = 0
          /\ \A l \in Link : link[l].who = CHOOSE p \in Person : TRUE
    /\ \A v \in Visit : visit[v].link = CHOOSE l \in Link : TRUE
    /\ DigestInit
    /\ scene = "digest" \/ \A g \in List : shows[g] = "none"
    /\ current.who = CHOOSE h \in Human : TRUE
    /\ GroupInit
    /\ \A c \in Change : /\ change[c].group = CHOOSE g \in Group : TRUE
                         /\ change[c].from = CHOOSE n \in Name : TRUE
    /\ DraftInit
    /\ scene = "draft" \/ \A s \in Slot : ~page[s]
    /\ DiffInit
    /\ scene = "diff" \/ (before = <<>> /\ after = <<>>)
    /\ MigrateInit
    /\ scene = "migrate" \/ \A f \in File : schema[f] = "none"
    /\ EditorInit
    /\ FormInit
    /\ scene = "form" \/ asked = CHOOSE a \in Address : TRUE
    /\ PageInit
    /\ scene = "page" \/ job[CHOOSE b \in Job : TRUE].does = "load"

HubNext ==
    \/ \E p \in Person : scene = "sign-in" /\ Hire(p) /\ UNCHANGED notSignIn
    \/ \E p \in Person : scene = "sign-in" /\ Dismiss(p) /\ UNCHANGED notSignIn
    \/ \E p \in Person : scene = "sign-in" /\ JoinList(p) /\ UNCHANGED notSignIn
    \/ \E p \in Person : scene = "sign-in" /\ LeaveList(p) /\ UNCHANGED notSignIn
    \/ \E p \in Person : scene = "sign-in" /\ SignOut(p) /\ UNCHANGED notSignIn
    \/ \E p \in Person : scene = "sign-in" /\ ExpireSession(p) /\ UNCHANGED notSignIn
    \/ \E p \in Person, l \in Link :
          scene = "sign-in" /\ SiteRequest(p, l) /\ UNCHANGED notSignIn
    \/ \E p \in Person, l \in Link :
          scene = "sign-in" /\ TenantRequest(p, l) /\ UNCHANGED notSignIn
    \/ \E p \in Person, l \in Link :
          scene = "sign-in" /\ FormRequest(p, l) /\ UNCHANGED notSignIn
    \/ \E p \in Person, l \in Link :
          scene = "sign-in" /\ Invite(p, l) /\ UNCHANGED notSignIn
    \/ \E l \in Link : scene = "sign-in" /\ FindSeat(l) /\ UNCHANGED notSignIn
    \/ \E l \in Link : scene = "sign-in" /\ SendLink(l) /\ UNCHANGED notSignIn
    \/ \E l \in Link : scene = "sign-in" /\ SendMemberLink(l) /\ UNCHANGED notSignIn
    \/ \E l \in Link : scene = "sign-in" /\ LoseLink(l) /\ UNCHANGED notSignIn
    \/ \E l \in Link : scene = "sign-in" /\ ExpireLink(l) /\ UNCHANGED notSignIn
    \/ \E v \in Visit, l \in Link :
          scene = "sign-in" /\ Follow(v, l) /\ UNCHANGED notSignIn
    \/ \E v \in Visit, l \in Link :
          scene = "sign-in" /\ PickCode(v, l) /\ UNCHANGED notSignIn
    \/ \E v \in Visit : scene = "sign-in" /\ ClaimByCode(v) /\ UNCHANGED notSignIn
    \/ \E v \in Visit : scene = "sign-in" /\ Admit(v) /\ UNCHANGED notSignIn
    \/ \E v \in Visit : scene = "sign-in" /\ LoseVisit(v) /\ UNCHANGED notSignIn
    \/ \E h \in Human, g \in List : scene = "digest" /\ Enter(h, g) /\ UNCHANGED notDigest
    \/ \E h \in Human, g \in List : scene = "digest" /\ ConfirmRow(h, g) /\ UNCHANGED notDigest
    \/ \E h \in Human, g \in List : scene = "digest" /\ LeaveRow(h, g) /\ UNCHANGED notDigest
    \/ \E h \in Human : scene = "digest" /\ OptOut(h) /\ UNCHANGED notDigest
    \/ scene = "digest" /\ ReadActivity /\ UNCHANGED notDigest
    \/ scene = "digest" /\ ListRecipients /\ UNCHANGED notDigest
    \/ \E h \in Human : scene = "digest" /\ Compose(h) /\ UNCHANGED notDigest
    \/ scene = "digest" /\ MailDigest /\ UNCHANGED notDigest
    \/ scene = "digest" /\ EndWeekly /\ UNCHANGED notDigest
    \/ \E g \in Group, n \in Name : scene = "group" /\ CreateGroup(g, n) /\ UNCHANGED notGroup
    \/ \E g \in Group : scene = "group" /\ Fill(g) /\ UNCHANGED notGroup
    \/ \E c \in Change : scene = "group" /\ LoadGroup(c) /\ UNCHANGED notGroup
    \/ \E c \in Change : scene = "group" /\ CountActivity(c) /\ UNCHANGED notGroup
    \/ \E c \in Change : scene = "group" /\ Rename(c) /\ UNCHANGED notGroup
    \/ \E c \in Change : scene = "group" /\ Delete(c) /\ UNCHANGED notGroup
    \/ scene = "draft" /\ Midnight /\ UNCHANGED notDraft
    \/ \E i \in Slot : scene = "draft" /\ WritePage(i) /\ UNCHANGED notDraft
    \/ \E k \in Draft : scene = "draft" /\ BeginDraft(k) /\ UNCHANGED notDraft
    \/ \E k \in Draft : scene = "draft" /\ Consume(k) /\ UNCHANGED notDraft
    \/ \E k \in Draft : scene = "draft" /\ CallModel(k) /\ UNCHANGED notDraft
    \/ \E k \in Draft : scene = "draft" /\ PickSlug(k) /\ UNCHANGED notDraft
    \/ \E k \in Draft : scene = "draft" /\ SaveDraft(k) /\ UNCHANGED notDraft
    \/ scene = "diff" /\ Keep /\ UNCHANGED notDiff
    \/ scene = "diff" /\ Drop /\ UNCHANGED notDiff
    \/ scene = "diff" /\ Add /\ UNCHANGED notDiff
    \/ \E r \in Runner : scene = "migrate" /\ StartRun(r) /\ UNCHANGED notMigrate
    \/ \E r \in Runner : scene = "migrate" /\ ApplyFile(r) /\ UNCHANGED notMigrate
    \/ \E r \in Runner : scene = "migrate" /\ ApplyFails(r) /\ UNCHANGED notMigrate
    \/ \E r \in Runner : scene = "migrate" /\ RecordFile(r) /\ UNCHANGED notMigrate
    \/ \E r \in Runner : scene = "migrate" /\ DieBeforeRecord(r) /\ UNCHANGED notMigrate
    \/ \E e \in Edit : scene = "editor" /\ Type(e) /\ UNCHANGED notEditor
    \/ \E c \in Click, v \in stored :
          scene = "editor" /\ EnterPreview(c, v) /\ UNCHANGED notEditor
    \/ \E c \in Click : scene = "editor" /\ ShowPreview(c) /\ UNCHANGED notEditor
    \/ \E c \in Click : scene = "editor" /\ ExitPreview(c) /\ UNCHANGED notEditor
    \/ \E c \in Click : scene = "editor" /\ RestoreWork(c) /\ UNCHANGED notEditor
    \/ \E c \in Click : scene = "editor" /\ ClickRevert(c) /\ UNCHANGED notEditor
    \/ \E c \in Click : scene = "editor" /\ Reload(c) /\ UNCHANGED notEditor
    \/ \E c \in Click : scene = "editor" /\ ClickSave(c) /\ UNCHANGED notEditor
    \/ \E c \in Click : scene = "editor" /\ SaveAnswered(c) /\ UNCHANGED notEditor
    \/ \E c \in Click : scene = "editor" /\ RequestFails(c) /\ UNCHANGED notEditor
    \/ \E c \in Click : scene = "editor" /\ ClickHero(c) /\ UNCHANGED notEditor
    \/ \E c \in Click : scene = "editor" /\ HeroAnswered(c) /\ UNCHANGED notEditor
    \/ \E c \in Click : scene = "editor" /\ HeroFails(c) /\ UNCHANGED notEditor
    \/ \E c \in Click : scene = "editor" /\ InsertHero(c) /\ UNCHANGED notEditor
    \/ scene = "form" /\ Probe /\ UNCHANGED notForm
    \/ scene = "form" /\ ChangeEmail /\ UNCHANGED notForm
    \/ scene = "form" /\ StartOver /\ UNCHANGED notForm
    \/ scene = "form" /\ SwitchMode /\ UNCHANGED notForm
    \/ \E r \in Call, a \in Address :
          scene = "form" /\ SubmitEmail(r, a) /\ UNCHANGED notForm
    \/ \E r \in Call, a \in Address :
          scene = "form" /\ SubmitClaim(r, a) /\ UNCHANGED notForm
    \/ \E r \in Call : scene = "form" /\ EmailSent(r) /\ UNCHANGED notForm
    \/ \E r \in Call : scene = "form" /\ CallFails(r) /\ UNCHANGED notForm
    \/ \E r \in Call : scene = "form" /\ ResendCode(r) /\ UNCHANGED notForm
    \/ \E r \in Call : scene = "form" /\ CallSent(r) /\ UNCHANGED notForm
    \/ \E r \in Call : scene = "form" /\ SubmitCode(r) /\ UNCHANGED notForm
    \/ \E b \in Job, kind \in Routes :
          scene = "page" /\ Navigate(b, kind) /\ UNCHANGED notPage
    \/ \E b \in Job, kind \in Tabs :
          scene = "page" /\ SetActive(b, kind) /\ UNCHANGED notPage
    \/ \E b \in Job, does \in {"change", "create", "delete"} :
          scene = "page" /\ Act(b, does) /\ UNCHANGED notPage
    \/ \E b \in Job : scene = "page" /\ ServerReads(b) /\ UNCHANGED notPage
    \/ \E b \in Job : scene = "page" /\ ServerActs(b) /\ UNCHANGED notPage
    \/ \E b \in Job : scene = "page" /\ GroupFound(b) /\ UNCHANGED notPage
    \/ \E b \in Job : scene = "page" /\ LoadAnswered(b) /\ UNCHANGED notPage
    \/ \E b \in Job : scene = "page" /\ ChangeAnswered(b) /\ UNCHANGED notPage
    \/ \E b \in Job : scene = "page" /\ GroupMade(b) /\ UNCHANGED notPage
    \/ \E b \in Job : scene = "page" /\ MoveOn(b) /\ UNCHANGED notPage
    \/ \E b \in Job : scene = "page" /\ JobFails(b) /\ UNCHANGED notPage

HubSpec == HubInit /\ [][HubNext]_hubVars
=============================================================================
