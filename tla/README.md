# BulletinMail in TLA+

BulletinMail runs mailing lists, an archive and a wiki for many tenants on
Cloudflare Workers.  This directory holds TLA+ models of its moving parts, the
TLC configurations that check them, and proofs that TLAPS checks.

The program is a set of short handlers that share a D1 database (SQLite, one
statement at a time), a queue, R2 buckets, Durable Objects and a mail provider.
No handler holds a lock or a transaction across an `await` (the only multi-row
writes are two `db.batch` calls), so what can go wrong lies between the awaits:
two handlers that both tested before either wrote, a redelivered job, a handler
that dies half-way, an answer that arrives late.  The models therefore have one
action per database, queue, storage or provider call, and every handler is the
sequence of its calls.

## Inventory

| Component | State | Operations | What is hard |
|---|---|---|---|
| Inbound worker (`src/workers/inbound/src/index.ts`) | `messages`, `deliveries`, attachments in R2 | `email()`: policy, store, snapshot of members, row-then-job fan-out, `queued`, audit | dies half-way; the MTA hands a failed mail over again; races with the sender for `messages.status` |
| Send queue, sender (`src/workers/sender/src/index.ts`, `wrangler.toml`) | jobs, attempts, `deliveries.status`, `unsub_tokens` | `queue()`, `processSendJob`: suppress, mint token, build, send, record, ack | at-least-once delivery, retry after success, dead letters, members leaving meanwhile |
| Membership (`src/server/routes/tenant.ts`, `admin/pending.ts`, `admin/members.ts`, `confirm.ts`, `unsub.ts`) | `members.status`, `subscription_requests.state`, tokens | join, approve, reject, add, bulk add, confirm, unsubscribe, remove | check-then-insert, two admins deciding at once, confirmation mail after the response, stale links |
| Wiki (`src/server/wiki/do.ts`, `routes.ts`, `summary.ts`) | pages and versions in a Durable Object, HTML in R2, a vector per page | save, generate, revert, read, summarise, index | the object serialises single calls, not handlers; R2 and the index are written after it |
| Team and sign-up (`src/server/routes/admin/team.ts`, `auth.ts`, `tenant-middleware.ts`) | `admins`, `site_admins`, `tenants` | add, promote, demote, remove; bootstrap of site and tenant | counts read before the write |
| Sign-in (`src/server/routes/admin/auth.ts`, `src/server/wiki/tenant-auth.ts`, `src/server/archive/member-auth.ts`, `src/server/lib/`) | three tables of magic links, three kinds of session | ask for a link, follow it, type its code, look the session up again | a link and a code share one row; a row outlives its owner's seat, a cookie outlives the row |
| Web posts (`src/server/archive/routes.ts`, `post.ts`) | `messages`, `deliveries` | checks, limit of ten minutes, INSERT, fan-out after the response | the limit counts and inserts apart; the fan-out has no queue behind it |
| Archive: browsing, search (`render.ts`, `search.ts`, `sanitize.ts`) | none | single reads, one vector query | nothing concurrent |
| Weekly digest (`src/workers/sender/src/weekly-digest.ts`) | `members.digest_opt_out` | read the week, list recipients, one mail each; opt-out by token | the opt-out lives on rows that come and go, also while the run is at work |
| Digest of pending requests (`src/workers/sender/src/digest.ts`) | none | one query, one mail per admin | nothing depends on it |
| Groups (`src/server/routes/admin/groups.ts`) | `groups` | create, rename, delete | emptiness is tested before the write |
| Tenants (`src/server/routes/admin/tenants.ts`) | `tenants` | create with an admin | one batch |
| Language model (`src/server/lib/ai.ts`, promote and generate handlers) | `ai_usage` per day, wiki pages | pay, generate, pick a slug, illustrate, save | seconds between the look for a page and its save; midnight between pay and call |
| Line diffs (`src/server/wiki/summary.ts`) | none | operations, hunks, counts | boundaries: empty texts, adjacent hunks |
| Migrations (`src/scripts/db-migrate.ts`) | `schema_migrations` | apply, record, adopt what exists | a run that died between a file and its row; two runs; a file carried out in part by hand |
| Editor page (`src/server/wiki/editor.ts`) | the editor, the version on show, the snapshot of unsaved work | type, preview, cancel, revert, save, hero image | every handler goes on after its await, whatever the others did |
| Sign-in page (`src/admin/views/signin.ts`) | mode, step, address, banner | ask, resend, verify, go back, claim | any answer draws the page anew, also a late one |
| Administration pages (`src/admin/main.ts`, `views/`) | the element of each page and who draws into it | routes, tabs, loads, changes with a reload | late answers of a view that was left draw over the next |
| MIME (`src/packages/mime/`) | none | parse, threading, subject, build, assertions | text only |
| Configuration, hosts, slugs (`src/packages/shared/`) | none | classifyHost, validateTenantSlug | text only |
| Contact form, landing and documentation pages, bounces, CLI, deployment script | none of their own | render, relay, single-row writes | nothing concurrent |

Components interact in three ways.  The database is shared by all of them: a
member who unsubscribes on the web is seen by the sender at its next read.  The
queue leads from the two fan-outs to the sender.  `waitUntil` work (confirmation
mail, summaries, index updates, web fan-out) starts in a handler and ends after
its response, with nothing to repeat it.

## What makes each component correct

* Mail: a copy is mailed only for a job, the records agree with what was
  mailed, everything that was queued is mailed or settled for a reason, and
  duplicates cost faults.
* Membership: both sides agree before somebody is on a list; leaving is for
  good; one click decides a request.
* Wiki: history only grows and adds up; what readers are served is the page.
* Team: there is always somebody who can manage it, and only the first to come
  may sign up.  Sign-in: a link or its code signs in once.
* Web posts: the members get what the pipeline promises them, and the limit holds.
  Digests: an opt-out holds.  Groups: nobody deletes a group with members.
* Language model: the cap of a day holds; a draft never covers a page.
  Migrations: what is recorded is there.  Diffs: the hunks replay.
* Browser: what was typed is not lost, a code is checked against the address it
  went to, and what is on show is what was asked for, with what was confirmed.

## Modules

| Module | What it is |
|---|---|
| `ListPromise` | abstract: a copy is owed, handed over within a budget, settled; at most one copy after leaving |
| `MailPipeline` | inbound worker, queue and sender; implements `ListPromise` |
| `MCMailPipeline` | small lists, policies and handovers for TLC |
| `MailPipelineProofs` | its theorems |
| `Consent` | abstract: two consents before a seat is taken, leaving is for good |
| `Membership` | join requests, decisions, additions, confirmation, leaving; implements `Consent` |
| `MembershipProofs` | its theorems |
| `Wiki` | one page: Durable Object, R2 copy, readers, summaries, index |
| `MCWiki` | three requests, up to order |
| `WikiProofs` | theorems about the page and its history |
| `Team` | the admins of one tenant, the team page, the sign-ups of tenant and site |
| `MCTeam` | a small team, up to symmetry |
| `TeamProofs` | its theorems |
| `SignIn` | links, codes and sessions of site admins, tenant admins and readers |
| `SignInProofs` | its theorems |
| `WebPost` | a post written in the browser and its fan-out; implements `ListPromise` |
| `WebPostProofs` | its theorems |
| `Digest` | the weekly digest and its opt-out |
| `Groups` | creating, renaming and deleting groups |
| `Drafts` | texts and images of the language model, their budget and the pages they become |
| `Diff` | the line diff of two versions |
| `Migrate` | runs of the migration script |
| `Editor`, `SignInForm`, `AdminPage` | the scripts of the browser pages |
| `MCHub` | `SignIn` and the eight modules from `Digest` to `AdminPage`, each in a scene of its own |
| `HubProofs` | theorems about `Groups`, `Drafts` and `Migrate` |
| `PageProofs` | theorems about `Digest`, `Editor`, `SignInForm` and `AdminPage` |

A definition under a comment that begins "Mutation" is a plausible bug: the
faulty form of the definition after it.  No specification uses it; putting it in
place of its neighbour must break the property that `PROJECT.json` names, which
shows that the property depends on the code.

### MailPipeline

One list of one active tenant.  An element of `Msg` is a row of `messages`
together with the invocation of `email()` that writes it; `MailOf` says which
mail it carries, so that two elements can be two handovers of one mail.
`inbound[m]` is the program counter of that invocation and `todo[m]` what is left
of its snapshot.  `row`, `msgStatus`, `status` and `token` are columns of the
database.  `job[m][r]` joins the queue's state of a job with the program counter
of the sender that holds it.

| Actions | Code |
|---|---|
| `Validate`, `StoreMessage`, `SnapshotMembers`, `InsertDelivery`, `Enqueue`, `FinishFanout`, `AppendAudit` | `email()`, from the policy check to the audit entry |
| `InboundFault` | an exception or eviction between two of them |
| `Lease`, `LoadMember`, `MarkSuppressed`, `FindToken`, `MintToken`, `RefuseOutbound`, `Send`, `RecordSent`, `MarkMessageSent`, `Ack` | `processSendJob` and the `ack` in `queue()` |
| `RecordFailure` | the catch of `queue()` for an error that is not retried |
| `SenderFault` | `retry()`; with a non-empty set of other jobs, the batch that is redelivered because the catch itself failed |
| `Confirm`, `Leave`, `MintElsewhere` | what members and other handlers do to the rows the sender reads |

The history variables `copies`, `late` and `faults` count what no table records.
`refused` is a fact about a mail (its outbound form fails `assertOutboundValid`).
Statuses that no code writes (`bounced`, `held_moderation`, a suspended tenant)
are left out.  Acknowledging takes effect when it is called.

### Membership

A seat is one address on one list, the key `UNIQUE(group_id, email)`.
`reqSeat`, `decReq` and `verdict` are what somebody will ask for; `join` and
`dec` are program counters; `mail[s]` follows the confirmation mail that
`waitUntil` sends.  `Claim` is the conditional `UPDATE` of
`decideSubscriptionRequest`, `InsertApproved` the `INSERT OR IGNORE` after it.
`added`, `confirmed` and `seen` are history.  Owner commands of the CLI, which
insert active members directly, are outside this model.

### Wiki

One page of one tenant.  A call of the Durable Object is atomic; the handlers
around it interleave.  Data is reduced to who wrote it: `hist[n].text` is the
request whose markdown version `n` holds, `meta` the request whose title and
visibility it was saved with.  `cache` is the object in R2 with its metadata,
`index` the page's vector, `due` the pending `waitUntil` tasks.  `raced` records
that the page was written while another request was between its own calls, and
`torn` the readers whose object was replaced between `get` and `head`.

### Team

One tenant.  An element of `Row` is a row of `admins`: an id is never used again,
and two rows stand for two addresses.  `role[x]` is the row's column, or says that
the row is not there yet or no longer.

| Actions | Code |
|---|---|
| `Authorize` | `requireTenantAdmin` and `requireTenantAdminRole`, which read the caller's row, and the choice of a request |
| `Add` | POST: `insertTenantAdmin`, refused when the address is taken |
| `Load`, `Count`, `Write` | PATCH and DELETE: `getAdminById`, `listAdminsByTenant`, `updateAdminRole` or `deleteTenantAdmin` |
| `LookUpTenant`, `Found` | `tenantSignup` in single-tenant mode: no tenant yet, so one batch makes tenant and admin |
| `CountFirst`, `Join`, `JoinRefused` | `siteSignup` and the rest of `tenantSignup` |

`crossed` and `late` are history: the handlers, and the sign-ups, that read before
somebody else's write and have not written yet.  The caller's own row matters only
at the middleware, as in the code, so a handler goes on when its caller is
demoted meanwhile.  Invitation mails and display names are left out.

### SignIn

One tenant of several.  A link is a row of `site_magic_links`, `magic_links` or
`member_magic_links`, told apart by its `jar`; the six digits beside a link are a
column of the same row.  `seat[p][j]` is the row that lets a person in, and
`cookie[p][j]` the row that a session names.  A row of `admins` gets a new number
whenever somebody is hired again, a row of `members` is found by its address.

| Actions | Code |
|---|---|
| `Hire`, `Dismiss`, `JoinList`, `LeaveList` | what `Team` and `Membership` do to the rows that sign-in reads; `ON DELETE CASCADE` takes the links of an admin along |
| `SiteRequest`, `TenantRequest`, `Invite`, `FormRequest` | the four ways to ask for a link, up to their response |
| `FindSeat` | the look-up of `sendTenantMagicLink` and `sendMemberMagicLink`, after the response to the form |
| `SendLink`, `SendMemberLink`, `LoseLink` | the INSERT and the mail: a foreign key refuses the link of an admin whose row is gone, nothing refuses that of a member who has left since the look-up |
| `Follow` | GET `/auth/verify`: the conditional `UPDATE`, on the host that was asked |
| `PickCode`, `ClaimByCode` | the two statements of a `consume...ByCode` |
| `Admit`, `LoseVisit` | the lookup after it and the cookie; a lost answer |
| `SignOut`, `ExpireSession`, `ExpireLink` | as they say |

`Opens` says for which cookies a request is let in (`requireSiteAdmin`,
`resolveTenantContext`, `resolveMemberContext`).  Signatures, Turnstile and the
texts of the mails are left out.

### WebPost

One group, and the posts of one reader.  `step[q]` is the handler of
`acceptWebPost`, `fan[q]` the loop of `fanOutWebPost` that `waitUntil` keeps after
the response.  `CheckPost`, `CountPosts` and `InsertPost` are three awaits;
`AgePost` takes a message out of the window of the limit, and `MailIn` lets a
message of the same person come by mail, which counts too.  `RecordThrows` is a
failure that the `catch` handles, `LoseFanOut` one that it does not (the catch
itself failed, the list could not be read) or the end of the isolate.

### Digest, Groups, Drafts, Diff, Migrate

`Digest`: `ReadActivity`, `ListRecipients`, `Compose`, `MailDigest` and `EndWeekly`
are the awaits of `runWeeklyDigest`; `Enter`, `ConfirmRow`, `LeaveRow` and `OptOut`
change the rows it reads, at any point of its run.

`Groups`: a request loads the group (`LoadGroup`), counts what it has
(`CountActivity`) and writes (`Rename`, `Delete`); `Fill` is a first member or
message, whoever brings it.

`Drafts`: `BeginDraft` is the request with its first look for the page, `Consume`
the atomic upsert of `consumeAiBudget`, `CallModel` either call of the model,
`PickSlug` one probe for a free slug, `SaveDraft` the save; `WritePage` is somebody
who writes the page by hand, `Midnight` the next row of `ai_usage`.  `Wiki` has the
same generate handler with the texts and the history of the page.

`Diff`: the state is the walk of `diffOps` along its table (`Lcs`); `UnifiedDiff`
and `LineDelta` are computed from the operations.  The loops of the code (`Lcs`, `Side`,
`GroupChanges`) are recursive functions with one step per turn, so that they can be
proved about.

`Migrate`: `StartRun` reads the ledger, `ApplyFile` and `ApplyFails` are the
execution of a file, with the adoption of one that "already exists", `RecordFile`
its row, `DieBeforeRecord` a run that ends between the two.

### Editor, SignInForm, AdminPage

Browser scripts have no threads, but every `await` lets the other handlers run.  In
each module a handler (`click[c]`, `call[r]`, `job[j]`) is what is still to be
done when its answer comes; any number of them may be under way.

`Editor`: a text is the set of the edits it contains.  `setEditorMarkdown` destroys
the editor before it builds the next one, so there is a state in which nothing can
be typed (`Rebuilding`).

`SignInForm`: `draw` replaces the whole page; `own` are the requests whose form is
still there, as only their buttons are off.

`AdminPage`: a view is one call of a render function, numbered in the order of
calls.  `mounted[p]` is the view whose elements are in the element of page `p`, and
`place` the page in the root.  Server and browser act in steps of their own: a
request is carried out (`ServerReads`, `ServerActs`) before it is answered.
A boot without a hash, which dispatches twice, is `PageInit` and a `Navigate`.
`overtaken` records that something was opened or used while an answer was due that
could draw over it.

### MCHub

The nine components share no state, so `MCHub` plays one of them at a time: a
variable `scene` chooses which, `HubInit` lets the others start in one fixed state,
and every disjunct of `HubNext` is an action of one component that leaves all other
variables alone.  The states add up instead of multiplying, and the projection of
a behaviour on the component that is played is a behaviour of its own
specification.

## Runs

| Run | Instance | What it shows |
|---|---|---|
| `mail_fanout` | 1 post, 2 members, 1 retry, 1 fault | records and mail agree, refinement of `ListPromise`, every job settles, whoever is queued is mailed |
| `mail_handover` | 1 mail handed over twice, 1 member, 1 retry, 3 faults | duplicates and dead letters need faults |
| `mail_twice` | as `mail_fanout` | counterexample: one fault after the send and a member gets two copies (PRD invariant 3) |
| `mail_status` | no fault | counterexample: `queued` overwrites `sent` |
| `membership` | 1 seat, 3 submissions, 2 clicks, 1 addition, 1 fault | one decision, duplicates need overlap, `Consent`, approvals take effect |
| `membership_approved` | 1 seat, 1 submission, 1 click | counterexample: an approval that leaves the seat off the list |
| `wiki` | 3 requests of any kind, 1 reader, 1 fault | history adds up, summaries fit, R2 converges |
| `wiki_overwrite` | 2 requests | counterexample: a generated draft overwrites a new page |
| `team` | 4 rows, 2 requests at a time, 2 sign-ups | the last admin is lost, and a second founder gets in, only when handlers overlap |
| `team_last_admin` | 2 admins, 2 requests | counterexample: two demotions leave no admin |
| `webpost` | 2 posts, 2 members, a limit of 1, 1 fault | overruns of the limit need overlap, refinement of `ListPromise`, every row settles unless the fan-out is lost |
| `hub` | see below | one link opens one session and is not wasted, opt-outs last, groups go only by a race, drafts cover only pages that came later, migrations recorded are whole, diffs replay, and the three pages lose nothing without overlap |

The bounds and why they suffice:

* Seats, pages and tenants do not interact in the code (every statement is keyed
  by one of them), so one stands for all.  Two members of a list are enough for
  a fan-out that stops between them and for a batch that fails together.
* One retry instead of three keeps the same transitions: first attempt, a
  further attempt, last attempt.  The theorems hold for every `MaxRetries`.
* Three submissions let one be decided while two race; two clicks race on one.
* On a team, two requests at a time are the smallest overlap, and a request that
  has ended starts afresh, so the sequence is not bounded; the four rows are what
  two requests and two sign-ups can touch.
* Three wiki requests are the smallest number where a late one meets two others.
* `hub`: one person with two links, two handlers and two rows of admins (a link of
  the row before the present one); one address in two groups and two digests; two
  groups, two names, two changes at once; two drafts, two slugs, a cap of two and
  one midnight; all pairs of texts of up to four lines of two kinds with a context
  of one line, where hunks meet, touch and fall apart; three migrations and two
  runs; two edits, two addresses and two handlers at once on the browser pages,
  three views and one change on the server (a view left, the one after it, and
  what a late handler opens on top).
* `MaxPostFaults` (1), `Weeks`, `Days`, `MaxViews` and `MaxChanges` are bounds of
  the model.  `Candidates` (9 in the code), `Cap`, `PostLimit` (5) and `Context` (3) are
  constants of the code, made small.
* `MaxFaults` bounds faults.  With one fault the liveness properties are about
  jobs that still have an attempt; with three, both copies of a mail can fail.

Deadlock checking is off everywhere: when all requests are answered the system
rests, as it should.

### Fairness

Weak fairness is given to handlers that have started and to the queue, never to
people: nobody has to post, click or leave.  A Worker invocation runs on until
it returns, throws or is evicted, and the last two are the fault actions, whose
number is bounded.  Cloudflare Queues redelivers until a job is acknowledged or
its retries are used up.  For `waitUntil` the platform promises no more than
that the task is started, so `TaskFault` can drop it.  The fan-out of a web post
(`FanOut`) is treated the same: it is fair while its isolate lives, and `LoseFanOut`
ends it, which is why `FanOutSettles` speaks of fan-outs that were not lost.  The
components of `MCHub` have safety properties only: nothing in them is retried, and
people and browsers owe nobody a step.

## What is proved

All proofs are checked by TLAPS, for any number of messages, members, requests,
readers, rows, clicks, retries and faults.

`MailPipelineProofs` rests on `PipelineAssumption` (types of the constants) and
`HandoversAssumption` (an MTA hands a mail over finitely often, so that the copies
of its handovers can be added up).  Its inductive invariant `IInv` has twelve parts.  Most properties are not
inductive: that a late copy is the last one needs `LateIsLast` (after it no
attempt is cleared to send), which needs to know that `unsubscribed` is never
undone; `DeadLetterNeedsFaults` needs an account of every attempt in terms of
faults and of the one `UNIQUE` race a member's token can lose
(`AttemptsNeedFaults`); `QueuedMeansEnqueued` needs that at most one row has no
job (`RowThenJob`).  `DuplicatesNeedFaults` sums over the handovers of a mail;
the sum that is inductive (`CopiesNeedFaults`) counts for each handover the copies
mailed and the one still to be expected (`Accounted`), against the faults and the one
handover that may be under way (`Allowance`): a step moves one from what is expected to
what is mailed, or a fault adds one to both.  Each part has one lemma with one case per
action.  From it follow `Typed`, `JobsHaveRows`, `SentMeansMailed`, `AtMostOneLateCopy`,
`QueuedIsComplete`, `DeadLettersNeedFaults`, `DeadLettersStayQueued`,
`DuplicatesArePaidFor`, `OneCopyWithoutFaults` (the PRD's "no member receives the same
message twice", which a run refutes with one fault, holds while nothing has failed),
`SentRegresses`, `NobodyIsForgotten`, `JobsRunOut` and `Implements`: every step of the pipeline is a step of
`ListPromise` or a stutter.

`MembershipProofs` proves `MembershipTyped`, `DecidedOnce`,
`DuplicatesNeedOverlap`, `LinkLossNeedsFault` and `MembershipImplements`
(refinement of `Consent`) from `Membership!IInv`, and `ApprovalsAreKept`.  `MailBeforeToken` is the part
that explains why the token race is harmless here: while the confirmation mail
is being prepared the row is not active, and only active rows get tokens
elsewhere.

`WikiProofs` proves `WikiTyped`, `FeedReplays`, `SummariesFit`, `ViewsAreGenuine`
and `CacheCatchesUp` from `WikiAssumption` (types, and that `Nobody` is no request).  The history changes in
two ways only, a version at the end (`Extended`) and a summary in its place
(`Summarized`); `Wiki!IInv` adds what they rest on: that a revert knows a version
that exists (`RequestsGrounded`), that only saves leave summaries
(`TasksGrounded`), and that the version a save made holds its text
(`SavesOwnText`), which is why a late summary cannot be about another change.  `CalmInv` adds, for
histories in which no two requests raced: what a request or a reader has of the page
still holds when it writes (`Undisturbed`), what is written or shown was the page
once (`Genuine`), and R2 is behind only while a request has yet to write it
(`CacheFollows`).

`TeamProofs` proves `TeamTyped`, `LastAdminStays` and `SecondFounderOverlaps` from
`TeamAssumption` (the rows are finitely many, so that they can be counted).
`KnowsItsRow` says that a handler no write has crossed still finds another admin
beside the one it takes away, and `FindsNobody` that a sign-up no INSERT has
preceded still finds what it counted.

`SignInProofs` proves `SignInTyped`, `LinkOpensOnce`, `LinksAreNotWasted` and
`SessionsStayOver` from `SignInAssumption`.  `OneSessionPerLink` rests on `OneVisit`
(whoever has claimed a link is alone with it, as the conditional `UPDATE` lets only
one through) and `Fresh`; `WastedForAReason` on `RowsStand` and `MembersStand` (the
row that a link names is there, or its owner has left since; from the look-up on, as
a member may also leave between look-up and INSERT and is mailed the link all the
same) and on `VisitsMatch`.  `SessionsStayOver` is an action property that no run checks: a session
that has ceased to open anything works again only for a reader, because that
cookie names an address where the others name a row (`RowsInOrder`).

`WebPostProofs` proves `PostTyped`, `RowsAreTrue`, `LimitHoldsInTurn`,
`QueuedForGoodNeedsFault`, `FanOutsRunOut` and `WebImplements` from `WebPostAssumption` and
`ReadersAreFinite`.  `CountHolds` is the heart of the limit: a
handler that has counted, and that no INSERT has overtaken, still counts fewer than
the limit.  The refinement of `ListPromise` needs `FanInv`: no row before the
fan-out comes to a member, no copy before its row, and the member at hand has been
taken off the list (`RowsWaiting`, `NothingMailedYet`, `AtHand`).

`HubProofs` proves `GroupsTyped`, `LossNeedsOverlap`, `DraftsTyped`,
`CoveredPagesCameLater`, `CapHolds`, `MigrationsTyped`, `MigrationsAreWhole`,
`DiffTyped`, `DiffsReplay`, `CountsAreLeast` and `HubPlaysItsParts`.
Each of the two properties about overlap has an invariant that says what a request
relies on: `CountedIsEmpty` (a request past its count finds the group empty, or it
was filled since) and `TrustsFreeSlot` (a draft past its look finds no page, or the
page came since).  `CapHolds`, which no run checks, says that the model is called at
most `Cap` times in a day beyond the calls paid for the day before; it needs to
count the requests that have paid and not called (`CallsAreBooked`), hence
`IsFiniteSet(Draft)`.  `MigrateInv` adds that a run which is about to record a file
has applied it, and that the ledger is an initial segment as far as any run has
come (`AppliedFirst`, `InOrder`).

The three theorems about diffs hold for texts of any length, any lines and any
context.  `WalkInv` says that the operations so far spell out what the walk has
passed of either text, and that the lines kept so far and what the table promises for
the rest add up to the table's first entry; the counts follow at the end of the walk.
For the hunks, `GroupedUpTo` says that the groups made so far contain every change so
far, lie in order and leave more than two contexts between them, and `PatchedTo(e)`
that the hunks applied so far have rebuilt the new text up to the operation `e`,
which the next hunk has not passed.  `CountsAreLeast` goes beyond what the
run checks: no common subsequence of the two texts is longer than what the diff keeps.

Facts about loops and sums are proved by induction over sets: the numbers
that have a property contain `0` and with each number the next, and a set of numbers that
is not all of `Nat` has a least one outside (`WellFoundedInduction`), so no fact with an
operator as parameter is needed.  `LoopExists` gives the function that a loop
defines, `SameLoop` that there is only one.

`HubPlaysItsParts` says of `MCHub` that `HubSpec` implies the specification of each of
its nine components, for any constants: a step of a scene is a step of one component
and leaves the variables of the others alone.  So a counterexample in the run `hub` is
one of the component, and what is proved of a component holds in the run.

`PageProofs` proves `DigestTyped`, `OptOutsLast`, `EditorTyped`, `WorkIsKept`,
`FormTyped`, `LastAddressAsked`, `PageTyped` and `QuietPages`.  `RefusedRowsMarked`:
a row that was there at the opt-out, and has not been left, is still marked.  `Orderly`
and `ButtonsAgree` describe the editor with one handler at a time; `AsksOnce` says
that without a second form at most one request for a code is due, and that it is for
the address that was typed last.  For the administration pages `PageInv` says, as
long as nothing was overtaken, that the view asked for last is the one on show, that
one handler at most is at work on it and those of earlier views draw elsewhere
(`OnShow`), and that its list has what was confirmed or is being loaded
(`UpToDate`); that views are numbered as they come (`InScope`) holds always.

Every invariant and every action property that a passing run checks is
stated by a theorem.  Only model-checked are the five liveness properties (`JobsSettle`,
`QueuedIsMailed`, `ApprovalTakesEffect`, `Converges`, `FanOutSettles`), since liveness under
fairness is beyond the prover: it needs that a handler which has started can take its
next step (`ENABLED`).  What such an argument needs besides is proved, and no run
checks it:

* where it ends.  `NobodyIsForgotten`: an acknowledged job has been mailed, or its
  member had left, or the mail cannot be built, and a dead letter has met `MaxRetries`
  faults (for `QueuedIsMailed`).  `ApprovalsAreKept`: an approved seat has its row, unless
  the INSERT is under way or its handler has died after the claim (for `ApprovalTakesEffect`).
  `QueuedForGoodNeedsFault`: a row is 'queued' only while its fan-out runs or after a fault
  has ended it (for `FanOutSettles`).  `CacheCatchesUp` does the same for `Converges`.
* that it ends.  `JobsRunOut`: the steps a job can still take (`TurnsLeft`, at most
  `9 * (MaxRetries + 1)` once it is queued) never grow, whatever faults, lost races and lost
  batches do, and each step of the consumer takes one.  `FanOutsRunOut`: the same of
  `StepsLeft`, three for each member and three more.

## What the runs disagree with

`PROJECT.json` lists each under "findings" with the sentence that is
contradicted.  In short: PRD invariant 3
does not survive a fault between sending and recording; `messages.status` can end as
`queued`; the status `suppressed` is never written and a failed job keeps `queued`;
approval does not reach somebody who had left; "never overwrite" is tested too early;
the last two admins can remove each other.

From the runs `webpost` and `hub`, whose properties name the exception: posts that
overlap pass the documented limit; a failure inside the catch of the fan-out leaves
rows `queued` for good; an opt-out does not count once its row has been left; a save
answered during a preview overwrites the snapshot that Cancel restores, and a preview
that is called read-only takes edits; "Sent a fresh code" is never shown; a late answer
draws over the tab or page that was opened since; a migration that was half carried
out by hand is recorded as applied.

One thing was met on the way and is in no model: `currentTenantSlug`
(`src/server/wiki/routes.ts:474`) derives the tenant from the Host header again and
does not know the single-tenant mode that `classifyHost` knows.

## Not modelled

* MIME (`src/packages/mime/`), rendering, sanitising and search of the archive,
  hosts, slugs and configuration: functions from text to text without state.  What
  they refuse is a choice in the models that call them (`RefuseOutbound`,
  `RefuseCopy`, `Follow`'s host).
* The digest of pending requests: a query and mails, nothing is written.
* Pages, contact form, bounces (a stub that answers 501), the CLI and the
  deployment script: single reads or single-row writes that no other step relies on.
* Tenants beyond their creation: no route changes a tenant.
* An editor that cannot be built again (`buildCrepe` throwing after `destroy`): what is
  left of a destroyed editor is the library's affair.
* In the modelled parts: cookie signatures, Turnstile, wording, attachments, and
  columns that no other step reads.

What is left to do: a model of the pages that joins `AdminPage` with the handlers of `Groups` and
`Membership` instead of a counter of changes.
