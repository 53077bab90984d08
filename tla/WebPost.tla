------------------------------ MODULE WebPost ------------------------------
(***************************************************************************)
(* Posts written in the browser: what a handler checks before it takes one *)
(* (server/archive/routes.ts), and the fan-out that runs after the         *)
(* response, with no queue behind it (server/archive/post.ts).             *)
(*                                                                         *)
(* One group, and the posts of one of its readers.  A post stands for the  *)
(* handler, the message it stores and the fan-out of that message.         *)
(***************************************************************************)
EXTENDS Naturals, FiniteSets

CONSTANTS
    Post,           \* posts of one person, which may overlap
    Reader,         \* the members of the group
    Poster,         \* the member who posts
    Policy,         \* who may post: "open", "members" or "closed"
    PostLimit,      \* POST_RATE_LIMIT.max
    MaxPostFaults   \* bound: database calls that fail, isolates that are lost

ASSUME WebPostAssumption ==
    /\ IsFiniteSet(Post)
    /\ Poster \in Reader
    /\ Policy \in {"open", "members", "closed"}
    /\ PostLimit \in Nat
    /\ MaxPostFaults \in Nat

\* A list has finitely many members.
ASSUME ReadersAreFinite == IsFiniteSet(Reader)

VARIABLES
    away,       \* members who have left
    step,       \* step[q]: how far the handler is
    recent,     \* messages of the poster that are less than ten minutes old
    overlapped, \* history: posts with an INSERT between their count and their own
    stored,     \* stored[q]: messages.status, or "none"
    fan,        \* fan[q]: how far the fan-out is
    todo,       \* todo[q]: the members it still has to write a row or a mail for
    at,         \* at[q]: the member it is at
    row,        \* row[q][m]: deliveries.status, or "none"
    handed,     \* handed[q][m]: copies given to the mail provider
    late,       \* late[q][m]: how many of them after m had left
    postFaults  \* history: faults so far

handlerVars == <<step, recent, overlapped>>
fanVars == <<fan, todo, at, row, handed, late>>
postVars == <<away, handlerVars, stored, fanVars, postFaults>>

PostTypeOK ==
    /\ away \in SUBSET Reader
    /\ step \in [Post -> {"new", "counting", "clear", "inserted", "mailed", "accepted",
                          "refused", "failed"}]
    /\ recent \in SUBSET Post
    /\ overlapped \in SUBSET Post
    /\ stored \in [Post -> {"none", "received", "queued", "sent"}]
    /\ fan \in [Post -> {"none", "due", "listing", "sending", "mailed", "threw", "done",
                         "lost"}]
    /\ todo \in [Post -> SUBSET Reader]
    /\ at \in [Post -> Reader]
    /\ row \in [Post -> [Reader -> {"none", "queued", "sent", "failed"}]]
    /\ handed \in [Post -> [Reader -> Nat]]
    /\ late \in [Post -> [Reader -> Nat]]
    /\ postFaults \in 0..MaxPostFaults

PostInit ==
    /\ away = {}
    /\ step = [q \in Post |-> "new"]
    /\ recent = {}
    /\ overlapped = {}
    /\ stored = [q \in Post |-> "none"]
    /\ fan = [q \in Post |-> "none"]
    /\ todo = [q \in Post |-> {}]
    /\ at = [q \in Post |-> Poster]
    /\ row = [q \in Post |-> [m \in Reader |-> "none"]]
    /\ handed = [q \in Post |-> [m \in Reader |-> 0]]
    /\ late = [q \in Post |-> [m \in Reader |-> 0]]
    /\ postFaults = 0

PostFault == postFaults < MaxPostFaults /\ postFaults' = postFaults + 1

LeaveGroup(m) ==
    /\ m \notin away
    /\ away' = away \cup {m}
    /\ UNCHANGED <<handlerVars, stored, fanVars, postFaults>>

-----------------------------------------------------------------------------
(* acceptWebPost.                                                          *)

\* postPermissionFor.  "closed" is a moderated list, and an announce-only list
\* for a poster who is neither moderator nor sender; "members" the latter for
\* one who is.
MayPost == Policy = "open" \/ (Policy = "members" /\ Poster \notin away)

\* getMemberByEmail, the policy, Turnstile, which refuses when it cannot be
\* reached, and what was typed.
CheckPost(q) ==
    /\ step[q] = "new"
    /\ \/ MayPost /\ step' = [step EXCEPT ![q] = "counting"]
       \/ step' = [step EXCEPT ![q] = "refused"]
    /\ UNCHANGED <<away, recent, overlapped, stored, fanVars, postFaults>>

\* Mutation: one more than the limit passes.
CountLoosely(q) ==
    /\ step[q] = "counting"
    /\ step' = [step EXCEPT ![q] =
           IF Cardinality(recent) > PostLimit THEN "refused" ELSE "clear"]
    /\ UNCHANGED <<away, recent, overlapped, stored, fanVars, postFaults>>

\* countRecentMessagesFromSender.
CountPosts(q) ==
    /\ step[q] = "counting"
    /\ step' = [step EXCEPT ![q] =
           IF Cardinality(recent) >= PostLimit THEN "refused" ELSE "clear"]
    /\ UNCHANGED <<away, recent, overlapped, stored, fanVars, postFaults>>

\* insertMessage: the archive shows the message from now on.
Store(q) ==
    /\ recent' = recent \cup {q}
    /\ overlapped' = overlapped \cup {p \in Post \ {q} : step[p] = "clear"}
    /\ stored' = [stored EXCEPT ![q] = "received"]

InsertPost(q) ==
    /\ step[q] = "clear"
    /\ step' = [step EXCEPT ![q] = "inserted"]
    /\ Store(q)
    /\ UNCHANGED <<away, fanVars, postFaults>>

\* The same person's mail counts too, and goes out by the mail pipeline.
MailIn(q) ==
    /\ step[q] = "new"
    /\ step' = [step EXCEPT ![q] = "mailed"]
    /\ Store(q)
    /\ UNCHANGED <<away, fanVars, postFaults>>

\* Ten minutes have passed.
AgePost(q) ==
    /\ q \in recent
    /\ recent' = recent \ {q}
    /\ UNCHANGED <<away, step, overlapped, stored, fanVars, postFaults>>

\* appendAudit, then the fan-out is left to waitUntil.
AcceptPost(q) ==
    /\ step[q] = "inserted"
    /\ step' = [step EXCEPT ![q] = "accepted"]
    /\ fan' = [fan EXCEPT ![q] = "due"]
    /\ UNCHANGED <<away, recent, overlapped, stored, todo, at, row, handed, late,
                   postFaults>>

\* Either fails: the answer is an error, and the message stays without copies.
FailPost(q) ==
    /\ step[q] = "inserted"
    /\ PostFault
    /\ step' = [step EXCEPT ![q] = "failed"]
    /\ UNCHANGED <<away, recent, overlapped, stored, fanVars>>

-----------------------------------------------------------------------------
(* fanOutWebPost.                                                          *)

fanFrame == <<away, handlerVars, postFaults>>

\* listActiveMembers.
ListMembers(q) ==
    /\ fan[q] = "due"
    /\ fan' = [fan EXCEPT ![q] = "listing"]
    /\ todo' = [todo EXCEPT ![q] = Reader \ away]
    /\ UNCHANGED <<fanFrame, stored, at, row, handed, late>>

Unlisted(q) == {m \in todo[q] : row[q][m] = "none"}

\* One member after the other, in the order of the query, whatever that is.
First(S) == CHOOSE m \in S : TRUE

\* insertDelivery.
InsertRow(q) ==
    /\ fan[q] = "listing"
    /\ Unlisted(q) # {}
    /\ row' = [row EXCEPT ![q][First(Unlisted(q))] = "queued"]
    /\ UNCHANGED <<fanFrame, stored, fan, todo, at, handed, late>>

\* updateMessageStatus, buildReferencesChain.
QueuePost(q) ==
    /\ fan[q] = "listing"
    /\ Unlisted(q) = {}
    /\ fan' = [fan EXCEPT ![q] = "sending"]
    /\ stored' = [stored EXCEPT ![q] = "queued"]
    /\ UNCHANGED <<fanFrame, todo, at, row, handed, late>>

\* getOrCreateUnsubToken, buildOutbound, assertOutboundValid, EMAIL.send.
MailCopy(q) ==
    /\ fan[q] = "sending"
    /\ todo[q] # {}
    /\ LET m == First(todo[q]) IN
          /\ at' = [at EXCEPT ![q] = m]
          /\ handed' = [handed EXCEPT ![q][m] = @ + 1]
          /\ late' = IF m \in away THEN [late EXCEPT ![q][m] = @ + 1] ELSE late
    /\ fan' = [fan EXCEPT ![q] = "mailed"]
    /\ UNCHANGED <<fanFrame, stored, todo, row>>

\* Mutation: a copy that throws is passed over, with its row as it is.
SkipRefused(q) ==
    /\ fan[q] = "sending"
    /\ todo[q] # {}
    /\ todo' = [todo EXCEPT ![q] = @ \ {First(todo[q])}]
    /\ UNCHANGED <<fanFrame, stored, fan, at, row, handed, late>>

\* One of these throws: a copy that cannot be built, a refusal by the provider.
RefuseCopy(q) ==
    /\ fan[q] = "sending"
    /\ todo[q] # {}
    /\ at' = [at EXCEPT ![q] = First(todo[q])]
    /\ fan' = [fan EXCEPT ![q] = "threw"]
    /\ UNCHANGED <<fanFrame, stored, todo, row, handed, late>>

\* Mutation: the member is not taken off the list when the row is written.
SettleAgain(q, status) ==
    /\ row' = [row EXCEPT ![q][at[q]] = status]
    /\ fan' = [fan EXCEPT ![q] = "sending"]
    /\ UNCHANGED <<fanFrame, stored, todo, at, handed, late>>

\* On to the next member.
SettleRow(q, status) ==
    /\ row' = [row EXCEPT ![q][at[q]] = status]
    /\ fan' = [fan EXCEPT ![q] = "sending"]
    /\ todo' = [todo EXCEPT ![q] = @ \ {at[q]}]
    /\ UNCHANGED <<fanFrame, stored, at, handed, late>>

\* updateDeliverySent.
RecordSent(q) == fan[q] = "mailed" /\ SettleRow(q, "sent")

\* It fails and is caught like a copy that was never mailed.
RecordThrows(q) ==
    /\ fan[q] = "mailed"
    /\ PostFault
    /\ fan' = [fan EXCEPT ![q] = "threw"]
    /\ UNCHANGED <<away, handlerVars, stored, todo, at, row, handed, late>>

\* updateDeliveryFailed, in the catch.
RecordFailed(q) == fan[q] = "threw" /\ SettleRow(q, "failed")

FinishPost(q) ==
    /\ fan[q] = "sending"
    /\ todo[q] = {}
    /\ fan' = [fan EXCEPT ![q] = "done"]
    /\ stored' = [stored EXCEPT ![q] =
           IF \E m \in Reader : row[q][m] = "sent" THEN "sent" ELSE @]
    /\ UNCHANGED <<fanFrame, todo, at, row, handed, late>>

Running(q) == fan[q] \in {"due", "listing", "sending", "mailed", "threw"}

\* A call outside the try fails, the one in the catch does, or the isolate goes.
LoseFanOut(q) ==
    /\ Running(q)
    /\ PostFault
    /\ fan' = [fan EXCEPT ![q] = "lost"]
    /\ UNCHANGED <<away, handlerVars, stored, todo, at, row, handed, late>>

-----------------------------------------------------------------------------
\* What the fan-out does when nothing is lost.
FanOut(q) ==
    \/ ListMembers(q) \/ InsertRow(q) \/ QueuePost(q)
    \/ MailCopy(q) \/ RefuseCopy(q)
    \/ RecordSent(q) \/ RecordFailed(q) \/ FinishPost(q)

Accepting(q) ==
    \/ CheckPost(q) \/ CountPosts(q) \/ InsertPost(q) \/ MailIn(q) \/ AgePost(q)
    \/ AcceptPost(q) \/ FailPost(q)

PostNext ==
    \/ \E q \in Post : Accepting(q) \/ FanOut(q) \/ RecordThrows(q) \/ LoseFanOut(q)
    \/ \E m \in Reader : LeaveGroup(m)

PostSpec == PostInit /\ [][PostNext]_postVars

\* waitUntil keeps the isolate until the fan-out ends.
FairPostSpec == PostSpec /\ \A q \in Post : WF_postVars(FanOut(q))

-----------------------------------------------------------------------------
(* Safety.                                                                 *)

\* More web posts than the limit within ten minutes means that some of them
\* were inserted between another one's count and its INSERT.
PostLimitNeedsOverlap ==
    Cardinality({q \in recent \ overlapped : step[q] # "mailed"}) <= PostLimit

Stage(status) ==
    IF status = "none" THEN "none" ELSE IF status = "queued" THEN "owed" ELSE "settled"

Owed == [q \in Post |-> [m \in Reader |-> Stage(row[q][m])]]

WebPromise ==
    INSTANCE ListPromise WITH
        Msg <- Post, Member <- Reader, Budget <- 1, owed <- Owed, gone <- away

\* The fan-out of a web post keeps the promise that the queue of the mail
\* pipeline keeps, with a budget of one: no copy is handed over twice, none
\* after its row is settled, whatever fails, and one at most to somebody who
\* has left.
KeepsWebPromise == WebPromise!Safety

\* A row says 'sent' only if the copy was mailed; the other way round, a row
\* that says 'failed' although the copy went out takes a fault.
RowsTellTheTruth ==
    \A q \in Post, m \in Reader :
        /\ row[q][m] = "sent" => handed[q][m] = 1
        /\ row[q][m] = "failed" /\ handed[q][m] > 0 => postFaults > 0

-----------------------------------------------------------------------------
(* Liveness.                                                               *)

\* Every row that a fan-out writes is settled, unless the fan-out is lost: no
\* queue brings it back, and its rows say 'queued' for good.
FanOutSettles ==
    \A q \in Post, m \in Reader :
        row[q][m] = "queued" ~> row[q][m] \in {"sent", "failed"} \/ fan[q] = "lost"
=============================================================================
