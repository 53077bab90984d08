---------------------------- MODULE MailPipeline ----------------------------
(***************************************************************************)
(* The path of a post through the list: the inbound worker that stores a   *)
(* message and fans it out, the send queue, and the sender worker that     *)
(* delivers one copy per job (src/workers/inbound/src/index.ts,            *)
(* src/workers/sender/src/index.ts and the helpers of                      *)
(* src/packages/db/src/index.ts they call).                                *)
(*                                                                         *)
(* One list of one active tenant.  Every await that reads or writes shared *)
(* state is a step of its own: invocations of both workers interleave with *)
(* one another and with people joining and leaving.  A fault is anything   *)
(* that makes an invocation throw or die between two such steps: a D1 or   *)
(* provider error, a lost answer, an evicted isolate.                      *)
(*                                                                         *)
(* A definition commented "Mutation" is a faulty form of one that follows  *)
(* it; no action of the specification uses it.                             *)
(***************************************************************************)
EXTENDS Naturals, FiniteSets, Functions

CONSTANTS
    Msg,          \* message rows; one per invocation of the inbound worker
    Mail,         \* the mails behind them; an MTA may hand one over again
    MailOf,       \* MailOf[m]: the mail that invocation m carries
    Member,       \* rows of the members table
    Outsider,     \* an address with no row there
    Author,       \* Author[x]: the envelope sender of mail x
    Role,         \* Role[r]: "member", "moderator" or "sender_only"
    Paused,       \* members whose delivery_mode is 'paused'
    Policy,       \* the list's posting policy
    Malformed,    \* mails too large or unparsable
    MaxRetries,   \* max_retries of the queue consumer (wrangler.toml: 3)
    MaxFaults     \* bound: faults a behaviour may contain

ASSUME PipelineAssumption ==
    /\ MailOf \in [Msg -> Mail]
    /\ Outsider \notin Member
    /\ Author \in [Mail -> Member \cup {Outsider}]
    /\ Role \in [Member -> {"member", "moderator", "sender_only"}]
    /\ Paused \subseteq Member
    /\ Policy \in {"open", "members", "announce_only", "moderated"}
    /\ Malformed \subseteq Mail
    /\ MaxRetries \in Nat
    /\ MaxFaults \in Nat

\* An MTA hands a mail over finitely often.
ASSUME HandoversAssumption == \A x \in Mail : IsFiniteSet({m \in Msg : MailOf[m] = x})

VARIABLES
    refused,    \* the mails whose outbound form fails assertOutboundValid; the
                \* deployment decides it, so it never changes
    status,     \* status[r]: members.status
    token,      \* token[r]: does r have an unsub_tokens row?
    inbound,    \* inbound[m]: how far invocation m of the inbound worker is
    todo,       \* todo[m]: members of m's snapshot not yet enqueued
    msgStatus,  \* msgStatus[m]: messages.status, "none" before the INSERT
    row,        \* row[m][r]: deliveries.status, "none" before the INSERT
    job,        \* job[m][r]: where the queue and the sender are with this job
    attempts,   \* attempts[m][r]: how often the queue delivered it
    sawSent,    \* sawSent[m][r]: the attempt read messages.status = 'sent'
    copies,     \* history: copies[m][r] were handed to the mail provider
    late,       \* history: late[m][r] of them when r was not active
    faults      \* history: faults so far

inboundVars == <<inbound, todo>>
jobVars == <<job, attempts, sawSent, copies, late>>
vars == <<refused, status, token, inboundVars, msgStatus, row, jobVars, faults>>

MemberStatus == {"pending_confirmation", "active", "unsubscribed"}

InboundState == {"idle", "rejected", "validated", "stored", "fanout",
                 "enqueue", "audit", "accepted", "failed"}

\* Invocations of the inbound worker that are running, and so can fail.
InboundBusy == {"validated", "stored", "fanout", "enqueue", "audit"}

\* A job the consumer holds; the first group has read no member row yet, the
\* second has read 'active', the third something else, the last has sent.
Unread == {"loaded"}
Cleared == {"checked", "minting", "ready"}
Refused == {"suppress", "skipped", "invalid"}
Mailed == {"mailed", "recorded", "acking"}
Held == Unread \cup Cleared \cup Refused \cup Mailed

JobState == {"none", "pending", "acked", "dead"} \cup Held

TypeOK ==
    /\ refused \in SUBSET Mail
    /\ status \in [Member -> MemberStatus]
    /\ token \in [Member -> BOOLEAN]
    /\ inbound \in [Msg -> InboundState]
    /\ todo \in [Msg -> SUBSET Member]
    /\ msgStatus \in [Msg -> {"none", "received", "queued", "sent"}]
    /\ row \in [Msg -> [Member -> {"none", "queued", "sent", "failed"}]]
    /\ job \in [Msg -> [Member -> JobState]]
    /\ attempts \in [Msg -> [Member -> 0 .. MaxRetries + 1]]
    /\ sawSent \in [Msg -> [Member -> BOOLEAN]]
    /\ copies \in [Msg -> [Member -> Nat]]
    /\ late \in [Msg -> [Member -> Nat]]
    /\ faults \in 0 .. MaxFaults

Init ==
    /\ refused \in SUBSET Mail
    /\ status \in [Member -> {"pending_confirmation", "active"}]
    /\ token = [r \in Member |-> FALSE]
    /\ inbound = [m \in Msg |-> "idle"]
    /\ todo = [m \in Msg |-> {}]
    /\ msgStatus = [m \in Msg |-> "none"]
    /\ row = [m \in Msg |-> [r \in Member |-> "none"]]
    /\ job = [m \in Msg |-> [r \in Member |-> "none"]]
    /\ attempts = [m \in Msg |-> [r \in Member |-> 0]]
    /\ sawSent = [m \in Msg |-> [r \in Member |-> FALSE]]
    /\ copies = [m \in Msg |-> [r \in Member |-> 0]]
    /\ late = [m \in Msg |-> [r \in Member |-> 0]]
    /\ faults = 0

-----------------------------------------------------------------------------
(* People join, leave and fetch pages that carry their unsubscribe link.   *)

\* The double-opt-in link was followed.
Confirm(r) ==
    /\ status[r] = "pending_confirmation"
    /\ status' = [status EXCEPT ![r] = "active"]
    /\ UNCHANGED <<refused, token, inboundVars, msgStatus, row, jobVars,
                   faults>>

\* The unsubscribe link or mail, or an admin's removal: all three end in this
\* UPDATE, and no code sets the status back.
Leave(r) ==
    /\ status[r] # "unsubscribed"
    /\ status' = [status EXCEPT ![r] = "unsubscribed"]
    /\ UNCHANGED <<refused, token, inboundVars, msgStatus, row, jobVars,
                   faults>>

\* Another caller of getOrCreateUnsubToken (confirmation mail, digest, web
\* post) wins the INSERT.
MintElsewhere(r) ==
    /\ ~token[r]
    /\ token' = [token EXCEPT ![r] = TRUE]
    /\ UNCHANGED <<refused, status, inboundVars, msgStatus, row, jobVars,
                   faults>>

-----------------------------------------------------------------------------
(* The inbound worker.                                                     *)

\* validateSender.
MayPost(a) ==
    \/ Policy = "open"
    \/ /\ Policy \in {"members", "announce_only"}
       /\ a \in Member
       /\ status[a] = "active"
       /\ Policy = "announce_only" => Role[a] \in {"moderator", "sender_only"}

\* An MTA hands a mail over again only after a handover that failed.
HandedOver(m) ==
    \A n \in Msg \ {m} : MailOf[n] = MailOf[m] => inbound[n] \in {"idle", "failed"}

Validate(m) ==
    /\ inbound[m] = "idle"
    /\ HandedOver(m)
    /\ inbound' = [inbound EXCEPT ![m] =
           IF MailOf[m] \notin Malformed /\ MayPost(Author[MailOf[m]])
           THEN "validated" ELSE "rejected"]
    /\ UNCHANGED <<refused, status, token, todo, msgStatus, row, jobVars,
                   faults>>

\* insertMessage; nothing looks for an earlier row with the same
\* original_message_id.  The attachments follow.
StoreMessage(m) ==
    /\ inbound[m] = "validated"
    /\ inbound' = [inbound EXCEPT ![m] = "stored"]
    /\ msgStatus' = [msgStatus EXCEPT ![m] = "received"]
    /\ UNCHANGED <<refused, status, token, todo, row, jobVars, faults>>

\* listActiveMembers.
ListActiveMembers == {r \in Member : status[r] = "active"} \ Paused

\* Mutation: 'queued' is written before the fan-out, not after it.
QueuedBeforeFanout(m) ==
    /\ inbound[m] = "stored"
    /\ inbound' = [inbound EXCEPT ![m] = "fanout"]
    /\ todo' = [todo EXCEPT ![m] = ListActiveMembers]
    /\ msgStatus' = [msgStatus EXCEPT ![m] = "queued"]
    /\ UNCHANGED <<refused, status, token, row, jobVars, faults>>

\* The snapshot that the fan-out works through.
SnapshotMembers(m) ==
    /\ inbound[m] = "stored"
    /\ inbound' = [inbound EXCEPT ![m] = "fanout"]
    /\ todo' = [todo EXCEPT ![m] = ListActiveMembers]
    /\ UNCHANGED <<refused, status, token, msgStatus, row, jobVars, faults>>

\* Mutation: the job is sent to the queue before its delivery row exists.
EnqueueBeforeRow(m, r) ==
    /\ inbound[m] = "fanout"
    /\ r \in todo[m]
    /\ job[m][r] = "none"
    /\ inbound' = [inbound EXCEPT ![m] = "enqueue"]
    /\ job' = [job EXCEPT ![m][r] = "pending"]
    /\ row' = row
    /\ UNCHANGED <<refused, status, token, todo, msgStatus, attempts, sawSent,
                   copies, late, faults>>

\* The loop body of the fan-out, first half: the delivery row.
InsertDelivery(m, r) ==
    /\ inbound[m] = "fanout"
    /\ r \in todo[m]
    /\ row[m][r] = "none"
    /\ inbound' = [inbound EXCEPT ![m] = "enqueue"]
    /\ row' = [row EXCEPT ![m][r] = "queued"]
    /\ UNCHANGED <<refused, status, token, todo, msgStatus, jobVars, faults>>

\* Second half: the job for the row just inserted.
Enqueue(m, r) ==
    /\ inbound[m] = "enqueue"
    /\ r \in todo[m]
    /\ row[m][r] # "none"
    /\ inbound' = [inbound EXCEPT ![m] = "fanout"]
    /\ todo' = [todo EXCEPT ![m] = @ \ {r}]
    /\ job' = [job EXCEPT ![m][r] = "pending"]
    /\ UNCHANGED <<refused, status, token, msgStatus, row, attempts, sawSent,
                   copies, late, faults>>

\* updateMessageStatus(..., "queued"), whatever the sender has written since.
FinishFanout(m) ==
    /\ inbound[m] = "fanout"
    /\ todo[m] = {}
    /\ inbound' = [inbound EXCEPT ![m] = "audit"]
    /\ msgStatus' = [msgStatus EXCEPT ![m] = "queued"]
    /\ UNCHANGED <<refused, status, token, todo, row, jobVars, faults>>

\* The audit row, last await of the handler.
AppendAudit(m) ==
    /\ inbound[m] = "audit"
    /\ inbound' = [inbound EXCEPT ![m] = "accepted"]
    /\ UNCHANGED <<refused, status, token, todo, msgStatus, row, jobVars,
                   faults>>

\* The handler throws or dies; what it wrote stays.
InboundFault(m) ==
    /\ faults < MaxFaults
    /\ inbound[m] \in InboundBusy
    /\ inbound' = [inbound EXCEPT ![m] = "failed"]
    /\ faults' = faults + 1
    /\ UNCHANGED <<refused, status, token, todo, msgStatus, row, jobVars>>

-----------------------------------------------------------------------------
(* The queue and the sender worker.                                        *)

Step(m, r, from, to) ==
    /\ job[m][r] = from
    /\ job' = [job EXCEPT ![m][r] = to]

\* The queue delivers a pending job to a consumer, whose first await is
\* getMessageById.
Lease(m, r) ==
    /\ Step(m, r, "pending", "loaded")
    /\ attempts' = [attempts EXCEPT ![m][r] = @ + 1]
    /\ sawSent' = [sawSent EXCEPT ![m][r] = (msgStatus[m] = "sent")]
    /\ UNCHANGED <<refused, status, token, inboundVars, msgStatus, row,
                   copies, late, faults>>

\* Mutation: no dead letter queue, a failing job is retried for ever.
RetryForever(n) == "pending"

\* What becomes of a job whose n-th attempt was not acknowledged: redelivered
\* until max_retries is used up, then moved to the dead letter queue.
AfterFailure(n) == IF n <= MaxRetries THEN "pending" ELSE "dead"

\* Mutation: only the first attempt looks at the member's status.
LoadMemberOnce(m, r) ==
    /\ Step(m, r, "loaded",
            IF status[r] = "active" \/ attempts[m][r] > 1
            THEN "checked" ELSE "suppress")
    /\ UNCHANGED <<refused, status, token, inboundVars, msgStatus, row,
                   attempts, sawSent, copies, late, faults>>

\* getMemberById and the status test.
LoadMember(m, r) ==
    /\ Step(m, r, "loaded", IF status[r] = "active" THEN "checked" ELSE "suppress")
    /\ UNCHANGED <<refused, status, token, inboundVars, msgStatus, row,
                   attempts, sawSent, copies, late, faults>>

\* updateDeliveryFailed with "suppressed (...)", then the PermanentSendError.
MarkSuppressed(m, r) ==
    /\ Step(m, r, "suppress", "skipped")
    /\ row' = [row EXCEPT ![m][r] = "failed"]
    /\ UNCHANGED <<refused, status, token, inboundVars, msgStatus, attempts,
                   sawSent, copies, late, faults>>

\* Mutation: a job is not acknowledged when its member was skipped.
RecordInvalid(m, r) ==
    /\ Step(m, r, "invalid", "acked")
    /\ row' = [row EXCEPT ![m][r] = "failed"]
    /\ UNCHANGED <<refused, status, token, inboundVars, msgStatus, attempts,
                   sawSent, copies, late, faults>>

\* The catch of the consumer loop: record a permanent failure and acknowledge.
RecordFailure(m, r) ==
    /\ job[m][r] \in {"skipped", "invalid"}
    /\ job' = [job EXCEPT ![m][r] = "acked"]
    /\ row' = [row EXCEPT ![m][r] = "failed"]
    /\ UNCHANGED <<refused, status, token, inboundVars, msgStatus, attempts,
                   sawSent, copies, late, faults>>

\* Mutation: the SELECT looks in the wrong place and never finds the row.
FindsNoToken(m, r) ==
    /\ Step(m, r, "checked", "minting")
    /\ UNCHANGED <<refused, status, token, inboundVars, msgStatus, row,
                   attempts, sawSent, copies, late, faults>>

\* The SELECT of getOrCreateUnsubToken.
FindToken(m, r) ==
    /\ Step(m, r, "checked", IF token[r] THEN "ready" ELSE "minting")
    /\ UNCHANGED <<refused, status, token, inboundVars, msgStatus, row,
                   attempts, sawSent, copies, late, faults>>

\* Mutation: losing the race counts as a permanent failure.
LosingMintIsFatal(m, r) ==
    /\ Step(m, r, "minting", IF token[r] THEN "invalid" ELSE "ready")
    /\ token' = [token EXCEPT ![r] = TRUE]
    /\ UNCHANGED <<refused, status, inboundVars, msgStatus, row, attempts,
                   sawSent, copies, late, faults>>

\* Its INSERT; UNIQUE(member_id) makes the loser of a race throw, and so retry.
MintToken(m, r) ==
    /\ Step(m, r, "minting", IF token[r] THEN AfterFailure(attempts[m][r]) ELSE "ready")
    /\ token' = [token EXCEPT ![r] = TRUE]
    /\ UNCHANGED <<refused, status, inboundVars, msgStatus, row, attempts,
                   sawSent, copies, late, faults>>

\* assertOutboundValid throws.
RefuseOutbound(m, r) ==
    /\ MailOf[m] \in refused
    /\ Step(m, r, "ready", "invalid")
    /\ UNCHANGED <<refused, status, token, inboundVars, msgStatus, row,
                   attempts, sawSent, copies, late, faults>>

\* Mutation: the delivery is recorded before the copy is handed over.
RecordBeforeSend(m, r) ==
    /\ MailOf[m] \notin refused
    /\ Step(m, r, "ready", "mailed")
    /\ row' = [row EXCEPT ![m][r] = "sent"]
    /\ UNCHANGED <<refused, status, token, inboundVars, msgStatus, attempts,
                   sawSent, copies, late, faults>>

\* env.EMAIL.send: the provider has the copy.
Send(m, r) ==
    /\ MailOf[m] \notin refused
    /\ Step(m, r, "ready", "mailed")
    /\ copies' = [copies EXCEPT ![m][r] = @ + 1]
    /\ late' = IF status[r] = "active" THEN late ELSE [late EXCEPT ![m][r] = @ + 1]
    /\ UNCHANGED <<refused, status, token, inboundVars, msgStatus, row,
                   attempts, sawSent, faults>>

\* updateDeliverySent.
RecordSent(m, r) ==
    /\ Step(m, r, "mailed", "recorded")
    /\ row' = [row EXCEPT ![m][r] = "sent"]
    /\ UNCHANGED <<refused, status, token, inboundVars, msgStatus, attempts,
                   sawSent, copies, late, faults>>

\* updateMessageStatus(..., "sent") unless the attempt had read 'sent'.
MarkMessageSent(m, r) ==
    /\ Step(m, r, "recorded", "acking")
    /\ msgStatus' = IF sawSent[m][r] THEN msgStatus
                    ELSE [msgStatus EXCEPT ![m] = "sent"]
    /\ UNCHANGED <<refused, status, token, inboundVars, row, attempts,
                   sawSent, copies, late, faults>>

\* Mutation: the job goes back to the queue as if it had failed.
AckLost(m, r) ==
    /\ Step(m, r, "acking", "pending")
    /\ UNCHANGED <<refused, status, token, inboundVars, msgStatus, row,
                   attempts, sawSent, copies, late, faults>>

Ack(m, r) ==
    /\ Step(m, r, "acking", "acked")
    /\ UNCHANGED <<refused, status, token, inboundVars, msgStatus, row,
                   attempts, sawSent, copies, late, faults>>

\* The jobs that may be in one batch with a job that a consumer holds.
Pending == {d \in Msg \X Member : job[d[1]][d[2]] = "pending"}

\* The attempt of (m, r) is over, and so are the ones of B that had not begun.
LoseAttempts(m, r, B) ==
    /\ job' = [n \in Msg |-> [s \in Member |->
                  IF n = m /\ s = r THEN AfterFailure(attempts[n][s])
                  ELSE IF <<n, s>> \in B THEN AfterFailure(attempts[n][s] + 1)
                  ELSE job[n][s]]]
    /\ attempts' = [n \in Msg |-> [s \in Member |->
                  IF <<n, s>> \in B THEN attempts[n][s] + 1 ELSE attempts[n][s]]]

\* Mutation: a transient error is recorded as a failure before the retry.
FaultRecordsFailure(m, r, B) ==
    /\ faults < MaxFaults
    /\ job[m][r] \in Held
    /\ LoseAttempts(m, r, B)
    /\ row' = [row EXCEPT ![m][r] = "failed"]
    /\ faults' = faults + 1
    /\ UNCHANGED <<refused, status, token, inboundVars, msgStatus, sawSent,
                   copies, late>>

\* An attempt throws something that is not a PermanentSendError (msg.retry(), B
\* is empty), or its invocation dies, or throws in the catch, before the job is
\* acknowledged: then the rest of the batch, B, is delivered in vain as well.
SenderFault(m, r, B) ==
    /\ faults < MaxFaults
    /\ job[m][r] \in Held
    /\ LoseAttempts(m, r, B)
    /\ faults' = faults + 1
    /\ UNCHANGED <<refused, status, token, inboundVars, msgStatus, row, sawSent,
                   copies, late>>

-----------------------------------------------------------------------------
People(r) == Confirm(r) \/ Leave(r) \/ MintElsewhere(r)

FanOut(m, r) == InsertDelivery(m, r) \/ Enqueue(m, r)

Inbound(m) ==
    \/ Validate(m)
    \/ StoreMessage(m)
    \/ SnapshotMembers(m)
    \/ FinishFanout(m)
    \/ AppendAudit(m)
    \/ \E r \in Member : FanOut(m, r)

Consume(m, r) ==
    \/ Lease(m, r)
    \/ LoadMember(m, r)
    \/ MarkSuppressed(m, r)
    \/ RecordFailure(m, r)
    \/ FindToken(m, r)
    \/ MintToken(m, r)
    \/ RefuseOutbound(m, r)
    \/ Send(m, r)
    \/ RecordSent(m, r)
    \/ MarkMessageSent(m, r)
    \/ Ack(m, r)

Next ==
    \/ \E r \in Member : People(r)
    \/ \E m \in Msg : Inbound(m) \/ InboundFault(m)
    \/ \E m \in Msg, r \in Member :
          \/ Consume(m, r)
          \/ \E B \in SUBSET Pending : SenderFault(m, r, B)

Spec == Init /\ [][Next]_vars

\* A running handler is run on, and the queue keeps delivering what is
\* pending.  Nobody has to send, join or leave.
Fairness ==
    /\ \A m \in Msg : WF_vars(inbound[m] # "idle" /\ Inbound(m))
    /\ \A m \in Msg, r \in Member : WF_vars(Consume(m, r))

FairSpec == Spec /\ Fairness

-----------------------------------------------------------------------------
(* Safety.                                                                 *)

\* A job in the queue always finds its delivery row: the row is written before
\* the job is sent, so updateDeliverySent and updateDeliveryFailed, which are
\* UPDATEs and never INSERT, have something to update.
JobHasRow ==
    \A m \in Msg, r \in Member : job[m][r] # "none" => row[m][r] # "none"

\* The records do not lie about the past: a delivery 'sent' means that a copy
\* went to the provider, and a message 'sent' that one did for some member.
SentWasMailed ==
    \A m \in Msg :
        /\ \A r \in Member : row[m][r] = "sent" => copies[m][r] > 0
        /\ msgStatus[m] = "sent" => \E r \in Member : copies[m][r] > 0

\* Only the attempt that had already read 'active' can still reach somebody who
\* left: every later attempt reads the status again and skips.
OneCopyAfterLeaving ==
    \A m \in Msg, r \in Member : late[m][r] <= 1

\* Every duplicate is paid for by a fault: whatever the interleaving, a member
\* gets at most one copy of a mail more than there were faults, counting the
\* copies that a second handover of the same mail by the MTA brings.
DuplicatesNeedFaults ==
    \A x \in Mail, r \in Member :
        LET mine == {m \in Msg : MailOf[m] = x}
        IN  SumFunctionOnSet([m \in Msg |-> copies[m][r]], mine) <= 1 + faults

\* A job is dead-lettered only after MaxRetries faults, counting those of every
\* handler: the UNIQUE race of getOrCreateUnsubToken costs a job at most one of its
\* attempts.
DeadLetterNeedsFaults ==
    \A m \in Msg, r \in Member : job[m][r] = "dead" => faults >= MaxRetries

\* A copy that never went out and whose job is in the dead letter queue still
\* shows as 'queued': neither retry nor dead letter touches its delivery row.
DeadLetterStaysQueued ==
    \A m \in Msg, r \in Member :
        job[m][r] = "dead" /\ copies[m][r] = 0 /\ status[r] = "active" =>
            row[m][r] = "queued"

\* 'queued' is written once and last: a message that shows it has all its jobs
\* in the queue, none still to be added by the inbound worker.
QueuedMeansEnqueued ==
    \A m \in Msg :
        msgStatus[m] = "queued" =>
            /\ todo[m] = {}
            /\ \A r \in Member : row[m][r] # "none" => job[m][r] # "none"

\* A delivery recorded 'sent' is set back to 'failed' only for somebody who has
\* left meanwhile (the redelivered job finds the member inactive).
SentRegressesOnlyAfterLeaving ==
    [][\A m \in Msg, r \in Member :
          (row[m][r] = "sent" /\ row'[m][r] # "sent") =>
              row'[m][r] = "failed" /\ status[r] = "unsubscribed"]_vars

-----------------------------------------------------------------------------
(* The inductive invariant behind the theorems of MailPipelineProofs.      *)

\* Whom the fan-out still has to serve has no job yet, and nobody has one
\* before it starts.
FanoutOnce ==
    \A m \in Msg, r \in Member :
        /\ inbound[m] \in {"idle", "rejected", "validated", "stored"} =>
               job[m][r] = "none"
        /\ r \in todo[m] => job[m][r] = "none"

\* Only members who had confirmed are fanned out to.
ServesConfirmed ==
    \A m \in Msg, r \in Member :
        r \in todo[m] \/ job[m][r] # "none" => status[r] # "pending_confirmation"

\* One attempt hands over at most one copy, and a job still in the queue has an
\* attempt left.
PaysForCopies(m, r) ==
    /\ copies[m][r] <= attempts[m][r]
    /\ job[m][r] = "none" => attempts[m][r] = 0
    /\ job[m][r] = "pending" => attempts[m][r] <= MaxRetries
    /\ job[m][r] \in Unread \cup Cleared \cup Refused =>
           copies[m][r] < attempts[m][r]
    /\ job[m][r] \in Mailed => copies[m][r] > 0

AttemptsPayForCopies == \A m \in Msg, r \in Member : PaysForCopies(m, r)

\* After a late copy no attempt is cleared to send again.
LateIsLast ==
    \A m \in Msg, r \in Member :
        late[m][r] > 0 => status[r] = "unsubscribed" /\ job[m][r] \notin Cleared

\* At most one member of the snapshot has a row and no job, and only while the
\* inbound worker is between the two writes, or died there.
RowThenJob ==
    \A m \in Msg, r \in Member :
        row[m][r] # "none" /\ job[m][r] = "none" =>
            /\ inbound[m] \in {"enqueue", "failed"}
            /\ r \in todo[m]
            /\ \A s \in Member : row[m][s] # "none" /\ job[m][s] = "none" => s = r

\* 'queued' is written by the last step of the fan-out.
QueuedIsLast ==
    \A m \in Msg :
        msgStatus[m] = "queued" =>
            inbound[m] \in {"audit", "accepted", "failed"} /\ todo[m] = {}

\* A job is dropped for a reason that lasts, and 'failed' names such a reason.
DroppedForGood ==
    \A m \in Msg, r \in Member :
        /\ job[m][r] \in {"suppress", "skipped"} => status[r] = "unsubscribed"
        /\ job[m][r] = "invalid" => MailOf[m] \in refused
        /\ copies[m][r] > 0 => MailOf[m] \notin refused
        /\ row[m][r] = "failed" => status[r] = "unsubscribed" \/ job[m][r] = "acked"

\* Every attempt but the current one ended in a fault, or in the one lost race
\* for the member's unsubscribe token.
NeedsFaults(m, r) ==
    /\ job[m][r] # "acked" =>
           attempts[m][r] <= faults
               + (IF job[m][r] \in Held THEN 1 ELSE 0)
               + (IF token[r] /\ job[m][r] # "minting" THEN 1 ELSE 0)
    /\ job[m][r] = "dead" => attempts[m][r] > MaxRetries

AttemptsNeedFaults == \A m \in Msg, r \in Member : NeedsFaults(m, r)

\* A copy of m for r is to be expected: the fan-out has not reached r, or an
\* attempt that has not been given up has not sent.
Expected(m, r) ==
    \/ inbound[m] \in InboundBusy /\ job[m][r] = "none"
    \/ job[m][r] \in {"pending"} \cup Unread \cup Cleared

Accounted(m, r) == copies[m][r] + (IF Expected(m, r) THEN 1 ELSE 0)

HandoversOf(x) == {m \in Msg : MailOf[m] = x}

UnderWay(x) == \E m \in HandoversOf(x) : inbound[m] \notin {"idle", "failed"}

\* What a mail and its faults account for.
Allowance(x) == faults + (IF UnderWay(x) THEN 1 ELSE 0)

\* Each copy of a mail to a member, mailed or to be expected, is the one that its
\* handover is good for or was paid for by a fault.
CopiesNeedFaults ==
    \A x \in Mail, r \in Member :
        SumFunctionOnSet([m \in Msg |-> Accounted(m, r)], HandoversOf(x)) <= Allowance(x)

\* Everything the theorems need, all of it preserved by every step.
IInv ==
    /\ TypeOK
    /\ FanoutOnce
    /\ ServesConfirmed
    /\ AttemptsPayForCopies
    /\ LateIsLast
    /\ RowThenJob
    /\ QueuedIsLast
    /\ DroppedForGood
    /\ AttemptsNeedFaults
    /\ JobHasRow
    /\ SentWasMailed
    /\ OneCopyAfterLeaving

-----------------------------------------------------------------------------
(* The promise of a list, implemented.                                     *)

\* What the promise sees of a job.
Stage(j) ==
    IF j = "none" THEN "none"
    ELSE IF j \in {"acked", "dead"} THEN "settled" ELSE "owed"

owed == [m \in Msg |-> [r \in Member |-> Stage(job[m][r])]]

gone == {r \in Member : status[r] = "unsubscribed"}

Promise == INSTANCE ListPromise WITH Budget <- MaxRetries + 1, handed <- copies

\* Copies go out only while a job is owed, within the budget, and to somebody
\* who has left at most once.
KeepsPromise == Promise!Safety

\* And every job the queue takes on is acknowledged or dead-lettered.
JobsSettle == Promise!EverythingSettles

\* Nobody is forgotten in silence: once a member's job is queued, a copy is
\* mailed, unless they leave first, the message cannot be built, or the job
\* used up its attempts.
QueuedIsMailed ==
    \A m \in Msg, r \in Member :
        job[m][r] = "pending" ~>
            \/ copies[m][r] > 0
            \/ status[r] = "unsubscribed"
            \/ MailOf[m] \in refused
            \/ job[m][r] = "dead"

-----------------------------------------------------------------------------
(* What comments and documents say, and the code does not do.              *)

\* PRD section 12, invariant 3: no member receives the same message twice.
NoMemberReceivesTwice ==
    \A m \in Msg, r \in Member : copies[m][r] <= 1

\* The sender's comment: the rewrites of messages.status all converge on
\* 'sent'.  When a message has come to rest with a delivery 'sent', so is it.
AtRest(m) ==
    /\ inbound[m] = "accepted"
    /\ \A r \in Member : job[m][r] \in {"none", "acked"}

StatusConverges ==
    \A m \in Msg :
        AtRest(m) /\ (\E r \in Member : row[m][r] = "sent") => msgStatus[m] = "sent"
=============================================================================
