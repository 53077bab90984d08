------------------------------- MODULE Digest -------------------------------
(***************************************************************************)
(* The weekly digest (workers/sender/src/weekly-digest.ts) and the link    *)
(* in it that stops it (server/routes/tenant.ts).                          *)
(*                                                                         *)
(* One tenant.  A human is an address, with a row of members in each group *)
(* it has joined; the opt-out is a column of those rows.                   *)
(***************************************************************************)
EXTENDS Naturals

CONSTANTS
    Human,      \* addresses
    List,       \* groups of the tenant
    Weeks       \* bound: how often the cron fires

ASSUME DigestAssumption == Weeks \in Nat

VARIABLES
    belongs,    \* belongs[h][g]: members.status, or "none"
    optedOut,   \* optedOut[h]: the groups whose row of h has digest_opt_out
    shows,      \* shows[g]: groups.archive_visibility
    weeks,      \* how often the cron has fired
    weekly,     \* how far the run of this week is
    news,       \* groups with messages this week, as the run has read them
    wikiNews,   \* whether it has read changes of the wiki
    waiting,    \* recipients it has listed and not come to
    current,    \* the one it is at, with the groups whose threads the mail names
    linked,     \* those who have been mailed the link
    refused     \* history: refused[h]: the rows that h had when it last opted out

membersVars == <<belongs, optedOut, shows>>
runVars == <<weeks, weekly, news, wikiNews, waiting, current>>
digestVars == <<membersVars, runVars, linked, refused>>

DigestTypeOK ==
    /\ belongs \in [Human -> [List -> {"none", "pending", "active", "left"}]]
    /\ optedOut \in [Human -> SUBSET List]
    /\ shows \in [List -> {"public", "members", "none"}]
    /\ weeks \in 0..Weeks
    /\ weekly \in {"idle", "read", "mailing", "composed"}
    /\ news \in SUBSET List
    /\ wikiNews \in BOOLEAN
    /\ waiting \in SUBSET Human
    /\ current \in [who : Human, names : SUBSET List]
    /\ linked \in SUBSET Human
    /\ refused \in [Human -> SUBSET List]

DigestInit ==
    /\ belongs = [h \in Human |-> [g \in List |-> "none"]]
    /\ optedOut = [h \in Human |-> {}]
    /\ shows \in [List -> {"public", "members", "none"}]
    /\ weeks = 0
    /\ weekly = "idle"
    /\ news = {}
    /\ wikiNews = FALSE
    /\ waiting = {}
    /\ \E h \in Human : current = [who |-> h, names |-> {}]
    /\ linked = {}
    /\ refused = [h \in Human |-> {}]

-----------------------------------------------------------------------------
(* Rows of members, whose life is modelled in Membership.                  *)

Rows(h) == {g \in List : belongs[h][g] # "none"}
Active(h) == {g \in List : belongs[h][g] = "active"}

SetRow(h, g, status) ==
    /\ belongs' = [belongs EXCEPT ![h][g] = status]
    /\ UNCHANGED <<optedOut, shows, runVars, linked, refused>>

\* A new row has digest_opt_out = 0, whatever the others say.
Enter(h, g) ==
    /\ belongs[h][g] = "none"
    /\ \E status \in {"pending", "active"} : SetRow(h, g, status)

ConfirmRow(h, g) == belongs[h][g] = "pending" /\ SetRow(h, g, "active")

\* No code makes such a row active again.
LeaveRow(h, g) == belongs[h][g] \in {"pending", "active"} /\ SetRow(h, g, "left")

\* Mutation: the UPDATE takes the rows that are active.
OptOutActive(h) ==
    /\ h \in linked
    /\ optedOut' = [optedOut EXCEPT ![h] = @ \cup Active(h)]
    /\ refused' = [refused EXCEPT ![h] = Rows(h)]
    /\ UNCHANGED <<belongs, shows, runVars, linked>>

\* setDigestOptOutByToken: every row of the address that there is.
OptOut(h) ==
    /\ h \in linked
    /\ optedOut' = [optedOut EXCEPT ![h] = Rows(h)]
    /\ refused' = [refused EXCEPT ![h] = Rows(h)]
    /\ UNCHANGED <<belongs, shows, runVars, linked>>

-----------------------------------------------------------------------------
(* sendTenantWeeklyDigest.                                                 *)

weeklyFrame == <<membersVars, refused>>

\* listWeeklyThreadActivity and the feed of the wiki, which is empty when the
\* Durable Object cannot be asked; a quiet week ends here.
ReadActivity ==
    /\ weekly = "idle"
    /\ weeks < Weeks
    /\ weeks' = weeks + 1
    /\ \E S \in SUBSET List, w \in BOOLEAN :
          /\ news' = S
          /\ wikiNews' = w
          /\ weekly' = IF S = {} /\ ~w THEN "idle" ELSE "read"
    /\ UNCHANGED <<weeklyFrame, waiting, current, linked>>

\* The HAVING of listDigestRecipientsForTenant speaks of active rows only.
Recipients == {h \in Human : Active(h) # {} /\ Active(h) \cap optedOut[h] = {}}

ListRecipients ==
    /\ weekly = "read"
    /\ weekly' = "mailing"
    /\ waiting' = Recipients
    /\ UNCHANGED <<weeklyFrame, weeks, news, wikiNews, current, linked>>

\* filterThreadsForRecipient, with the groups of the recipient read anew and the
\* visibility as it was when the threads were read.
Visible(h) ==
    {g \in news : shows[g] = "public" \/ (shows[g] = "members" /\ g \in Active(h))}

\* On to the next recipient, who is passed over when there is nothing to say.
Compose(h) ==
    /\ weekly = "mailing"
    /\ h \in waiting
    /\ waiting' = waiting \ {h}
    /\ current' = [who |-> h, names |-> Visible(h)]
    /\ weekly' = IF Visible(h) = {} /\ ~wikiNews THEN "mailing" ELSE "composed"
    /\ UNCHANGED <<weeklyFrame, weeks, news, wikiNews, linked>>

\* getOrCreateUnsubToken and EMAIL.send; either may throw, which costs this one
\* recipient the digest of this week.
MailDigest ==
    /\ weekly = "composed"
    /\ weekly' = "mailing"
    /\ linked' \in {linked, linked \cup {current.who}}
    /\ UNCHANGED <<weeklyFrame, weeks, news, wikiNews, waiting, current>>

\* Everybody has been tried, or the invocation is lost; it is not run again.
EndWeekly ==
    /\ weekly # "idle"
    /\ weekly' = "idle"
    /\ waiting' = {}
    /\ UNCHANGED <<weeklyFrame, weeks, news, wikiNews, current, linked>>

-----------------------------------------------------------------------------
DigestNext ==
    \/ \E h \in Human, g \in List : Enter(h, g) \/ ConfirmRow(h, g) \/ LeaveRow(h, g)
    \/ \E h \in Human : OptOut(h) \/ Compose(h)
    \/ ReadActivity \/ ListRecipients \/ MailDigest \/ EndWeekly

DigestSpec == DigestInit /\ [][DigestNext]_digestVars

-----------------------------------------------------------------------------
(* Action property.                                                        *)

\* Nobody who has opted out is listed for a digest as long as one of the rows of
\* that moment is active, also one that was pending then; it takes having left
\* every one of those groups to be listed again.
OptOutLasts ==
    [][\A h \in waiting' \ waiting : refused[h] \cap Active(h) = {}]_digestVars
=============================================================================
