----------------------------- MODULE SignInForm -----------------------------
(***************************************************************************)
(* The page on which somebody signs in (admin/views/signin.ts): a form for *)
(* an address, one for the code that was mailed there, and one to claim a  *)
(* new instance.                                                           *)
(*                                                                         *)
(* Whatever changes draws the whole page anew, with an empty form; answers *)
(* of requests that a form before it has sent still arrive.                *)
(***************************************************************************)
EXTENDS Naturals

CONSTANTS
    Address,    \* addresses that are typed
    Call        \* requests that are under way at once

VARIABLES
    mode,       \* "signin" or "signup"
    formStep,   \* `step`: "email" or "code"
    pendingEmail, \* the address that the code was mailed to
    status,     \* the banner
    probed,     \* the answers of the first two requests have come
    signupAvailable,
    siteKey,    \* turnstileSiteKey is set
    call,       \* call[r]: the request
    own,        \* those of the form that is on the page
    asked,      \* history: the address of the last form that was sent
    outrun      \* history: a form was sent while another one had no answer

setup == <<probed, signupAvailable, siteKey>>
formVars == <<mode, formStep, pendingEmail, status, setup, call, own, asked, outrun>>

FormTypeOK ==
    /\ mode \in {"signin", "signup"}
    /\ formStep \in {"email", "code"}
    /\ pendingEmail \in Address
    /\ status \in {"idle", "sent", "error"}
    /\ probed \in BOOLEAN
    /\ signupAvailable \in BOOLEAN
    /\ siteKey \in BOOLEAN
    /\ call \in [Call -> [does : {"nothing", "ask", "resend", "verify", "claim"},
                          email : Address]]
    /\ own \in SUBSET Call
    /\ asked \in Address
    /\ outrun \in BOOLEAN

FormInit ==
    /\ mode = "signin"
    /\ formStep = "email"
    /\ \E a \in Address :
          /\ pendingEmail = a
          /\ asked = a
          /\ call = [r \in Call |-> [does |-> "nothing", email |-> a]]
    /\ status = "idle"
    /\ probed = FALSE
    /\ signupAvailable = FALSE
    /\ siteKey = FALSE
    /\ own = {}
    /\ outrun = FALSE

\* draw: a new form takes the place of the one that waits for an answer.
Draw(m, s, b) ==
    /\ mode' = m
    /\ formStep' = s
    /\ status' = b
    /\ own' = {}

\* This page has neither form: it says what was sent, and offers to start over.
Notice == status = "sent" /\ formStep # "code"

Under(r, does) == call[r].does = does

Send(r, does, a) ==
    /\ Under(r, "nothing")
    /\ call' = [call EXCEPT ![r] = [does |-> does, email |-> a]]
    /\ own' = own \cup {r}

Return(r) == call' = [call EXCEPT ![r].does = "nothing"]

-----------------------------------------------------------------------------
\* signupAvailable and authConfig.
Probe ==
    /\ ~probed
    /\ probed' = TRUE
    /\ signupAvailable' \in BOOLEAN
    /\ siteKey' \in BOOLEAN
    /\ Draw(mode, formStep, status)
    /\ UNCHANGED <<pendingEmail, call, asked, outrun>>

Waiting(does) == \E r \in own : Under(r, does)

\* The button is off until the answer comes, or the form goes.
SubmitEmail(r, a) ==
    /\ mode = "signin" /\ formStep = "email" /\ ~Notice
    /\ ~Waiting("ask")
    /\ Send(r, "ask", a)
    /\ asked' = a
    /\ outrun' = (outrun \/ \E k \in Call : Under(k, "ask"))
    /\ UNCHANGED <<mode, formStep, status, pendingEmail, setup>>

\* Mutation: the address is not taken over.
SentWithoutEmail(r) ==
    /\ Under(r, "ask")
    /\ Return(r)
    /\ Draw(mode, "code", "idle")
    /\ UNCHANGED <<pendingEmail, setup, asked, outrun>>

\* onSent.
EmailSent(r) ==
    /\ Under(r, "ask")
    /\ Return(r)
    /\ Draw(mode, "code", "idle")
    /\ pendingEmail' = call[r].email
    /\ UNCHANGED <<setup, asked, outrun>>

\* Whatever has failed is said on the page as it is by now.
CallFails(r) ==
    /\ ~Under(r, "nothing")
    /\ Return(r)
    /\ Draw(mode, formStep, "error")
    /\ UNCHANGED <<pendingEmail, setup, asked, outrun>>

AtCode == mode = "signin" /\ formStep = "code"

\* With Turnstile there is no widget here to ask, and one has to start over.
ResendCode(r) ==
    /\ AtCode
    /\ ~Waiting("resend")
    /\ IF siteKey
       THEN /\ Draw(mode, "email", "error")
            /\ UNCHANGED call
       ELSE /\ Send(r, "resend", pendingEmail)
            /\ UNCHANGED <<mode, formStep, status>>
    /\ UNCHANGED <<pendingEmail, setup, asked, outrun>>

\* The banner of a code that was sent again, or of an instance that was claimed.
CallSent(r) ==
    /\ call[r].does \in {"resend", "claim"}
    /\ Return(r)
    /\ Draw(mode, formStep, "sent")
    /\ UNCHANGED <<pendingEmail, setup, asked, outrun>>

\* Six digits; when they are right the browser leaves the page.
SubmitCode(r) ==
    /\ AtCode
    /\ ~Waiting("verify")
    /\ Send(r, "verify", pendingEmail)
    /\ UNCHANGED <<mode, formStep, status, pendingEmail, setup, asked, outrun>>

ChangeEmail ==
    /\ AtCode
    /\ Draw(mode, "email", "idle")
    /\ UNCHANGED <<pendingEmail, setup, call, asked, outrun>>

\* "Use a different email".
StartOver ==
    /\ Notice
    /\ Draw(mode, formStep, "idle")
    /\ UNCHANGED <<pendingEmail, setup, call, asked, outrun>>

\* The links between the two modes.
SwitchMode ==
    /\ ~Notice
    /\ \/ mode = "signin" /\ formStep = "email" /\ signupAvailable
          /\ Draw("signup", formStep, "idle")
       \/ mode = "signup" /\ Draw("signin", formStep, "idle")
    /\ UNCHANGED <<pendingEmail, setup, call, asked, outrun>>

SubmitClaim(r, a) ==
    /\ mode = "signup" /\ ~Notice
    /\ ~Waiting("claim")
    /\ Send(r, "claim", a)
    /\ UNCHANGED <<mode, formStep, status, pendingEmail, setup, asked, outrun>>

-----------------------------------------------------------------------------
FormNext ==
    \/ Probe \/ ChangeEmail \/ StartOver \/ SwitchMode
    \/ \E r \in Call, a \in Address : SubmitEmail(r, a) \/ SubmitClaim(r, a)
    \/ \E r \in Call : \/ EmailSent(r) \/ CallFails(r) \/ ResendCode(r) \/ CallSent(r)
                       \/ SubmitCode(r)

FormSpec == FormInit /\ [][FormNext]_formVars

-----------------------------------------------------------------------------
(* Safety.                                                                 *)

\* The form for the code names the address that was typed last, and checks the
\* code against that one, unless a second address was sent while the first had
\* no answer: a page that was drawn anew in between lets it.
AsksForLastAddress == formStep = "code" /\ ~outrun => pendingEmail = asked
=============================================================================
