--------------------------- MODULE MCMailPipeline ---------------------------
(***************************************************************************)
(* Small instances of MailPipeline for TLC.                                *)
(***************************************************************************)
EXTENDS MailPipeline, TLC

CONSTANTS a, b,     \* two members
          p, q      \* invocations of the inbound worker

\* Invocations p and q carry the same mail: q is the MTA's second handover.
RetriedMail == (p :> "x") @@ (q :> "x")

OneMail == p :> "x"

\* One post by a, who may leave before it is judged.
PostByA == "x" :> a

\* Nobody has a role beyond plain membership.
AllMembers == [r \in Member |-> "member"]

\* a may post to an announce-only list, b may not.
AIsModerator == [r \in Member |-> IF r = a THEN "moderator" ELSE "member"]
=============================================================================
