--------------------------- MODULE ApprovedEffect ---------------------------
(***************************************************************************)
(* What the renewal application promises of its External Effect: the email *)
(* is sent at most once, only on authority that was granted and not        *)
(* withdrawn before it was spent, and it is confirmed only when it was     *)
(* sent.  Authority that is spent stays spent, so the email may go out     *)
(* long after the dispatch was authorised; a refusal therefore says that   *)
(* the application stopped trying, not that no email will arrive.          *)
(***************************************************************************)
VARIABLES
  authority,   \* the right to send the email
  sent,        \* the policyholder got it
  verdict      \* what the application concluded

vars == <<authority, sent, verdict>>

Init == authority = "none" /\ sent = FALSE /\ verdict = "open"

Grant == /\ authority = "none" /\ authority' = "granted"
         /\ UNCHANGED <<sent, verdict>>

Withdraw == /\ authority = "granted" /\ authority' = "withdrawn"
            /\ UNCHANGED <<sent, verdict>>

Spend == /\ authority = "granted" /\ verdict = "open"
         /\ authority' = "spent"
         /\ UNCHANGED <<sent, verdict>>

Send == /\ authority = "spent" /\ ~sent
        /\ sent' = TRUE
        /\ UNCHANGED <<authority, verdict>>

Confirm == /\ sent /\ verdict = "open"
           /\ verdict' = "confirmed"
           /\ UNCHANGED <<authority, sent>>

(* The Attempt budget is spent, with or without a dispatch.                *)
Refuse == /\ verdict = "open" /\ authority # "none"
          /\ verdict' = "refused"
          /\ UNCHANGED <<authority, sent>>

Next == Grant \/ Withdraw \/ Spend \/ Send \/ Confirm \/ Refuse

Spec == Init /\ [][Next]_vars
=============================================================================
