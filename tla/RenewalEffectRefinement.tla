----------------------- MODULE RenewalEffectRefinement -----------------------
(***************************************************************************)
(* RenewalEffect implements ApprovedEffect.  The authority is the state of *)
(* the Grant, the verdict is what the lifecycle and the email Step say,    *)
(* and everything about leases, fences, lookups and lost workers is a      *)
(* stutter of the abstract specification.                                  *)
(***************************************************************************)
EXTENDS RenewalEffect

authority ==
  CASE grant.state = "none" -> "none"
    [] grant.state = "usable" -> "granted"
    [] grant.state = "invalidated" -> "withdrawn"
    [] grant.state = "consumed" -> "spent"

sent == mailed # <<>>

verdict ==
  CASE lifecycle = "completed" -> "confirmed"
    [] send.state = "failed" -> "refused"
    [] OTHER -> "open"

Abstract == INSTANCE ApprovedEffect
             WITH authority <- authority, sent <- sent, verdict <- verdict

(* Every step of the application's commands, workers and provider is one   *)
(* step of the promise, or none: no email without spent authority, no      *)
(* withdrawal of spent authority, no confirmation of an unsent email.      *)
ImplementsApprovedEffect == Abstract!Spec
=============================================================================
