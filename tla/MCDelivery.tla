----------------------------- MODULE MCDelivery -----------------------------
(* Instances of Delivery for TLC.                                          *)
EXTENDS Delivery, TLC

TwoAttempts == <<1>>         \* delays_seconds of a policy with two Attempts
=============================================================================
