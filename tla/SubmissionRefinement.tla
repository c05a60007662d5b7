------------------------ MODULE SubmissionRefinement ------------------------
(* CommandSubmission implements SubmissionLedger, whose state is part of   *)
(* its own: the transactions and the keys they rely on are hidden.         *)
EXTENDS CommandSubmission

Ledger == INSTANCE SubmissionLedger

(* However their statements interleave, the transactions behave like       *)
(* submissions that are executed one at a time, and so do the answers.     *)
ImplementsLedger == Ledger!Spec
=============================================================================
