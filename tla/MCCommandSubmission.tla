------------------------ MODULE MCCommandSubmission ------------------------
(* Instances of CommandSubmission for TLC.                                 *)
EXTENDS SubmissionRefinement, TLC

CONSTANTS k1, k2, w1, w2, t1, t2, ch1, ch2, p1, f1, f2

Content(id, workflow, thread, channel, policy, fact) ==
  [id |-> id, workflow |-> workflow, thread |-> thread, channel |-> channel,
   policy |-> policy, fact |-> fact]

(* A submission, its identity with other facts, and rivals for its         *)
(* Workflow, its Channel Reference and its Thread under another identity;  *)
(* all assert facts of one Policy.                                         *)
MCRequest ==
  {Content(k1, w1, t1, ch1, p1, f1), Content(k1, w1, t1, ch1, p1, f2),
   Content(k2, w1, t2, ch2, p1, f1), Content(k2, w2, t2, ch1, p1, f1),
   Content(k2, w2, t1, ch2, p1, f1), Content(k2, w2, t2, ch2, p1, f2)}

(* A rival for the Thread of some and the Channel Reference of others.     *)
MCCreatable == {<<t2, ch1>>}

Symmetry == Permutations(Client)

MCLockKey == (t1 :> 1) @@ (ch1 :> 2) @@ (ch2 :> 3) @@ (t2 :> 4)
=============================================================================
