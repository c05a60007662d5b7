-------------------------- MODULE KernelRefinement --------------------------
(***************************************************************************)
(* The kernel implements WorkQueue.  The mapping reads the phase of a Step *)
(* off its row and its Attempts, and the claims left off the retry policy  *)
(* of its template.                                                        *)
(***************************************************************************)
EXTENDS Kernel

PhaseOf(s) ==
  CASE steps[s].state = "absent"    -> "absent"
    [] steps[s].state = "succeeded" -> "succeeded"
    [] steps[s].state = "failed"    -> "failed"
    [] steps[s].state = "cancelled" -> "withdrawn"
    [] steps[s].state = "pending"   ->
         IF HasLease(s) THEN "held"
         ELSE IF steps[s].deferred # NotDeferred THEN "parked"
         ELSE "queued"

LeftOf(s) ==
  IF steps[s].state = "absent" THEN 0
  ELSE MaxAttempts(steps[s].template) - Len(attempts[s])

Queue == INSTANCE WorkQueue WITH
  Budget <- {MaxAttempts(t) : t \in Template},
  phase <- [s \in Step |-> PhaseOf(s)],
  left <- [s \in Step |-> LeftOf(s)]

(* Every transaction of the kernel is one step of the queue, or invisible  *)
(* to it.                                                                  *)
ImplementsWorkQueue == Queue!Spec
=============================================================================
