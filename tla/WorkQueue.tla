----------------------------- MODULE WorkQueue -----------------------------
(***************************************************************************)
(* What the kernel promises about a Step, without Instances, Attempts,     *)
(* clocks or Routes: a Step is queued with a budget of claims, is held by  *)
(* one claim at a time, may be parked until someone decides about it, is   *)
(* queued again only while budget is left, and is decided once.            *)
(***************************************************************************)
EXTENDS Naturals

CONSTANTS Step, Budget       \* Budget: the claims a Step may be granted

VARIABLES
  phase,    \* [Step -> Phase]
  left      \* [Step -> claims left]

queue == <<phase, left>>

Phase == {"absent", "queued", "held", "parked", "succeeded", "failed", "withdrawn"}

Init ==
  /\ phase = [s \in Step |-> "absent"]
  /\ left = [s \in Step |-> 0]

Absent == {s \in Step : phase[s] = "absent"}

(* The Steps of "new" enter the queue, on top of the phases "after".       *)
Enter(after, new) ==
  /\ new \subseteq Absent
  /\ phase' = [s \in Step |-> IF s \in new THEN "queued" ELSE after[s]]
  /\ \E budget \in [new -> Budget] :
       left' = [s \in Step |-> IF s \in new THEN budget[s] ELSE left[s]]

Activate == \E new \in SUBSET Step : Enter(phase, new)

Grant(s) ==
  /\ phase[s] = "queued"
  /\ left[s] > 0
  /\ phase' = [phase EXCEPT ![s] = "held"]
  /\ left' = [left EXCEPT ![s] = @ - 1]

(* The holder, or whoever declares it lost, decides about the Step; the    *)
(* decision may activate further Steps.                                    *)
Decide(s) ==
  /\ phase[s] = "held"
  /\ \/ left[s] > 0 /\ Enter([phase EXCEPT ![s] = "queued"], {})
     \/ Enter([phase EXCEPT ![s] = "failed"], {})
     \/ \E new \in SUBSET Step, next \in {"parked", "succeeded"} :
          Enter([phase EXCEPT ![s] = next], new)

Resolve(s) ==
  /\ phase[s] = "parked"
  /\ \/ left[s] > 0 /\ phase' = [phase EXCEPT ![s] = "queued"]
     \/ \E next \in {"succeeded", "failed"} : phase' = [phase EXCEPT ![s] = next]
  /\ UNCHANGED left

Withdraw ==
  \E gone \in SUBSET {s \in Step : phase[s] \in {"queued", "held", "parked"}} :
    /\ phase' = [s \in Step |-> IF s \in gone THEN "withdrawn" ELSE phase[s]]
    /\ UNCHANGED left

Next ==
  \/ Activate
  \/ Withdraw
  \/ \E s \in Step : Grant(s) \/ Decide(s) \/ Resolve(s)

Spec == Init /\ [][Next]_queue
=============================================================================
