------------------------------- MODULE Kernel -------------------------------
(***************************************************************************)
(* The durable workflow kernel: Instances, Steps, leased Attempts, Waits   *)
(* and the Trace Event identities that make its mutations idempotent.      *)
(*                                                                         *)
(* Every mutation of the kernel is one PostgreSQL transaction that locks   *)
(* the Instance row first, so one action of this module is one committed   *)
(* transaction.  An application disposes of an accepted or an expired      *)
(* Attempt in the transaction that accepts or abandons it (its handlers    *)
(* raise, and roll back, when the disposition is left unconsumed), so      *)
(* Accept and Recover contain the disposition.                             *)
(*                                                                         *)
(* Rows are functions of records over finite pools of identities; an       *)
(* identity that was not drawn yet has the state "absent".  The Attempts   *)
(* of a Step are the sequence of its rows by attempt_number.  Timestamps   *)
(* are countdowns: lease_expires_at, hard_deadline and claimable_at hold   *)
(* the seconds left, and Tick lets a second pass for all of them.          *)
(***************************************************************************)
EXTENDS Integers, Sequences, FiniteSets

CONSTANTS
  Instance, Step, Wait,    \* pools of row identities
  Worker,
  Signal,                  \* identities of Signals callers may send
  Source,                  \* identities of deferred-resolution requests
  Template, Slot, Route,   \* the registered Workflow Definition
  LeaseSeconds,            \* [Template -> seconds]
  MaximumSeconds,          \* [Template -> seconds]
  Delays,                  \* [Template -> retry delays]
  Activation,              \* [Route -> "start" | "step" | "signal"]
  SourceTemplate,          \* [Route -> template a "step" Route starts from]
  StepSlots, WaitSlots,    \* [Route -> its output slots]
  SlotTemplate,            \* [Route -> [Slot -> Template]]
  DependsOn,               \* [Route -> [Slot -> prerequisite slots]]
  None

(* What validate_definition enforces before a Definition is registered.    *)
ASSUME TimingAssumption ==
  /\ LeaseSeconds \in [Template -> Nat \ {0}]
  /\ MaximumSeconds \in [Template -> Nat \ {0}]
  /\ \A t \in Template : LeaseSeconds[t] <= MaximumSeconds[t]
  /\ Delays \in [Template -> Seq(Nat)]

ASSUME RouteAssumption ==
  /\ StepSlots \in [Route -> SUBSET Slot]
  /\ WaitSlots \in [Route -> SUBSET Slot]
  /\ SlotTemplate \in [Route -> [Slot -> Template]]
  /\ DependsOn \in [Route -> [Slot -> SUBSET Slot]]
  /\ \A r \in Route, x \in Slot : DependsOn[r][x] \subseteq StepSlots[r]

ASSUME NoneAssumption == None \notin Instance \cup Template \cup Slot \cup Signal

VARIABLES
  instances,   \* [Instance -> "absent" | "open" | "closed"]
  steps,       \* [Step -> row of the steps table and its dependencies]
  attempts,    \* [Step -> its Attempts, in attempt_number order]
  waits,       \* [Wait -> row of the waits table]
  trace        \* {[kind, source]}: the unique key of trace_events

vars == <<instances, steps, attempts, waits, trace>>

Never == -1                       \* claimable_at IS NULL
NotDeferred == 0                  \* deferred_attempt_id IS NULL

StepState == {"absent", "pending", "succeeded", "failed", "cancelled"}
AttemptState == {"leased", "completed", "abandoned", "cancelled"}
WaitState == {"absent", "unsatisfied", "satisfied", "cancelled"}
Disposition == {"step_outcome", "recovery_disposition", "step_deferral"}

AbsentStep ==
  [state |-> "absent", instance |-> None, template |-> None,
   claimable |-> Never, deferred |-> NotDeferred, deps |-> {},
   source |-> <<>>, slot |-> None]

AbsentWait ==
  [state |-> "absent", instance |-> None, source |-> <<>>, slot |-> None,
   signal |-> None]

MaxAttempts(t) == Len(Delays[t]) + 1       \* RetryPolicy.max_attempts

Row(kind, source) == [kind |-> kind, source |-> source]

-----------------------------------------------------------------------------
(* Rows that transactions read and write.                                  *)

Open(i) == i \in Instance /\ instances[i] = "open"

Live(a) == a.lease > 0 /\ a.deadline > 0      \* neither instant has passed

HasLease(s) == \E n \in DOMAIN attempts[s] : attempts[s][n].state = "leased"

(* append_trace, under the unique key (source_kind, source_id).            *)
Log(rows) ==
  /\ trace \cap rows = {}
  /\ trace' = trace \cup rows

(* The guarded updates of step_mutations, guard and assignments.  The      *)
(* target CurrentStep is b = NotDeferred, DeferredStep names its basis b.  *)
\* Mutant: the update forgets which Attempt the Step is deferred on.
Mutant_TargetsAnyBasis(s, b) == steps[s].state = "pending"

Targets(s, b) == steps[s].state = "pending" /\ steps[s].deferred = b

UpdateStep(s, state, claimable, deferred) ==
  [steps EXCEPT ![s] = [@ EXCEPT !.state = state, !.claimable = claimable,
                                 !.deferred = deferred]]

Outcome(s, state) == UpdateStep(s, state, Never, NotDeferred)

\* Mutant: the retry does not set claimable_at.
Mutant_ClaimableNever(s, delay) == UpdateStep(s, "pending", Never, NotDeferred)

ClaimableAfter(s, delay) == UpdateStep(s, "pending", delay, NotDeferred)

DeferredOn(s, n) == UpdateStep(s, "pending", Never, n)

(* A settled Attempt keeps lease_expires_at and hard_deadline, which may   *)
(* still lie ahead; the model keeps them one second ahead for good.        *)
Settled(a, state) == [a EXCEPT !.state = state, !.lease = 1, !.deadline = 1]

Settle(s, n, state) == [attempts EXCEPT ![s][n] = Settled(@, state)]

\* Mutant: the retry budget is not checked.
Mutant_BudgetIgnored(s) == TRUE

BudgetLeft(s) == Len(attempts[s]) < MaxAttempts(steps[s].template)

-----------------------------------------------------------------------------
(* Activation of Routes.                                                   *)

(* The occurrences of one Route get fresh identities, one for each slot.   *)
Draws(slots, pool) ==
  {pick \in [slots -> pool] : \A x, y \in slots : pick[x] = pick[y] => x = y}

Fresh(rows) == {x \in DOMAIN rows : rows[x].state = "absent"}

(* materialize_route: add the outputs of Route r to the rows stepRows and  *)
(* waitRows that the transaction has written so far.                       *)
Materialize(stepRows, waitRows, i, r, source) ==
  \E pick \in Draws(StepSlots[r], Fresh(steps)),
     draw \in Draws(WaitSlots[r], Fresh(waits)) :
    /\ steps' = [s \in Step |->
         IF \E x \in StepSlots[r] : pick[x] = s
         THEN LET x == CHOOSE y \in StepSlots[r] : pick[y] = s
              IN [state |-> "pending", instance |-> i,
                  template |-> SlotTemplate[r][x],
                  claimable |-> 0, deferred |-> NotDeferred,
                  deps |-> {pick[d] : d \in DependsOn[r][x]},
                  source |-> source, slot |-> x]
         ELSE stepRows[s]]
    /\ waits' = [w \in Wait |->
         IF \E x \in WaitSlots[r] : draw[x] = w
         THEN [state |-> "unsatisfied", instance |-> i, source |-> source,
               slot |-> CHOOSE x \in WaitSlots[r] : draw[x] = w,
               signal |-> None]
         ELSE waitRows[w]]

(* materialize_step_route: a disposition names no Route, or one that       *)
(* starts from the template of its Step.                                   *)
MaterializeStepRoute(stepRows, s, n) ==
  \/ steps' = stepRows /\ UNCHANGED waits
  \/ \E r \in Route :
       /\ Activation[r] = "step"
       /\ SourceTemplate[r] = steps[s].template
       /\ Materialize(stepRows, waits, steps[s].instance, r, <<"step", s, n>>)

-----------------------------------------------------------------------------
(* Dispositions of the completed or abandoned Attempt n of Step s.  "row"  *)
(* is the Trace Event that the same transaction appended before.           *)

Succeed(s, n, row) ==
  /\ Targets(s, NotDeferred)
  /\ MaterializeStepRoute(Outcome(s, "succeeded"), s, n)
  /\ Log({row, Row("step_outcome", <<s, n>>)})

Retry(s, n, row) ==
  /\ n \in DOMAIN Delays[steps[s].template]
  /\ Targets(s, NotDeferred)
  /\ steps' = ClaimableAfter(s, Delays[steps[s].template][n])
  /\ Log({row, Row("recovery_disposition", <<s, n>>)})
  /\ UNCHANGED waits

Fail(s, n, row) ==
  /\ Targets(s, NotDeferred)
  /\ steps' = Outcome(s, "failed")
  /\ Log({row, Row("recovery_disposition", <<s, n>>)})
  /\ UNCHANGED waits

Defer(s, n, row) ==
  /\ steps[s].state = "pending"
  /\ MaterializeStepRoute(DeferredOn(s, n), s, n)
  /\ Log({row, Row("step_deferral", <<s, n>>)})

-----------------------------------------------------------------------------
Init ==
  /\ instances = [i \in Instance |-> "absent"]
  /\ steps = [s \in Step |-> AbsentStep]
  /\ attempts = [s \in Step |-> <<>>]
  /\ waits = [w \in Wait |-> AbsentWait]
  /\ trace = {}

(* KernelControlTransaction.start; i is also the command that starts it.   *)
Start(i, r) ==
  /\ instances[i] = "absent"
  /\ Activation[r] = "start"
  /\ instances' = [instances EXCEPT ![i] = "open"]
  /\ Materialize(steps, waits, i, r, <<"command", i>>)
  /\ Log({Row("command_start", <<i>>)})
  /\ UNCHANGED attempts

(* The claim query, and AttemptClaimRecords.claim.                         *)
\* Mutant: a Step with a leased Attempt is claimed again.
Mutant_ClaimableWhileLeased(s) ==
  /\ steps[s].state = "pending"
  /\ Open(steps[s].instance)
  /\ steps[s].claimable = 0
  /\ \A d \in steps[s].deps : steps[d].state = "succeeded"

Claimable(s) ==
  /\ steps[s].state = "pending"
  /\ Open(steps[s].instance)
  /\ steps[s].claimable = 0
  /\ ~HasLease(s)
  /\ \A d \in steps[s].deps : steps[d].state = "succeeded"

Claim(s, w) ==
  LET t == steps[s].template IN
  /\ Claimable(s)
  /\ BudgetLeft(s)
  /\ attempts' = [attempts EXCEPT ![s] =
       Append(@, [state |-> "leased", worker |-> w,
                  lease |-> LeaseSeconds[t], deadline |-> MaximumSeconds[t]])]
  /\ UNCHANGED <<instances, steps, waits, trace>>

(* require_live_lease.                                                     *)
LiveLease(s, n, w) ==
  /\ attempts[s][n].state = "leased"
  /\ attempts[s][n].worker = w
  /\ Live(attempts[s][n])

(* AttemptAuthorityRecords.renew.                                          *)
Renewal(t, deadline) ==
  IF LeaseSeconds[t] < deadline THEN LeaseSeconds[t] ELSE deadline

Renew(s, n, w) ==
  /\ LiveLease(s, n, w)
  /\ attempts' = [attempts EXCEPT ![s][n].lease =
                    Renewal(steps[s].template, attempts[s][n].deadline)]
  /\ UNCHANGED <<instances, steps, waits, trace>>

(* accept_result, and the disposition its caller has to make.              *)
Accept(s, n, w) ==
  LET row == Row("attempt_result", <<s, n>>) IN
  /\ LiveLease(s, n, w)
  /\ Open(steps[s].instance)
  /\ attempts' = Settle(s, n, "completed")
  /\ \/ Succeed(s, n, row)
     \/ Retry(s, n, row)
     \/ Fail(s, n, row)
     \/ Defer(s, n, row)
  /\ UNCHANGED instances

(* recover_expired, and the disposition its caller has to make.            *)
Expired(s, n) == attempts[s][n].state = "leased" /\ ~Live(attempts[s][n])

\* Mutant: the handler commits the abandonment without a disposition.
Mutant_RecoverUndisposed(s, n) ==
  /\ Expired(s, n)
  /\ Open(steps[s].instance)
  /\ attempts' = Settle(s, n, "abandoned")
  /\ Log({Row("attempt_abandonment", <<s, n>>)})
  /\ UNCHANGED <<instances, steps, waits>>

Recover(s, n) ==
  LET row == Row("attempt_abandonment", <<s, n>>) IN
  /\ Expired(s, n)
  /\ Open(steps[s].instance)
  /\ attempts' = Settle(s, n, "abandoned")
  /\ \/ Retry(s, n, row)
     \/ Fail(s, n, row)
     \/ Defer(s, n, row)
  /\ UNCHANGED instances

(* resolve_deferred_step, for the request "source" that names the basis b. *)
ResolveDeferred(s, b, source) ==
  /\ Open(steps[s].instance)
  /\ Targets(s, b)
  /\ \/ steps' = Outcome(s, "succeeded")
     \/ steps' = Outcome(s, "failed")
     \/ BudgetLeft(s) /\ steps' = ClaimableAfter(s, 0)
  /\ Log({Row("deferred_resolution", <<source>>)})
  /\ UNCHANGED <<instances, attempts, waits>>

\* Mutant: a satisfied Wait takes a second Signal.
Mutant_NotCancelled(w) == waits[w].state # "cancelled"

Unsatisfied(w) == waits[w].state = "unsatisfied"

(* accept_signal: Signal "signal" satisfies Wait w and activates Route r.  *)
AcceptSignal(w, signal, r) ==
  LET satisfied == [waits EXCEPT ![w] =
                      [@ EXCEPT !.state = "satisfied", !.signal = signal]]
  IN
  /\ Open(waits[w].instance)
  /\ Unsatisfied(w)
  /\ Activation[r] = "signal"
  /\ Materialize(steps, satisfied, waits[w].instance, r, <<"signal", signal>>)
  /\ Log({Row("signal_acceptance", <<signal>>)})
  /\ UNCHANGED <<instances, attempts>>

(* close_instance, and the three updates it makes.                         *)
CancelledAttempts(i) ==
  [s \in Step |-> [n \in DOMAIN attempts[s] |->
     IF steps[s].instance = i /\ attempts[s][n].state = "leased"
     THEN Settled(attempts[s][n], "cancelled")
     ELSE attempts[s][n]]]

\* Mutant: the update cancels by claimable_at, and misses deferred Steps.
Mutant_CancelledClaimable(i) ==
  [s \in Step |->
     IF steps[s].instance = i /\ steps[s].claimable # Never
     THEN Outcome(s, "cancelled")[s]
     ELSE steps[s]]

CancelledSteps(i) ==
  [s \in Step |->
     IF steps[s].instance = i /\ steps[s].state = "pending"
     THEN Outcome(s, "cancelled")[s]
     ELSE steps[s]]

CancelledWaits(i) ==
  [w \in Wait |->
     IF waits[w].instance = i /\ waits[w].state = "unsatisfied"
     THEN [waits[w] EXCEPT !.state = "cancelled"]
     ELSE waits[w]]

Close(i) ==
  /\ Open(i)
  /\ attempts' = CancelledAttempts(i)
  /\ steps' = CancelledSteps(i)
  /\ waits' = CancelledWaits(i)
  /\ instances' = [instances EXCEPT ![i] = "closed"]
  /\ Log({Row("instance_closure", <<i>>)})

Elapse(seconds) == IF seconds > 0 THEN seconds - 1 ELSE seconds

Tick ==
  /\ steps' = [s \in Step |-> [steps[s] EXCEPT !.claimable = Elapse(@)]]
  /\ attempts' = [s \in Step |-> [n \in DOMAIN attempts[s] |->
       IF attempts[s][n].state = "leased"
       THEN [attempts[s][n] EXCEPT !.lease = Elapse(@), !.deadline = Elapse(@)]
       ELSE attempts[s][n]]]
  /\ <<steps, attempts>>' # <<steps, attempts>>
  /\ UNCHANGED <<instances, waits, trace>>

Next ==
  \/ \E i \in Instance : Close(i) \/ \E r \in Route : Start(i, r)
  \/ \E s \in Step, w \in Worker : Claim(s, w)
  \/ \E s \in Step : \E n \in DOMAIN attempts[s] :
       \/ Recover(s, n)
       \/ \E w \in Worker : Renew(s, n, w) \/ Accept(s, n, w)
       \/ \E source \in Source : ResolveDeferred(s, n, source)
  \/ \E w \in Wait, signal \in Signal, r \in Route : AcceptSignal(w, signal, r)
  \/ Tick

(* Each worker process polls: recovery first, then one claim.              *)
Fairness ==
  /\ WF_vars(Tick)
  /\ WF_vars(\E s \in Step, w \in Worker : Claim(s, w))
  /\ WF_vars(\E s \in Step : \E n \in DOMAIN attempts[s] : Recover(s, n))

Spec == Init /\ [][Next]_vars
FairSpec == Spec /\ Fairness

-----------------------------------------------------------------------------
(* Properties.                                                             *)

ActivationSource ==
  {<<>>} \cup ({"command"} \X Instance) \cup ({"signal"} \X Signal)
    \cup ({"step"} \X Step \X (Nat \ {0}))

StepRow ==
  [state : StepState, instance : Instance \cup {None},
   template : Template \cup {None}, claimable : Nat \cup {Never},
   deferred : Nat, deps : SUBSET Step,
   source : ActivationSource,
   slot : Slot \cup {None}]

AttemptRow ==
  [state : AttemptState, worker : Worker, lease : Nat, deadline : Nat]

WaitRow ==
  [state : WaitState, instance : Instance \cup {None},
   source : ActivationSource,
   slot : Slot \cup {None}, signal : Signal \cup {None}]

(* The columns of every table hold values of their types; in particular no *)
(* countdown passes zero, and an unclaimable Step is told from one that    *)
(* waits out its delay.                                                    *)
TypeOK ==
  /\ instances \in [Instance -> {"absent", "open", "closed"}]
  /\ steps \in [Step -> StepRow]
  /\ attempts \in [Step -> Seq(AttemptRow)]
  /\ waits \in [Wait -> WaitRow]
  /\ \A s \in Step : steps[s].state # "absent" =>
       steps[s].instance \in Instance /\ steps[s].template \in Template
  /\ \A w \in Wait : waits[w].state # "absent" => waits[w].instance \in Instance

Last(s) == Len(attempts[s])

(* A leased Attempt is the only authority over its Step: it is the newest  *)
(* Attempt, its Step is pending and not deferred, and its Instance is open.*)
(* The fences of the application (guard_current_attempt) rest on this.     *)
LeaseIsCurrent ==
  \A s \in Step : \A n \in DOMAIN attempts[s] :
    attempts[s][n].state = "leased" =>
      /\ n = Last(s)
      /\ Targets(s, NotDeferred)
      /\ Open(steps[s].instance)

(* No work is lost: a pending Step of an open Instance is held by a leased *)
(* Attempt, or deferred on its newest Attempt, or it will be claimable     *)
(* with budget left, so that a claim cannot stop at an exhausted head      *)
(* (work_claims.py returns None for it and never looks behind it).         *)
PendingHasDriver ==
  \A s \in Step : steps[s].state = "pending" /\ Open(steps[s].instance) =>
    \/ HasLease(s)
    \/ /\ steps[s].deferred = Last(s) /\ Last(s) > 0
       /\ steps[s].claimable = Never
    \/ /\ steps[s].deferred = NotDeferred
       /\ steps[s].claimable # Never
       /\ Last(s) < MaxAttempts(steps[s].template)

(* What a completed or abandoned Attempt meant for its Step was decided    *)
(* exactly once, by the transaction that settled it.                       *)
DisposedExactlyOnce ==
  \A s \in Step : \A n \in DOMAIN attempts[s] :
    Cardinality({kind \in Disposition : Row(kind, <<s, n>>) \in trace}) =
      IF attempts[s][n].state \in {"completed", "abandoned"} THEN 1 ELSE 0

(* A Step's outcome has its newest Attempt as basis, directly or through   *)
(* its deferral: never an Attempt that a later one superseded.             *)
OutcomeBasis ==
  \A s \in Step :
    /\ steps[s].state = "succeeded" =>
         \E kind \in {"step_outcome", "step_deferral"} :
           Row(kind, <<s, Last(s)>>) \in trace
    /\ steps[s].state = "failed" =>
         \E kind \in {"recovery_disposition", "step_deferral"} :
           Row(kind, <<s, Last(s)>>) \in trace
    /\ \A n \in DOMAIN attempts[s] :
         Row("step_outcome", <<s, n>>) \in trace =>
           n = Last(s) /\ steps[s].state = "succeeded"

(* Closing cancels everything the Instance still had under way, and a      *)
(* transaction that was waiting for its lock adds nothing afterwards.      *)
ClosedIsQuiet ==
  \A i \in Instance : instances[i] = "closed" =>
    /\ \A s \in Step : steps[s].instance = i =>
         steps[s].state # "pending" /\ ~HasLease(s)
    /\ \A w \in Wait : waits[w].instance = i => waits[w].state # "unsatisfied"

(* Steps and Waits that a Signal or an Attempt activated are the outputs   *)
(* of one activation: its Wait was satisfied by that Signal alone, or its  *)
(* Attempt was disposed of, and no output slot was materialized twice.     *)
ActivatedOnce ==
  /\ \A s, r \in Step :
       /\ steps[s].state # "absent"
       /\ steps[r].source = steps[s].source
       /\ steps[r].slot = steps[s].slot
       => r = s
  /\ \A s \in Step, signal \in Signal : steps[s].source = <<"signal", signal>> =>
       \E w \in Wait :
         /\ waits[w].state = "satisfied"
         /\ waits[w].signal = signal
         /\ waits[w].instance = steps[s].instance
  /\ \A v, w \in Wait :
       waits[v].state = "satisfied" /\ waits[w].signal = waits[v].signal => v = w

(* Work the kernel owns is eventually decided: a pending Step whose        *)
(* prerequisites succeeded reaches an outcome, or is parked by a deferral, *)
(* however many workers die holding it.                                    *)
EligibleIsSettled ==
  \A s \in Step :
    (/\ Targets(s, NotDeferred)
     /\ \A d \in steps[s].deps : steps[d].state = "succeeded")
      ~> ~Targets(s, NotDeferred)

=============================================================================
