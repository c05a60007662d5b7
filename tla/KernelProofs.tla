---------------------------- MODULE KernelProofs -----------------------------
(***************************************************************************)
(* Proofs about Kernel for every pool of rows, every Definition that       *)
(* satisfies the assumptions, and every number of workers: its rows, what  *)
(* its Trace says about them, and that it implements WorkQueue.            *)
(***************************************************************************)
EXTENDS KernelRefinement, FiniteSetTheorems, SequenceTheorems, TLAPS

(* The rows that a transaction of Route r adds, told without the slots.    *)
Added(stepRows, waitRows, i, new, fresh) ==
  /\ new \subseteq {s \in Step : steps[s].state = "absent"}
  /\ fresh \subseteq {w \in Wait : waits[w].state = "absent"}
  /\ steps' \in [Step -> StepRow]
  /\ waits' \in [Wait -> WaitRow]
  /\ \A s \in Step \ new : steps'[s] = stepRows[s]
  /\ \A w \in Wait \ fresh : waits'[w] = waitRows[w]
  /\ \A s \in new :
       /\ steps'[s].state = "pending"
       /\ steps'[s].instance = i
       /\ steps'[s].template \in Template
       /\ steps'[s].claimable = 0
       /\ steps'[s].deferred = NotDeferred
  /\ \A w \in fresh : waits'[w].instance = i

(* Whatever a Route materializes is Added: typed rows, pending and         *)
(* claimable at once, at identities that were not in use.                  *)
LEMMA MaterializeAdds ==
  ASSUME TypeOK,
         NEW i \in Instance, NEW r \in Route,
         NEW source \in ActivationSource,
         NEW stepRows \in [Step -> StepRow],
         NEW waitRows \in [Wait -> WaitRow],
         Materialize(stepRows, waitRows, i, r, source)
  PROVE  \E new, fresh : Added(stepRows, waitRows, i, new, fresh)
<1>1. PICK pick \in Draws(StepSlots[r], Fresh(steps)),
           draw \in Draws(WaitSlots[r], Fresh(waits)) :
        /\ steps' = [s \in Step |->
             IF \E x \in StepSlots[r] : pick[x] = s
             THEN LET x == CHOOSE y \in StepSlots[r] : pick[y] = s
                  IN [state |-> "pending", instance |-> i,
                      template |-> SlotTemplate[r][x],
                      claimable |-> 0, deferred |-> NotDeferred,
                      deps |-> {pick[d] : d \in DependsOn[r][x]},
                      source |-> source, slot |-> x]
             ELSE stepRows[s]]
        /\ waits' = [w \in Wait |->
             IF \E x \in WaitSlots[r] : draw[x] = w
             THEN [state |-> "unsatisfied", instance |-> i, source |-> source,
                   slot |-> CHOOSE x \in WaitSlots[r] : draw[x] = w,
                   signal |-> None]
             ELSE waitRows[w]]
  BY DEF Materialize
<1> DEFINE new == {pick[x] : x \in StepSlots[r]}
           fresh == {draw[x] : x \in WaitSlots[r]}
<1>2. /\ StepSlots[r] \subseteq Slot /\ WaitSlots[r] \subseteq Slot
      /\ \A x \in Slot : SlotTemplate[r][x] \in Template
      /\ \A x \in Slot : DependsOn[r][x] \subseteq StepSlots[r]
  BY RouteAssumption
<1>3. DOMAIN steps = Step /\ DOMAIN waits = Wait
  BY DEF TypeOK
<1>4. /\ pick \in [StepSlots[r] -> {s \in Step : steps[s].state = "absent"}]
      /\ draw \in [WaitSlots[r] -> {w \in Wait : waits[w].state = "absent"}]
  BY <1>3 DEF Draws, Fresh
<1>5. ASSUME NEW s \in Step, NEW x \in StepSlots[r]
      PROVE  [state |-> "pending", instance |-> i,
              template |-> SlotTemplate[r][x],
              claimable |-> 0, deferred |-> NotDeferred,
              deps |-> {pick[d] : d \in DependsOn[r][x]},
              source |-> source, slot |-> x] \in StepRow
  <2>1. {pick[d] : d \in DependsOn[r][x]} \subseteq Step
    BY <1>2, <1>4
  <2> QED BY <1>2, <2>1 DEF StepRow, StepState, NotDeferred
<1>6. ASSUME NEW s \in Step
      PROVE  /\ steps'[s] \in StepRow
             /\ s \notin new => steps'[s] = stepRows[s]
             /\ s \in new => /\ steps'[s].state = "pending"
                             /\ steps'[s].instance = i
                             /\ steps'[s].template \in Template
                             /\ steps'[s].claimable = 0
                             /\ steps'[s].deferred = NotDeferred
  <2>1. CASE s \in new
    <3> DEFINE x == CHOOSE y \in StepSlots[r] : pick[y] = s
    <3>1. x \in StepSlots[r] /\ pick[x] = s
      BY <2>1
    <3>2. steps'[s] = [state |-> "pending", instance |-> i,
                       template |-> SlotTemplate[r][x],
                       claimable |-> 0, deferred |-> NotDeferred,
                       deps |-> {pick[d] : d \in DependsOn[r][x]},
                       source |-> source, slot |-> x]
      BY <1>1, <3>1
    <3> HIDE DEF x
    <3>3. SlotTemplate[r][x] \in Template
      BY <1>2, <3>1
    <3> QED BY <2>1, <3>1, <3>2, <3>3, <1>5
  <2>2. CASE s \notin new
    BY <1>1, <2>2
  <2> QED BY <2>1, <2>2
<1>7. ASSUME NEW w \in Wait
      PROVE  /\ waits'[w] \in WaitRow
             /\ w \notin fresh => waits'[w] = waitRows[w]
             /\ w \in fresh => waits'[w].instance = i
  <2>1. CASE w \in fresh
    <3> DEFINE x == CHOOSE y \in WaitSlots[r] : draw[y] = w
    <3>1. x \in WaitSlots[r] /\ draw[x] = w
      BY <2>1
    <3>2. waits'[w] = [state |-> "unsatisfied", instance |-> i,
                       source |-> source, slot |-> x, signal |-> None]
      BY <1>1, <3>1
    <3> HIDE DEF x
    <3> QED BY <2>1, <3>1, <3>2, <1>2 DEF WaitRow, WaitState
  <2>2. CASE w \notin fresh
    BY <1>1, <2>2
  <2> QED BY <2>1, <2>2
<1>8. DOMAIN steps' = Step /\ DOMAIN waits' = Wait
  BY <1>1
<1>9. /\ steps' = [s \in Step |-> steps'[s]]
      /\ waits' = [w \in Wait |-> waits'[w]]
  BY <1>1
<1>10. steps' \in [Step -> StepRow] /\ waits' \in [Wait -> WaitRow]
  BY <1>6, <1>7, <1>9
<1>11. Added(stepRows, waitRows, i, new, fresh)
  <2> HIDE DEF Materialize
  <2>1. /\ new \subseteq {s \in Step : steps[s].state = "absent"}
        /\ fresh \subseteq {w \in Wait : waits[w].state = "absent"}
    BY <1>4
  <2> HIDE DEF new, fresh
  <2> QED BY <1>6, <1>7, <1>10, <2>1 DEF Added
<1> QED BY <1>11

-----------------------------------------------------------------------------
(* The inductive invariant.                                                *)

OpenInstances == {i \in Instance : instances[i] = "open"}

(* One Step row with its Attempts, when "open" are the open Instances.     *)
RowInv(row, list, open) ==
  /\ row.state = "absent" => list = <<>>
  /\ row.state # "absent" => Len(list) <= MaxAttempts(row.template)
  /\ row.state = "pending" => row.instance \in open
  /\ \A n \in DOMAIN list : list[n].state = "leased" =>
       n = Len(list) /\ row.state = "pending" /\ row.deferred = NotDeferred
  /\ row.state = "pending" =>
       \/ \E n \in DOMAIN list : list[n].state = "leased"
       \/ row.deferred = Len(list) /\ Len(list) > 0 /\ row.claimable = Never
       \/ /\ row.deferred = NotDeferred
          /\ row.claimable # Never
          /\ Len(list) < MaxAttempts(row.template)

IInv ==
  /\ TypeOK
  /\ \A s \in Step : RowInv(steps[s], attempts[s], OpenInstances)
  /\ \A w \in Wait :
       waits[w].state = "unsatisfied" => waits[w].instance \in OpenInstances

LEMMA BudgetType ==
  ASSUME NEW t \in Template
  PROVE  MaxAttempts(t) \in Nat \ {0} /\ Delays[t] \in Seq(Nat)
BY TimingAssumption DEF MaxAttempts

LEMMA IInvImplies == IInv => LeaseIsCurrent /\ PendingHasDriver /\ ClosedIsQuiet
<1> SUFFICES ASSUME IInv
             PROVE  LeaseIsCurrent /\ PendingHasDriver /\ ClosedIsQuiet
  OBVIOUS
<1>1. LeaseIsCurrent
  BY DEF IInv, RowInv, LeaseIsCurrent, Last, Targets, Open, OpenInstances
<1>2. PendingHasDriver
  BY DEF IInv, RowInv, PendingHasDriver, HasLease, Last
<1>3. ClosedIsQuiet
  BY DEF IInv, RowInv, ClosedIsQuiet, HasLease, OpenInstances
<1> QED BY <1>1, <1>2, <1>3

LEMMA InitIInv == Init => IInv
<1> SUFFICES ASSUME Init PROVE IInv
  OBVIOUS
<1>1. TypeOK
  <2>1. AbsentStep \in StepRow
    BY DEF AbsentStep, StepRow, StepState, ActivationSource, Never, NotDeferred
  <2>2. AbsentWait \in WaitRow
    BY DEF AbsentWait, WaitRow, WaitState, ActivationSource
  <2>3. attempts \in [Step -> Seq(AttemptRow)]
    BY DEF Init
  <2> QED BY <2>1, <2>2, <2>3 DEF Init, TypeOK, AbsentStep, AbsentWait
<1>2. \A s \in Step : RowInv(steps[s], attempts[s], OpenInstances)
  BY DEF Init, RowInv, AbsentStep
<1> QED BY <1>1, <1>2 DEF IInv, Init, AbsentWait

(* A Settled Attempt stays typed, and is leased no more.                   *)
LEMMA SettleList ==
  ASSUME NEW list \in Seq(AttemptRow), NEW n \in DOMAIN list,
         NEW state \in AttemptState
  PROVE  /\ [list EXCEPT ![n] = Settled(@, state)] \in Seq(AttemptRow)
         /\ Len([list EXCEPT ![n] = Settled(@, state)]) = Len(list)
         /\ \A m \in DOMAIN list : m # n =>
              [list EXCEPT ![n] = Settled(@, state)][m] = list[m]
         /\ [list EXCEPT ![n] = Settled(@, state)][n].state = state
<1>1. list[n] \in AttemptRow
  OBVIOUS
<1>2. Settled(list[n], state) \in AttemptRow /\ Settled(list[n], state).state = state
  BY <1>1 DEF Settled, AttemptRow
<1> QED BY <1>2

(* The row of a Step whose Attempt n was disposed of: the Step ended, or   *)
(* it is deferred on n, or it will be claimable with budget left.          *)
Disposed(row, s, n) ==
  /\ row \in StepRow
  /\ row.instance = steps[s].instance
  /\ row.template = steps[s].template
  /\ \/ row.state \in {"succeeded", "failed"}
     \/ /\ row.state = "pending"
        /\ row.deferred = n /\ row.claimable = Never
     \/ /\ row.state = "pending"
        /\ row.deferred = NotDeferred /\ row.claimable # Never
        /\ n < MaxAttempts(row.template)

(* Nothing is Added by a transaction that activates no Route.              *)
LEMMA NothingAdded ==
  ASSUME TypeOK, NEW i \in Instance,
         NEW stepRows \in [Step -> StepRow],
         steps' = stepRows, waits' = waits
  PROVE  \E new, fresh : Added(stepRows, waits, i, new, fresh)
<1>1. Added(stepRows, waits, i, {}, {})
  BY DEF Added, TypeOK
<1> QED BY <1>1

(* A transaction that Adds rows keeps the invariant if the rows it wrote   *)
(* itself keep it: the added rows have no Attempts and their whole budget. *)
LEMMA AddedPreserves ==
  ASSUME IInv,
         NEW i \in Instance, NEW new, NEW fresh,
         NEW stepRows, NEW waitRows,
         Added(stepRows, waitRows, i, new, fresh),
         instances' \in [Instance -> {"absent", "open", "closed"}],
         i \in OpenInstances',
         attempts' \in [Step -> Seq(AttemptRow)],
         \A s \in new : attempts'[s] = <<>>,
         \A s \in Step \ new :
           /\ RowInv(stepRows[s], attempts'[s], OpenInstances')
           /\ stepRows[s].state # "absent" =>
                stepRows[s].instance \in Instance /\ stepRows[s].template \in Template,
         \A w \in Wait \ fresh :
           /\ waitRows[w].state = "unsatisfied" => waitRows[w].instance \in OpenInstances'
           /\ waitRows[w].state # "absent" => waitRows[w].instance \in Instance
  PROVE  IInv'
<1>1. TypeOK'
  <2>1. ASSUME NEW s \in Step, (steps[s].state # "absent")'
        PROVE  (steps[s].instance \in Instance /\ steps[s].template \in Template)'
    BY <2>1 DEF Added
  <2>2. ASSUME NEW w \in Wait, (waits[w].state # "absent")'
        PROVE  (waits[w].instance \in Instance)'
    BY <2>2 DEF Added
  <2> QED BY <2>1, <2>2 DEF Added, TypeOK
<1>2. ASSUME NEW s \in Step
      PROVE  RowInv(steps[s], attempts[s], OpenInstances)'
  <2>1. CASE s \in new
    <3>1. MaxAttempts(steps'[s].template) \in Nat \ {0}
      BY <2>1, BudgetType DEF Added
    <3> QED BY <2>1, <3>1 DEF Added, RowInv, NotDeferred, Never
  <2>2. CASE s \notin new
    BY <2>2 DEF Added
  <2> QED BY <2>1, <2>2
<1>3. ASSUME NEW w \in Wait, (waits[w].state = "unsatisfied")'
      PROVE  (waits[w].instance \in OpenInstances)'
  BY <1>3 DEF Added
<1> QED BY <1>1, <1>2, <1>3 DEF IInv

(* What each disposition leaves behind.                                    *)
LEMMA Dispositions ==
  ASSUME IInv,
         NEW s \in Step, NEW n \in DOMAIN attempts[s], NEW row,
         attempts[s][n].state = "leased",
         Succeed(s, n, row) \/ Retry(s, n, row) \/ Fail(s, n, row) \/ Defer(s, n, row)
  PROVE  \E new, fresh, after :
           /\ Disposed(after, s, n)
           /\ Added([steps EXCEPT ![s] = after], waits, steps[s].instance, new, fresh)
<1>1. /\ steps \in [Step -> StepRow] /\ waits \in [Wait -> WaitRow]
      /\ steps[s].state = "pending"
      /\ steps[s].instance \in Instance /\ steps[s].template \in Template
      /\ n \in Nat \ {0}
  <2>1. attempts[s] \in Seq(AttemptRow)
    BY DEF IInv, TypeOK
  <2> QED BY <2>1 DEF IInv, TypeOK, RowInv
<1>2. ASSUME NEW after, Disposed(after, s, n),
             MaterializeStepRoute([steps EXCEPT ![s] = after], s, n)
      PROVE  \E new, fresh :
               Added([steps EXCEPT ![s] = after], waits, steps[s].instance, new, fresh)
  <2>1. [steps EXCEPT ![s] = after] \in [Step -> StepRow]
    BY <1>1, <1>2 DEF Disposed
  <2>2. <<"step", s, n>> \in ActivationSource
    BY <1>1 DEF ActivationSource
  <2>3. TypeOK
    BY DEF IInv
  <2>4. CASE steps' = [steps EXCEPT ![s] = after] /\ UNCHANGED waits
    BY <2>1, <2>3, <2>4, <1>1, NothingAdded
  <2>5. CASE \E r \in Route :
               /\ Activation[r] = "step"
               /\ SourceTemplate[r] = steps[s].template
               /\ Materialize([steps EXCEPT ![s] = after], waits,
                              steps[s].instance, r, <<"step", s, n>>)
    <3>1. PICK r \in Route :
            Materialize([steps EXCEPT ![s] = after], waits,
                        steps[s].instance, r, <<"step", s, n>>)
      BY <2>5
    <3> QED BY <3>1, <2>1, <2>2, <2>3, <1>1, MaterializeAdds
  <2> QED BY <1>2, <2>4, <2>5 DEF MaterializeStepRoute
<1> DEFINE Decides(state, claimable, deferred) ==
      /\ state \in StepState /\ claimable \in Nat \cup {Never} /\ deferred \in Nat
      /\ \/ state = "succeeded" \/ state = "failed"
         \/ state = "pending" /\ claimable = Never /\ deferred = n
         \/ /\ state = "pending" /\ claimable # Never /\ deferred = NotDeferred
            /\ n < MaxAttempts(steps[s].template)
<1>3. ASSUME NEW state, NEW claimable, NEW deferred,
             Decides(state, claimable, deferred)
      PROVE  \E after :
               /\ Disposed(after, s, n)
               /\ UpdateStep(s, state, claimable, deferred) = [steps EXCEPT ![s] = after]
  <2> DEFINE old == steps[s]
             after == [old EXCEPT !.state = state, !.claimable = claimable,
                                  !.deferred = deferred]
  <2>1. UpdateStep(s, state, claimable, deferred) = [steps EXCEPT ![s] = after]
    BY <1>1 DEF UpdateStep
  <2>2. old \in StepRow
    BY <1>1
  <2>3. old.instance = steps[s].instance /\ old.template = steps[s].template
    OBVIOUS
  <2> HIDE DEF old
  <2>4. /\ after \in StepRow
        /\ after.state = state
        /\ after.claimable = claimable
        /\ after.deferred = deferred
        /\ after.instance = old.instance
        /\ after.template = old.template
    <3>1. after \in StepRow
      BY <1>3, <2>2 DEF StepRow
    <3> QED BY <2>2, <3>1 DEF StepRow
  <2> HIDE DEF after
  <2>5. Disposed(after, s, n)
    BY <1>3, <2>3, <2>4 DEF Disposed
  <2> QED BY <2>1, <2>5
<1>4. /\ Decides("succeeded", Never, NotDeferred)
      /\ Decides("failed", Never, NotDeferred)
      /\ Decides("pending", Never, n)
  BY <1>1 DEF StepState, NotDeferred
<1>5. CASE Retry(s, n, row)
  <2> DEFINE delay == Delays[steps[s].template][n]
  <2>1. Delays[steps[s].template] \in Seq(Nat)
    BY <1>1, BudgetType
  <2>2. delay \in Nat /\ n < MaxAttempts(steps[s].template)
    BY <2>1, <1>1, <1>5 DEF Retry, MaxAttempts
  <2>3. steps' = ClaimableAfter(s, delay) /\ UNCHANGED waits
    BY <1>5 DEF Retry
  <2> HIDE DEF delay
  <2>4. Decides("pending", delay, NotDeferred)
    BY <2>2 DEF StepState, Never, NotDeferred
  <2> HIDE DEF Decides
  <2>5. PICK after : /\ Disposed(after, s, n)
                     /\ ClaimableAfter(s, delay) = [steps EXCEPT ![s] = after]
    BY <1>3, <2>4 DEF ClaimableAfter
  <2> QED BY <1>2, <2>3, <2>5 DEF MaterializeStepRoute
<1> HIDE DEF Decides
<1>6. CASE Succeed(s, n, row)
  <2>1. PICK after : /\ Disposed(after, s, n)
                     /\ Outcome(s, "succeeded") = [steps EXCEPT ![s] = after]
    BY <1>3, <1>4 DEF Outcome
  <2> QED BY <1>2, <1>6, <2>1 DEF Succeed
<1>7. CASE Fail(s, n, row)
  <2>1. PICK after : /\ Disposed(after, s, n)
                     /\ Outcome(s, "failed") = [steps EXCEPT ![s] = after]
    BY <1>3, <1>4 DEF Outcome
  <2> QED BY <1>2, <1>7, <2>1 DEF Fail, MaterializeStepRoute
<1>8. CASE Defer(s, n, row)
  <2>1. PICK after : /\ Disposed(after, s, n)
                     /\ DeferredOn(s, n) = [steps EXCEPT ![s] = after]
    BY <1>3, <1>4 DEF DeferredOn
  <2> QED BY <1>2, <1>8, <2>1 DEF Defer
<1> QED BY <1>5, <1>6, <1>7, <1>8

-----------------------------------------------------------------------------
(* Each transaction keeps the invariant.                                   *)

LEMMA StartIInv ==
  ASSUME IInv, NEW i \in Instance, NEW r \in Route, Start(i, r)
  PROVE  IInv'
<1>1. TypeOK /\ <<"command", i>> \in ActivationSource
  BY DEF IInv, ActivationSource
<1>2. steps \in [Step -> StepRow] /\ waits \in [Wait -> WaitRow]
  BY <1>1 DEF TypeOK
<1>3. PICK new, fresh : Added(steps, waits, i, new, fresh)
  BY <1>1, <1>2, MaterializeAdds DEF Start
<1>4. /\ instances' \in [Instance -> {"absent", "open", "closed"}]
      /\ OpenInstances' = OpenInstances \cup {i}
      /\ attempts' = attempts
  BY <1>1 DEF Start, OpenInstances, TypeOK
<1>5. \A s \in new : attempts'[s] = <<>>
  BY <1>3, <1>4 DEF IInv, RowInv, Added
<1>6. \A s \in Step : RowInv(steps[s], attempts'[s], OpenInstances')
  BY <1>4 DEF IInv, RowInv
<1>7. /\ attempts' \in [Step -> Seq(AttemptRow)]
      /\ \A s \in Step : steps[s].state # "absent" =>
           steps[s].instance \in Instance /\ steps[s].template \in Template
      /\ \A w \in Wait :
           /\ waits[w].state = "unsatisfied" => waits[w].instance \in OpenInstances'
           /\ waits[w].state # "absent" => waits[w].instance \in Instance
  BY <1>1, <1>4 DEF IInv, TypeOK
<1>8. i \in OpenInstances'
  BY <1>4
<1> QED BY <1>3, <1>4, <1>5, <1>6, <1>7, <1>8, AddedPreserves

LEMMA AcceptSignalIInv ==
  ASSUME IInv, NEW w \in Wait, NEW signal \in Signal, NEW r \in Route,
         AcceptSignal(w, signal, r)
  PROVE  IInv'
<1> DEFINE i == waits[w].instance
           satisfied == [waits EXCEPT ![w] =
                           [@ EXCEPT !.state = "satisfied", !.signal = signal]]
<1>1. TypeOK /\ <<"signal", signal>> \in ActivationSource
  BY DEF IInv, ActivationSource
<1>2. /\ steps \in [Step -> StepRow] /\ waits \in [Wait -> WaitRow]
      /\ i \in OpenInstances /\ i \in Instance
  BY <1>1 DEF TypeOK, AcceptSignal, Open, OpenInstances
<1>3. /\ satisfied \in [Wait -> WaitRow]
      /\ satisfied[w].state = "satisfied" /\ satisfied[w].instance = i
      /\ \A v \in Wait : v # w => satisfied[v] = waits[v]
  <2>1. [waits[w] EXCEPT !.state = "satisfied", !.signal = signal] \in WaitRow
    BY <1>2 DEF WaitRow, WaitState
  <2>2. /\ [waits[w] EXCEPT !.state = "satisfied", !.signal = signal].state = "satisfied"
        /\ [waits[w] EXCEPT !.state = "satisfied", !.signal = signal].instance = i
    BY <1>2 DEF WaitRow
  <2> QED BY <1>2, <2>1, <2>2
<1>4. Materialize(steps, satisfied, i, r, <<"signal", signal>>)
  BY DEF AcceptSignal
<1> HIDE DEF satisfied
<1>5. PICK new, fresh : Added(steps, satisfied, i, new, fresh)
  BY <1>1, <1>2, <1>3, <1>4, MaterializeAdds
<1>6. /\ instances' \in [Instance -> {"absent", "open", "closed"}]
      /\ OpenInstances' = OpenInstances
      /\ attempts' = attempts
  BY <1>1 DEF AcceptSignal, OpenInstances, TypeOK
<1>7. \A s \in new : attempts'[s] = <<>>
  BY <1>5, <1>6 DEF IInv, RowInv, Added
<1>8. /\ \A s \in Step : RowInv(steps[s], attempts'[s], OpenInstances')
      /\ attempts' \in [Step -> Seq(AttemptRow)]
      /\ \A s \in Step : steps[s].state # "absent" =>
           steps[s].instance \in Instance /\ steps[s].template \in Template
  BY <1>1, <1>6 DEF IInv, TypeOK
<1>9. \A v \in Wait :
        /\ satisfied[v].state = "unsatisfied" => satisfied[v].instance \in OpenInstances'
        /\ satisfied[v].state # "absent" => satisfied[v].instance \in Instance
  BY <1>1, <1>2, <1>3, <1>6 DEF IInv, TypeOK
<1> QED BY <1>2, <1>5, <1>6, <1>7, <1>8, <1>9, AddedPreserves

(* Accept and Recover: Attempt n is settled and its Step disposed of.      *)
LEMMA DispositionIInv ==
  ASSUME IInv, NEW s \in Step, NEW n \in DOMAIN attempts[s],
         NEW state \in {"completed", "abandoned"}, NEW row,
         attempts[s][n].state = "leased",
         Open(steps[s].instance),
         attempts' = Settle(s, n, state),
         Succeed(s, n, row) \/ Retry(s, n, row) \/ Fail(s, n, row) \/ Defer(s, n, row),
         UNCHANGED instances
  PROVE  IInv'
<1>1. /\ TypeOK
      /\ steps \in [Step -> StepRow] /\ waits \in [Wait -> WaitRow]
      /\ attempts \in [Step -> Seq(AttemptRow)]
      /\ steps[s].state = "pending" /\ n = Len(attempts[s]) /\ n \in Nat \ {0}
      /\ steps[s].instance \in Instance /\ steps[s].template \in Template
      /\ Len(attempts[s]) <= MaxAttempts(steps[s].template)
  <2>1. attempts[s] \in Seq(AttemptRow)
    BY DEF IInv, TypeOK
  <2> QED BY <2>1 DEF IInv, TypeOK, RowInv
<1>2. PICK new, fresh, after :
        /\ Disposed(after, s, n)
        /\ Added([steps EXCEPT ![s] = after], waits, steps[s].instance, new, fresh)
  BY Dispositions
<1>3. /\ instances' \in [Instance -> {"absent", "open", "closed"}]
      /\ OpenInstances' = OpenInstances
      /\ steps[s].instance \in OpenInstances
  BY <1>1 DEF OpenInstances, TypeOK, Open
<1>4. /\ attempts'[s] \in Seq(AttemptRow)
      /\ Len(attempts'[s]) = n
      /\ \A m \in DOMAIN attempts'[s] : attempts'[s][m].state # "leased"
      /\ \A u \in Step : u # s => attempts'[u] = attempts[u]
      /\ attempts' \in [Step -> Seq(AttemptRow)]
  <2> DEFINE list == [attempts[s] EXCEPT ![n] = Settled(@, state)]
  <2>1. state \in AttemptState /\ state # "leased"
    BY DEF AttemptState
  <2>2. attempts[s] \in Seq(AttemptRow)
    BY <1>1
  <2>3. /\ list \in Seq(AttemptRow)
        /\ Len(list) = Len(attempts[s])
        /\ \A m \in DOMAIN attempts[s] : m # n => list[m] = attempts[s][m]
        /\ list[n].state = state
    BY <2>1, <2>2, SettleList
  <2>4. attempts' = [attempts EXCEPT ![s] = list]
    BY <1>1 DEF Settle
  <2> HIDE DEF list
  <2>5. /\ attempts'[s] = list
        /\ \A u \in Step : u # s => attempts'[u] = attempts[u]
        /\ attempts' \in [Step -> Seq(AttemptRow)]
    BY <1>1, <2>3, <2>4
  <2>6. \A m \in DOMAIN list : list[m].state # "leased"
    <3>1. \A m \in DOMAIN attempts[s] : m # n => attempts[s][m].state # "leased"
      BY <1>1 DEF IInv, RowInv
    <3>2. DOMAIN list = DOMAIN attempts[s]
      BY <2>2, <2>3
    <3> QED BY <2>1, <2>3, <3>1, <3>2
  <2> QED BY <1>1, <2>3, <2>5, <2>6
<1> DEFINE stepRows == [steps EXCEPT ![s] = after]
<1>5. ASSUME NEW u \in Step
      PROVE  RowInv(stepRows[u], attempts'[u], OpenInstances')
  <2>1. CASE u = s
    <3>1. stepRows[u] = after
      BY <1>1, <2>1
    <3>2. MaxAttempts(steps[s].template) \in Nat
      BY <1>1, BudgetType
    <3> QED BY <1>1, <1>2, <1>3, <1>4, <2>1, <3>1, <3>2 DEF RowInv, Disposed
  <2>2. CASE u # s
    BY <1>1, <1>3, <1>4, <2>2 DEF IInv
  <2> QED BY <2>1, <2>2
<1>6. ASSUME NEW u \in Step, stepRows[u].state # "absent"
      PROVE  stepRows[u].instance \in Instance /\ stepRows[u].template \in Template
  BY <1>1, <1>2, <1>6 DEF TypeOK, Disposed
<1>7. \A u \in new : attempts'[u] = <<>>
  BY <1>1, <1>2, <1>4 DEF Added, IInv, RowInv
<1>8. \A w \in Wait :
        /\ waits[w].state = "unsatisfied" => waits[w].instance \in OpenInstances'
        /\ waits[w].state # "absent" => waits[w].instance \in Instance
  BY <1>1, <1>3 DEF IInv, TypeOK
<1>9. Added(stepRows, waits, steps[s].instance, new, fresh)
  BY <1>2
<1> HIDE DEF stepRows
<1> QED BY <1>1, <1>3, <1>4, <1>5, <1>6, <1>7, <1>8, <1>9, AddedPreserves

LEMMA ClaimIInv ==
  ASSUME IInv, NEW s \in Step, NEW w \in Worker, Claim(s, w)
  PROVE  IInv'
<1> DEFINE t == steps[s].template
           lease == [state |-> "leased", worker |-> w,
                     lease |-> LeaseSeconds[t], deadline |-> MaximumSeconds[t]]
<1>1. /\ TypeOK
      /\ attempts \in [Step -> Seq(AttemptRow)]
      /\ steps[s].state = "pending" /\ ~HasLease(s)
      /\ steps[s].instance \in OpenInstances
      /\ t \in Template
      /\ MaxAttempts(t) \in Nat /\ Len(attempts[s]) < MaxAttempts(t)
  <2>1. TypeOK /\ steps[s].state = "pending"
    BY DEF IInv, Claim, Claimable
  <2>2. t \in Template
    BY <2>1 DEF TypeOK
  <2> QED BY <2>1, <2>2, BudgetType
          DEF TypeOK, Claim, Claimable, Open, OpenInstances, BudgetLeft
<1>2. lease \in AttemptRow /\ lease.state = "leased"
  BY <1>1, TimingAssumption DEF AttemptRow, AttemptState
<1> HIDE DEF lease
<1>3. attempts' = [attempts EXCEPT ![s] = Append(attempts[s], lease)]
  BY <1>1 DEF Claim, lease
<1>4. /\ attempts'[s] = Append(attempts[s], lease)
      /\ \A u \in Step : u # s => attempts'[u] = attempts[u]
      /\ attempts' \in [Step -> Seq(AttemptRow)]
  BY <1>1, <1>2, <1>3
<1>5. UNCHANGED <<instances, steps, waits>> /\ OpenInstances' = OpenInstances
  BY DEF Claim, OpenInstances
<1>6. RowInv(steps[s], attempts'[s], OpenInstances)
  <2>1. attempts[s] \in Seq(AttemptRow)
    BY <1>1
  <2>2. /\ Len(attempts'[s]) = Len(attempts[s]) + 1
        /\ attempts'[s][Len(attempts[s]) + 1] = lease
        /\ \A n \in DOMAIN attempts[s] : attempts'[s][n] = attempts[s][n]
        /\ DOMAIN attempts'[s] = DOMAIN attempts[s] \cup {Len(attempts[s]) + 1}
    BY <1>4, <2>1
  <2>3. \A n \in DOMAIN attempts[s] : attempts[s][n].state # "leased"
    BY <1>1 DEF HasLease
  <2>4. steps[s].deferred = NotDeferred
    BY <1>1, <2>3 DEF IInv, RowInv, Claim, Claimable, Never
  <2> QED BY <1>1, <1>2, <2>1, <2>2, <2>3, <2>4 DEF RowInv
<1>7. \A u \in Step : RowInv(steps[u], attempts'[u], OpenInstances)
  BY <1>4, <1>6 DEF IInv
<1>8. TypeOK'
  BY <1>1, <1>4, <1>5 DEF TypeOK
<1> QED BY <1>5, <1>7, <1>8 DEF IInv

LEMMA RenewIInv ==
  ASSUME IInv, NEW s \in Step, NEW n \in DOMAIN attempts[s], NEW w \in Worker,
         Renew(s, n, w)
  PROVE  IInv'
<1> DEFINE seconds == Renewal(steps[s].template, attempts[s][n].deadline)
           renewed == [attempts[s][n] EXCEPT !.lease = seconds]
<1>1. /\ TypeOK
      /\ attempts \in [Step -> Seq(AttemptRow)]
      /\ attempts[s] \in Seq(AttemptRow)
      /\ attempts[s][n] \in AttemptRow
      /\ attempts[s][n].state = "leased"
  BY DEF IInv, TypeOK, Renew, LiveLease
<1>2. steps[s].template \in Template
  BY <1>1 DEF IInv, RowInv, TypeOK
<1>3. seconds \in Nat
  BY <1>1, <1>2, TimingAssumption DEF Renewal, AttemptRow
<1> HIDE DEF seconds
<1>4. renewed \in AttemptRow /\ renewed.state = "leased"
  BY <1>1, <1>3 DEF AttemptRow
<1>5. attempts' = [attempts EXCEPT ![s] = [attempts[s] EXCEPT ![n] = renewed]]
  BY <1>1 DEF Renew, seconds
<1> HIDE DEF renewed
<1>6. /\ attempts'[s] = [attempts[s] EXCEPT ![n] = renewed]
      /\ \A u \in Step : u # s => attempts'[u] = attempts[u]
      /\ attempts' \in [Step -> Seq(AttemptRow)]
  BY <1>1, <1>4, <1>5
<1>7. /\ Len(attempts'[s]) = Len(attempts[s])
      /\ DOMAIN attempts'[s] = DOMAIN attempts[s]
      /\ \A m \in DOMAIN attempts[s] : attempts'[s][m].state = attempts[s][m].state
  BY <1>1, <1>4, <1>6
<1>8. UNCHANGED <<instances, steps, waits>> /\ OpenInstances' = OpenInstances
  BY DEF Renew, OpenInstances
<1>9. RowInv(steps[s], attempts'[s], OpenInstances)
  <2>1. RowInv(steps[s], attempts[s], OpenInstances) /\ attempts[s] # <<>>
    BY <1>1 DEF IInv
  <2> QED BY <1>7, <2>1 DEF RowInv
<1>10. \A u \in Step : RowInv(steps[u], attempts'[u], OpenInstances)
  BY <1>6, <1>9 DEF IInv
<1>11. TypeOK'
  BY <1>1, <1>6, <1>8 DEF TypeOK
<1> QED BY <1>8, <1>10, <1>11 DEF IInv

LEMMA ResolveDeferredIInv ==
  ASSUME IInv, NEW s \in Step, NEW n \in DOMAIN attempts[s], NEW source \in Source,
         ResolveDeferred(s, n, source)
  PROVE  IInv'
<1>1. /\ TypeOK
      /\ steps \in [Step -> StepRow]
      /\ attempts[s] \in Seq(AttemptRow)
      /\ steps[s].state = "pending" /\ steps[s].deferred = n
      /\ steps[s].instance \in OpenInstances
      /\ steps[s].template \in Template
  BY DEF IInv, TypeOK, ResolveDeferred, Targets, Open, OpenInstances
<1>2. /\ n \in Nat \ {0}
      /\ \A m \in DOMAIN attempts[s] : attempts[s][m].state # "leased"
      /\ Len(attempts[s]) <= MaxAttempts(steps[s].template)
  BY <1>1 DEF IInv, RowInv, NotDeferred
<1>3. PICK state \in StepState, claimable \in Nat \cup {Never} :
        /\ steps' = UpdateStep(s, state, claimable, NotDeferred)
        /\ \/ state \in {"succeeded", "failed"}
           \/ /\ state = "pending" /\ claimable # Never
              /\ Len(attempts[s]) < MaxAttempts(steps[s].template)
  <2>1. {"succeeded", "failed", "pending"} \subseteq StepState /\ 0 # Never
    BY DEF StepState, Never
  <2>2. CASE steps' = Outcome(s, "succeeded")
    BY <2>1, <2>2 DEF Outcome
  <2>3. CASE steps' = Outcome(s, "failed")
    BY <2>1, <2>3 DEF Outcome
  <2>4. CASE BudgetLeft(s) /\ steps' = ClaimableAfter(s, 0)
    BY <2>1, <2>4 DEF BudgetLeft, ClaimableAfter
  <2> QED BY <2>2, <2>3, <2>4 DEF ResolveDeferred
<1> DEFINE old == steps[s]
           after == [old EXCEPT !.state = state, !.claimable = claimable,
                                !.deferred = NotDeferred]
<1>4. steps' = [steps EXCEPT ![s] = after]
  BY <1>1, <1>3 DEF UpdateStep
<1>5. old \in StepRow /\ old = steps[s]
  BY <1>1
<1> HIDE DEF old
<1>6. after \in StepRow
  BY <1>5 DEF StepRow, NotDeferred
<1>7. /\ after.state = state /\ after.claimable = claimable
      /\ after.deferred = NotDeferred /\ after.instance = old.instance
      /\ after.template = old.template
  BY <1>5, <1>6 DEF StepRow
<1> HIDE DEF after
<1>8. /\ steps' \in [Step -> StepRow] /\ steps'[s] = after
      /\ \A u \in Step : u # s => steps'[u] = steps[u]
  BY <1>1, <1>4, <1>6
<1>9. UNCHANGED <<instances, attempts, waits>> /\ OpenInstances' = OpenInstances
  BY DEF ResolveDeferred, OpenInstances
<1>10. RowInv(steps'[s], attempts[s], OpenInstances)
  <2>1. MaxAttempts(steps[s].template) \in Nat
    BY <1>1, BudgetType
  <2> QED BY <1>1, <1>2, <1>3, <1>5, <1>7, <1>8, <2>1 DEF RowInv
<1>11. \A u \in Step : RowInv(steps'[u], attempts[u], OpenInstances)
  BY <1>8, <1>10 DEF IInv
<1>12. TypeOK'
  <2>1. \A u \in Step : steps'[u].state # "absent" =>
          steps'[u].instance \in Instance /\ steps'[u].template \in Template
    BY <1>1, <1>5, <1>7, <1>8 DEF TypeOK, OpenInstances
  <2> QED BY <1>1, <1>8, <1>9, <2>1 DEF TypeOK
<1> QED BY <1>9, <1>11, <1>12 DEF IInv

LEMMA CloseIInv ==
  ASSUME IInv, NEW i \in Instance, Close(i)
  PROVE  IInv'
<1>1. /\ TypeOK
      /\ steps \in [Step -> StepRow] /\ waits \in [Wait -> WaitRow]
      /\ attempts \in [Step -> Seq(AttemptRow)]
      /\ instances' \in [Instance -> {"absent", "open", "closed"}]
      /\ OpenInstances' = OpenInstances \ {i}
  BY DEF IInv, TypeOK, Close, Open, OpenInstances
<1>2. ASSUME NEW s \in Step
      PROVE  /\ steps'[s] \in StepRow
             /\ steps'[s].instance = steps[s].instance
             /\ steps'[s].template = steps[s].template
             /\ IF steps[s].instance = i /\ steps[s].state = "pending"
                THEN steps'[s].state = "cancelled"
                ELSE steps'[s] = steps[s]
  <2>1. CASE steps[s].instance = i /\ steps[s].state = "pending"
    <3> DEFINE old == steps[s]
               after == [old EXCEPT !.state = "cancelled", !.claimable = Never,
                                    !.deferred = NotDeferred]
    <3>1. steps'[s] = after
      BY <1>1, <2>1 DEF Close, CancelledSteps, Outcome, UpdateStep
    <3>2. old \in StepRow /\ old = steps[s]
      BY <1>1
    <3> HIDE DEF old
    <3>3. after \in StepRow
      BY <3>2 DEF StepRow, StepState, NotDeferred
    <3>4. after.state = "cancelled" /\ after.instance = old.instance
          /\ after.template = old.template
      BY <3>2, <3>3 DEF StepRow
    <3> HIDE DEF after
    <3> QED BY <2>1, <3>1, <3>2, <3>3, <3>4
  <2>2. CASE ~(steps[s].instance = i /\ steps[s].state = "pending")
    BY <1>1, <2>2 DEF Close, CancelledSteps
  <2> QED BY <2>1, <2>2
<1>3. ASSUME NEW s \in Step
      PROVE  /\ attempts'[s] \in Seq(AttemptRow)
             /\ Len(attempts'[s]) = Len(attempts[s])
             /\ \A n \in DOMAIN attempts[s] :
                  IF steps[s].instance = i /\ attempts[s][n].state = "leased"
                  THEN attempts'[s][n].state = "cancelled"
                  ELSE attempts'[s][n] = attempts[s][n]
  <2> DEFINE after(n) == IF steps[s].instance = i /\ attempts[s][n].state = "leased"
                         THEN Settled(attempts[s][n], "cancelled")
                         ELSE attempts[s][n]
  <2>1. attempts[s] \in Seq(AttemptRow)
    BY <1>1
  <2>2. attempts'[s] = [n \in DOMAIN attempts[s] |-> after(n)]
    BY DEF Close, CancelledAttempts
  <2>3. ASSUME NEW n \in DOMAIN attempts[s]
        PROVE  /\ after(n) \in AttemptRow
               /\ IF steps[s].instance = i /\ attempts[s][n].state = "leased"
                  THEN after(n).state = "cancelled"
                  ELSE after(n) = attempts[s][n]
    <3>1. attempts[s][n] \in AttemptRow
      BY <2>1
    <3>2. /\ Settled(attempts[s][n], "cancelled") \in AttemptRow
          /\ Settled(attempts[s][n], "cancelled").state = "cancelled"
      BY <3>1 DEF Settled, AttemptRow, AttemptState
    <3> QED BY <3>1, <3>2
  <2> HIDE DEF after
  <2>4. DOMAIN attempts[s] = 1..Len(attempts[s]) /\ Len(attempts[s]) \in Nat
    BY <2>1
  <2>5. attempts'[s] \in Seq(AttemptRow) /\ Len(attempts'[s]) = Len(attempts[s])
    BY <2>2, <2>3, <2>4
  <2> QED BY <2>2, <2>3, <2>5
<1>4. ASSUME NEW w \in Wait
      PROVE  /\ waits'[w] \in WaitRow
             /\ waits'[w].instance = waits[w].instance
             /\ waits'[w].state = "absent" <=> waits[w].state = "absent"
             /\ waits'[w].state = "unsatisfied" =>
                  waits[w].state = "unsatisfied" /\ waits[w].instance # i
  <2>1. CASE waits[w].instance = i /\ waits[w].state = "unsatisfied"
    <3>1. waits'[w] = [waits[w] EXCEPT !.state = "cancelled"]
      BY <1>1, <2>1 DEF Close, CancelledWaits
    <3>2. waits[w] \in WaitRow
      BY <1>1
    <3> QED BY <2>1, <3>1, <3>2 DEF WaitRow, WaitState
  <2>2. CASE ~(waits[w].instance = i /\ waits[w].state = "unsatisfied")
    BY <1>1, <2>2 DEF Close, CancelledWaits
  <2> QED BY <2>1, <2>2
<1>5. /\ steps' = [s \in Step |-> steps'[s]]
      /\ attempts' = [s \in Step |-> attempts'[s]]
      /\ waits' = [w \in Wait |-> waits'[w]]
  BY DEF Close, CancelledSteps, CancelledAttempts, CancelledWaits
<1>6. /\ steps' \in [Step -> StepRow]
      /\ attempts' \in [Step -> Seq(AttemptRow)]
      /\ waits' \in [Wait -> WaitRow]
  BY <1>2, <1>3, <1>4, <1>5
<1>7. TypeOK'
  <2>1. \A s \in Step : steps'[s].state # "absent" =>
          steps'[s].instance \in Instance /\ steps'[s].template \in Template
    BY <1>1, <1>2 DEF TypeOK
  <2>2. \A w \in Wait : waits'[w].state # "absent" => waits'[w].instance \in Instance
    BY <1>1, <1>4 DEF TypeOK
  <2> QED BY <1>1, <1>6, <2>1, <2>2 DEF TypeOK
<1>8. ASSUME NEW s \in Step
      PROVE  RowInv(steps'[s], attempts'[s], OpenInstances')
  <2>1. RowInv(steps[s], attempts[s], OpenInstances)
    BY DEF IInv
  <2>2. DOMAIN attempts'[s] = DOMAIN attempts[s]
    BY <1>1, <1>3
  <2>3. attempts[s] = <<>> => attempts'[s] = <<>>
    BY <1>1, <1>3
  <2>4. CASE steps[s].instance = i
    <3>1. \A n \in DOMAIN attempts'[s] : attempts'[s][n].state # "leased"
      BY <1>3, <2>2, <2>4
    <3>2. steps'[s].state # "pending" /\ (steps'[s].state = "absent" => steps[s].state = "absent")
      BY <1>2, <2>4
    <3> QED BY <1>2, <1>3, <2>1, <2>3, <3>1, <3>2 DEF RowInv
  <2>5. CASE steps[s].instance # i
    <3>1. steps'[s] = steps[s]
      BY <1>2, <2>5
    <3>2. \A n \in DOMAIN attempts[s] : attempts'[s][n] = attempts[s][n]
      BY <1>3, <2>5
    <3> QED BY <1>1, <1>3, <2>1, <2>2, <2>3, <2>5, <3>1, <3>2 DEF RowInv
  <2> QED BY <2>4, <2>5
<1>9. \A w \in Wait :
        waits'[w].state = "unsatisfied" => waits'[w].instance \in OpenInstances'
  BY <1>1, <1>4 DEF IInv
<1> QED BY <1>7, <1>8, <1>9 DEF IInv

LEMMA TickIInv ==
  ASSUME IInv, Tick
  PROVE  IInv'
<1>1. /\ TypeOK
      /\ steps \in [Step -> StepRow] /\ attempts \in [Step -> Seq(AttemptRow)]
      /\ UNCHANGED <<instances, waits>> /\ OpenInstances' = OpenInstances
  BY DEF IInv, TypeOK, Tick, OpenInstances
<1>2. ASSUME NEW s \in Step
      PROVE  /\ steps'[s] \in StepRow
             /\ steps'[s].claimable = Never <=> steps[s].claimable = Never
             /\ steps'[s].state = steps[s].state
             /\ steps'[s].deferred = steps[s].deferred
             /\ steps'[s].instance = steps[s].instance
             /\ steps'[s].template = steps[s].template
  <2> DEFINE old == steps[s]
             claimable == Elapse(old.claimable)
             after == [old EXCEPT !.claimable = claimable]
  <2>1. old \in StepRow /\ old = steps[s] /\ steps'[s] = after
    BY <1>1 DEF Tick
  <2> HIDE DEF old
  <2>2. claimable \in Nat \cup {Never} /\ (claimable = Never <=> old.claimable = Never)
    BY <2>1 DEF Elapse, StepRow, Never
  <2> HIDE DEF claimable
  <2>3. after \in StepRow
    BY <2>1, <2>2 DEF StepRow
  <2>4. /\ after.claimable = claimable /\ after.state = old.state
        /\ after.deferred = old.deferred /\ after.instance = old.instance
        /\ after.template = old.template
    BY <2>1, <2>3 DEF StepRow
  <2> HIDE DEF after
  <2> QED BY <2>1, <2>2, <2>3, <2>4
<1>3. ASSUME NEW s \in Step
      PROVE  /\ attempts'[s] \in Seq(AttemptRow)
             /\ Len(attempts'[s]) = Len(attempts[s])
             /\ \A n \in DOMAIN attempts[s] :
                  attempts'[s][n].state = attempts[s][n].state
  <2> DEFINE after(n) ==
        IF attempts[s][n].state = "leased"
        THEN [attempts[s][n] EXCEPT !.lease = Elapse(@), !.deadline = Elapse(@)]
        ELSE attempts[s][n]
  <2>1. attempts[s] \in Seq(AttemptRow)
    BY <1>1
  <2>2. attempts'[s] = [n \in DOMAIN attempts[s] |-> after(n)]
    BY DEF Tick
  <2>3. ASSUME NEW n \in DOMAIN attempts[s]
        PROVE  after(n) \in AttemptRow /\ after(n).state = attempts[s][n].state
    <3>1. attempts[s][n] \in AttemptRow
      BY <2>1
    <3>2. \A k \in Nat : Elapse(k) \in Nat
      BY DEF Elapse
    <3> QED BY <3>1, <3>2 DEF AttemptRow
  <2> HIDE DEF after
  <2>4. DOMAIN attempts[s] = 1..Len(attempts[s]) /\ Len(attempts[s]) \in Nat
    BY <2>1
  <2>5. attempts'[s] \in Seq(AttemptRow) /\ Len(attempts'[s]) = Len(attempts[s])
    BY <2>2, <2>3, <2>4
  <2> QED BY <2>2, <2>3, <2>5
<1>4. /\ steps' = [s \in Step |-> steps'[s]]
      /\ attempts' = [s \in Step |-> attempts'[s]]
  BY DEF Tick
<1>5. TypeOK'
  <2>1. steps' \in [Step -> StepRow] /\ attempts' \in [Step -> Seq(AttemptRow)]
    BY <1>2, <1>3, <1>4
  <2>2. \A s \in Step : steps'[s].state # "absent" =>
          steps'[s].instance \in Instance /\ steps'[s].template \in Template
    BY <1>1, <1>2 DEF TypeOK
  <2> QED BY <1>1, <2>1, <2>2 DEF TypeOK
<1>6. ASSUME NEW s \in Step
      PROVE  RowInv(steps'[s], attempts'[s], OpenInstances)
  <2>1. RowInv(steps[s], attempts[s], OpenInstances)
    BY DEF IInv
  <2>2. /\ DOMAIN attempts'[s] = DOMAIN attempts[s]
        /\ attempts[s] = <<>> => attempts'[s] = <<>>
    BY <1>1, <1>3
  <2> QED BY <1>2, <1>3, <2>1, <2>2 DEF RowInv
<1> QED BY <1>1, <1>5, <1>6 DEF IInv

-----------------------------------------------------------------------------
(* IInv is inductive.                                                      *)
LEMMA NextIInv == IInv /\ [Next]_vars => IInv'
<1> SUFFICES ASSUME IInv, [Next]_vars
             PROVE  IInv'
  OBVIOUS
<1>1. ASSUME NEW i \in Instance, Close(i) PROVE IInv'
  BY <1>1, CloseIInv
<1>2. ASSUME NEW i \in Instance, NEW r \in Route, Start(i, r) PROVE IInv'
  BY <1>2, StartIInv
<1>3. ASSUME NEW s \in Step, NEW w \in Worker, Claim(s, w) PROVE IInv'
  BY <1>3, ClaimIInv
<1>4. ASSUME NEW s \in Step, NEW n \in DOMAIN attempts[s], Recover(s, n) PROVE IInv'
  BY <1>4, DispositionIInv DEF Recover, Expired
<1>5. ASSUME NEW s \in Step, NEW n \in DOMAIN attempts[s], NEW w \in Worker,
             Renew(s, n, w)
      PROVE  IInv'
  BY <1>5, RenewIInv
<1>6. ASSUME NEW s \in Step, NEW n \in DOMAIN attempts[s], NEW w \in Worker,
             Accept(s, n, w)
      PROVE  IInv'
  BY <1>6, DispositionIInv DEF Accept, LiveLease
<1>7. ASSUME NEW s \in Step, NEW n \in DOMAIN attempts[s], NEW source \in Source,
             ResolveDeferred(s, n, source)
      PROVE  IInv'
  BY <1>7, ResolveDeferredIInv
<1>8. ASSUME NEW w \in Wait, NEW signal \in Signal, NEW r \in Route,
             AcceptSignal(w, signal, r)
      PROVE  IInv'
  BY <1>8, AcceptSignalIInv
<1>9. CASE Tick
  BY <1>9, TickIInv
<1>10. CASE UNCHANGED vars
  BY <1>10 DEF IInv, TypeOK, OpenInstances, vars
<1> QED BY <1>1, <1>2, <1>3, <1>4, <1>5, <1>6, <1>7, <1>8, <1>9, <1>10 DEF Next

LEMMA IInvAlways == Spec => []IInv
BY InitIInv, NextIInv, PTL DEF Spec

(* Rows are typed in every reachable state, whatever the pools' sizes.     *)
THEOREM KernelTypeCorrect == Spec => []TypeOK
<1>1. IInv => TypeOK
  BY DEF IInv
<1> QED BY <1>1, IInvAlways, PTL

(* At most one worker has authority over a Step, and it holds the newest   *)
(* Attempt of a pending Step that nobody deferred, in an open Instance:    *)
(* what accept_result, renew and guard_current_attempt rely on.            *)
THEOREM LeasesAreCurrent == Spec => []LeaseIsCurrent
BY IInvAlways, IInvImplies, PTL

(* No Step is stranded: a pending Step is held, or deferred on its newest  *)
(* Attempt, or claimable now or later with budget left.                    *)
THEOREM NoStepIsLost == Spec => []PendingHasDriver
BY IInvAlways, IInvImplies, PTL

(* close_instance leaves nothing under way, and no transaction that was    *)
(* waiting for the Instance's lock adds to a closed Instance.              *)
THEOREM ClosedInstancesAreQuiet == Spec => []ClosedIsQuiet
BY IInvAlways, IInvImplies, PTL

-----------------------------------------------------------------------------
(***************************************************************************)
(* What the Trace of the kernel says about its rows: Attempts are disposed *)
(* of exactly once, outcomes rest on the newest Attempt, and Routes are    *)
(* activated once.                                                         *)
(***************************************************************************)

(* The inductive invariant, on top of IInv.  T is the Trace; a Step's      *)
(* history is told by its row, its Attempts and the dispositions of them.  *)
Decided(s, n, T) == \E kind \in Disposition : Row(kind, <<s, n>>) \in T

History(s, row, list, T) ==
  /\ \A n \in Nat : Decided(s, n, T) <=>
       n \in DOMAIN list /\ list[n].state \in {"completed", "abandoned"}
  /\ \A n \in Nat : \A k, l \in Disposition :
       Row(k, <<s, n>>) \in T /\ Row(l, <<s, n>>) \in T => k = l
  /\ row.state = "succeeded" =>
       \E kind \in {"step_outcome", "step_deferral"} : Row(kind, <<s, Len(list)>>) \in T
  /\ row.state = "failed" =>
       \E kind \in {"recovery_disposition", "step_deferral"} :
         Row(kind, <<s, Len(list)>>) \in T
  /\ \A n \in Nat : Row("step_outcome", <<s, n>>) \in T =>
       n = Len(list) /\ row.state = "succeeded"
  /\ row.state = "pending" /\ row.deferred # NotDeferred =>
       Row("step_deferral", <<s, Len(list)>>) \in T

HistoryInv == \A s \in Step : History(s, steps[s], attempts[s], trace)

(* The Trace knows the command, the Signal or the Attempt that a Route was *)
(* activated by.                                                           *)
Used(source, T) ==
  \/ \E i \in Instance : source = <<"command", i>> /\ Row("command_start", <<i>>) \in T
  \/ \E signal \in Signal :
       source = <<"signal", signal>> /\ Row("signal_acceptance", <<signal>>) \in T
  \/ \E s \in Step, n \in Nat : source = <<"step", s, n>> /\ Decided(s, n, T)

ActivationInv ==
  /\ \A s \in Step : IF steps[s].state = "absent" THEN steps[s].source = <<>>
                     ELSE Used(steps[s].source, trace)
  /\ \A w \in Wait :
       IF waits[w].state = "satisfied"
       THEN /\ waits[w].signal \in Signal
            /\ Row("signal_acceptance", <<waits[w].signal>>) \in trace
       ELSE waits[w].signal = None
  /\ ActivatedOnce

HInv == IInv /\ HistoryInv /\ ActivationInv

-----------------------------------------------------------------------------
(* Histories.                                                              *)

(* A history goes on when nothing is decided: leases may be cancelled, and *)
(* with them a pending Step.                                               *)
LEMMA HistoryKept ==
  ASSUME NEW s, NEW row, NEW after, NEW list \in Seq(AttemptRow),
         NEW next \in Seq(AttemptRow), NEW T, NEW U,
         History(s, row, list, T),
         Len(next) = Len(list),
         \A n \in DOMAIN list :
           \/ next[n].state = list[n].state
           \/ list[n].state = "leased" /\ next[n].state = "cancelled",
         \/ after.state = row.state /\ after.deferred = row.deferred
         \/ row.state = "pending" /\ after.state = "cancelled",
         \A kind \in Disposition, n \in Nat :
           Row(kind, <<s, n>>) \in U <=> Row(kind, <<s, n>>) \in T
  PROVE  History(s, after, next, U)
<1>1. DOMAIN next = DOMAIN list /\ Len(list) \in Nat
  OBVIOUS
<1>2. \A n \in Nat : Decided(s, n, U) <=> Decided(s, n, T)
  BY DEF Decided
<1>3. {"step_outcome", "step_deferral", "recovery_disposition"} = Disposition
  BY DEF Disposition
<1> HIDE DEF Disposition
<1>4. \A n \in Nat : Decided(s, n, U) <=>
        n \in DOMAIN next /\ next[n].state \in {"completed", "abandoned"}
  BY <1>1, <1>2 DEF History
<1>5. \A n \in Nat : \A k, l \in Disposition :
        Row(k, <<s, n>>) \in U /\ Row(l, <<s, n>>) \in U => k = l
  BY DEF History
<1>6. after.state = "succeeded" =>
        \E kind \in {"step_outcome", "step_deferral"} : Row(kind, <<s, Len(next)>>) \in U
  BY <1>1, <1>3 DEF History
<1>7. after.state = "failed" =>
        \E kind \in {"recovery_disposition", "step_deferral"} :
          Row(kind, <<s, Len(next)>>) \in U
  BY <1>1, <1>3 DEF History
<1>8. \A n \in Nat : Row("step_outcome", <<s, n>>) \in U =>
        n = Len(next) /\ after.state = "succeeded"
  BY <1>1, <1>3 DEF History
<1>9. after.state = "pending" /\ after.deferred # NotDeferred =>
        Row("step_deferral", <<s, Len(next)>>) \in U
  BY <1>1, <1>3 DEF History
<1> QED BY <1>4, <1>5, <1>6, <1>7, <1>8, <1>9 DEF History

(* A Step that was just materialized has no history yet.                   *)
LEMMA HistoryBegins ==
  ASSUME NEW s, NEW row, NEW after, NEW T, NEW U,
         History(s, row, <<>>, T),
         row.state = "absent",
         after.state = "pending", after.deferred = NotDeferred,
         \A kind \in Disposition, n \in Nat :
           Row(kind, <<s, n>>) \in U <=> Row(kind, <<s, n>>) \in T
  PROVE  History(s, after, <<>>, U)
<1>1. \A n \in Nat : ~Decided(s, n, T)
  BY DEF History
<1>2. \A kind \in Disposition, n \in Nat : Row(kind, <<s, n>>) \notin U
  BY <1>1 DEF Decided
<1>3. "step_outcome" \in Disposition
  BY DEF Disposition
<1> QED BY <1>2, <1>3 DEF History, Decided

(* What was decided about the Step whose Attempt n is disposed of.         *)
Decision(kind, row, n) ==
  \/ kind = "step_outcome" /\ row.state = "succeeded"
  \/ kind = "recovery_disposition" /\ row.state = "failed"
  \/ /\ kind = "recovery_disposition"
     /\ row.state = "pending" /\ row.deferred = NotDeferred
  \/ kind = "step_deferral" /\ row.state = "pending" /\ row.deferred = n

LEMMA HistoryGrows ==
  ASSUME NEW s, NEW row, NEW after, NEW list \in Seq(AttemptRow),
         NEW next \in Seq(AttemptRow), NEW T, NEW U,
         NEW n \in DOMAIN list, NEW kind \in Disposition,
         History(s, row, list, T),
         row.state = "pending",
         n = Len(list), list[n].state = "leased",
         Len(next) = n, next[n].state \in {"completed", "abandoned"},
         \A m \in DOMAIN list : m # n => next[m] = list[m],
         Decision(kind, after, n),
         \A k \in Disposition, m \in Nat : Row(k, <<s, m>>) \in U <=>
           Row(k, <<s, m>>) \in T \/ (k = kind /\ m = n)
  PROVE  History(s, after, next, U)
<1>1. DOMAIN next = DOMAIN list /\ n \in Nat /\ n = Len(next)
  OBVIOUS
<1>2. \A k \in Disposition : Row(k, <<s, n>>) \notin T
  BY <1>1 DEF History, Decided
<1>3. {"step_outcome", "step_deferral", "recovery_disposition"} = Disposition
  BY DEF Disposition
<1> HIDE DEF Disposition
<1>4. \A m \in Nat : Decided(s, m, U) <=> Decided(s, m, T) \/ m = n
  BY DEF Decided
<1>5. \A m \in Nat : Decided(s, m, U) <=>
        m \in DOMAIN next /\ next[m].state \in {"completed", "abandoned"}
  BY <1>1, <1>4 DEF History
<1>6. \A m \in Nat : \A k, l \in Disposition :
        Row(k, <<s, m>>) \in U /\ Row(l, <<s, m>>) \in U => k = l
  BY <1>2 DEF History
<1>7. \A m \in Nat : Row("step_outcome", <<s, m>>) \notin T
  BY DEF History
<1>8. Row(kind, <<s, n>>) \in U
  BY <1>1
<1>9. \A m \in Nat : Row("step_outcome", <<s, m>>) \in U =>
        kind = "step_outcome" /\ m = n
  BY <1>3, <1>7
<1>10. /\ after.state = "succeeded" => kind = "step_outcome"
       /\ after.state = "failed" => kind = "recovery_disposition"
       /\ after.state = "pending" /\ after.deferred # NotDeferred => kind = "step_deferral"
       /\ kind = "step_outcome" => after.state = "succeeded"
  BY DEF Decision
<1> QED BY <1>1, <1>5, <1>6, <1>8, <1>9, <1>10 DEF History

(* Rows of other kinds decide nothing.                                     *)
LEMMA OtherRows ==
  ASSUME NEW T, NEW kind, kind \notin Disposition, NEW source
  PROVE  \A k \in Disposition, s \in Step, n \in Nat :
           Row(k, <<s, n>>) \in T \cup {Row(kind, source)} <=> Row(k, <<s, n>>) \in T
<1>1. ASSUME NEW k \in Disposition, NEW s \in Step, NEW n \in Nat
      PROVE  Row(k, <<s, n>>) # Row(kind, source)
  BY DEF Row
<1> QED BY <1>1

-----------------------------------------------------------------------------
(* Activations.                                                            *)

(* The rows that the activation "source" of a Route adds for Instance i,   *)
(* on top of what its transaction wrote: one row for each slot.            *)
Activated(i, source, new, fresh, stepRows, waitRows) ==
  /\ new \subseteq {s \in Step : steps[s].state = "absent"}
  /\ fresh \subseteq {w \in Wait : waits[w].state = "absent"}
  /\ \A s \in Step \ new : steps'[s] = stepRows[s]
  /\ \A w \in Wait \ fresh : waits'[w] = waitRows[w]
  /\ \A s \in new :
       /\ steps'[s].state = "pending"
       /\ steps'[s].deferred = NotDeferred
       /\ steps'[s].instance = i
       /\ steps'[s].source = source
  /\ \A s, r \in new : steps'[r].slot = steps'[s].slot => r = s
  /\ \A w \in fresh : waits'[w].state = "unsatisfied" /\ waits'[w].signal = None

LEMMA MaterializeActivates ==
  ASSUME TypeOK, NEW i, NEW r \in Route, NEW source, NEW stepRows, NEW waitRows,
         Materialize(stepRows, waitRows, i, r, source)
  PROVE  \E new, fresh : Activated(i, source, new, fresh, stepRows, waitRows)
<1>1. PICK pick \in Draws(StepSlots[r], Fresh(steps)),
           draw \in Draws(WaitSlots[r], Fresh(waits)) :
        /\ steps' = [s \in Step |->
             IF \E x \in StepSlots[r] : pick[x] = s
             THEN LET x == CHOOSE y \in StepSlots[r] : pick[y] = s
                  IN [state |-> "pending", instance |-> i,
                      template |-> SlotTemplate[r][x],
                      claimable |-> 0, deferred |-> NotDeferred,
                      deps |-> {pick[d] : d \in DependsOn[r][x]},
                      source |-> source, slot |-> x]
             ELSE stepRows[s]]
        /\ waits' = [w \in Wait |->
             IF \E x \in WaitSlots[r] : draw[x] = w
             THEN [state |-> "unsatisfied", instance |-> i, source |-> source,
                   slot |-> CHOOSE x \in WaitSlots[r] : draw[x] = w,
                   signal |-> None]
             ELSE waitRows[w]]
  BY DEF Materialize
<1> DEFINE new == {pick[x] : x \in StepSlots[r]}
           fresh == {draw[x] : x \in WaitSlots[r]}
<1>2. /\ pick \in [StepSlots[r] -> {s \in Step : steps[s].state = "absent"}]
      /\ draw \in [WaitSlots[r] -> {w \in Wait : waits[w].state = "absent"}]
  BY DEF TypeOK, Draws, Fresh
<1>3. ASSUME NEW s \in new
      PROVE  /\ steps'[s].state = "pending"
             /\ steps'[s].deferred = NotDeferred
             /\ steps'[s].instance = i
             /\ steps'[s].source = source
             /\ steps'[s].slot \in StepSlots[r] /\ pick[steps'[s].slot] = s
  <2> DEFINE x == CHOOSE y \in StepSlots[r] : pick[y] = s
  <2>1. x \in StepSlots[r] /\ pick[x] = s
    OBVIOUS
  <2>2. steps'[s] = [state |-> "pending", instance |-> i,
                     template |-> SlotTemplate[r][x],
                     claimable |-> 0, deferred |-> NotDeferred,
                     deps |-> {pick[d] : d \in DependsOn[r][x]},
                     source |-> source, slot |-> x]
    BY <1>1, <1>2, <2>1
  <2> HIDE DEF x
  <2> QED BY <2>1, <2>2
<1>4. ASSUME NEW w \in fresh
      PROVE  waits'[w].state = "unsatisfied" /\ waits'[w].signal = None
  <2> DEFINE x == CHOOSE y \in WaitSlots[r] : draw[y] = w
  <2>1. waits'[w] = [state |-> "unsatisfied", instance |-> i, source |-> source,
                     slot |-> x, signal |-> None]
    BY <1>1, <1>2
  <2> HIDE DEF x
  <2> QED BY <2>1
<1>5. /\ \A s \in Step \ new : steps'[s] = stepRows[s]
      /\ \A w \in Wait \ fresh : waits'[w] = waitRows[w]
  BY <1>1
<1>6. /\ new \subseteq {s \in Step : steps[s].state = "absent"}
      /\ fresh \subseteq {w \in Wait : waits[w].state = "absent"}
  BY <1>2
<1> HIDE DEF new, fresh
<1>7. \A s, q \in new : steps'[q].slot = steps'[s].slot => q = s
  BY <1>3
<1> QED BY <1>3, <1>4, <1>5, <1>6, <1>7 DEF Activated

(* A transaction that activates no Route, as an activation of nothing.     *)
LEMMA NothingActivated ==
  ASSUME NEW i, NEW source
  PROVE  Activated(i, source, {}, {}, steps', waits')
BY DEF Activated

(* Fields of a Step's row that a transaction never rewrites.               *)
SameOrigin(row, old) ==
  /\ row.state = "absent" <=> old.state = "absent"
  /\ row.source = old.source
  /\ row.slot = old.slot
  /\ row.instance = old.instance

(* Waits are satisfied by a Signal, or cancelled, or left alone.           *)
WaitMoves(row, old, T, U) ==
  \/ row = old
  \/ /\ old.state = "unsatisfied" /\ row.state = "cancelled"
     /\ row.signal = old.signal
  \/ /\ old.state = "unsatisfied" /\ row.state = "satisfied"
     /\ row.signal \in Signal
     /\ Row("signal_acceptance", <<row.signal>>) \notin T
     /\ Row("signal_acceptance", <<row.signal>>) \in U

LEMMA UsedGrows ==
  ASSUME NEW source, NEW T, NEW U, T \subseteq U, Used(source, T)
  PROVE  Used(source, U)
BY DEF Used, Decided

LEMMA UsedIsSomething == \A T : ~Used(<<>>, T)
BY DEF Used

(* A Route is activated by what the Trace did not know and does then know. *)
LEMMA ActivationKept ==
  ASSUME ActivationInv,
         NEW i, NEW source, NEW new, NEW fresh, NEW stepRows, NEW waitRows,
         Activated(i, source, new, fresh, stepRows, waitRows),
         trace \subseteq trace',
         \A s \in Step \ new : SameOrigin(stepRows[s], steps[s]),
         \A w \in Wait \ fresh : WaitMoves(waitRows[w], waits[w], trace, trace'),
         \A v, w \in Wait \ fresh :
           waitRows[v] # waits[v] /\ waitRows[w] # waits[w]
             /\ waitRows[v].state = "satisfied" /\ waitRows[w].state = "satisfied"
           => v = w,
         \A w \in Wait \ fresh : waitRows[w].instance = waits[w].instance,
         new # {} => ~Used(source, trace) /\ Used(source, trace'),
         \A signal \in Signal : source = <<"signal", signal>> =>
           \E w \in Wait \ fresh :
             /\ waitRows[w].state = "satisfied"
             /\ waitRows[w].signal = signal
             /\ waitRows[w].instance = i
  PROVE  ActivationInv'
<1>1. ASSUME NEW s \in Step
      PROVE  IF steps'[s].state = "absent" THEN steps'[s].source = <<>>
             ELSE Used(steps'[s].source, trace')
  <2>1. CASE s \in new
    BY <2>1 DEF Activated
  <2>2. CASE s \notin new
    BY <2>2, UsedGrows DEF Activated, ActivationInv, SameOrigin
  <2> QED BY <2>1, <2>2
<1>2. ASSUME NEW w \in Wait
      PROVE  IF waits'[w].state = "satisfied"
             THEN /\ waits'[w].signal \in Signal
                  /\ Row("signal_acceptance", <<waits'[w].signal>>) \in trace'
             ELSE waits'[w].signal = None
  <2>1. CASE w \in fresh
    BY <2>1 DEF Activated
  <2>2. CASE w \notin fresh
    BY <2>2 DEF Activated, ActivationInv, WaitMoves
  <2> QED BY <2>1, <2>2
<1>3. ASSUME NEW s \in Step, NEW r \in Step, steps'[s].state # "absent",
             steps'[r].source = steps'[s].source, steps'[r].slot = steps'[s].slot
      PROVE  r = s
  <2>1. ASSUME NEW u \in Step \ new
        PROVE  /\ SameOrigin(steps'[u], steps[u])
               /\ steps[u].state # "absent" => Used(steps'[u].source, trace)
               /\ steps[u].state = "absent" => steps'[u].source = <<>>
    BY DEF Activated, ActivationInv, SameOrigin
  <2>2. CASE s \in new /\ r \in new
    BY <1>3, <2>2 DEF Activated
  <2>3. CASE s \in new /\ r \notin new
    <3>1. ~Used(steps'[s].source, trace) /\ steps'[s].source # <<>>
      BY <2>3, UsedIsSomething DEF Activated
    <3> QED BY <1>3, <2>1, <2>3, <3>1
  <2>4. CASE s \notin new /\ r \in new
    <3>1. ~Used(steps'[r].source, trace) /\ steps[s].state # "absent"
      BY <1>3, <2>1, <2>4 DEF Activated, SameOrigin
    <3> QED BY <1>3, <2>1, <2>4, <3>1
  <2>5. CASE s \notin new /\ r \notin new
    BY <1>3, <2>1, <2>5 DEF SameOrigin, ActivationInv, ActivatedOnce
  <2> QED BY <2>2, <2>3, <2>4, <2>5
<1>4. ASSUME NEW w \in Wait, waits[w].state = "satisfied"
      PROVE  /\ waits'[w].state = "satisfied"
             /\ waits'[w].signal = waits[w].signal
               /\ waits'[w].instance = waits[w].instance
  <2>1. w \notin fresh
    BY <1>4 DEF Activated
  <2>2. waits'[w] = waitRows[w] /\ WaitMoves(waitRows[w], waits[w], trace, trace')
    BY <2>1 DEF Activated
  <2> QED BY <1>4, <2>2 DEF WaitMoves
<1>5. ASSUME NEW s \in Step, NEW signal \in Signal, steps'[s].source = <<"signal", signal>>
      PROVE  \E w \in Wait :
               /\ waits'[w].state = "satisfied"
               /\ waits'[w].signal = signal
               /\ waits'[w].instance = steps'[s].instance
  <2>1. CASE s \in new
    <3>1. source = <<"signal", signal>> /\ steps'[s].instance = i
      BY <1>5, <2>1 DEF Activated
    <3>2. PICK w \in Wait \ fresh : /\ waitRows[w].state = "satisfied"
                                    /\ waitRows[w].signal = signal
                                    /\ waitRows[w].instance = i
      BY <3>1
    <3>3. waits'[w] = waitRows[w]
      BY DEF Activated
    <3> QED BY <3>1, <3>2, <3>3
  <2>2. CASE s \notin new
    <3>1. steps[s].source = <<"signal", signal>> /\ steps'[s].instance = steps[s].instance
      BY <1>5, <2>2 DEF Activated, SameOrigin
    <3>2. PICK w \in Wait : /\ waits[w].state = "satisfied"
                            /\ waits[w].signal = signal
                            /\ waits[w].instance = steps[s].instance
      BY <3>1 DEF ActivationInv, ActivatedOnce
    <3> QED BY <1>4, <3>1, <3>2
  <2> QED BY <2>1, <2>2
<1>6. ASSUME NEW v \in Wait, NEW w \in Wait, waits'[v].state = "satisfied",
             waits'[w].signal = waits'[v].signal
      PROVE  v = w
  <2>1. waits'[w].state = "satisfied"
    <3>1. waits'[v].signal \in Signal
      BY <1>2, <1>6
    <3>2. waits'[w].signal # None
      BY <1>6, <3>1, NoneAssumption
    <3> QED BY <1>2, <3>2
  <2>2. v \notin fresh /\ w \notin fresh
    BY <1>6, <2>1 DEF Activated
  <2>3. /\ waits'[v] = waitRows[v] /\ waits'[w] = waitRows[w]
        /\ WaitMoves(waitRows[v], waits[v], trace, trace')
        /\ WaitMoves(waitRows[w], waits[w], trace, trace')
    BY <2>2 DEF Activated
  <2>4. CASE waitRows[v] = waits[v] /\ waitRows[w] = waits[w]
    BY <1>6, <2>1, <2>3, <2>4 DEF ActivationInv, ActivatedOnce
  <2>5. CASE waitRows[v] # waits[v] /\ waitRows[w] # waits[w]
    BY <1>6, <2>1, <2>2, <2>3, <2>5
  <2>6. CASE waitRows[v] = waits[v] /\ waitRows[w] # waits[w]
    <3>1. Row("signal_acceptance", <<waitRows[w].signal>>) \notin trace
      BY <2>1, <2>3, <2>6 DEF WaitMoves
    <3>2. Row("signal_acceptance", <<waits[v].signal>>) \in trace
      BY <1>6, <2>3, <2>6 DEF ActivationInv
    <3> QED BY <1>6, <2>3, <2>6, <3>1, <3>2
  <2>7. CASE waitRows[v] # waits[v] /\ waitRows[w] = waits[w]
    <3>1. Row("signal_acceptance", <<waitRows[v].signal>>) \notin trace
      BY <1>6, <2>3, <2>7 DEF WaitMoves
    <3>2. Row("signal_acceptance", <<waits[w].signal>>) \in trace
      BY <2>1, <2>3, <2>7 DEF ActivationInv
    <3> QED BY <1>6, <2>3, <2>7, <3>1, <3>2
  <2> QED BY <2>4, <2>5, <2>6, <2>7
<1>7. ActivatedOnce'
  BY <1>3, <1>5, <1>6 DEF ActivatedOnce
<1> QED BY <1>1, <1>2, <1>7 DEF ActivationInv

(* What UpdateStep does to a pending Step.                                 *)
LEMMA UpdatedRow ==
  ASSUME TypeOK, NEW s \in Step, steps[s].state = "pending",
         NEW state, state # "absent", NEW claimable, NEW deferred
  PROVE  /\ \A u \in Step : u # s => UpdateStep(s, state, claimable, deferred)[u] = steps[u]
         /\ UpdateStep(s, state, claimable, deferred)[s].state = state
         /\ UpdateStep(s, state, claimable, deferred)[s].deferred = deferred
         /\ SameOrigin(UpdateStep(s, state, claimable, deferred)[s], steps[s])
<1> DEFINE old == steps[s]
           after == [old EXCEPT !.state = state, !.claimable = claimable,
                                !.deferred = deferred]
<1>1. /\ UpdateStep(s, state, claimable, deferred)[s] = after
      /\ \A u \in Step : u # s => UpdateStep(s, state, claimable, deferred)[u] = steps[u]
  BY DEF UpdateStep, TypeOK
<1>2. old \in StepRow /\ old = steps[s]
  BY DEF TypeOK
<1> HIDE DEF old
<1>3. /\ after.state = state /\ after.deferred = deferred /\ after.source = old.source
      /\ after.slot = old.slot /\ after.instance = old.instance
  BY <1>2 DEF StepRow
<1> HIDE DEF after
<1> QED BY <1>1, <1>2, <1>3 DEF SameOrigin

(* The four dispositions: the rows they write and the decision they log.   *)
Disposal(s, n, row, kind, new, fresh, stepRows) ==
  /\ trace' = trace \cup {row, Row(kind, <<s, n>>)}
  /\ Activated(steps[s].instance, <<"step", s, n>>, new, fresh, stepRows, waits)
  /\ \A u \in Step : u # s => stepRows[u] = steps[u]
  /\ SameOrigin(stepRows[s], steps[s])
  /\ Decision(kind, stepRows[s], n)

LEMMA DispositionsDecide ==
  ASSUME IInv, NEW s \in Step, NEW n \in DOMAIN attempts[s], NEW row,
         attempts[s][n].state = "leased",
         Succeed(s, n, row) \/ Retry(s, n, row) \/ Fail(s, n, row) \/ Defer(s, n, row)
  PROVE  \E kind \in Disposition : \E new, fresh, stepRows :
           Disposal(s, n, row, kind, new, fresh, stepRows)
<1> DEFINE source == <<"step", s, n>>
           i == steps[s].instance
<1>1. TypeOK /\ steps[s].state = "pending"
  BY DEF IInv, RowInv
<1>2. ASSUME NEW stepRows, MaterializeStepRoute(stepRows, s, n)
      PROVE  \E new, fresh : Activated(i, source, new, fresh, stepRows, waits)
  <2>1. CASE steps' = stepRows /\ UNCHANGED waits
    BY <2>1, NothingActivated
  <2>2. CASE \E r \in Route :
               /\ Activation[r] = "step"
               /\ SourceTemplate[r] = steps[s].template
               /\ Materialize(stepRows, waits, i, r, source)
    BY <1>1, <2>2, MaterializeActivates
  <2> QED BY <1>2, <2>1, <2>2 DEF MaterializeStepRoute
<1>3. ASSUME NEW state, state # "absent", NEW claimable, NEW deferred, NEW kind \in Disposition,
             MaterializeStepRoute(UpdateStep(s, state, claimable, deferred), s, n),
             \A after : after.state = state /\ after.deferred = deferred
                          => Decision(kind, after, n),
             trace' = trace \cup {row, Row(kind, <<s, n>>)}
      PROVE  \E new, fresh, stepRows : Disposal(s, n, row, kind, new, fresh, stepRows)
  <2> DEFINE stepRows == UpdateStep(s, state, claimable, deferred)
  <2>1. /\ \A u \in Step : u # s => stepRows[u] = steps[u]
        /\ stepRows[s].state = state /\ stepRows[s].deferred = deferred
        /\ SameOrigin(stepRows[s], steps[s])
    BY <1>1, <1>3, UpdatedRow
  <2>2. PICK new, fresh : Activated(i, source, new, fresh, stepRows, waits)
    BY <1>2, <1>3
  <2> HIDE DEF stepRows
  <2>3. Disposal(s, n, row, kind, new, fresh, stepRows)
    BY <1>3, <2>1, <2>2 DEF Disposal
  <2> QED BY <2>3
<1>4. {"step_outcome", "recovery_disposition", "step_deferral"} = Disposition
  BY DEF Disposition
<1>5. CASE Succeed(s, n, row)
  <2>1. \A after : after.state = "succeeded" => Decision("step_outcome", after, n)
    BY DEF Decision
  <2> QED BY <1>3, <1>4, <1>5, <2>1 DEF Succeed, Outcome, Log
<1>6. CASE Retry(s, n, row)
  <2>1. \A after : after.state = "pending" /\ after.deferred = NotDeferred =>
          Decision("recovery_disposition", after, n)
    BY DEF Decision
  <2> DEFINE delay == Delays[steps[s].template][n]
  <2>2. /\ steps' = UpdateStep(s, "pending", delay, NotDeferred) /\ UNCHANGED waits
        /\ trace' = trace \cup {row, Row("recovery_disposition", <<s, n>>)}
    BY <1>6 DEF Retry, ClaimableAfter, Log
  <2> HIDE DEF delay
  <2>3. MaterializeStepRoute(UpdateStep(s, "pending", delay, NotDeferred), s, n)
    BY <2>2 DEF MaterializeStepRoute
  <2> QED BY <1>3, <1>4, <2>1, <2>2, <2>3
<1>7. CASE Fail(s, n, row)
  <2>1. \A after : after.state = "failed" => Decision("recovery_disposition", after, n)
    BY DEF Decision
  <2> QED BY <1>3, <1>4, <1>7, <2>1 DEF Fail, Outcome, MaterializeStepRoute, Log
<1>8. CASE Defer(s, n, row)
  <2>1. \A after : after.state = "pending" /\ after.deferred = n =>
          Decision("step_deferral", after, n)
    BY DEF Decision
  <2> QED BY <1>3, <1>4, <1>8, <2>1 DEF Defer, DeferredOn, Log
<1> QED BY <1>5, <1>6, <1>7, <1>8

-----------------------------------------------------------------------------
(* Each transaction keeps the histories and the activations.               *)

LEMMA HInitInv == Init => HInv
<1> SUFFICES ASSUME Init PROVE HInv
  OBVIOUS
<1>1. HistoryInv
  BY DEF Init, HistoryInv, History, Decided, AbsentStep
<1>2. ActivationInv
  BY DEF Init, ActivationInv, ActivatedOnce, AbsentStep, AbsentWait
<1> QED BY <1>1, <1>2, InitIInv DEF HInv

(* Transactions that decide about no Step but may add some.                *)
LEMMA AddingKeepsHistory ==
  ASSUME HInv, NEW i, NEW source, NEW new, NEW fresh, NEW waitRows,
         Activated(i, source, new, fresh, steps, waitRows),
         UNCHANGED attempts,
         \A kind \in Disposition, s \in Step, n \in Nat :
           Row(kind, <<s, n>>) \in trace' <=> Row(kind, <<s, n>>) \in trace
  PROVE  HistoryInv'
<1> SUFFICES ASSUME NEW s \in Step
             PROVE  History(s, steps'[s], attempts'[s], trace')
  BY DEF HistoryInv
<1>1. /\ History(s, steps[s], attempts[s], trace)
      /\ attempts[s] \in Seq(AttemptRow)
      /\ attempts'[s] = attempts[s]
      /\ steps[s].state = "absent" => attempts[s] = <<>>
  BY DEF HInv, IInv, TypeOK, HistoryInv, RowInv
<1>2. CASE s \in new
  <2>1. /\ steps[s].state = "absent"
        /\ steps'[s].state = "pending" /\ steps'[s].deferred = NotDeferred
    BY <1>2 DEF Activated
  <2>2. History(s, steps[s], <<>>, trace)
    BY <1>1, <2>1
  <2>3. History(s, steps'[s], <<>>, trace')
    BY <2>1, <2>2, HistoryBegins
  <2> QED BY <1>1, <2>1, <2>3
<1>3. CASE s \notin new
  <2>1. steps'[s] = steps[s]
    BY <1>3 DEF Activated
  <2> QED BY <1>1, <2>1, HistoryKept
<1> QED BY <1>2, <1>3

LEMMA StartHInv ==
  ASSUME HInv, NEW i \in Instance, NEW r \in Route, Start(i, r)
  PROVE  HistoryInv' /\ ActivationInv'
<1> DEFINE source == <<"command", i>>
<1>1. /\ UNCHANGED attempts
      /\ Row("command_start", <<i>>) \notin trace
      /\ trace' = trace \cup {Row("command_start", <<i>>)}
  BY DEF Start, Log
<1>2. PICK new, fresh : Activated(i, source, new, fresh, steps, waits)
  <2>1. TypeOK /\ Materialize(steps, waits, i, r, source)
    BY DEF HInv, IInv, Start
  <2> QED BY <2>1, MaterializeActivates
<1>3. HistoryInv'
  <2>1. "command_start" \notin Disposition
    BY DEF Disposition
  <2> QED BY <1>1, <1>2, <2>1, OtherRows, AddingKeepsHistory
<1>4. ~Used(source, trace) /\ Used(source, trace')
  BY <1>1 DEF Used
<1>5. \A signal \in Signal : source # <<"signal", signal>>
  OBVIOUS
<1>6. /\ \A s \in Step : SameOrigin(steps[s], steps[s])
      /\ \A w \in Wait : WaitMoves(waits[w], waits[w], trace, trace')
  BY DEF SameOrigin, WaitMoves
<1> HIDE DEF source
<1>7. ActivationInv'
  BY <1>1, <1>2, <1>4, <1>5, <1>6, ActivationKept DEF HInv
<1> QED BY <1>3, <1>7

LEMMA AcceptSignalHInv ==
  ASSUME HInv, NEW w \in Wait, NEW signal \in Signal, NEW r \in Route,
         AcceptSignal(w, signal, r)
  PROVE  HistoryInv' /\ ActivationInv'
<1> DEFINE i == waits[w].instance
           source == <<"signal", signal>>
           waitRows == [waits EXCEPT ![w] =
                          [@ EXCEPT !.state = "satisfied", !.signal = signal]]
<1>1. /\ UNCHANGED attempts
      /\ waits[w].state = "unsatisfied"
      /\ Row("signal_acceptance", <<signal>>) \notin trace
      /\ trace' = trace \cup {Row("signal_acceptance", <<signal>>)}
  BY DEF AcceptSignal, Unsatisfied, Log
<1>2. PICK new, fresh : Activated(i, source, new, fresh, steps, waitRows)
  <2>1. TypeOK /\ Materialize(steps, waitRows, i, r, source)
    BY DEF HInv, IInv, AcceptSignal
  <2> QED BY <2>1, MaterializeActivates
<1>3. HistoryInv'
  <2>1. "signal_acceptance" \notin Disposition
    BY DEF Disposition
  <2> QED BY <1>1, <1>2, <2>1, OtherRows, AddingKeepsHistory
<1>4. ~Used(source, trace) /\ Used(source, trace')
  BY <1>1 DEF Used
<1>5. /\ waitRows[w].state = "satisfied"
      /\ waitRows[w].signal = signal
      /\ waitRows[w].instance = i
      /\ \A v \in Wait : v # w => waitRows[v] = waits[v]
  <2>1. waits \in [Wait -> WaitRow]
    BY DEF HInv, IInv, TypeOK
  <2> QED BY <2>1 DEF WaitRow
<1>6. w \notin fresh
  BY <1>1, <1>2 DEF Activated
<1> HIDE DEF waitRows, i
<1>7. /\ \A v \in Wait \ fresh : WaitMoves(waitRows[v], waits[v], trace, trace')
      /\ \A v \in Wait \ fresh : waitRows[v].instance = waits[v].instance
  BY <1>1, <1>5 DEF WaitMoves, i
<1>8. \A u, v \in Wait \ fresh :
        waitRows[u] # waits[u] /\ waitRows[v] # waits[v]
          /\ waitRows[u].state = "satisfied" /\ waitRows[v].state = "satisfied"
        => u = v
  BY <1>5
<1>9. \A other \in Signal : source = <<"signal", other>> =>
        \E v \in Wait \ fresh :
          /\ waitRows[v].state = "satisfied"
          /\ waitRows[v].signal = other
          /\ waitRows[v].instance = i
  BY <1>5, <1>6
<1>10. (\A s \in Step : SameOrigin(steps[s], steps[s])) /\ trace \subseteq trace'
  BY <1>1 DEF SameOrigin
<1> HIDE DEF source
<1>11. ActivationInv'
  <2>1. ActivationInv
    BY DEF HInv
  <2> QED BY <2>1, <1>2, <1>4, <1>7, <1>8, <1>9, <1>10, ActivationKept, SMTT(60)
<1> QED BY <1>3, <1>11

(* Accept and Recover.                                                     *)
LEMMA DisposalHInv ==
  ASSUME HInv, NEW s \in Step, NEW n \in DOMAIN attempts[s],
         NEW state \in {"completed", "abandoned"},
         NEW kind, kind \notin Disposition,
         attempts[s][n].state = "leased",
         attempts' = Settle(s, n, state),
         \/ Succeed(s, n, Row(kind, <<s, n>>)) \/ Retry(s, n, Row(kind, <<s, n>>))
         \/ Fail(s, n, Row(kind, <<s, n>>)) \/ Defer(s, n, Row(kind, <<s, n>>))
  PROVE  HistoryInv' /\ ActivationInv'
<1> DEFINE row == Row(kind, <<s, n>>)
           source == <<"step", s, n>>
           i == steps[s].instance
<1>1. /\ IInv /\ TypeOK
      /\ attempts \in [Step -> Seq(AttemptRow)]
      /\ steps[s].state = "pending" /\ n = Len(attempts[s]) /\ n \in Nat
  <2>1. attempts[s] \in Seq(AttemptRow)
    BY DEF HInv, IInv, TypeOK
  <2> QED BY <2>1 DEF HInv, IInv, TypeOK, RowInv
<1>2. PICK decision, new, fresh, stepRows :
        decision \in Disposition /\ Disposal(s, n, row, decision, new, fresh, stepRows)
  BY <1>1, DispositionsDecide
<1>3. /\ decision \in Disposition
      /\ trace' = trace \cup {row, Row(decision, <<s, n>>)}
      /\ Activated(i, source, new, fresh, stepRows, waits)
      /\ \A u \in Step : u # s => stepRows[u] = steps[u]
      /\ SameOrigin(stepRows[s], steps[s])
      /\ Decision(decision, stepRows[s], n)
  BY <1>2 DEF Disposal
<1>4. s \notin new
  BY <1>1, <1>3 DEF Activated
<1>5. \A k \in Disposition, u \in Step, m \in Nat :
        Row(k, <<u, m>>) \in trace' <=>
          Row(k, <<u, m>>) \in trace \/ (u = s /\ m = n /\ k = decision)
  BY <1>3 DEF Row
<1>6. /\ attempts'[s] \in Seq(AttemptRow)
      /\ Len(attempts'[s]) = n
      /\ attempts'[s][n].state = state
      /\ \A m \in DOMAIN attempts[s] : m # n => attempts'[s][m] = attempts[s][m]
      /\ \A u \in Step : u # s => attempts'[u] = attempts[u]
  <2>1. attempts[s] \in Seq(AttemptRow) /\ state \in AttemptState
    BY <1>1 DEF AttemptState
  <2>2. attempts'[s] = [attempts[s] EXCEPT ![n] = Settled(@, state)]
    BY <1>1 DEF Settle
  <2>3. \A u \in Step : u # s => attempts'[u] = attempts[u]
    BY <1>1 DEF Settle
  <2> DEFINE next == [attempts[s] EXCEPT ![n] = Settled(@, state)]
  <2>4. /\ next \in Seq(AttemptRow)
        /\ Len(next) = Len(attempts[s])
        /\ \A m \in DOMAIN attempts[s] : m # n => next[m] = attempts[s][m]
        /\ next[n].state = state
    BY <2>1, SettleList
  <2> HIDE DEF next
  <2>5. attempts'[s] = next
    BY <2>2 DEF next
  <2> QED BY <1>1, <2>3, <2>4, <2>5
<1>7. ASSUME NEW u \in Step
      PROVE  History(u, steps'[u], attempts'[u], trace')
  <2>1. /\ History(u, steps[u], attempts[u], trace)
        /\ attempts[u] \in Seq(AttemptRow)
        /\ steps[u].state = "absent" => attempts[u] = <<>>
    BY <1>1 DEF HInv, IInv, HistoryInv, RowInv
  <2>2. CASE u = s
    <3>1. steps'[s] = stepRows[s]
      BY <1>3, <1>4 DEF Activated
    <3>2. \A k \in Disposition, m \in Nat : Row(k, <<s, m>>) \in trace' <=>
            Row(k, <<s, m>>) \in trace \/ (k = decision /\ m = n)
      BY <1>5
    <3>3. /\ History(s, steps[s], attempts[s], trace)
          /\ attempts[s] \in Seq(AttemptRow) /\ attempts'[s] \in Seq(AttemptRow)
          /\ steps[s].state = "pending" /\ n = Len(attempts[s])
          /\ Len(attempts'[s]) = n /\ attempts'[s][n].state \in {"completed", "abandoned"}
          /\ \A m \in DOMAIN attempts[s] : m # n => attempts'[s][m] = attempts[s][m]
          /\ decision \in Disposition /\ Decision(decision, stepRows[s], n)
      BY <1>1, <1>3, <1>6, <2>1, <2>2
    <3>4. History(s, stepRows[s], attempts'[s], trace')
      BY <3>2, <3>3, HistoryGrows, SMTT(60)
    <3> QED BY <2>2, <3>1, <3>4
  <2>3. CASE u # s /\ u \in new
    <3>1. /\ steps[u].state = "absent"
          /\ steps'[u].state = "pending" /\ steps'[u].deferred = NotDeferred
      BY <1>3, <2>3 DEF Activated
    <3>2. History(u, steps[u], <<>>, trace) /\ attempts'[u] = <<>>
      BY <1>6, <2>1, <2>3, <3>1
    <3>3. \A k \in Disposition, m \in Nat :
            Row(k, <<u, m>>) \in trace' <=> Row(k, <<u, m>>) \in trace
      BY <1>5, <2>3
    <3>4. History(u, steps'[u], <<>>, trace')
      BY <3>1, <3>2, <3>3, HistoryBegins
    <3> QED BY <3>2, <3>4
  <2>4. CASE u # s /\ u \notin new
    <3>1. steps'[u] = steps[u] /\ attempts'[u] = attempts[u]
      BY <1>3, <1>6, <2>4 DEF Activated
    <3>2. \A k \in Disposition, m \in Nat :
            Row(k, <<u, m>>) \in trace' <=> Row(k, <<u, m>>) \in trace
      BY <1>5, <2>4
    <3> QED BY <2>1, <3>1, <3>2, HistoryKept
  <2> QED BY <2>2, <2>3, <2>4
<1>8. ActivationInv'
  <2>1. ~Decided(s, n, trace) /\ Decided(s, n, trace')
    <3>1. History(s, steps[s], attempts[s], trace)
      BY DEF HInv, HistoryInv
    <3> QED BY <1>1, <1>3, <1>5, <3>1 DEF History, Decided
  <2>2. ~Used(source, trace) /\ Used(source, trace')
    BY <1>1, <2>1 DEF Used
  <2>3. \A signal \in Signal : source # <<"signal", signal>>
    OBVIOUS
  <2>4. \A u \in Step : SameOrigin(stepRows[u], steps[u])
    BY <1>3 DEF SameOrigin
  <2>5. \A w \in Wait : WaitMoves(waits[w], waits[w], trace, trace')
    BY DEF WaitMoves
  <2> HIDE DEF source, i
  <2> QED BY <1>3, <2>2, <2>3, <2>4, <2>5, ActivationKept DEF HInv
<1> QED BY <1>7, <1>8 DEF HistoryInv

(* A transaction that activates no Route and accepts no Signal.            *)
LEMMA QuietKeepsActivation ==
  ASSUME HInv, trace \subseteq trace',
         \A s \in Step : SameOrigin(steps'[s], steps[s]),
         \A w \in Wait :
           \/ waits'[w] = waits[w]
           \/ /\ waits[w].state = "unsatisfied" /\ waits'[w].state = "cancelled"
              /\ waits'[w].signal = waits[w].signal
              /\ waits'[w].instance = waits[w].instance
  PROVE  ActivationInv'
<1>1. Activated(None, <<>>, {}, {}, steps', waits')
  BY NothingActivated
<1>2. \A w \in Wait \ {} : /\ WaitMoves(waits'[w], waits[w], trace, trace')
                           /\ waits'[w].instance = waits[w].instance
  BY DEF WaitMoves
<1>3. \A w \in Wait : waits'[w] # waits[w] => waits'[w].state # "satisfied"
  OBVIOUS
<1>4. \A signal \in Signal : <<>> # <<"signal", signal>>
  OBVIOUS
<1>5. ActivationInv
  BY DEF HInv
<1> QED BY <1>1, <1>2, <1>3, <1>4, <1>5, ActivationKept, SMTT(60)

LEMMA ClaimHInv ==
  ASSUME HInv, NEW s \in Step, NEW w \in Worker, Claim(s, w)
  PROVE  HistoryInv' /\ ActivationInv'
<1> DEFINE t == steps[s].template
           lease == [state |-> "leased", worker |-> w,
                     lease |-> LeaseSeconds[t], deadline |-> MaximumSeconds[t]]
<1>1. UNCHANGED <<steps, waits, trace>>
  BY DEF Claim
<1>2. ActivationInv'
  BY <1>1, QuietKeepsActivation DEF SameOrigin
<1>3. ASSUME NEW u \in Step
      PROVE  History(u, steps[u], attempts'[u], trace)
  <2>1. /\ History(u, steps[u], attempts[u], trace)
        /\ attempts \in [Step -> Seq(AttemptRow)]
    BY DEF HInv, IInv, TypeOK, HistoryInv
  <2>2. CASE u # s
    <3>1. attempts'[u] = attempts[u]
      BY <2>1, <2>2 DEF Claim
    <3> QED BY <2>1, <3>1
  <2>3. CASE u = s
    <3>1. steps[s].state = "pending" /\ steps[s].deferred = NotDeferred
      BY DEF HInv, IInv, RowInv, Claim, Claimable, HasLease, Never
    <3>2. attempts'[s] = Append(attempts[s], lease)
      BY <2>1 DEF Claim
    <3>3. lease.state = "leased"
      OBVIOUS
    <3> HIDE DEF lease
    <3>4. attempts[s] \in Seq(AttemptRow)
      BY <2>1
    <3>5. /\ Len(attempts'[s]) = Len(attempts[s]) + 1
          /\ attempts'[s][Len(attempts[s]) + 1].state = "leased"
          /\ \A n \in DOMAIN attempts[s] : attempts'[s][n] = attempts[s][n]
          /\ DOMAIN attempts'[s] = DOMAIN attempts[s] \cup {Len(attempts[s]) + 1}
          /\ Len(attempts[s]) + 1 \notin DOMAIN attempts[s]
      BY <3>2, <3>3, <3>4
    <3> QED BY <2>1, <2>3, <3>1, <3>5 DEF History
  <2> QED BY <2>2, <2>3
<1> QED BY <1>1, <1>2, <1>3 DEF HistoryInv

LEMMA RenewHInv ==
  ASSUME HInv, NEW s \in Step, NEW n \in DOMAIN attempts[s], NEW w \in Worker,
         Renew(s, n, w)
  PROVE  HistoryInv' /\ ActivationInv'
<1>1. UNCHANGED <<steps, waits, trace>>
  BY DEF Renew
<1>2. ActivationInv'
  BY <1>1, QuietKeepsActivation DEF SameOrigin
<1>3. IInv'
  BY RenewIInv DEF HInv
<1>4. ASSUME NEW u \in Step
      PROVE  History(u, steps[u], attempts'[u], trace)
  <2>1. /\ History(u, steps[u], attempts[u], trace)
        /\ attempts \in [Step -> Seq(AttemptRow)]
        /\ attempts[u] \in Seq(AttemptRow) /\ attempts'[u] \in Seq(AttemptRow)
    BY <1>3 DEF HInv, IInv, TypeOK, HistoryInv
  <2>2. /\ Len(attempts'[u]) = Len(attempts[u])
        /\ \A m \in DOMAIN attempts[u] : attempts'[u][m].state = attempts[u][m].state
    <3>1. CASE u # s
      BY <2>1, <3>1 DEF Renew
    <3>2. CASE u = s
      <4> DEFINE seconds == Renewal(steps[s].template, attempts[s][n].deadline)
      <4>1. attempts'[s] = [attempts[s] EXCEPT ![n] = [@ EXCEPT !.lease = seconds]]
        BY <2>1 DEF Renew
      <4> HIDE DEF seconds
      <4>2. attempts[s][n] \in AttemptRow
        BY <2>1, <3>2
      <4>3. [attempts[s][n] EXCEPT !.lease = seconds].state = attempts[s][n].state
        BY <4>2 DEF AttemptRow
      <4> QED BY <2>1, <3>2, <4>1, <4>3
    <3> QED BY <3>1, <3>2
  <2> QED BY <2>1, <2>2, HistoryKept, SMTT(60)
<1> QED BY <1>1, <1>2, <1>4 DEF HistoryInv

LEMMA ResolveDeferredHInv ==
  ASSUME HInv, NEW s \in Step, NEW n \in DOMAIN attempts[s], NEW source \in Source,
         ResolveDeferred(s, n, source)
  PROVE  HistoryInv' /\ ActivationInv'
<1>1. /\ IInv /\ TypeOK
      /\ steps[s].state = "pending" /\ steps[s].deferred = n
      /\ UNCHANGED <<attempts, waits>>
      /\ trace' = trace \cup {Row("deferred_resolution", <<source>>)}
  BY DEF HInv, IInv, ResolveDeferred, Targets, Log
<1>2. attempts[s] \in Seq(AttemptRow) /\ n # NotDeferred
  <2>1. attempts[s] \in Seq(AttemptRow)
    BY <1>1 DEF TypeOK
  <2> QED BY <2>1 DEF NotDeferred
<1>3. /\ \A u \in Step : u # s => steps'[u] = steps[u]
      /\ steps'[s].state \in {"succeeded", "failed", "pending"}
      /\ steps'[s].deferred = NotDeferred
      /\ SameOrigin(steps'[s], steps[s])
  <2>1. \E state \in {"succeeded", "failed", "pending"}, claimable \in {Never, 0} :
          steps' = UpdateStep(s, state, claimable, NotDeferred)
    BY DEF ResolveDeferred, Outcome, ClaimableAfter
  <2> QED BY <1>1, <2>1, UpdatedRow
<1>4. "deferred_resolution" \notin Disposition
  BY DEF Disposition
<1>5. \A k \in Disposition, u \in Step, m \in Nat :
        Row(k, <<u, m>>) \in trace' <=> Row(k, <<u, m>>) \in trace
  BY <1>1, <1>4, OtherRows
<1>6. ActivationInv'
  <2>1. \A u \in Step : SameOrigin(steps'[u], steps[u])
    BY <1>3 DEF SameOrigin
  <2> QED BY <1>1, <2>1, QuietKeepsActivation
<1>7. ASSUME NEW u \in Step
      PROVE  History(u, steps'[u], attempts[u], trace')
  <2>1. History(u, steps[u], attempts[u], trace) /\ attempts[u] \in Seq(AttemptRow)
    BY <1>1 DEF HInv, TypeOK, HistoryInv
  <2>2. \A k \in Disposition, m \in Nat :
          Row(k, <<u, m>>) \in trace' <=> Row(k, <<u, m>>) \in trace
    BY <1>5
  <2>3. CASE u # s
    BY <1>3, <2>1, <2>2, <2>3, HistoryKept, SMTT(60)
  <2>4. CASE u = s
    <3>1. {"step_outcome", "step_deferral", "recovery_disposition"} = Disposition
      BY DEF Disposition
    <3>2. Len(attempts[s]) \in Nat
      BY <1>2
    <3>3. \A m \in Nat : Row("step_outcome", <<s, m>>) \notin trace'
      BY <1>1, <2>1, <2>2, <2>4, <3>1 DEF History
    <3>4. Row("step_deferral", <<s, Len(attempts[s])>>) \in trace'
      BY <1>1, <1>2, <2>1, <2>2, <2>4, <3>1, <3>2 DEF History
    <3>5. \A m \in Nat : Decided(s, m, trace') <=> Decided(s, m, trace)
      BY <2>2, <2>4 DEF Decided
    <3>6. \A m \in Nat : \A k, l \in Disposition :
            Row(k, <<s, m>>) \in trace' /\ Row(l, <<s, m>>) \in trace' => k = l
      BY <2>1, <2>2, <2>4 DEF History
    <3>7. \A m \in Nat : Decided(s, m, trace) <=>
            m \in DOMAIN attempts[s] /\ attempts[s][m].state \in {"completed", "abandoned"}
      BY <2>1, <2>4 DEF History
    <3> QED BY <1>3, <2>4, <3>3, <3>4, <3>5, <3>6, <3>7 DEF History
  <2> QED BY <2>3, <2>4
<1> QED BY <1>1, <1>6, <1>7 DEF HistoryInv

LEMMA CloseHInv ==
  ASSUME HInv, NEW i \in Instance, Close(i)
  PROVE  HistoryInv' /\ ActivationInv'
<1>1. /\ TypeOK /\ IInv'
      /\ trace' = trace \cup {Row("instance_closure", <<i>>)}
  BY CloseIInv DEF HInv, IInv, Close, Log
<1>2. ASSUME NEW s \in Step
      PROVE  \/ steps'[s] = steps[s]
             \/ /\ steps[s].state = "pending" /\ steps'[s].state = "cancelled"
                /\ SameOrigin(steps'[s], steps[s])
  <2>1. CASE steps[s].instance = i /\ steps[s].state = "pending"
    <3>1. steps'[s] = UpdateStep(s, "cancelled", Never, NotDeferred)[s]
      BY <2>1 DEF Close, CancelledSteps, Outcome
    <3> QED BY <1>1, <2>1, <3>1, UpdatedRow
  <2>2. CASE ~(steps[s].instance = i /\ steps[s].state = "pending")
    BY <2>2 DEF Close, CancelledSteps
  <2> QED BY <2>1, <2>2
<1>3. ASSUME NEW w \in Wait
      PROVE  \/ waits'[w] = waits[w]
             \/ /\ waits[w].state = "unsatisfied" /\ waits'[w].state = "cancelled"
                /\ waits'[w].signal = waits[w].signal
                /\ waits'[w].instance = waits[w].instance
  <2>1. waits[w] \in WaitRow
    BY <1>1 DEF TypeOK
  <2>2. CASE waits[w].instance = i /\ waits[w].state = "unsatisfied"
    <3>1. waits'[w] = [waits[w] EXCEPT !.state = "cancelled"]
      BY <2>2 DEF Close, CancelledWaits
    <3> QED BY <2>1, <2>2, <3>1 DEF WaitRow
  <2>3. CASE ~(waits[w].instance = i /\ waits[w].state = "unsatisfied")
    BY <2>3 DEF Close, CancelledWaits
  <2> QED BY <2>2, <2>3
<1>4. "instance_closure" \notin Disposition
  BY DEF Disposition
<1>5. ActivationInv'
  <2>1. \A s \in Step : SameOrigin(steps'[s], steps[s])
    BY <1>2 DEF SameOrigin
  <2> QED BY <1>1, <1>3, <2>1, QuietKeepsActivation
<1>6. ASSUME NEW s \in Step
      PROVE  History(s, steps'[s], attempts'[s], trace')
  <2>1. /\ History(s, steps[s], attempts[s], trace)
        /\ attempts[s] \in Seq(AttemptRow) /\ attempts'[s] \in Seq(AttemptRow)
    BY <1>1 DEF HInv, IInv, TypeOK, HistoryInv
  <2>2. attempts'[s] = [n \in DOMAIN attempts[s] |->
          IF steps[s].instance = i /\ attempts[s][n].state = "leased"
          THEN Settled(attempts[s][n], "cancelled")
          ELSE attempts[s][n]]
    BY DEF Close, CancelledAttempts
  <2>3. Len(attempts'[s]) = Len(attempts[s])
    BY <2>1, <2>2
  <2>4. \A a \in AttemptRow : Settled(a, "cancelled").state = "cancelled"
    BY DEF Settled, AttemptRow
  <2>5. \A n \in DOMAIN attempts[s] :
          \/ attempts'[s][n].state = attempts[s][n].state
          \/ attempts[s][n].state = "leased" /\ attempts'[s][n].state = "cancelled"
    BY <2>1, <2>2, <2>4
  <2>6. \A k \in Disposition, n \in Nat :
          Row(k, <<s, n>>) \in trace' <=> Row(k, <<s, n>>) \in trace
    BY <1>1, <1>4, OtherRows
  <2>7. \/ steps'[s].state = steps[s].state /\ steps'[s].deferred = steps[s].deferred
        \/ steps[s].state = "pending" /\ steps'[s].state = "cancelled"
    BY <1>2
  <2> QED BY <2>1, <2>3, <2>5, <2>6, <2>7, HistoryKept, SMTT(60)
<1> QED BY <1>5, <1>6 DEF HistoryInv

LEMMA TickHInv ==
  ASSUME HInv, Tick
  PROVE  HistoryInv' /\ ActivationInv'
<1>1. TypeOK /\ IInv' /\ UNCHANGED <<waits, trace>>
  BY TickIInv DEF HInv, IInv, Tick
<1>2. ASSUME NEW s \in Step
      PROVE  /\ steps'[s].state = steps[s].state
             /\ steps'[s].deferred = steps[s].deferred
             /\ SameOrigin(steps'[s], steps[s])
  <2> DEFINE old == steps[s]
             claimable == Elapse(old.claimable)
             after == [old EXCEPT !.claimable = claimable]
  <2>1. old \in StepRow /\ old = steps[s] /\ steps'[s] = after
    BY <1>1 DEF Tick, TypeOK
  <2> HIDE DEF old, claimable
  <2>2. /\ after.state = old.state /\ after.deferred = old.deferred
        /\ after.source = old.source /\ after.slot = old.slot
        /\ after.instance = old.instance
    BY <2>1 DEF StepRow
  <2> HIDE DEF after
  <2> QED BY <2>1, <2>2 DEF SameOrigin
<1>3. ActivationInv'
  BY <1>1, <1>2, QuietKeepsActivation
<1>4. ASSUME NEW s \in Step
      PROVE  History(s, steps'[s], attempts'[s], trace')
  <2>1. /\ History(s, steps[s], attempts[s], trace)
        /\ attempts[s] \in Seq(AttemptRow) /\ attempts'[s] \in Seq(AttemptRow)
    BY <1>1 DEF HInv, IInv, TypeOK, HistoryInv
  <2> DEFINE after(n) ==
        IF attempts[s][n].state = "leased"
        THEN [attempts[s][n] EXCEPT !.lease = Elapse(@), !.deadline = Elapse(@)]
        ELSE attempts[s][n]
  <2>2. attempts'[s] = [n \in DOMAIN attempts[s] |-> after(n)]
    BY DEF Tick
  <2>3. ASSUME NEW n \in DOMAIN attempts[s]
        PROVE  after(n).state = attempts[s][n].state
    <3>1. attempts[s][n] \in AttemptRow
      BY <2>1
    <3> QED BY <3>1 DEF AttemptRow
  <2> HIDE DEF after
  <2>4. Len(attempts'[s]) = Len(attempts[s])
    BY <2>1, <2>2
  <2>5. \A n \in DOMAIN attempts[s] : attempts'[s][n].state = attempts[s][n].state
    BY <2>2, <2>3
  <2> QED BY <1>1, <1>2, <2>1, <2>4, <2>5, HistoryKept, SMTT(60)
<1> QED BY <1>3, <1>4 DEF HistoryInv

LEMMA NextHInv == HInv /\ [Next]_vars => HInv'
<1> SUFFICES ASSUME HInv, [Next]_vars
             PROVE  HistoryInv' /\ ActivationInv'
  BY NextIInv DEF HInv
<1>1. ASSUME NEW i \in Instance, Close(i) PROVE HistoryInv' /\ ActivationInv'
  BY <1>1, CloseHInv
<1>2. ASSUME NEW i \in Instance, NEW r \in Route, Start(i, r)
      PROVE  HistoryInv' /\ ActivationInv'
  BY <1>2, StartHInv
<1>3. ASSUME NEW s \in Step, NEW w \in Worker, Claim(s, w)
      PROVE  HistoryInv' /\ ActivationInv'
  BY <1>3, ClaimHInv
<1>4. ASSUME NEW s \in Step, NEW n \in DOMAIN attempts[s], Recover(s, n)
      PROVE  HistoryInv' /\ ActivationInv'
  <2>1. "attempt_abandonment" \notin Disposition
    BY DEF Disposition
  <2> QED BY <1>4, <2>1, DisposalHInv DEF Recover, Expired
<1>5. ASSUME NEW s \in Step, NEW n \in DOMAIN attempts[s], NEW w \in Worker, Renew(s, n, w)
      PROVE  HistoryInv' /\ ActivationInv'
  BY <1>5, RenewHInv
<1>6. ASSUME NEW s \in Step, NEW n \in DOMAIN attempts[s], NEW w \in Worker, Accept(s, n, w)
      PROVE  HistoryInv' /\ ActivationInv'
  <2>1. "attempt_result" \notin Disposition
    BY DEF Disposition
  <2> QED BY <1>6, <2>1, DisposalHInv DEF Accept, LiveLease
<1>7. ASSUME NEW s \in Step, NEW n \in DOMAIN attempts[s], NEW source \in Source,
             ResolveDeferred(s, n, source)
      PROVE  HistoryInv' /\ ActivationInv'
  BY <1>7, ResolveDeferredHInv
<1>8. ASSUME NEW w \in Wait, NEW signal \in Signal, NEW r \in Route,
             AcceptSignal(w, signal, r)
      PROVE  HistoryInv' /\ ActivationInv'
  BY <1>8, AcceptSignalHInv
<1>9. CASE Tick
  BY <1>9, TickHInv
<1>10. CASE UNCHANGED vars
  BY <1>10 DEF HInv, HistoryInv, ActivationInv, ActivatedOnce, vars
<1> QED BY <1>1, <1>2, <1>3, <1>4, <1>5, <1>6, <1>7, <1>8, <1>9, <1>10 DEF Next

LEMMA HInvAlways == Spec => []HInv
BY HInitInv, NextHInv, PTL DEF Spec

(* What a completed or abandoned Attempt meant for its Step was decided    *)
(* exactly once, in the transaction that accepted its result or abandoned  *)
(* it, and nothing was decided about any other Attempt.                    *)
THEOREM AttemptsAreDisposedOnce == Spec => []DisposedExactlyOnce
<1>1. HInv => DisposedExactlyOnce
  <2> SUFFICES ASSUME HInv, NEW s \in Step, NEW n \in DOMAIN attempts[s]
               PROVE  Cardinality({kind \in Disposition : Row(kind, <<s, n>>) \in trace}) =
                        IF attempts[s][n].state \in {"completed", "abandoned"} THEN 1 ELSE 0
    BY DEF DisposedExactlyOnce
  <2> DEFINE kinds == {kind \in Disposition : Row(kind, <<s, n>>) \in trace}
  <2>1. n \in Nat /\ History(s, steps[s], attempts[s], trace)
    <3>1. attempts[s] \in Seq(AttemptRow)
      BY DEF HInv, IInv, TypeOK
    <3> QED BY <3>1 DEF HInv, HistoryInv
  <2>2. CASE attempts[s][n].state \in {"completed", "abandoned"}
    <3>1. PICK kind \in Disposition : Row(kind, <<s, n>>) \in trace
      BY <2>1, <2>2 DEF History, Decided
    <3>2. kinds = {kind}
      BY <2>1, <3>1 DEF History
    <3> QED BY <2>2, <3>2, FS_Singleton
  <2>3. CASE attempts[s][n].state \notin {"completed", "abandoned"}
    <3>1. kinds = {}
      BY <2>1, <2>3 DEF History, Decided
    <3> QED BY <2>3, <3>1, FS_EmptySet
  <2> QED BY <2>2, <2>3
<1> QED BY <1>1, HInvAlways, PTL

(* An outcome never rests on an Attempt that a later one superseded.       *)
THEOREM OutcomesRestOnTheNewest == Spec => []OutcomeBasis
<1>1. HInv => OutcomeBasis
  <2>1. ASSUME HInv, NEW s \in Step
        PROVE  attempts[s] \in Seq(AttemptRow) /\ DOMAIN attempts[s] \subseteq Nat
    BY <2>1 DEF HInv, IInv, TypeOK
  <2> QED BY <2>1 DEF HInv, HistoryInv, History, OutcomeBasis, Last
<1> QED BY <1>1, HInvAlways, PTL

(* No Route is activated twice by one command, Signal or Attempt, and no   *)
(* Signal satisfies two Waits.                                             *)
THEOREM RoutesAreActivatedOnce == Spec => []ActivatedOnce
<1>1. HInv => ActivatedOnce
  BY DEF HInv, ActivationInv
<1> QED BY <1>1, HInvAlways, PTL

-----------------------------------------------------------------------------
(***************************************************************************)
(* The kernel implements WorkQueue.                                        *)
(***************************************************************************)

phases == [s \in Step |-> PhaseOf(s)]
budgets == [s \in Step |-> LeftOf(s)]

(* The phase and the budget of a Step depend on these alone.               *)
LEMMA SamePhase ==
  ASSUME NEW s \in Step,
         steps'[s].state = steps[s].state, steps'[s].deferred = steps[s].deferred,
         HasLease(s)' <=> HasLease(s)
  PROVE  PhaseOf(s)' = PhaseOf(s)
BY DEF PhaseOf

LEMMA SameBudget ==
  ASSUME NEW s \in Step,
         steps'[s].state = "absent" <=> steps[s].state = "absent",
         steps'[s].template = steps[s].template,
         Len(attempts'[s]) = Len(attempts[s])
  PROVE  LeftOf(s)' = LeftOf(s)
BY DEF LeftOf, MaxAttempts

LEMMA PendingPhases ==
  ASSUME NEW s \in Step, steps[s].state = "pending"
  PROVE  /\ HasLease(s) => PhaseOf(s) = "held"
         /\ ~HasLease(s) /\ steps[s].deferred # NotDeferred => PhaseOf(s) = "parked"
         /\ ~HasLease(s) /\ steps[s].deferred = NotDeferred => PhaseOf(s) = "queued"
BY DEF PhaseOf

LEMMA AbsentPhase ==
  ASSUME TypeOK, NEW s \in Step
  PROVE  PhaseOf(s) = "absent" <=> steps[s].state = "absent"
<1>1. steps[s].state \in StepState
  BY DEF TypeOK, StepRow
<1> QED BY <1>1 DEF PhaseOf, StepState

(* Rows that a Route adds enter the queue, each with its whole budget.     *)
LEMMA AddedEnter ==
  ASSUME IInv, TypeOK',
         NEW i, NEW new, NEW fresh, NEW stepRows, NEW waitRows,
         Added(stepRows, waitRows, i, new, fresh),
         \A s \in new : attempts'[s] = <<>>,
         NEW after, DOMAIN after = Step,
         \A s \in Step \ new : PhaseOf(s)' = after[s] /\ LeftOf(s)' = LeftOf(s)
  PROVE  Queue!Enter(after, new)
<1>1. new \subseteq Step /\ \A s \in new : steps[s].state = "absent"
  BY DEF Added
<1>2. new \subseteq Queue!Absent
  BY <1>1, AbsentPhase DEF IInv, Queue!Absent
<1>3. ASSUME NEW s \in new
      PROVE  /\ PhaseOf(s)' = "queued"
             /\ steps'[s].template \in Template
             /\ LeftOf(s)' = MaxAttempts(steps'[s].template)
  <2>1. /\ steps'[s].state = "pending" /\ steps'[s].deferred = NotDeferred
        /\ steps'[s].template \in Template /\ attempts'[s] = <<>>
    BY DEF Added
  <2>2. ~HasLease(s)'
    BY <2>1 DEF HasLease
  <2>3. MaxAttempts(steps'[s].template) \in Nat
    BY <2>1, BudgetType
  <2> QED BY <2>1, <2>2, <2>3 DEF PhaseOf, LeftOf
<1>4. phases' = [s \in Step |-> IF s \in new THEN "queued" ELSE after[s]]
  BY <1>3 DEF phases
<1> DEFINE budget == [s \in new |-> MaxAttempts(steps'[s].template)]
<1>5. budget \in [new -> {MaxAttempts(t) : t \in Template}]
  BY <1>3
<1>6. budgets' = [s \in Step |-> IF s \in new THEN budget[s] ELSE budgets[s]]
  BY <1>1, <1>3 DEF budgets
<1> QED BY <1>2, <1>4, <1>5, <1>6 DEF Queue!Enter, phases, budgets

-----------------------------------------------------------------------------
(* Which step of the queue a transaction is.                               *)

(* Steps whose rows and Attempts did not change are where they were.       *)
LEMMA Untouched ==
  ASSUME NEW s \in Step, steps'[s] = steps[s], attempts'[s] = attempts[s]
  PROVE  PhaseOf(s)' = PhaseOf(s) /\ LeftOf(s)' = LeftOf(s)
<1>1. HasLease(s)' <=> HasLease(s)
  BY DEF HasLease
<1> QED BY <1>1, SamePhase, SameBudget

LEMMA StartActivates ==
  ASSUME IInv, TypeOK', NEW i \in Instance, NEW r \in Route, Start(i, r)
  PROVE  Queue!Activate
<1>1. PICK new, fresh : Added(steps, waits, i, new, fresh)
  <2>1. TypeOK /\ steps \in [Step -> StepRow] /\ waits \in [Wait -> WaitRow]
    BY DEF IInv, TypeOK
  <2>2. <<"command", i>> \in ActivationSource
    BY DEF ActivationSource
  <2> QED BY <2>1, <2>2, MaterializeAdds DEF Start
<1>2. /\ attempts' = attempts /\ new \subseteq Step
      /\ \A s \in new : attempts'[s] = <<>>
      /\ \A s \in Step \ new : steps'[s] = steps[s]
  BY <1>1 DEF Start, Added, IInv, RowInv
<1>3. \A s \in Step \ new : PhaseOf(s)' = phases[s] /\ LeftOf(s)' = LeftOf(s)
  BY <1>2, Untouched DEF phases
<1>4. DOMAIN phases = Step
  BY DEF phases
<1>5. Queue!Enter(phases, new)
  BY <1>1, <1>2, <1>3, <1>4, AddedEnter
<1> QED BY <1>2, <1>5 DEF Queue!Activate, phases

LEMMA AcceptSignalActivates ==
  ASSUME IInv, TypeOK', NEW w \in Wait, NEW signal \in Signal, NEW r \in Route,
         AcceptSignal(w, signal, r)
  PROVE  Queue!Activate
<1> DEFINE i == waits[w].instance
           satisfied == [waits EXCEPT ![w] =
                           [@ EXCEPT !.state = "satisfied", !.signal = signal]]
<1>1. PICK new, fresh : Added(steps, satisfied, i, new, fresh)
  <2>1. /\ TypeOK /\ steps \in [Step -> StepRow] /\ waits \in [Wait -> WaitRow]
        /\ i \in Instance
    BY DEF IInv, TypeOK, AcceptSignal, Open
  <2>2. [waits[w] EXCEPT !.state = "satisfied", !.signal = signal] \in WaitRow
    BY <2>1 DEF WaitRow, WaitState
  <2>3. satisfied \in [Wait -> WaitRow]
    BY <2>1, <2>2
  <2>4. Materialize(steps, satisfied, i, r, <<"signal", signal>>)
    BY DEF AcceptSignal
  <2>5. <<"signal", signal>> \in ActivationSource
    BY DEF ActivationSource
  <2> HIDE DEF satisfied, i
  <2> QED BY <2>1, <2>3, <2>4, <2>5, MaterializeAdds
<1>2. /\ attempts' = attempts /\ new \subseteq Step
      /\ \A s \in new : attempts'[s] = <<>>
      /\ \A s \in Step \ new : steps'[s] = steps[s]
  BY <1>1 DEF AcceptSignal, Added, IInv, RowInv
<1>3. \A s \in Step \ new : PhaseOf(s)' = phases[s] /\ LeftOf(s)' = LeftOf(s)
  BY <1>2, Untouched DEF phases
<1>4. DOMAIN phases = Step
  BY DEF phases
<1> HIDE DEF satisfied, i
<1>5. Queue!Enter(phases, new)
  BY <1>1, <1>2, <1>3, <1>4, AddedEnter
<1> QED BY <1>2, <1>5 DEF Queue!Activate, phases

LEMMA ClaimGrants ==
  ASSUME IInv, NEW s \in Step, NEW w \in Worker, Claim(s, w)
  PROVE  Queue!Grant(s)
<1> DEFINE t == steps[s].template
           lease == [state |-> "leased", worker |-> w,
                     lease |-> LeaseSeconds[t], deadline |-> MaximumSeconds[t]]
<1>1. /\ attempts \in [Step -> Seq(AttemptRow)]
      /\ steps' = steps
      /\ steps[s].state = "pending" /\ steps[s].deferred = NotDeferred
      /\ ~HasLease(s)
      /\ t \in Template /\ MaxAttempts(t) \in Nat /\ Len(attempts[s]) < MaxAttempts(t)
  <2>1. /\ TypeOK /\ steps[s].state = "pending" /\ ~HasLease(s)
        /\ steps[s].claimable # Never /\ RowInv(steps[s], attempts[s], OpenInstances)
    BY DEF IInv, Claim, Claimable, Never
  <2>2. t \in Template
    BY <2>1 DEF TypeOK
  <2>3. steps[s].deferred = NotDeferred
    BY <2>1 DEF RowInv, HasLease
  <2> QED BY <2>1, <2>2, <2>3, BudgetType DEF TypeOK, Claim, BudgetLeft
<1>2. lease.state = "leased"
  OBVIOUS
<1>3. attempts' = [attempts EXCEPT ![s] = Append(attempts[s], lease)]
  BY <1>1 DEF Claim
<1> HIDE DEF lease
<1>4. /\ Len(attempts'[s]) = Len(attempts[s]) + 1
      /\ HasLease(s)'
      /\ \A u \in Step : u # s => attempts'[u] = attempts[u]
  <2>1. attempts[s] \in Seq(AttemptRow) /\ attempts'[s] = Append(attempts[s], lease)
    BY <1>1, <1>3
  <2>2. /\ Len(attempts'[s]) = Len(attempts[s]) + 1
        /\ Len(attempts[s]) + 1 \in DOMAIN attempts'[s]
        /\ attempts'[s][Len(attempts[s]) + 1].state = "leased"
    BY <1>2, <2>1
  <2> QED BY <1>1, <1>3, <2>2 DEF HasLease
<1>5. PhaseOf(s) = "queued" /\ PhaseOf(s)' = "held"
  BY <1>1, <1>4, PendingPhases DEF PhaseOf
<1>6. LeftOf(s) \in Nat /\ LeftOf(s) > 0 /\ LeftOf(s)' = LeftOf(s) - 1
  <2>1. Len(attempts[s]) \in Nat
    BY <1>1
  <2>2. LeftOf(s) = MaxAttempts(t) - Len(attempts[s])
    BY <1>1 DEF LeftOf
  <2>3. LeftOf(s)' = MaxAttempts(t) - Len(attempts'[s])
    BY <1>1 DEF LeftOf, MaxAttempts
  <2> QED BY <1>1, <1>4, <2>1, <2>2, <2>3
<1>7. \A u \in Step : u # s => PhaseOf(u)' = PhaseOf(u) /\ LeftOf(u)' = LeftOf(u)
  BY <1>1, <1>4, Untouched
<1>8. phases' = [phases EXCEPT ![s] = "held"]
  BY <1>5, <1>7 DEF phases
<1>9. budgets' = [budgets EXCEPT ![s] = @ - 1]
  BY <1>6, <1>7 DEF budgets
<1> QED BY <1>5, <1>6, <1>8, <1>9 DEF Queue!Grant, phases, budgets

LEMMA ResolveDeferredResolves ==
  ASSUME IInv, NEW s \in Step, NEW n \in DOMAIN attempts[s], NEW source \in Source,
         ResolveDeferred(s, n, source)
  PROVE  Queue!Resolve(s)
<1>1. /\ TypeOK /\ attempts' = attempts
      /\ steps[s].state = "pending" /\ steps[s].deferred = n
      /\ attempts[s] \in Seq(AttemptRow) /\ n # NotDeferred
  <2>1. attempts[s] \in Seq(AttemptRow)
    BY DEF IInv, TypeOK
  <2> QED BY <2>1 DEF IInv, ResolveDeferred, Targets, NotDeferred
<1>2. ~HasLease(s)
  BY <1>1 DEF IInv, RowInv, HasLease
<1>3. PICK state \in {"succeeded", "failed", "pending"}, claimable \in {Never, 0} :
        /\ steps' = UpdateStep(s, state, claimable, NotDeferred)
        /\ state = "pending" => BudgetLeft(s)
  BY DEF ResolveDeferred, Outcome, ClaimableAfter
<1> DEFINE old == steps[s]
           after == [old EXCEPT !.state = state, !.claimable = claimable,
                                !.deferred = NotDeferred]
<1>4. steps'[s] = after /\ \A u \in Step : u # s => steps'[u] = steps[u]
  BY <1>1, <1>3 DEF UpdateStep, TypeOK
<1>5. old \in StepRow /\ old = steps[s]
  BY <1>1 DEF TypeOK
<1> HIDE DEF old
<1>6. after.state = state /\ after.deferred = NotDeferred /\ after.template = old.template
  BY <1>5 DEF StepRow
<1> HIDE DEF after
<1>7. HasLease(s)' <=> HasLease(s)
  BY <1>1 DEF HasLease
<1>8. /\ PhaseOf(s) = "parked"
      /\ PhaseOf(s)' = IF state = "pending" THEN "queued" ELSE state
  BY <1>1, <1>2, <1>4, <1>6, <1>7 DEF PhaseOf
<1>9. LeftOf(s)' = LeftOf(s)
  BY <1>1, <1>4, <1>5, <1>6, SameBudget
<1>10. state = "pending" => LeftOf(s) > 0
  <2>1. MaxAttempts(steps[s].template) \in Nat /\ Len(attempts[s]) \in Nat
    BY <1>1, BudgetType DEF TypeOK
  <2> QED BY <1>1, <1>3, <2>1 DEF LeftOf, BudgetLeft
<1>11. \A u \in Step : u # s => PhaseOf(u)' = PhaseOf(u) /\ LeftOf(u)' = LeftOf(u)
  BY <1>1, <1>4, Untouched
<1>12. budgets' = budgets
  BY <1>9, <1>11 DEF budgets
<1>13. phases' = [phases EXCEPT ![s] = IF state = "pending" THEN "queued" ELSE state]
  BY <1>8, <1>11 DEF phases
<1> QED BY <1>8, <1>10, <1>12, <1>13 DEF Queue!Resolve, phases, budgets

LEMMA CloseWithdraws ==
  ASSUME IInv, NEW i \in Instance, Close(i)
  PROVE  Queue!Withdraw
<1> DEFINE gone == {s \in Step : steps[s].instance = i /\ steps[s].state = "pending"}
<1>1. /\ steps \in [Step -> StepRow] /\ attempts \in [Step -> Seq(AttemptRow)]
  BY DEF IInv, TypeOK
<1>2. ASSUME NEW s \in Step
      PROVE  Len(attempts'[s]) = Len(attempts[s])
  <2> DEFINE after(n) == IF steps[s].instance = i /\ attempts[s][n].state = "leased"
                         THEN Settled(attempts[s][n], "cancelled")
                         ELSE attempts[s][n]
  <2>1. attempts'[s] = [n \in DOMAIN attempts[s] |-> after(n)] /\ attempts[s] \in Seq(AttemptRow)
    BY <1>1 DEF Close, CancelledAttempts
  <2> HIDE DEF after
  <2> QED BY <2>1
<1>3. ASSUME NEW s \in gone
      PROVE  /\ PhaseOf(s)' = "withdrawn"
             /\ PhaseOf(s) \in {"queued", "held", "parked"}
             /\ LeftOf(s)' = LeftOf(s)
  <2> DEFINE old == steps[s]
             after == [old EXCEPT !.state = "cancelled", !.claimable = Never,
                                  !.deferred = NotDeferred]
  <2>1. steps'[s] = after
    BY <1>1 DEF Close, CancelledSteps, Outcome, UpdateStep
  <2>2. old \in StepRow /\ old = steps[s] /\ old.state = "pending"
    BY <1>1
  <2> HIDE DEF old
  <2>3. after.state = "cancelled" /\ after.template = old.template
    BY <2>2 DEF StepRow
  <2> HIDE DEF after
  <2>4. PhaseOf(s)' = "withdrawn"
    BY <2>1, <2>3 DEF PhaseOf
  <2>5. PhaseOf(s) \in {"queued", "held", "parked"}
    BY <2>2, PendingPhases
  <2> QED BY <1>2, <2>1, <2>2, <2>3, <2>4, <2>5, SameBudget
<1>4. ASSUME NEW s \in Step, s \notin gone
      PROVE  PhaseOf(s)' = PhaseOf(s) /\ LeftOf(s)' = LeftOf(s)
  <2>1. steps'[s] = steps[s]
    BY <1>4 DEF Close, CancelledSteps
  <2>2. CASE steps[s].state = "pending"
    <3> DEFINE after(n) == IF steps[s].instance = i /\ attempts[s][n].state = "leased"
                           THEN Settled(attempts[s][n], "cancelled")
                           ELSE attempts[s][n]
    <3>1. attempts'[s] = [n \in DOMAIN attempts[s] |-> after(n)] /\ attempts[s] \in Seq(AttemptRow)
      BY <1>1 DEF Close, CancelledAttempts
    <3>2. \A n \in DOMAIN attempts[s] : after(n) = attempts[s][n]
      BY <1>4, <2>2
    <3> HIDE DEF after
    <3>3. attempts'[s] = attempts[s]
      BY <3>1, <3>2
    <3> QED BY <2>1, <3>3, Untouched
  <2>3. CASE steps[s].state # "pending"
    <3>1. PhaseOf(s)' = PhaseOf(s)
      BY <2>1, <2>3 DEF PhaseOf
    <3> QED BY <1>2, <2>1, <3>1, SameBudget
  <2> QED BY <2>2, <2>3
<1>5. gone \subseteq {s \in Step : phases[s] \in {"queued", "held", "parked"}}
  BY <1>3 DEF phases
<1>6. phases' = [s \in Step |-> IF s \in gone THEN "withdrawn" ELSE phases[s]]
  BY <1>3, <1>4 DEF phases
<1>7. budgets' = budgets
  BY <1>3, <1>4 DEF budgets
<1> HIDE DEF gone
<1> QED BY <1>5, <1>6, <1>7 DEF Queue!Withdraw, phases, budgets

(* Renewals and the passing of time are invisible.                         *)
LEMMA RenewIsInvisible ==
  ASSUME IInv, NEW s \in Step, NEW n \in DOMAIN attempts[s], NEW w \in Worker,
         Renew(s, n, w)
  PROVE  UNCHANGED <<phases, budgets>>
<1> DEFINE seconds == Renewal(steps[s].template, attempts[s][n].deadline)
           renewed == [attempts[s][n] EXCEPT !.lease = seconds]
<1>1. /\ attempts \in [Step -> Seq(AttemptRow)] /\ attempts[s] \in Seq(AttemptRow)
      /\ attempts[s][n] \in AttemptRow /\ attempts[s][n].state = "leased"
      /\ steps' = steps
  BY DEF IInv, TypeOK, Renew, LiveLease
<1>2. renewed.state = "leased"
  <2> HIDE DEF seconds
  <2> QED BY <1>1 DEF AttemptRow
<1>3. attempts' = [attempts EXCEPT ![s] = [attempts[s] EXCEPT ![n] = renewed]]
  BY <1>1 DEF Renew
<1> HIDE DEF renewed
<1>4. /\ Len(attempts'[s]) = Len(attempts[s])
      /\ DOMAIN attempts'[s] = DOMAIN attempts[s]
      /\ attempts'[s][n].state = "leased"
      /\ \A u \in Step : u # s => attempts'[u] = attempts[u]
  BY <1>1, <1>2, <1>3
<1>5. HasLease(s)' <=> HasLease(s)
  BY <1>1, <1>4 DEF HasLease
<1>6. \A u \in Step : PhaseOf(u)' = PhaseOf(u) /\ LeftOf(u)' = LeftOf(u)
  BY <1>1, <1>4, <1>5, Untouched, SamePhase, SameBudget
<1> QED BY <1>6 DEF phases, budgets

LEMMA TickIsInvisible ==
  ASSUME IInv, Tick
  PROVE  UNCHANGED <<phases, budgets>>
<1>1. steps \in [Step -> StepRow] /\ attempts \in [Step -> Seq(AttemptRow)]
  BY DEF IInv, TypeOK
<1>2. ASSUME NEW s \in Step
      PROVE  /\ steps'[s].state = steps[s].state
             /\ steps'[s].deferred = steps[s].deferred
             /\ steps'[s].template = steps[s].template
  <2> DEFINE old == steps[s]
             claimable == Elapse(old.claimable)
             after == [old EXCEPT !.claimable = claimable]
  <2>1. old \in StepRow /\ old = steps[s] /\ steps'[s] = after
    BY <1>1 DEF Tick
  <2> HIDE DEF old, claimable
  <2>2. /\ after.state = old.state /\ after.deferred = old.deferred
        /\ after.template = old.template
    BY <2>1 DEF StepRow
  <2> HIDE DEF after
  <2> QED BY <2>1, <2>2
<1>3. ASSUME NEW s \in Step
      PROVE  Len(attempts'[s]) = Len(attempts[s]) /\ (HasLease(s)' <=> HasLease(s))
  <2> DEFINE after(n) ==
        IF attempts[s][n].state = "leased"
        THEN [attempts[s][n] EXCEPT !.lease = Elapse(@), !.deadline = Elapse(@)]
        ELSE attempts[s][n]
  <2>1. attempts[s] \in Seq(AttemptRow)
    BY <1>1
  <2>2. ASSUME NEW n \in DOMAIN attempts[s]
        PROVE  after(n).state = attempts[s][n].state
    <3>1. attempts[s][n] \in AttemptRow
      BY <2>1
    <3> QED BY <3>1 DEF AttemptRow
  <2>3. attempts'[s] = [n \in DOMAIN attempts[s] |-> after(n)]
    BY DEF Tick
  <2> HIDE DEF after
  <2>4. Len(attempts'[s]) = Len(attempts[s])
    BY <2>1, <2>3
  <2>5. /\ DOMAIN attempts'[s] = DOMAIN attempts[s]
        /\ \A n \in DOMAIN attempts[s] : attempts'[s][n].state = attempts[s][n].state
    BY <2>2, <2>3
  <2>6. HasLease(s)' <=> HasLease(s)
    BY <2>5 DEF HasLease
  <2> QED BY <2>4, <2>6
<1>4. \A s \in Step : PhaseOf(s)' = PhaseOf(s) /\ LeftOf(s)' = LeftOf(s)
  BY <1>2, <1>3, SamePhase, SameBudget
<1> QED BY <1>4 DEF phases, budgets

(* Accept and Recover: whoever holds the Step, or declares its holder      *)
(* lost, decides about it.                                                 *)
LEMMA DisposalDecides ==
  ASSUME IInv, TypeOK', NEW s \in Step, NEW n \in DOMAIN attempts[s],
         NEW state \in {"completed", "abandoned"}, NEW row,
         attempts[s][n].state = "leased",
         attempts' = Settle(s, n, state),
         Succeed(s, n, row) \/ Retry(s, n, row) \/ Fail(s, n, row) \/ Defer(s, n, row)
  PROVE  Queue!Decide(s)
<1>1. /\ TypeOK
      /\ steps \in [Step -> StepRow] /\ waits \in [Wait -> WaitRow]
      /\ attempts \in [Step -> Seq(AttemptRow)]
      /\ steps[s].state = "pending" /\ n = Len(attempts[s]) /\ n \in Nat \ {0}
      /\ steps[s].instance \in Instance /\ steps[s].template \in Template
  <2>1. attempts[s] \in Seq(AttemptRow)
    BY DEF IInv, TypeOK
  <2> QED BY <2>1 DEF IInv, TypeOK, RowInv
<1>2. /\ Len(attempts'[s]) = Len(attempts[s])
      /\ ~HasLease(s)'
      /\ \A u \in Step : u # s => attempts'[u] = attempts[u]
  <2> DEFINE next == [attempts[s] EXCEPT ![n] = Settled(@, state)]
  <2>1. attempts[s] \in Seq(AttemptRow) /\ state \in AttemptState /\ state # "leased"
    BY <1>1 DEF AttemptState
  <2>2. attempts' = [attempts EXCEPT ![s] = next]
    BY <1>1 DEF Settle
  <2>3. /\ next \in Seq(AttemptRow)
        /\ Len(next) = Len(attempts[s])
        /\ \A m \in DOMAIN attempts[s] : m # n => next[m] = attempts[s][m]
        /\ next[n].state = state
    BY <2>1, SettleList
  <2> HIDE DEF next
  <2>4. \A m \in DOMAIN next : next[m].state # "leased"
    <3>1. \A m \in DOMAIN attempts[s] : m # n => attempts[s][m].state # "leased"
      BY <1>1 DEF IInv, RowInv
    <3>2. DOMAIN next = DOMAIN attempts[s]
      BY <2>1, <2>3
    <3> QED BY <2>1, <2>3, <3>1, <3>2
  <2>5. attempts'[s] = next /\ \A u \in Step : u # s => attempts'[u] = attempts[u]
    BY <1>1, <2>2
  <2> QED BY <2>3, <2>4, <2>5 DEF HasLease
<1>3. PhaseOf(s) = "held"
  <2>1. HasLease(s)
    BY DEF HasLease
  <2> QED BY <1>1, <2>1, PendingPhases
<1>4. ASSUME NEW decision \in {"succeeded", "failed", "pending"}, NEW claimable, NEW deferred,
             NEW rows, rows = UpdateStep(s, decision, claimable, deferred)
      PROVE  /\ \A u \in Step : u # s => rows[u] = steps[u]
             /\ rows[s].state = decision /\ rows[s].deferred = deferred
             /\ rows[s].template = steps[s].template
  <2> DEFINE old == steps[s]
             after == [old EXCEPT !.state = decision, !.claimable = claimable,
                                  !.deferred = deferred]
  <2>1. rows[s] = after /\ \A u \in Step : u # s => rows[u] = steps[u]
    BY <1>1, <1>4 DEF UpdateStep
  <2>2. old \in StepRow /\ old = steps[s]
    BY <1>1
  <2> HIDE DEF old
  <2>3. after.state = decision /\ after.deferred = deferred /\ after.template = old.template
    BY <2>2 DEF StepRow
  <2> HIDE DEF after
  <2> QED BY <2>1, <2>2, <2>3
<1>5. ASSUME NEW decision \in {"succeeded", "failed", "pending"}, NEW claimable, NEW deferred,
             NEW rows, rows = UpdateStep(s, decision, claimable, deferred),
             NEW new, NEW fresh, Added(rows, waits, steps[s].instance, new, fresh),
             NEW next,
             next = IF decision # "pending" THEN decision
                    ELSE IF deferred = NotDeferred THEN "queued" ELSE "parked"
      PROVE  Queue!Enter([phases EXCEPT ![s] = next], new)
  <2>1. s \notin new /\ \A u \in new : attempts'[u] = <<>>
    BY <1>1, <1>2, <1>5 DEF Added, IInv, RowInv
  <2>2. steps'[s] = rows[s] /\ \A u \in Step \ new : u # s => steps'[u] = steps[u]
    BY <1>4, <1>5, <2>1 DEF Added
  <2>3. PhaseOf(s)' = next /\ LeftOf(s)' = LeftOf(s)
    <3>1. /\ steps'[s].state = decision /\ steps'[s].deferred = deferred
          /\ steps'[s].template = steps[s].template
      BY <1>4, <1>5, <2>2
    <3> QED BY <1>1, <1>2, <1>5, <3>1, SameBudget DEF PhaseOf
  <2>4. \A u \in Step \ new : u # s => PhaseOf(u)' = PhaseOf(u) /\ LeftOf(u)' = LeftOf(u)
    BY <1>2, <2>2, Untouched
  <2> DEFINE after == [phases EXCEPT ![s] = next]
  <2>5. /\ DOMAIN after = Step
        /\ \A u \in Step \ new : PhaseOf(u)' = after[u] /\ LeftOf(u)' = LeftOf(u)
    BY <2>3, <2>4 DEF phases
  <2> HIDE DEF after
  <2>6. Queue!Enter(after, new)
    BY <1>5, <2>1, <2>5, AddedEnter
  <2> QED BY <2>6 DEF after
<1>6. ASSUME NEW rows \in [Step -> StepRow], MaterializeStepRoute(rows, s, n)
      PROVE  \E new, fresh : Added(rows, waits, steps[s].instance, new, fresh)
  <2>1. <<"step", s, n>> \in ActivationSource
    BY <1>1 DEF ActivationSource
  <2>2. CASE steps' = rows /\ UNCHANGED waits
    BY <1>1, <2>2, NothingAdded
  <2>3. CASE \E r \in Route :
               /\ Activation[r] = "step"
               /\ SourceTemplate[r] = steps[s].template
               /\ Materialize(rows, waits, steps[s].instance, r, <<"step", s, n>>)
    BY <1>1, <2>1, <2>3, MaterializeAdds
  <2> QED BY <1>6, <2>2, <2>3 DEF MaterializeStepRoute
<1>7. ASSUME NEW decision \in {"succeeded", "failed", "pending"},
             NEW claimable \in Nat \cup {Never}, NEW deferred \in Nat
      PROVE  UpdateStep(s, decision, claimable, deferred) \in [Step -> StepRow]
  <2> DEFINE old == steps[s]
             after == [old EXCEPT !.state = decision, !.claimable = claimable,
                                  !.deferred = deferred]
  <2>1. UpdateStep(s, decision, claimable, deferred) = [steps EXCEPT ![s] = after]
    BY <1>1 DEF UpdateStep
  <2>2. old \in StepRow /\ decision \in StepState
    BY <1>1 DEF StepState
  <2> HIDE DEF old
  <2>3. after \in StepRow
    BY <2>2 DEF StepRow
  <2> HIDE DEF after
  <2> QED BY <1>1, <2>1, <2>3
<1>8. ASSUME NEW rows \in [Step -> StepRow], steps' = rows, waits' = waits
      PROVE  Added(rows, waits, steps[s].instance, {}, {})
  BY <1>1, <1>8 DEF Added
<1>9. Never \in Nat \cup {Never} /\ NotDeferred \in Nat /\ NotDeferred # n
  BY <1>1 DEF NotDeferred
<1>10. CASE Succeed(s, n, row)
  <2> DEFINE rows == UpdateStep(s, "succeeded", Never, NotDeferred)
  <2>1. rows \in [Step -> StepRow] /\ MaterializeStepRoute(rows, s, n)
    BY <1>7, <1>9, <1>10 DEF Succeed, Outcome
  <2>2. PICK new, fresh : Added(rows, waits, steps[s].instance, new, fresh)
    BY <1>6, <2>1
  <2>3. new \subseteq Step
    BY <2>2 DEF Added
  <2>4. Queue!Enter([phases EXCEPT ![s] = "succeeded"], new)
    BY <1>5, <2>2
  <2> QED BY <1>3, <2>3, <2>4 DEF Queue!Decide, phases
<1>11. CASE Defer(s, n, row)
  <2> DEFINE rows == UpdateStep(s, "pending", Never, n)
  <2>1. rows \in [Step -> StepRow] /\ MaterializeStepRoute(rows, s, n)
    BY <1>1, <1>7, <1>9, <1>11 DEF Defer, DeferredOn
  <2>2. PICK new, fresh : Added(rows, waits, steps[s].instance, new, fresh)
    BY <1>6, <2>1
  <2>3. new \subseteq Step
    BY <2>2 DEF Added
  <2>4. Queue!Enter([phases EXCEPT ![s] = "parked"], new)
    BY <1>5, <1>9, <2>2
  <2> QED BY <1>3, <2>3, <2>4 DEF Queue!Decide, phases
<1>12. CASE Fail(s, n, row)
  <2> DEFINE rows == UpdateStep(s, "failed", Never, NotDeferred)
  <2>1. rows \in [Step -> StepRow] /\ steps' = rows /\ waits' = waits
    BY <1>7, <1>9, <1>12 DEF Fail, Outcome
  <2>2. Added(rows, waits, steps[s].instance, {}, {})
    BY <1>8, <2>1
  <2>3. Queue!Enter([phases EXCEPT ![s] = "failed"], {})
    BY <1>5, <2>2
  <2> QED BY <1>3, <2>3 DEF Queue!Decide, phases
<1>13. CASE Retry(s, n, row)
  <2> DEFINE delay == Delays[steps[s].template][n]
             rows == UpdateStep(s, "pending", delay, NotDeferred)
  <2>1. Delays[steps[s].template] \in Seq(Nat)
    BY <1>1, BudgetType
  <2>2. delay \in Nat /\ n < MaxAttempts(steps[s].template)
    BY <2>1, <1>1, <1>13 DEF Retry, MaxAttempts
  <2>3. steps' = rows /\ waits' = waits
    BY <1>13 DEF Retry, ClaimableAfter
  <2> HIDE DEF delay
  <2>4. rows \in [Step -> StepRow]
    BY <1>7, <1>9, <2>2
  <2>5. Added(rows, waits, steps[s].instance, {}, {})
    BY <1>8, <2>3, <2>4
  <2>6. Queue!Enter([phases EXCEPT ![s] = "queued"], {})
    BY <1>5, <2>5
  <2>7. LeftOf(s) > 0
    <3>1. MaxAttempts(steps[s].template) \in Nat
      BY <1>1, BudgetType
    <3> QED BY <1>1, <2>2, <3>1 DEF LeftOf
  <2> QED BY <1>3, <2>6, <2>7 DEF Queue!Decide, phases, budgets
<1> QED BY <1>10, <1>11, <1>12, <1>13

-----------------------------------------------------------------------------
LEMMA InitIsMapped == Init => Queue!Init
<1> SUFFICES ASSUME Init PROVE Queue!Init
  OBVIOUS
<1>1. \A s \in Step : PhaseOf(s) = "absent" /\ LeftOf(s) = 0
  BY DEF Init, AbsentStep, PhaseOf, LeftOf
<1> QED BY <1>1 DEF Queue!Init

LEMMA NextIsMapped ==
  ASSUME IInv, TypeOK', [Next]_vars
  PROVE  Queue!Next \/ UNCHANGED <<phases, budgets>>
<1>1. ASSUME NEW i \in Instance, Close(i) PROVE Queue!Next
  BY <1>1, CloseWithdraws DEF Queue!Next
<1>2. ASSUME NEW i \in Instance, NEW r \in Route, Start(i, r) PROVE Queue!Next
  BY <1>2, StartActivates DEF Queue!Next
<1>3. ASSUME NEW s \in Step, NEW w \in Worker, Claim(s, w) PROVE Queue!Next
  BY <1>3, ClaimGrants DEF Queue!Next
<1>4. ASSUME NEW s \in Step, NEW n \in DOMAIN attempts[s], Recover(s, n)
      PROVE  Queue!Next
  <2>1. Queue!Decide(s)
    BY <1>4, DisposalDecides DEF Recover, Expired
  <2> QED BY <2>1 DEF Queue!Next
<1>5. ASSUME NEW s \in Step, NEW n \in DOMAIN attempts[s], NEW w \in Worker, Accept(s, n, w)
      PROVE  Queue!Next
  <2>1. Queue!Decide(s)
    BY <1>5, DisposalDecides DEF Accept, LiveLease
  <2> QED BY <2>1 DEF Queue!Next
<1>6. ASSUME NEW s \in Step, NEW n \in DOMAIN attempts[s], NEW source \in Source,
             ResolveDeferred(s, n, source)
      PROVE  Queue!Next
  BY <1>6, ResolveDeferredResolves DEF Queue!Next
<1>7. ASSUME NEW w \in Wait, NEW signal \in Signal, NEW r \in Route,
             AcceptSignal(w, signal, r)
      PROVE  Queue!Next
  BY <1>7, AcceptSignalActivates DEF Queue!Next
<1>8. ASSUME NEW s \in Step, NEW n \in DOMAIN attempts[s], NEW w \in Worker, Renew(s, n, w)
      PROVE  UNCHANGED <<phases, budgets>>
  BY <1>8, RenewIsInvisible
<1>9. CASE Tick
  BY <1>9, TickIsInvisible
<1>10. CASE UNCHANGED vars
  BY <1>10, Untouched DEF vars, phases, budgets
<1> QED BY <1>1, <1>2, <1>3, <1>4, <1>5, <1>6, <1>7, <1>8, <1>9, <1>10 DEF Next

(* The tables, leases, Routes and clocks of the kernel implement the plain *)
(* queue: one holder per Step, a budget of claims that is never exceeded,  *)
(* one decision.                                                           *)
THEOREM KernelIsAQueue == Spec => ImplementsWorkQueue
<1>1. IInv /\ IInv' /\ [Next]_vars => [Queue!Next]_(Queue!queue)
  <2> SUFFICES ASSUME IInv, IInv', [Next]_vars
               PROVE  [Queue!Next]_(Queue!queue)
    OBVIOUS
  <2>1. TypeOK'
    BY DEF IInv
  <2>2. Queue!Next \/ UNCHANGED <<phases, budgets>>
    BY <2>1, NextIsMapped
  <2> QED BY <2>2 DEF Queue!queue, phases, budgets
<1> QED BY <1>1, InitIsMapped, IInvAlways, PTL
       DEF Spec, ImplementsWorkQueue, Queue!Spec
=============================================================================
