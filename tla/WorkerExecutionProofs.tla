------------------------ MODULE WorkerExecutionProofs ------------------------
(***************************************************************************)
(* WorkerExecution, for every number of processes and Attempts and every   *)
(* timing of leases: the Agent Run of an Attempt tells what became of it,  *)
(* and one draft is recorded.  And the process an Agent runs in            *)
(* (AgentProcess), for a tree of any size and every way in which it        *)
(* interleaves with its owner: what it leaves behind without an error, and *)
(* what becomes of the candidate it sent.                                  *)
(***************************************************************************)
EXTENDS WorkerExecution, AgentProcess, SequenceTheorems, TLAPS

AttemptRow ==
  [state : {"leased", "completed", "abandoned", "cancelled"}, worker : Worker,
   lease : Nat, deadline : Nat]

RunState == {"none", "running", "completed", "failed", "abandoned"}

Stage ==
  {"none", "held", "prepared", "running", "failing", "returned", "accepting", "over"}

Execution ==
  [stage : Stage, maintainer : {"off", "waiting", "renewing"}, cancelled : BOOLEAN]

TypeOK ==
  /\ agent \in BOOLEAN /\ open \in BOOLEAN
  /\ step \in {"pending", "succeeded", "failed", "cancelled"}
  /\ attempts \in Seq(AttemptRow) /\ Len(attempts) <= MaxRenewalAttempts
  /\ runs \in [Number -> RunState]
  /\ drafts \in Seq(Number)
  /\ work \in [Number -> Execution]
  /\ process \in [Worker -> {"up", "stopping", "down"}]

(* Only the newest Attempt can hold a lease, and only while the Step is    *)
(* pending in an open Instance.                                            *)
LeaseInv ==
  \A n \in DOMAIN attempts : attempts[n].state = "leased" =>
    n = Len(attempts) /\ open /\ step = "pending"

(* No Run and no lease maintainer before its Attempt, and no Run at all    *)
(* for an operation.                                                       *)
UnclaimedInv ==
  /\ \A n \in Number \ DOMAIN attempts : runs[n] = "none" /\ work[n].maintainer = "off"
  /\ ~agent => \A n \in Number : runs[n] = "none"

Inv == TypeOK /\ LeaseInv /\ UnclaimedInv /\ RunFollowsAttempt /\ OneDraft

-----------------------------------------------------------------------------
(* Attempts, executions, Runs.                                             *)

LEMMA AttemptNumbers ==
  ASSUME TypeOK
  PROVE  /\ Len(attempts) \in Nat /\ DOMAIN attempts = 1..Len(attempts)
         /\ DOMAIN attempts \subseteq Number
         /\ \A n \in DOMAIN attempts : n \in Nat /\ attempts[n] \in AttemptRow
<1>1. attempts \in Seq(AttemptRow) /\ Len(attempts) <= MaxRenewalAttempts /\ MaxRenewalAttempts \in Nat
  BY RenewalBudgetAssumption DEF TypeOK
<1> QED BY <1>1 DEF Number

LEMMA AttemptChanges ==
  ASSUME TypeOK, NEW n \in DOMAIN attempts, NEW row \in AttemptRow,
         attempts' = [attempts EXCEPT ![n] = row]
  PROVE  /\ attempts' \in Seq(AttemptRow) /\ Len(attempts') = Len(attempts)
         /\ \A j \in DOMAIN attempts : attempts'[j] = IF j = n THEN row ELSE attempts[j]
<1>1. attempts \in Seq(AttemptRow) /\ n \in 1..Len(attempts)
  BY AttemptNumbers DEF TypeOK
<1> QED BY <1>1, ExceptSeq, AttemptNumbers

LEMMA Renewals ==
  ASSUME NEW a \in AttemptRow
  PROVE  Renewed(a) \in AttemptRow /\ Renewed(a).state = a.state
<1>1. LeaseSeconds \in Nat
  BY TimingAssumption
<1> DEFINE left == IF LeaseSeconds < a.deadline THEN LeaseSeconds ELSE a.deadline
<1>2. left \in Nat
  BY <1>1 DEF AttemptRow
<1>3. Renewed(a) = [a EXCEPT !.lease = left]
  BY DEF Renewed
<1> HIDE DEF left
<1> QED BY <1>2, <1>3 DEF AttemptRow

LEMMA Settlements ==
  ASSUME NEW a \in AttemptRow, NEW state \in {"completed", "abandoned", "cancelled"}
  PROVE  /\ [a EXCEPT !.state = state, !.lease = 0, !.deadline = 0] \in AttemptRow
         /\ [a EXCEPT !.state = state, !.lease = 0, !.deadline = 0].state = state
BY DEF AttemptRow

(* Executions have types, and only a claimed Attempt has a maintainer.     *)
Works ==
  /\ work' \in [Number -> Execution]
  /\ \A n \in Number \ DOMAIN attempts : work'[n].maintainer = "off"

LEMMA WorkKept == Inv /\ UNCHANGED work => Works
BY DEF Inv, TypeOK, UnclaimedInv, Works

LEMMA WorkMoves ==
  ASSUME Inv, NEW n \in Number, NEW row \in Execution,
         n \in DOMAIN attempts \/ row.maintainer = "off",
         work' = [work EXCEPT ![n] = row]
  PROVE  Works
<1>1. work \in [Number -> Execution]
  BY DEF Inv, TypeOK
<1>2. \A x \in Number : work'[x] = IF x = n THEN row ELSE work[x]
  BY <1>1
<1>3. work' \in [Number -> Execution]
  BY <1>1
<1>4. \A x \in Number \ DOMAIN attempts : work[x].maintainer = "off"
  BY DEF Inv, UnclaimedInv
<1> QED BY <1>2, <1>3, <1>4 DEF Works

LEMMA GoesWorks ==
  ASSUME Inv, NEW n \in DOMAIN attempts, NEW stage \in Stage, GoesTo(n, stage)
  PROVE  Works
<1> DEFINE old == work[n]
<1>1. n \in Number /\ work \in [Number -> Execution] /\ old \in Execution
  BY AttemptNumbers DEF Inv, TypeOK
<1>2. work' = [work EXCEPT ![n] = [old EXCEPT !.stage = stage]]
  BY <1>1 DEF GoesTo
<1> HIDE DEF old
<1>3. [old EXCEPT !.stage = stage] \in Execution
  BY <1>1 DEF Execution
<1> QED BY <1>1, <1>2, <1>3, WorkMoves

LEMMA EndsWorks ==
  ASSUME Inv, NEW n \in DOMAIN attempts, NEW stage \in Stage, Ends(n, stage)
  PROVE  Works
<1> DEFINE old == work[n]
           left == IF old.maintainer = "waiting" THEN "off" ELSE old.maintainer
<1>1. n \in Number /\ work \in [Number -> Execution] /\ old \in Execution
  BY AttemptNumbers DEF Inv, TypeOK
<1>2. left \in {"off", "waiting", "renewing"}
  BY <1>1 DEF Execution
<1>3. work' = [work EXCEPT ![n] = [old EXCEPT !.stage = stage, !.maintainer = left]]
  BY DEF Ends
<1> HIDE DEF old, left
<1>4. [old EXCEPT !.stage = stage, !.maintainer = left] \in Execution
  BY <1>1, <1>2 DEF Execution
<1> QED BY <1>1, <1>3, <1>4, WorkMoves

-----------------------------------------------------------------------------
(* Leases move and executions go on; nothing is decided.                   *)
LeasesMove ==
  /\ attempts' \in Seq(AttemptRow) /\ Len(attempts') = Len(attempts)
  /\ \A j \in DOMAIN attempts : attempts'[j].state = attempts[j].state

LEMMA LeasesKept == Inv /\ UNCHANGED attempts => LeasesMove
BY DEF Inv, TypeOK, LeasesMove

LEMMA MoveInv ==
  ASSUME Inv, LeasesMove, Works, UNCHANGED <<agent, open, step, runs, drafts>>,
         process' \in [Worker -> {"up", "stopping", "down"}]
  PROVE  Inv'
<1>1. TypeOK'
  BY DEF Inv, TypeOK, LeasesMove, Works
<1>2. DOMAIN attempts' = DOMAIN attempts
  BY <1>1, AttemptNumbers DEF Inv, TypeOK, LeasesMove
<1>3. LeaseInv'
  BY <1>2 DEF Inv, LeaseInv, LeasesMove
<1>4. UnclaimedInv'
  BY <1>2 DEF Inv, UnclaimedInv, Works
<1>5. RunFollowsAttempt'
  BY <1>2 DEF Inv, RunFollowsAttempt, LeasesMove
<1>6. OneDraft'
  BY DEF Inv, OneDraft, LeasesMove
<1> QED BY <1>1, <1>3, <1>4, <1>5, <1>6 DEF Inv

LEMMA RenewalMoves ==
  ASSUME Inv, NEW n \in DOMAIN attempts, attempts' = [attempts EXCEPT ![n] = Renewed(@)]
  PROVE  LeasesMove
<1>1. attempts[n] \in AttemptRow
  BY AttemptNumbers DEF Inv
<1>2. attempts' = [attempts EXCEPT ![n] = Renewed(attempts[n])]
  OBVIOUS
<1>3. Renewed(attempts[n]) \in AttemptRow /\ Renewed(attempts[n]).state = attempts[n].state
  BY <1>1, Renewals
<1> HIDE DEF Renewed
<1> QED BY <1>2, <1>3, AttemptChanges DEF Inv, LeasesMove

(* The Run of an Attempt that is not settled by a result starts or fails.  *)
LEMMA RunInv ==
  ASSUME Inv, Works, UNCHANGED <<agent, open, step, attempts, drafts, process>>,
         NEW n \in DOMAIN attempts, agent, attempts[n].state \in {"leased", "cancelled"},
         NEW status \in {"running", "failed"}, runs' = [runs EXCEPT ![n] = status]
  PROVE  Inv'
<1>1. n \in Number /\ runs \in [Number -> RunState]
  BY AttemptNumbers DEF Inv, TypeOK
<1>2. /\ runs' \in [Number -> RunState]
      /\ \A x \in Number : runs'[x] = IF x = n THEN status ELSE runs[x]
  BY <1>1 DEF RunState
<1>3. TypeOK'
  BY <1>2 DEF Inv, TypeOK, Works
<1>4. LeaseInv'
  BY DEF Inv, LeaseInv
<1>5. UnclaimedInv'
  BY <1>2 DEF Inv, UnclaimedInv, Works
<1>6. RunFollowsAttempt'
  BY <1>1, <1>2, AttemptNumbers DEF Inv, RunFollowsAttempt
<1>7. OneDraft'
  BY DEF Inv, OneDraft
<1> QED BY <1>3, <1>4, <1>5, <1>6, <1>7 DEF Inv

-----------------------------------------------------------------------------
LEMMA InitInv == WorkInit => Inv
<1> SUFFICES ASSUME WorkInit PROVE Inv
  OBVIOUS
<1>1. MaxRenewalAttempts \in Nat
  BY RenewalBudgetAssumption
<1>2. NoExecution \in Execution
  BY DEF NoExecution, Execution, Stage
<1>3. attempts = <<>> /\ Len(attempts) = 0 /\ DOMAIN attempts = {}
  BY DEF WorkInit
<1>4. TypeOK
  BY <1>1, <1>2, <1>3 DEF WorkInit, TypeOK, RunState
<1> QED BY <1>3, <1>4 DEF WorkInit, Inv, LeaseInv, UnclaimedInv, RunFollowsAttempt, OneDraft, NoExecution

LEMMA ClaimInv ==
  ASSUME Inv, NEW w \in Worker, Claim(w)
  PROVE  Inv'
<1> DEFINE n == Len(attempts) + 1
           new == [state |-> "leased", worker |-> w,
                   lease |-> LeaseSeconds, deadline |-> MaximumSeconds]
<1>1. PICK heard \in BOOLEAN :
        work' = [work EXCEPT ![n] = [NoExecution EXCEPT !.stage = IF heard THEN "held" ELSE "none"]]
  BY DEF Claim
<1>2. /\ attempts' = Append(attempts, new) /\ open /\ step = "pending"
      /\ Len(attempts) < MaxRenewalAttempts
      /\ \A x \in DOMAIN attempts : attempts[x].state # "leased"
      /\ UNCHANGED <<agent, open, step, runs, drafts, process>>
  BY DEF Claim
<1>3. new \in AttemptRow /\ new.state = "leased"
  BY TimingAssumption DEF AttemptRow
<1> HIDE DEF new
<1>4. /\ attempts' \in Seq(AttemptRow) /\ Len(attempts') = n
      /\ \A x \in 1..Len(attempts) : attempts'[x] = attempts[x]
      /\ attempts'[n] = new
  BY <1>2, <1>3, AppendProperties DEF Inv, TypeOK
<1>5. /\ Len(attempts) \in Nat /\ DOMAIN attempts = 1..Len(attempts)
      /\ DOMAIN attempts' = 1..n /\ n \in Number /\ n \notin DOMAIN attempts
      /\ \A x \in DOMAIN attempts' : x \in DOMAIN attempts \/ x = n
      /\ DOMAIN attempts \subseteq DOMAIN attempts' /\ n <= MaxRenewalAttempts
  BY <1>2, <1>4, AttemptNumbers, RenewalBudgetAssumption DEF Inv, Number
<1>6. /\ [NoExecution EXCEPT !.stage = IF heard THEN "held" ELSE "none"] \in Execution
      /\ [NoExecution EXCEPT !.stage = IF heard THEN "held" ELSE "none"].maintainer = "off"
  BY DEF NoExecution, Execution, Stage
<1>7. Works
  BY <1>1, <1>5, <1>6, WorkMoves
<1> HIDE DEF n
<1>8. TypeOK'
  BY <1>2, <1>4, <1>5, <1>7 DEF Inv, TypeOK, Works
<1>9. LeaseInv'
  BY <1>2, <1>4, <1>5 DEF Inv, LeaseInv
<1>10. UnclaimedInv'
  BY <1>2, <1>5, <1>7 DEF Inv, UnclaimedInv, Works
<1>11. RunFollowsAttempt'
  <2>1. runs'[n] = "none"
    BY <1>2, <1>5 DEF Inv, UnclaimedInv
  <2>2. attempts'[n].state = "leased"
    BY <1>3, <1>4
  <2>3. \A x \in DOMAIN attempts : attempts'[x] = attempts[x] /\ runs'[x] = runs[x] /\ agent' = agent
    BY <1>2, <1>4, <1>5
  <2> QED BY <1>5, <2>1, <2>2, <2>3 DEF Inv, RunFollowsAttempt
<1>12. OneDraft'
  BY <1>2 DEF Inv, OneDraft
<1> QED BY <1>8, <1>9, <1>10, <1>11, <1>12 DEF Inv

-----------------------------------------------------------------------------
(* The loop of a process, and its lease maintainer.                        *)

LEMMA AtAttempt ==
  ASSUME Inv, NEW n, NEW stage, At(n, stage)
  PROVE  /\ n \in DOMAIN attempts /\ n \in Number /\ n \in Nat
         /\ attempts[n] \in AttemptRow /\ work[n] \in Execution
BY AttemptNumbers DEF At, Inv, TypeOK

(* Nothing but the execution of an Attempt goes on.                        *)
LEMMA OnlyWorkInv ==
  ASSUME Inv, Works, UNCHANGED <<rows, process>>
  PROVE  Inv'
<1>1. UNCHANGED <<agent, open, step, attempts, runs, drafts, process>>
  BY DEF rows
<1>2. LeasesMove
  BY <1>1, LeasesKept
<1>3. process' \in [Worker -> {"up", "stopping", "down"}]
  BY <1>1 DEF Inv, TypeOK
<1> QED BY <1>1, <1>2, <1>3, MoveInv

LEMMA PrepareInv ==
  ASSUME Inv, NEW n \in Number, Prepare(n)
  PROVE  Inv'
<1>1. n \in DOMAIN attempts
  BY AtAttempt DEF Prepare
<1>2. Works
  BY <1>1, GoesWorks DEF Prepare, Stage
<1>3. UNCHANGED <<agent, open, step, attempts, drafts, process>>
  BY DEF Prepare
<1>4. CASE UNCHANGED runs
  BY <1>2, <1>3, <1>4, OnlyWorkInv DEF rows
<1>5. CASE ~UNCHANGED runs
  <2>1. /\ agent /\ runs' = [runs EXCEPT ![n] = "running"]
        /\ attempts[n].state = "leased"
    BY <1>5 DEF Prepare, CanStart, LiveLease
  <2> QED BY <1>1, <1>2, <1>3, <2>1, RunInv
<1> QED BY <1>4, <1>5

LEMMA CompleteAgainInv ==
  ASSUME Inv, NEW n \in Number, CompleteAgain(n)
  PROVE  Inv'
<1> DEFINE new == [NoExecution EXCEPT !.stage = "held"]
<1>1. work' = [work EXCEPT ![n] = new] /\ UNCHANGED <<rows, process>>
  BY DEF CompleteAgain
<1>2. new \in Execution /\ new.maintainer = "off"
  BY DEF NoExecution, Execution, Stage
<1> HIDE DEF new
<1> QED BY <1>1, <1>2, WorkMoves, OnlyWorkInv

LEMMA BeginInv ==
  ASSUME Inv, NEW n \in Number, BeginExecution(n)
  PROVE  Inv'
<1> DEFINE old == work[n]
           new == [old EXCEPT !.stage = "running", !.maintainer = "waiting"]
<1>1. /\ n \in DOMAIN attempts /\ old \in Execution /\ work \in [Number -> Execution]
      /\ UNCHANGED <<agent, open, step, runs, drafts, process>>
      /\ process' \in [Worker -> {"up", "stopping", "down"}]
  BY AtAttempt DEF BeginExecution, Inv, TypeOK
<1>2. CASE attempts' = [attempts EXCEPT ![n] = Renewed(@)] /\ work' = [work EXCEPT ![n] = new]
  <2> HIDE DEF old
  <2>1. new \in Execution
    BY <1>1 DEF Execution, Stage
  <2> HIDE DEF new
  <2>2. Works
    BY <1>1, <1>2, <2>1, WorkMoves
  <2>3. LeasesMove
    BY <1>1, <1>2, RenewalMoves
  <2> QED BY <1>1, <2>2, <2>3, MoveInv
<1>3. CASE GoesTo(n, "over") /\ RenewLease(n)
  <2>1. Works
    BY <1>1, <1>3, GoesWorks DEF Stage
  <2>2. LeasesMove
    BY <1>1, <1>3, RenewalMoves, LeasesKept DEF RenewLease
  <2> QED BY <1>1, <2>1, <2>2, MoveInv
<1>4. work' = [work EXCEPT ![n] = [@ EXCEPT !.stage = "running", !.maintainer = "waiting"]]
        => work' = [work EXCEPT ![n] = new]
  BY <1>1
<1> QED BY <1>2, <1>3, <1>4 DEF BeginExecution

LEMMA Losses ==
  ASSUME NEW e \in Execution
  PROVE  AuthorityLost(e) \in Execution /\ AuthorityLost(e).maintainer = "off"
BY DEF AuthorityLost, Execution

LEMMA WakeInv ==
  ASSUME Inv, NEW n \in Number, Wake(n)
  PROVE  Inv'
<1> DEFINE old == work[n]
           new == IF Stopping(n) THEN AuthorityLost(old) ELSE [old EXCEPT !.maintainer = "renewing"]
<1>1. /\ n \in DOMAIN attempts /\ old \in Execution /\ work \in [Number -> Execution]
      /\ UNCHANGED <<rows, process>>
  BY AtAttempt DEF Wake, Inv, TypeOK
<1>2. work' = [work EXCEPT ![n] = new]
  BY <1>1 DEF Wake
<1> HIDE DEF old
<1>3. [old EXCEPT !.maintainer = "renewing"] \in Execution
  BY <1>1 DEF Execution
<1>4. new \in Execution
  BY <1>1, <1>3, Losses
<1> HIDE DEF new
<1> QED BY <1>1, <1>2, <1>4, WorkMoves, OnlyWorkInv

LEMMA HeartbeatInv ==
  ASSUME Inv, NEW n \in Number, Heartbeat(n)
  PROVE  Inv'
<1> DEFINE old == work[n]
           left == IF old.stage = "running" THEN "waiting" ELSE "off"
<1>1. /\ n \in DOMAIN attempts /\ old \in Execution /\ work \in [Number -> Execution]
      /\ UNCHANGED <<agent, open, step, runs, drafts, process>>
      /\ process' \in [Worker -> {"up", "stopping", "down"}]
  BY DEF Heartbeat, Inv, TypeOK, UnclaimedInv
<1>2. LeasesMove
  BY <1>1, RenewalMoves, LeasesKept DEF Heartbeat, RenewLease
<1>3. \/ work' = [work EXCEPT ![n] = [old EXCEPT !.maintainer = left]]
      \/ work' = [work EXCEPT ![n] = AuthorityLost(old)]
  BY <1>1 DEF Heartbeat
<1>4. left \in {"off", "waiting"}
  OBVIOUS
<1> HIDE DEF old, left
<1>5. [old EXCEPT !.maintainer = left] \in Execution /\ AuthorityLost(old) \in Execution
  BY <1>1, <1>4, Losses DEF Execution
<1>6. Works
  BY <1>1, <1>3, <1>5, WorkMoves
<1> QED BY <1>1, <1>2, <1>6, MoveInv

LEMMA EndInv ==
  ASSUME Inv, NEW n \in Number, Return(n) \/ Raise(n) \/ Check(n)
  PROVE  Inv'
<1>1. n \in DOMAIN attempts /\ UNCHANGED <<rows, process>>
  BY AtAttempt DEF Return, Raise, Check
<1>2. \E stage \in Stage : GoesTo(n, stage) \/ Ends(n, stage)
  BY DEF Return, Raise, Check, Stage
<1> QED BY <1>1, <1>2, GoesWorks, EndsWorks, OnlyWorkInv

LEMMA RecordFailureInv ==
  ASSUME Inv, NEW n \in Number, RecordFailure(n)
  PROVE  Inv'
<1>1. n \in DOMAIN attempts /\ attempts[n] \in AttemptRow
  BY AtAttempt DEF RecordFailure
<1>2. Works /\ UNCHANGED <<agent, open, step, attempts, drafts, process>>
  BY <1>1, GoesWorks DEF RecordFailure, Stage
<1>3. CASE UNCHANGED runs
  BY <1>2, <1>3, OnlyWorkInv DEF rows
<1>4. CASE ~UNCHANGED runs
  <2>1. runs[n] = "running" /\ runs' = [runs EXCEPT ![n] = "failed"]
    BY <1>4 DEF RecordFailure, RunFinished
  <2>2. agent /\ attempts[n].state \in {"leased", "cancelled"}
    <3>1. agent
      BY <2>1 DEF Inv, UnclaimedInv
    <3>2. attempts[n].state \notin {"completed", "abandoned"}
      BY <1>1, <2>1 DEF Inv, RunFollowsAttempt
    <3> QED BY <1>1, <3>1, <3>2 DEF AttemptRow
  <2> QED BY <1>1, <1>2, <2>1, <2>2, RunInv
<1> QED BY <1>3, <1>4

-----------------------------------------------------------------------------
(* Results, losses, the end of the Instance.                               *)

(* A lease is the last one, so what happens to it leaves none.             *)
LEMMA SettledLease ==
  ASSUME Inv, NEW n \in DOMAIN attempts, NEW state \in {"completed", "abandoned", "cancelled"},
         attempts[n].state = "leased", attempts' = Settled(n, state)
  PROVE  /\ n = Len(attempts) /\ open /\ step = "pending"
         /\ attempts' \in Seq(AttemptRow) /\ Len(attempts') = Len(attempts)
         /\ DOMAIN attempts' = DOMAIN attempts
         /\ attempts'[n].state = state
         /\ \A j \in DOMAIN attempts : j # n => attempts'[j] = attempts[j]
         /\ \A j \in DOMAIN attempts : attempts'[j].state # "leased"
<1> DEFINE row == [attempts[n] EXCEPT !.state = state, !.lease = 0, !.deadline = 0]
<1>1. n = Len(attempts) /\ open /\ step = "pending"
  BY DEF Inv, LeaseInv
<1>2. row \in AttemptRow /\ row.state = state
  <2>1. attempts[n] \in AttemptRow
    BY AttemptNumbers DEF Inv
  <2> QED BY <2>1, Settlements
<1>3. attempts' = [attempts EXCEPT ![n] = row]
  BY DEF Settled
<1> HIDE DEF row
<1>4. /\ attempts' \in Seq(AttemptRow) /\ Len(attempts') = Len(attempts)
      /\ \A j \in DOMAIN attempts : attempts'[j] = IF j = n THEN row ELSE attempts[j]
  BY <1>2, <1>3, AttemptChanges DEF Inv
<1>5. DOMAIN attempts' = DOMAIN attempts
  BY <1>4, AttemptNumbers DEF Inv
<1>6. \A j \in DOMAIN attempts : j # n => attempts[j].state # "leased"
  BY <1>1 DEF Inv, LeaseInv
<1> QED BY <1>1, <1>2, <1>4, <1>5, <1>6

LEMMA AcceptInv ==
  ASSUME Inv, NEW n \in Number, Accept(n)
  PROVE  Inv'
<1>1. n \in DOMAIN attempts /\ attempts[n] \in AttemptRow
  BY AtAttempt DEF Accept
<1>2. Works /\ UNCHANGED <<agent, open, process>>
  BY <1>1, GoesWorks DEF Accept, Stage
<1>3. CASE UNCHANGED <<step, attempts, runs, drafts>>
  BY <1>2, <1>3, OnlyWorkInv DEF rows
<1>4. CASE /\ MayAccept(n) /\ attempts' = Settled(n, "completed") /\ step' = "succeeded"
           /\ IF agent
              THEN runs' = [runs EXCEPT ![n] = "completed"] /\ drafts' = Append(drafts, n)
              ELSE UNCHANGED <<runs, drafts>>
  <2>1. attempts[n].state = "leased"
    BY <1>4 DEF MayAccept, LiveLease
  <2>2. /\ n = Len(attempts) /\ open /\ step = "pending"
        /\ attempts' \in Seq(AttemptRow) /\ Len(attempts') = Len(attempts)
        /\ DOMAIN attempts' = DOMAIN attempts
        /\ attempts'[n].state = "completed"
        /\ \A j \in DOMAIN attempts : j # n => attempts'[j] = attempts[j]
        /\ \A j \in DOMAIN attempts : attempts'[j].state # "leased"
    BY <1>1, <1>4, <2>1, SettledLease
  <2>3. /\ runs' \in [Number -> RunState]
        /\ \A x \in Number : x # n => runs'[x] = runs[x]
        /\ runs'[n] = IF agent THEN "completed" ELSE "none"
    <3>1. CASE agent
      BY <1>4, <3>1 DEF Inv, TypeOK, RunState
    <3>2. CASE ~agent
      BY <1>4, <3>2 DEF Inv, TypeOK, UnclaimedInv
    <3> QED BY <3>1, <3>2
  <2>4. drafts = <<>>
    BY <2>2 DEF Inv, OneDraft
  <2>5. drafts' = IF agent THEN <<n>> ELSE <<>>
    BY <1>4, <2>4
  <2>6. drafts' \in Seq(Number)
    BY <2>5
  <2>7. TypeOK'
    BY <1>2, <1>4, <2>2, <2>3, <2>6 DEF Inv, TypeOK, Works
  <2>8. LeaseInv'
    BY <2>2 DEF LeaseInv
  <2>9. UnclaimedInv'
    BY <1>1, <1>2, <2>2, <2>3 DEF Inv, UnclaimedInv, Works
  <2>10. RunFollowsAttempt'
    BY <1>2, <2>2, <2>3, AttemptNumbers DEF Inv, RunFollowsAttempt
  <2>11. OneDraft'
    BY <1>2, <1>4, <2>2, <2>5 DEF OneDraft
  <2> QED BY <2>7, <2>8, <2>9, <2>10, <2>11 DEF Inv
<1> QED BY <1>3, <1>4 DEF Accept

LEMMA RecoverInv ==
  ASSUME Inv, NEW w \in Worker, Recover(w)
  PROVE  Inv'
<1>1. PICK n \in DOMAIN attempts :
        /\ Expired(attempts[n]) /\ attempts' = Settled(n, "abandoned")
        /\ runs' = RunAbandoned(n) /\ step' = AfterLoss(n)
        /\ UNCHANGED <<agent, open, drafts, work, process>>
  BY DEF Recover
<1>2. attempts[n].state = "leased" /\ n \in Number
  BY <1>1, AttemptNumbers DEF Expired, Inv
<1>3. /\ n = Len(attempts) /\ open /\ step = "pending"
      /\ attempts' \in Seq(AttemptRow) /\ Len(attempts') = Len(attempts)
      /\ DOMAIN attempts' = DOMAIN attempts
      /\ attempts'[n].state = "abandoned"
      /\ \A j \in DOMAIN attempts : j # n => attempts'[j] = attempts[j]
      /\ \A j \in DOMAIN attempts : attempts'[j].state # "leased"
  BY <1>1, <1>2, SettledLease
<1>4. /\ runs' \in [Number -> RunState]
      /\ \A x \in Number : x # n => runs'[x] = runs[x]
      /\ runs'[n] = IF runs[n] = "running" THEN "abandoned" ELSE runs[n]
  BY <1>1, <1>2 DEF RunAbandoned, RunFinished, Inv, TypeOK, RunState
<1>5. step' \in {"pending", "failed"}
  BY <1>1 DEF AfterLoss
<1>6. runs[n] \in {"none", "running", "failed"} /\ (~agent => runs[n] = "none")
  BY <1>2 DEF Inv, RunFollowsAttempt, UnclaimedInv
<1>7. TypeOK'
  BY <1>1, <1>3, <1>4, <1>5 DEF Inv, TypeOK
<1>8. LeaseInv'
  BY <1>3 DEF LeaseInv
<1>9. UnclaimedInv'
  BY <1>1, <1>3, <1>4, <1>6 DEF Inv, UnclaimedInv
<1>10. RunFollowsAttempt'
  BY <1>1, <1>3, <1>4, <1>6, AttemptNumbers DEF Inv, RunFollowsAttempt
<1>11. OneDraft'
  BY <1>1, <1>3, <1>5 DEF Inv, OneDraft
<1> QED BY <1>7, <1>8, <1>9, <1>10, <1>11 DEF Inv

LEMMA CloseInv ==
  ASSUME Inv, Close
  PROVE  Inv'
<1> DEFINE row(j) == [attempts[j] EXCEPT !.state = "cancelled", !.lease = 0, !.deadline = 0]
           after(j) == IF attempts[j].state = "leased" THEN row(j) ELSE attempts[j]
<1>1. \A j \in DOMAIN attempts : Settled(j, "cancelled")[j] = row(j)
  BY DEF Settled
<1>2. attempts' = [j \in DOMAIN attempts |-> after(j)]
  BY <1>1 DEF Close
<1>3. \A j \in DOMAIN attempts :
        /\ after(j) \in AttemptRow
        /\ attempts[j].state = "leased" => after(j).state = "cancelled"
        /\ attempts[j].state # "leased" => after(j) = attempts[j]
  <2> TAKE j \in DOMAIN attempts
  <2>1. attempts[j] \in AttemptRow
    BY AttemptNumbers DEF Inv
  <2>2. row(j) \in AttemptRow /\ row(j).state = "cancelled"
    BY <2>1, Settlements
  <2> HIDE DEF row
  <2> QED BY <2>1, <2>2
<1> HIDE DEF after, row
<1>4. /\ attempts' \in Seq(AttemptRow) /\ Len(attempts') = Len(attempts)
      /\ DOMAIN attempts' = DOMAIN attempts
      /\ \A j \in DOMAIN attempts : attempts'[j] = after(j)
  <2>1. attempts' \in [1..Len(attempts) -> AttemptRow] /\ Len(attempts) \in Nat
    BY <1>2, <1>3, AttemptNumbers DEF Inv
  <2>2. attempts' \in Seq(AttemptRow)
    BY <2>1, SeqDef
  <2> QED BY <1>2, <2>1, <2>2, LenProperties
<1>5. /\ UNCHANGED <<agent, runs, drafts, work, process>> /\ open' = FALSE
      /\ step' = IF step = "pending" THEN "cancelled" ELSE step
  BY DEF Close
<1>6. TypeOK'
  BY <1>4, <1>5 DEF Inv, TypeOK
<1>7. LeaseInv'
  BY <1>3, <1>4 DEF LeaseInv
<1>8. UnclaimedInv'
  BY <1>4, <1>5 DEF Inv, UnclaimedInv
<1>9. RunFollowsAttempt'
  BY <1>3, <1>4, <1>5 DEF Inv, RunFollowsAttempt
<1>10. OneDraft'
  BY <1>4, <1>5 DEF Inv, OneDraft
<1> QED BY <1>6, <1>7, <1>8, <1>9, <1>10 DEF Inv

LEMMA TickInv ==
  ASSUME Inv, Tick
  PROVE  Inv'
<1> DEFINE row(j) == [attempts[j] EXCEPT !.lease = Elapse(@), !.deadline = Elapse(@)]
           after(j) == IF attempts[j].state = "leased" THEN row(j) ELSE attempts[j]
<1>1. attempts' = [j \in DOMAIN attempts |-> after(j)]
  BY DEF Tick
<1>2. \A j \in DOMAIN attempts : after(j) \in AttemptRow /\ after(j).state = attempts[j].state
  <2> TAKE j \in DOMAIN attempts
  <2> DEFINE old == attempts[j]
             lease == Elapse(old.lease)
             ends == Elapse(old.deadline)
  <2>1. old \in AttemptRow
    BY AttemptNumbers DEF Inv
  <2>2. lease \in Nat /\ ends \in Nat
    BY <2>1 DEF AttemptRow, Elapse
  <2>3. row(j) = [old EXCEPT !.lease = lease, !.deadline = ends]
    OBVIOUS
  <2> HIDE DEF row, old, lease, ends
  <2>4. row(j) \in AttemptRow /\ row(j).state = old.state
    BY <2>1, <2>2, <2>3 DEF AttemptRow
  <2> QED BY <2>1, <2>4 DEF old
<1> HIDE DEF after, row
<1>3. LeasesMove
  <2>1. attempts' \in [1..Len(attempts) -> AttemptRow] /\ Len(attempts) \in Nat
    BY <1>1, <1>2, AttemptNumbers DEF Inv
  <2>2. attempts' \in Seq(AttemptRow)
    BY <2>1, SeqDef
  <2> QED BY <1>1, <1>2, <2>1, <2>2, LenProperties DEF LeasesMove
<1>4. UNCHANGED <<agent, open, step, runs, drafts, work, process>>
  BY DEF Tick
<1>5. process' \in [Worker -> {"up", "stopping", "down"}]
  BY <1>4 DEF Inv, TypeOK
<1> QED BY <1>3, <1>4, <1>5, WorkKept, MoveInv

-----------------------------------------------------------------------------
(* Processes that stop, end and start.                                     *)
LEMMA ProcessInv ==
  ASSUME Inv, NEW w \in Worker, Shutdown(w) \/ Exit(w) \/ Crash(w) \/ Restart(w)
  PROVE  Inv'
<1>1. /\ process' \in [Worker -> {"up", "stopping", "down"}]
      /\ UNCHANGED <<agent, open, step, attempts, runs, drafts>>
  BY DEF Shutdown, Exit, Crash, Restart, Gone, rows, Inv, TypeOK
<1>2. Works
  <2>1. CASE UNCHANGED work
    BY <2>1, WorkKept
  <2>2. CASE Gone(w)
    <3>1. NoExecution \in Execution /\ NoExecution.maintainer = "off"
      BY DEF NoExecution, Execution, Stage
    <3>2. work \in [Number -> Execution]
          /\ \A n \in Number \ DOMAIN attempts : work[n].maintainer = "off"
      BY DEF Inv, TypeOK, UnclaimedInv
    <3> QED BY <2>2, <3>1, <3>2 DEF Gone, Works
  <2> QED BY <2>1, <2>2 DEF Shutdown, Exit, Crash, Restart
<1> QED BY <1>1, <1>2, LeasesKept, MoveInv

LEMMA NextInv ==
  ASSUME Inv, [WorkNext]_workVars
  PROVE  Inv'
<1>1. CASE \E n \in Number : Proceed(n)
  BY <1>1, PrepareInv, BeginInv, RecordFailureInv, EndInv, AcceptInv DEF Proceed
<1>2. CASE \E n \in Number : \/ CompleteAgain(n) \/ Return(n) \/ Raise(n)
                              \/ Wake(n) \/ Heartbeat(n)
  BY <1>2, CompleteAgainInv, EndInv, WakeInv, HeartbeatInv
<1>3. CASE \E w \in Worker : \/ Claim(w) \/ Recover(w)
                              \/ Shutdown(w) \/ Exit(w) \/ Crash(w) \/ Restart(w)
  BY <1>3, ClaimInv, RecoverInv, ProcessInv
<1>4. CASE Close
  BY <1>4, CloseInv
<1>5. CASE Tick
  BY <1>5, TickInv
<1>6. CASE UNCHANGED workVars
  BY <1>6, WorkKept, OnlyWorkInv DEF workVars
<1> QED BY <1>1, <1>2, <1>3, <1>4, <1>5, <1>6 DEF WorkNext

LEMMA InvAlways == WorkSpec => []Inv
<1>1. Inv /\ [WorkNext]_workVars => Inv'
  BY NextInv
<1> QED BY <1>1, InitInv, PTL DEF WorkSpec

-----------------------------------------------------------------------------
(* An Attempt, its execution, its Run and its process keep to their        *)
(* states, and no Step has more Attempts than its retry policy allows.     *)
THEOREM ExecutionTypeCorrect == WorkSpec => []TypeOK
<1>1. Inv => TypeOK
  BY DEF Inv
<1> QED BY <1>1, InvAlways, PTL

(* However many processes work on the Step, at most the newest of its      *)
(* Attempts is leased, and none after the Step or the Instance ended.      *)
THEOREM OnlyTheNewestIsLeased == WorkSpec => []LeaseInv
<1>1. Inv => LeaseInv
  BY DEF Inv
<1> QED BY <1>1, InvAlways, PTL

(* The Agent Run tells what became of its Attempt, whatever processes die, *)
(* answers are lost and claims are completed again.                        *)
THEOREM RunsFollowAttempts == WorkSpec => []RunFollowsAttempt
<1>1. Inv => RunFollowsAttempt
  BY DEF Inv
<1> QED BY <1>1, InvAlways, PTL

(* One draft is recorded for a Step, by its last Attempt, however many     *)
(* executions of it overlap.                                               *)
THEOREM DraftsAreRecordedOnce == WorkSpec => []OneDraft
<1>1. Inv => OneDraft
  BY DEF Inv
<1> QED BY <1>1, InvAlways, PTL
-----------------------------------------------------------------------------
(* The child process of an Agent.                                          *)
USE TreeAssumption

Unobserved == {"partial", "terminate", "kill_leader", "survives"}
Reaping == {"reap", "leader", "group", "kill", "killed", "verify"}
Owning == {"start", "observing", "waiting", "using"}

Reason ==
  {"none", "error", "cancelled", "child_process_failure", "bounded_timeout", "missing_result",
   "returned", "cleanup", "malformed_result", "accepted"}

Pipe ==
  [hello : BOOLEAN, answer : {"none", "candidate", "foreign", "failure", "stuck", "broken"}]

TreeTypeOK ==
  /\ kind \in {"agent", "command"}
  /\ caller \in Owning \cup Unobserved \cup Reaping \cup {"released", "over"}
  /\ proc \in [Pid -> {"none", "running", "doomed", "ended"}]
  /\ stubborn \subseteq Pid /\ group \subseteq Pid
  /\ pipe \in Pipe
  /\ deadline \in {"ahead", "past"} /\ cancelled \in BOOLEAN
  /\ forced \in BOOLEAN /\ observed \in BOOLEAN /\ exited \in BOOLEAN /\ errors \in BOOLEAN
  /\ reason \in Reason

NoneStarted == \A p \in Pid : proc[p] = "none"
NoneLive == \A p \in Pid : ~Live(p)

(* Every process but the leader is in the group, which the leader founds;  *)
(* nothing is started and nothing sent before the leader is, and a leader  *)
(* that ended stays so.                                                    *)
TreeInv ==
  /\ \A p \in Pid : p # Leader /\ proc[p] # "none" => p \in group /\ Leader \in group
  /\ caller = "start" => proc[Leader] = "none"
  /\ proc[Leader] = "none" => NoneStarted /\ pipe.answer = "none"
  /\ exited => ~Live(Leader)

(* How the owner came to give up an Agent that was not observed.           *)
Unadopted == kind = "agent" /\ ~observed /\ reason = "child_process_failure"

OwnerInv ==
  /\ caller \in {"observing", "waiting"} \cup Unobserved => kind = "agent"
  /\ caller = "using" => kind = "command"
  /\ caller \in {"reap"} \cup Owning \cup Unobserved => ~observed /\ ~exited
  /\ caller \in Unobserved => Unadopted /\ deadline = "past"
  /\ caller \in {"released", "over"} /\ ~errors => NoneLive \/ Unadopted

(* When an Agent in time and not cancelled is reaped, it has ended, and    *)
(* what it sent has been read.                                             *)
AnswerInv ==
  kind = "agent" /\ ~cancelled /\ deadline = "ahead"
    /\ caller \in Reaping \cup {"released", "over"}
  => /\ proc[Leader] # "running"
     /\ pipe.answer = "candidate" =>
          IF caller = "over" THEN errors \/ reason = "accepted" ELSE reason = "returned"

TreesInv == TreeTypeOK /\ TreeInv /\ OwnerInv /\ AnswerInv

-----------------------------------------------------------------------------
(* Signals.                                                                *)

(* Nobody is started, ended or brought back.                               *)
Quiet ==
  /\ proc' \in [Pid -> {"none", "running", "doomed", "ended"}]
  /\ \A p \in Pid :
       /\ proc'[p] = "none" <=> proc[p] = "none"
       /\ proc'[p] \in {"running", "doomed"} <=> Live(p)
       /\ proc'[p] = "running" => proc[p] = "running"

LEMMA SignalsAreQuiet ==
  ASSUME TreeTypeOK, NEW targets, NEW kill, proc' = Signalled(targets, kill)
  PROVE  Quiet
BY DEF TreeTypeOK, Signalled, Doomed, Quiet, Live

LEMMA UnchangedIsQuiet == TreeTypeOK /\ UNCHANGED proc => Quiet
BY DEF TreeTypeOK, Quiet, Live

(* A step of the owner that started nothing.                               *)
LEMMA QuietTree ==
  ASSUME TreesInv, Quiet, UNCHANGED <<group, pipe>>,
         exited' => exited \/ ~Live(Leader), caller' # "start"
  PROVE  TreeInv' /\ (NoneLive => NoneLive') /\ Leader \in Pid
<1>1. Leader \in Pid
  BY DEF Leader, Pid
<1> QED BY <1>1 DEF TreesInv, TreeInv, Quiet, NoneStarted, NoneLive, Live

LEMMA InitTree ==
  ASSUME TreeInit
  PROVE  TreesInv
<1>1. Leader \in Pid
  BY DEF Leader, Pid
<1>2. TreeTypeOK
  <2>1. pipe \in Pipe
    BY DEF TreeInit, Pipe
  <2> QED BY <1>1, <2>1 DEF TreeInit, TreeTypeOK, Owning, Reason
<1> QED BY <1>1, <1>2
        DEF TreeInit, TreesInv, TreeInv, OwnerInv, AnswerInv, NoneStarted, Owning, Unobserved, Reaping, Live

-----------------------------------------------------------------------------
(* The owner.                                                              *)

LEMMA StartInv ==
  ASSUME TreesInv, StartAgent \/ LaunchCommand
  PROVE  TreesInv'
<1>1. Leader \in Pid
  BY DEF Leader, Pid
<1>2. /\ TreeTypeOK /\ caller = "start" /\ NoneStarted /\ pipe.answer = "none"
      /\ proc[Leader] = "none" /\ ~observed /\ ~exited
      /\ UNCHANGED <<pipe, exited, observed, errors, stubborn, kind, deadline, cancelled, forced>>
  BY DEF StartAgent, LaunchCommand, TreesInv, TreeInv, OwnerInv, Owning, cleanup
<1>3. CASE UNCHANGED <<proc, group>>
  <2>1. \/ caller' = "over" /\ reason' = "cancelled" /\ cancelled
        \/ caller' = "released" /\ reason' = "error"
        \/ caller' = "using" /\ kind = "command" /\ proc' = [proc EXCEPT ![Leader] = "running"]
        \/ caller' = "observing" /\ kind = "agent" /\ proc' = [proc EXCEPT ![Leader] = "running"]
    BY DEF StartAgent, LaunchCommand, Goes
  <2>2. proc' # [proc EXCEPT ![Leader] = "running"]
    BY <1>1, <1>2, <1>3 DEF TreeTypeOK
  <2>3. TreeTypeOK'
    BY <1>2, <1>3, <2>1, <2>2 DEF TreeTypeOK, Reason
  <2>4. TreeInv'
    BY <1>2, <1>3, <2>1, <2>2 DEF TreesInv, TreeInv, NoneStarted
  <2>5. OwnerInv'
    BY <1>2, <1>3, <2>1, <2>2 DEF OwnerInv, NoneStarted, NoneLive, Live, Owning, Unobserved
  <2>6. AnswerInv'
    BY <1>2, <1>3, <2>1, <2>2 DEF AnswerInv
  <2> QED BY <2>3, <2>4, <2>5, <2>6 DEF TreesInv
<1>4. CASE ~UNCHANGED <<proc, group>>
  <2>1. /\ proc' = [proc EXCEPT ![Leader] = "running"]
        /\ group' = group \/ group' = {Leader}
        /\ \/ caller' = "using" /\ kind = "command"
           \/ caller' = "observing" /\ kind = "agent"
        /\ UNCHANGED reason
    <3>1. CASE StartAgent
      <4>1. UNCHANGED group
        BY <3>1 DEF StartAgent
      <4> QED BY <1>4, <3>1, <4>1 DEF StartAgent, Goes
    <3>2. CASE LaunchCommand
      BY <1>4, <3>2 DEF LaunchCommand, Goes
    <3> QED BY <3>1, <3>2
  <2>2. /\ proc' \in [Pid -> {"none", "running", "doomed", "ended"}]
        /\ proc'[Leader] = "running" /\ \A p \in Pid : p # Leader => proc'[p] = "none"
    BY <1>1, <1>2, <2>1 DEF TreeTypeOK, NoneStarted
  <2>3. TreeTypeOK'
    BY <1>1, <1>2, <2>1, <2>2 DEF TreeTypeOK, Owning
  <2>4. TreeInv'
    BY <1>2, <2>1, <2>2 DEF TreeInv
  <2>5. OwnerInv' /\ AnswerInv'
    BY <1>2, <2>1 DEF OwnerInv, AnswerInv, Unobserved, Reaping
  <2> QED BY <2>3, <2>4, <2>5 DEF TreesInv
<1> QED BY <1>3, <1>4

(* The answer is awaited, and the Agent given up or its tree reaped.       *)
LEMMA AwaitInv ==
  ASSUME TreesInv, ObserveSession \/ AwaitAnswer \/ Reap
  PROVE  TreesInv'
<1>1. /\ UNCHANGED <<proc, group, pipe, stubborn, kind, deadline, cancelled, observed, exited, errors>>
      /\ forced' \in BOOLEAN
      /\ ~observed /\ ~exited
  BY DEF ObserveSession, AwaitAnswer, Reap, tree, cleanup, TreesInv, TreeTypeOK, OwnerInv, Owning
<1>2. \/ caller = "observing" /\ caller' = "waiting" /\ UNCHANGED reason
      \/ caller = "observing" /\ caller' = "partial" /\ reason' = "child_process_failure"
         /\ deadline = "past"
      \/ caller = "waiting" /\ caller' = "reap" /\ MayStopWaiting
         /\ reason' = IF Live(Leader)
                       THEN IF cancelled THEN "cancelled" ELSE "bounded_timeout"
                       ELSE Read(pipe.answer)
      \/ caller = "using" /\ caller' = "reap" /\ UNCHANGED reason
  BY DEF ObserveSession, AwaitAnswer, Reap, Goes
<1>3. Read(pipe.answer) \in Reason /\ (pipe.answer = "candidate" => Read(pipe.answer) = "returned")
  BY DEF Read, Reason
<1>4. TreeTypeOK'
  BY <1>1, <1>2, <1>3 DEF TreesInv, TreeTypeOK, Reason, Owning, Reaping, Unobserved
<1>5. TreeInv'
  BY <1>1, <1>2, QuietTree, UnchangedIsQuiet DEF TreesInv
<1>6. OwnerInv'
  BY <1>1, <1>2 DEF TreesInv, OwnerInv, Unadopted, Unobserved, Owning
<1>7. AnswerInv'
  <2>1. CASE caller = "waiting" /\ deadline = "ahead" /\ ~cancelled
    <3>1. ~Live(Leader) /\ reason' = Read(pipe.answer) /\ caller' = "reap"
      BY <1>2, <2>1 DEF MayStopWaiting
    <3> QED BY <1>1, <1>3, <3>1 DEF AnswerInv, Live
  <2>2. CASE caller = "using"
    BY <1>1, <2>2 DEF AnswerInv, TreesInv, OwnerInv
  <2>3. CASE caller = "observing" \/ (caller = "waiting" /\ (deadline # "ahead" \/ cancelled))
    BY <1>1, <1>2, <2>3 DEF AnswerInv, Reaping
  <2> QED BY <1>2, <2>1, <2>2, <2>3
<1> QED BY <1>4, <1>5, <1>6, <1>7 DEF TreesInv

(* ProcessTree.reap.                                                       *)
LEMMA ReapInv ==
  ASSUME TreesInv, SignalTree \/ AwaitLeader \/ AwaitGroup \/ KillTree \/ AwaitKilled
  PROVE  TreesInv'
<1>1. /\ UNCHANGED <<group, pipe, stubborn, kind, deadline, cancelled, forced, reason>>
      /\ caller \in Reaping /\ caller' \in Reaping \ {"reap"}
      /\ observed' \in BOOLEAN /\ exited' \in BOOLEAN /\ errors' \in BOOLEAN
      /\ exited' => exited \/ ~Live(Leader)
  <2>1. /\ observed \in BOOLEAN /\ exited \in BOOLEAN /\ errors \in BOOLEAN
        /\ GroupExists \in BOOLEAN
    BY DEF TreesInv, TreeTypeOK, GroupExists
  <2>2. CASE SignalTree
    BY <2>1, <2>2 DEF SignalTree, Goes, Reaping
  <2>3. CASE AwaitLeader
    BY <2>1, <2>3 DEF AwaitLeader, tree, Goes, Reaping
  <2>4. CASE AwaitGroup
    BY <2>1, <2>4 DEF AwaitGroup, tree, Goes, Reaping
  <2>5. CASE KillTree
    BY <2>1, <2>5 DEF KillTree, cleanup, Goes, Reaping
  <2>6. CASE AwaitKilled
    BY <2>1, <2>6 DEF AwaitKilled, tree, Goes, Reaping
  <2> QED BY <2>2, <2>3, <2>4, <2>5, <2>6
<1>2. Quiet
  BY SignalsAreQuiet, UnchangedIsQuiet
     DEF SignalTree, AwaitLeader, AwaitGroup, KillTree, AwaitKilled, KillSurvivors, tree, TreesInv
<1>3. TreeTypeOK'
  BY <1>1, <1>2 DEF TreesInv, TreeTypeOK, Quiet
<1>4. TreeInv' /\ Leader \in Pid
  BY <1>1, <1>2, QuietTree DEF Reaping
<1>5. OwnerInv'
  BY <1>1 DEF TreesInv, OwnerInv, Reaping, Owning, Unobserved
<1>6. AnswerInv'
  BY <1>1, <1>2, <1>4 DEF TreesInv, AnswerInv, Quiet, Reaping
<1> QED BY <1>3, <1>4, <1>5, <1>6 DEF TreesInv

(* Without an error the leader has ended, and so has all of its group.     *)
LEMMA VerifyInv ==
  ASSUME TreesInv, Verify
  PROVE  TreesInv'
<1>1. /\ UNCHANGED <<proc, group, pipe, stubborn, kind, deadline, cancelled, forced, observed,
                     exited, reason>>
      /\ caller = "verify" /\ caller' = "released" /\ errors' = Troubled
  BY DEF Verify, tree, Goes
<1>2. TreeTypeOK'
  BY <1>1 DEF TreesInv, TreeTypeOK, Troubled, GroupExists
<1>3. TreeInv'
  BY <1>1, UnchangedIsQuiet, QuietTree DEF TreesInv
<1>4. ~errors' => NoneLive'
  <2>1. SUFFICES ASSUME ~errors', NEW p \in Pid PROVE ~Live(p)
    BY <1>1 DEF NoneLive, Live
  <2>2. exited /\ ~GroupExists
    BY <1>1, <2>1 DEF Troubled
  <2>3. CASE p = Leader
    BY <2>2, <2>3 DEF TreesInv, TreeInv
  <2>4. CASE p # Leader
    BY <2>2, <2>4 DEF TreesInv, TreeInv, Live, GroupExists
  <2> QED BY <2>3, <2>4
<1>5. OwnerInv'
  BY <1>1, <1>4 DEF OwnerInv, Owning, Unobserved
<1>6. AnswerInv'
  BY <1>1 DEF TreesInv, AnswerInv, Reaping
<1> QED BY <1>2, <1>3, <1>5, <1>6 DEF TreesInv

(* The Agent whose session was not observed.                               *)
LEMMA UnobservedInv ==
  ASSUME TreesInv, AdoptPartial \/ EndPartial
  PROVE  TreesInv'
<1>1. /\ UNCHANGED <<group, pipe, stubborn, kind, deadline, cancelled, forced, observed, exited,
                     reason>>
      /\ caller \in Unobserved /\ errors' \in BOOLEAN
      /\ caller' \in Unobserved \cup {"reap", "released"}
  BY DEF AdoptPartial, EndPartial, EndLeader, AfterKill, tree, cleanup, Goes, Unobserved, TreesInv,
         TreeTypeOK, Live
<1>2. Quiet
  BY SignalsAreQuiet, UnchangedIsQuiet
     DEF AdoptPartial, EndPartial, EndLeader, AfterKill, tree, TreesInv
<1>3. /\ Unadopted /\ deadline = "past" /\ ~exited
  BY <1>1 DEF TreesInv, OwnerInv
<1>4. TreeTypeOK'
  BY <1>1, <1>2 DEF TreesInv, TreeTypeOK, Quiet, Reaping
<1>5. TreeInv'
  BY <1>1, <1>2, QuietTree DEF Unobserved
<1>6. OwnerInv' /\ AnswerInv'
  BY <1>1, <1>3 DEF OwnerInv, AnswerInv, Unadopted, Owning, Unobserved
<1> QED BY <1>4, <1>5, <1>6 DEF TreesInv

LEMMA ReleaseInv ==
  ASSUME TreesInv, Release
  PROVE  TreesInv'
<1>1. /\ UNCHANGED <<proc, group, pipe, stubborn, kind, deadline, cancelled, forced, observed,
                     exited, errors>>
      /\ caller = "released" /\ caller' = "over" /\ reason' = Verdict
  BY DEF Release, tree, cleanup, Goes
<1>2. /\ Verdict \in Reason
      /\ reason # "returned" => Verdict = reason
      /\ reason = "returned" /\ ~errors /\ ~cancelled /\ pipe.answer # "foreign"
            => Verdict = "accepted"
  BY DEF Verdict, TreesInv, TreeTypeOK, Reason
<1>3. TreeTypeOK'
  BY <1>1, <1>2 DEF TreesInv, TreeTypeOK
<1>4. TreeInv' /\ (NoneLive => NoneLive')
  BY <1>1, UnchangedIsQuiet, QuietTree DEF TreesInv
<1>5. OwnerInv'
  BY <1>1, <1>2, <1>4 DEF TreesInv, OwnerInv, Unadopted, Owning, Unobserved
<1>6. AnswerInv'
  BY <1>1, <1>2 DEF TreesInv, AnswerInv
<1> QED BY <1>3, <1>4, <1>5, <1>6 DEF TreesInv

-----------------------------------------------------------------------------
(* The processes of the tree, and time.                                    *)

LEMMA PipeFills ==
  ASSUME NEW old \in Pipe
  PROVE  /\ [old EXCEPT !.hello = TRUE] \in Pipe
         /\ [old EXCEPT !.hello = TRUE].answer = old.answer
         /\ \A answer \in {"candidate", "foreign", "failure", "stuck", "broken"} :
              /\ [old EXCEPT !.answer = answer] \in Pipe
              /\ [old EXCEPT !.answer = answer].answer = answer
BY DEF Pipe

LEMMA SessionInv ==
  ASSUME TreesInv, FoundSession \/ SendReady
  PROVE  TreesInv'
<1>1. /\ UNCHANGED <<proc, stubborn, kind, caller, deadline, cancelled, forced, observed, exited,
                     errors, reason>>
      /\ proc[Leader] = "running" /\ group \in SUBSET Pid /\ Leader \in Pid
      /\ \/ group' = group
         \/ Leader \notin group /\ group' = {Leader}
      /\ pipe' = pipe \/ pipe' = [pipe EXCEPT !.hello = TRUE]
  BY DEF FoundSession, SendReady, cleanup, TreesInv, TreeTypeOK, Leader, Pid
<1>2. pipe'.answer = pipe.answer /\ pipe' \in Pipe
  <2>1. pipe \in Pipe
    BY DEF TreesInv, TreeTypeOK, Pipe
  <2> QED BY <1>1, <2>1, PipeFills
<1>3. TreeTypeOK'
  BY <1>1, <1>2 DEF TreesInv, TreeTypeOK, Pipe
<1>4. TreeInv'
  BY <1>1, <1>2 DEF TreesInv, TreeInv, NoneStarted, Live
<1>5. OwnerInv'
  BY <1>1 DEF TreesInv, OwnerInv, Unadopted, NoneLive, Live
<1>6. AnswerInv'
  BY <1>1, <1>2 DEF TreesInv, AnswerInv
<1> QED BY <1>3, <1>4, <1>5, <1>6 DEF TreesInv

(* Once an Agent in time is reaped, its leader no longer answers.          *)
LEMMA SendAnswerInv ==
  ASSUME TreesInv, SendAnswer
  PROVE  TreesInv'
<1>1. /\ UNCHANGED <<proc, stubborn, group, kind, caller, deadline, cancelled, forced, observed,
                     exited, errors, reason>>
      /\ proc[Leader] = "running"
  BY DEF SendAnswer, cleanup
<1>2. pipe' \in Pipe
  <2>1. pipe \in Pipe
    BY DEF TreesInv, TreeTypeOK, Pipe
  <2>2. PICK answer \in {"candidate", "foreign", "failure", "stuck"} :
          pipe' = [pipe EXCEPT !.answer = answer]
    BY DEF SendAnswer
  <2> QED BY <2>1, <2>2, PipeFills
<1>3. TreeTypeOK'
  BY <1>1, <1>2 DEF TreesInv, TreeTypeOK, Pipe
<1>4. TreeInv'
  BY <1>1 DEF TreesInv, TreeInv, NoneStarted, Live
<1>5. OwnerInv'
  BY <1>1 DEF TreesInv, OwnerInv, Unadopted, NoneLive, Live
<1>6. AnswerInv'
  BY <1>1 DEF TreesInv, AnswerInv
<1> QED BY <1>3, <1>4, <1>5, <1>6 DEF TreesInv

LEMMA ForkInv ==
  ASSUME TreesInv, NEW p \in Pid, Fork(p)
  PROVE  TreesInv'
<1>1. PICK q \in Pid :
        /\ proc[q] = "none" /\ proc' = [proc EXCEPT ![q] = "running"]
        /\ group' = group \cup {q} /\ stubborn' \in {stubborn, stubborn \cup {q}}
  BY DEF Fork
<1>2. /\ UNCHANGED <<kind, caller, pipe, deadline, cancelled, forced, observed, exited, errors,
                     reason>>
      /\ proc[p] = "running" /\ p \in group /\ Leader \in Pid
  BY DEF Fork, cleanup, Leader, Pid
<1>3. proc[Leader] # "none" /\ Leader \in group
  BY <1>2 DEF TreesInv, TreeInv, NoneStarted
<1>4. /\ proc' \in [Pid -> {"none", "running", "doomed", "ended"}]
      /\ \A x \in Pid : proc'[x] = IF x = q THEN "running" ELSE proc[x]
      /\ proc'[Leader] = proc[Leader]
  BY <1>1, <1>2, <1>3 DEF TreesInv, TreeTypeOK
<1>5. TreeTypeOK'
  BY <1>1, <1>2, <1>4 DEF TreesInv, TreeTypeOK
<1>6. TreeInv'
  BY <1>1, <1>2, <1>3, <1>4 DEF TreesInv, TreeInv, Live
<1>7. OwnerInv'
  <2>1. ~NoneLive
    BY <1>2 DEF NoneLive, Live
  <2> QED BY <1>2, <2>1 DEF TreesInv, OwnerInv, Unadopted
<1>8. AnswerInv'
  BY <1>2, <1>4 DEF TreesInv, AnswerInv
<1> QED BY <1>5, <1>6, <1>7, <1>8 DEF TreesInv

LEMMA EndTree ==
  ASSUME TreesInv, NEW p \in Pid, EndProcess(p)
  PROVE  TreesInv'
<1>1. /\ UNCHANGED <<kind, caller, stubborn, group, deadline, cancelled, forced, observed, exited,
                     errors, reason>>
      /\ Live(p) /\ proc' = [proc EXCEPT ![p] = "ended"]
      /\ \/ pipe' = pipe
         \/ pipe.answer = "stuck" /\ pipe' = [pipe EXCEPT !.answer = "broken"]
  BY DEF EndProcess, cleanup
<1>2. /\ proc' \in [Pid -> {"none", "running", "doomed", "ended"}]
      /\ \A x \in Pid : proc'[x] = IF x = p THEN "ended" ELSE proc[x]
      /\ proc[p] # "none" /\ Leader \in Pid
  BY <1>1 DEF TreesInv, TreeTypeOK, Live, Leader, Pid
<1>3. /\ pipe' \in Pipe
      /\ pipe'.answer = "candidate" => pipe.answer = "candidate"
      /\ pipe.answer = "none" => pipe'.answer = "none"
  <2>1. pipe \in Pipe
    BY DEF TreesInv, TreeTypeOK, Pipe
  <2> QED BY <1>1, <2>1, PipeFills
<1>4. TreeTypeOK'
  BY <1>1, <1>2, <1>3 DEF TreesInv, TreeTypeOK, Pipe
<1>5. TreeInv'
  BY <1>1, <1>2, <1>3 DEF TreesInv, TreeInv, NoneStarted, Live
<1>6. OwnerInv'
  BY <1>1, <1>2 DEF TreesInv, OwnerInv, Unadopted, NoneLive, Live
<1>7. AnswerInv'
  BY <1>1, <1>2, <1>3 DEF TreesInv, AnswerInv
<1> QED BY <1>4, <1>5, <1>6, <1>7 DEF TreesInv

LEMMA TimeInv ==
  ASSUME TreesInv, Expire \/ Cancel
  PROVE  TreesInv'
<1>1. /\ UNCHANGED <<kind, caller, proc, stubborn, group, pipe, forced, observed, exited, errors,
                     reason>>
      /\ deadline' \in {deadline, "past"} /\ cancelled' \in {cancelled, TRUE}
  BY DEF Expire, Cancel, tree, cleanup
<1>2. TreeTypeOK'
  BY <1>1 DEF TreesInv, TreeTypeOK
<1>3. TreeInv'
  BY <1>1 DEF TreesInv, TreeInv, NoneStarted, Live
<1>4. OwnerInv'
  BY <1>1 DEF TreesInv, TreeTypeOK, OwnerInv, Unadopted, NoneLive, Live
<1>5. AnswerInv'
  <2>1. deadline' = "ahead" /\ ~cancelled' => deadline = "ahead" /\ ~cancelled
    BY <1>1
  <2> QED BY <1>1, <2>1 DEF TreesInv, AnswerInv
<1> QED BY <1>2, <1>3, <1>4, <1>5 DEF TreesInv

LEMMA NextTree ==
  ASSUME TreesInv, [TreeNext]_treeVars
  PROVE  TreesInv'
<1>1. CASE Own
  BY <1>1, StartInv, AwaitInv, ReapInv, VerifyInv, UnobservedInv, ReleaseInv DEF Own
<1>2. CASE Reap \/ Expire \/ Cancel
  BY <1>2, AwaitInv, TimeInv
<1>3. CASE FoundSession \/ SendReady \/ SendAnswer
  BY <1>3, SessionInv, SendAnswerInv
<1>4. CASE \E p \in Pid : Fork(p) \/ EndProcess(p)
  BY <1>4, ForkInv, EndTree
<1>5. CASE UNCHANGED treeVars
  BY <1>5 DEF treeVars, tree, cleanup, TreesInv, TreeTypeOK, TreeInv, OwnerInv, AnswerInv, NoneStarted, NoneLive,
              Unadopted, Live
<1> QED BY <1>1, <1>2, <1>3, <1>4, <1>5 DEF TreeNext

LEMMA TreesInvAlways == TreeSpec => []TreesInv
<1>1. TreesInv /\ [TreeNext]_treeVars => TreesInv'
  BY NextTree
<1>2. TreeInit => TreesInv
  BY InitTree
<1> QED BY <1>1, <1>2, PTL DEF TreeSpec

-----------------------------------------------------------------------------
(* Owner, processes, pipe and verdict keep to their states in a tree of    *)
(* any size.                                                               *)
THEOREM ProcessTypeCorrect == TreeSpec => []TreeTypeOK
<1>1. TreesInv => TreeTypeOK
  BY DEF TreesInv
<1> QED BY <1>1, TreesInvAlways, PTL

(* A cleanup that reports no error has left no process behind, unless the  *)
(* session of the Agent was not observed in time: whatever was forked,     *)
(* whatever ignored SIGTERM, and whenever the leader ended.                *)
THEOREM CleanupLeavesNothing == TreeSpec => []NothingSurvives
<1>1. TreesInv => NothingSurvives
  BY DEF TreesInv, OwnerInv, NothingSurvives, NoneLive, Unadopted
<1> QED BY <1>1, TreesInvAlways, PTL

(* A candidate that was sent in time and not cancelled is accepted, unless *)
(* the cleanup failed.                                                     *)
THEOREM CandidatesAreAccepted == TreeSpec => []NoCandidateLost
<1>1. TreesInv => NoCandidateLost
  BY DEF TreesInv, AnswerInv, NoCandidateLost
<1> QED BY <1>1, TreesInvAlways, PTL

=============================================================================
