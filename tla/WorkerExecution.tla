--------------------------- MODULE WorkerExecution ---------------------------
(***************************************************************************)
(* What worker processes do with the Attempts of one Step: claim, prepare, *)
(* execute while a second thread renews the lease, and report; and what    *)
(* becomes of the Agent Run of each Attempt.                               *)
(*                                                                         *)
(* A worker process has one loop and works on one Attempt at a time.  The  *)
(* loop and the lease maintainer it starts for an execution interleave     *)
(* between transactions; a transaction under the Instance lock is one      *)
(* action.  Any call may commit and its answer be lost, which the process  *)
(* meets as an exception, and a process may die between any two of its     *)
(* actions.  Leases are countdowns, as in Kernel; retry delays, which only *)
(* postpone a claim, are left to that module.                              *)
(***************************************************************************)
EXTENDS Integers, Sequences

CONSTANTS
  Worker,
  LeaseSeconds, MaximumSeconds,   \* of the Step's template
  MaxRenewalAttempts                     \* RENEWAL_ATTEMPT_RETRY_POLICY.max_attempts

ASSUME TimingAssumption ==
  /\ LeaseSeconds \in Nat \ {0} /\ MaximumSeconds \in Nat
  /\ LeaseSeconds <= MaximumSeconds
ASSUME RenewalBudgetAssumption == MaxRenewalAttempts \in Nat \ {0}

VARIABLES
  agent,      \* the Step's executor is a fresh Agent process, or else an operation
  open,       \* the Instance is open
  step,       \* state of the Step
  attempts,   \* its Attempts, by attempt_number
  runs,       \* [Number -> status of the agent_runs row of that Attempt]
  drafts,     \* the Attempts whose result was recorded as a draft, in order
  work,       \* [Number -> the execution of that Attempt in its process]
  process     \* [Worker -> state of its process]

rows == <<agent, open, step, attempts, runs, drafts>>
workVars == <<rows, work, process>>

Number == 1..MaxRenewalAttempts
NoExecution == [stage |-> "none", maintainer |-> "off", cancelled |-> FALSE]

Up(n) == process[attempts[n].worker] # "down"
Stopping(n) == process[attempts[n].worker] = "stopping"

LiveLease(a) == a.state = "leased" /\ a.lease > 0 /\ a.deadline > 0
Expired(a) == a.state = "leased" /\ (a.lease = 0 \/ a.deadline = 0)

(* The work loop of w is between two Attempts.                             *)
WorkerIdle(w) ==
  /\ process[w] = "up"
  /\ \A n \in DOMAIN attempts : attempts[n].worker = w => work[n].stage \in {"none", "over"}

At(n, stage) == n \in DOMAIN attempts /\ work[n].stage = stage /\ Up(n)

GoesTo(n, stage) == work' = [work EXCEPT ![n].stage = stage]

-----------------------------------------------------------------------------
Claim(w) ==
  /\ WorkerIdle(w)
  /\ open /\ step = "pending" /\ Len(attempts) < MaxRenewalAttempts
  /\ \A n \in DOMAIN attempts : attempts[n].state # "leased"
  /\ attempts' = Append(attempts, [state |-> "leased", worker |-> w,
                                   lease |-> LeaseSeconds, deadline |-> MaximumSeconds])
  /\ \E heard \in BOOLEAN :
       work' = [work EXCEPT ![Len(attempts) + 1] =
                  [NoExecution EXCEPT !.stage = IF heard THEN "held" ELSE "none"]]
  /\ UNCHANGED <<agent, open, step, runs, drafts, process>>

(* prepare_workflow_attempt.  The caller completes a finished claim again  *)
(* (replay), or authority is live and the Agent Run, if any, starts here;  *)
(* a stale claim, a second Run or an exception drops the claim.            *)
CanStart(n) == LiveLease(attempts[n]) /\ runs[n] = "none"

Prepare(n) ==
  /\ At(n, "held") /\ ~Stopping(n)
  /\ \/ /\ attempts[n].state = "completed"
        /\ GoesTo(n, "accepting") /\ UNCHANGED runs
     \/ /\ CanStart(n)
        /\ runs' = IF agent THEN [runs EXCEPT ![n] = "running"] ELSE runs
        /\ GoesTo(n, "prepared") \/ GoesTo(n, "over")
     \/ GoesTo(n, "over") /\ UNCHANGED runs
  /\ UNCHANGED <<agent, open, step, attempts, drafts, process>>

(* A caller of complete_workflow_attempt may come back with its claim.     *)
CompleteAgain(n) ==
  /\ At(n, "over") /\ WorkerIdle(attempts[n].worker)
  /\ work[n].maintainer = "off"
  /\ work' = [work EXCEPT ![n] = [NoExecution EXCEPT !.stage = "held"]]
  /\ UNCHANGED <<rows, process>>

(* renew, for the worker that holds Attempt n.                             *)
Renewed(a) ==
  [a EXCEPT !.lease = IF LeaseSeconds < a.deadline THEN LeaseSeconds ELSE a.deadline]

RenewLease(n) ==
  \/ LiveLease(attempts[n]) /\ attempts' = [attempts EXCEPT ![n] = Renewed(@)]
  \/ UNCHANGED attempts                            \* stale, or an error

(* execute_with_renewable_authority up to executor.run.                    *)
BeginExecution(n) ==
  /\ At(n, "prepared")
  /\ \/ ~Stopping(n) /\ LiveLease(attempts[n])
        /\ attempts' = [attempts EXCEPT ![n] = Renewed(@)]
        /\ work' = [work EXCEPT ![n] = [@ EXCEPT !.stage = "running", !.maintainer = "waiting"]]
     \/ GoesTo(n, "over") /\ RenewLease(n)
  /\ UNCHANGED <<agent, open, step, runs, drafts, process>>

(* maintain: the interval passed.  "cancelled" stands for the authority    *)
(* failure and for the token cancelled with it.                            *)
\* Mutant: the failure of a renewal ends the thread and cancels nothing.
Mutant_AuthorityLost(execution) == [execution EXCEPT !.maintainer = "off"]

AuthorityLost(execution) == [execution EXCEPT !.maintainer = "off", !.cancelled = TRUE]

Wake(n) ==
  /\ At(n, "running") /\ work[n].maintainer = "waiting"
  /\ work' = [work EXCEPT ![n] = IF Stopping(n) THEN AuthorityLost(@)
                                 ELSE [@ EXCEPT !.maintainer = "renewing"]]
  /\ UNCHANGED <<rows, process>>

(* The renewal it asked for; the executor may have ended in the meantime.  *)
Heartbeat(n) ==
  /\ work[n].maintainer = "renewing"
  /\ \/ /\ LiveLease(attempts[n])
        /\ attempts' = [attempts EXCEPT ![n] = Renewed(@)]
        /\ work' = [work EXCEPT ![n].maintainer =
             IF work[n].stage = "running" THEN "waiting" ELSE "off"]
     \/ /\ RenewLease(n)
        /\ work' = [work EXCEPT ![n] = AuthorityLost(@)]
  /\ UNCHANGED <<agent, open, step, runs, drafts, process>>

(* The executor ends, and the maintainer is told to stop.                  *)
Ends(n, stage) ==
  work' = [work EXCEPT ![n] = [@ EXCEPT !.stage = stage,
             !.maintainer = IF work[n].maintainer = "waiting" THEN "off" ELSE work[n].maintainer]]

Return(n) ==
  /\ At(n, "running") /\ ~work[n].cancelled
  /\ Ends(n, "returned")
  /\ UNCHANGED <<rows, process>>

Raise(n) ==
  /\ At(n, "running")
  /\ Ends(n, IF work[n].cancelled THEN "over" ELSE "failing")
  /\ UNCHANGED <<rows, process>>

(* finish_agent_run, under its condition status = 'running'.               *)
RunFinished(n, status) == IF runs[n] = "running" THEN [runs EXCEPT ![n] = status] ELSE runs

(* _record_agent_failure, unless an exception gets in its way.             *)
RecordFailure(n) ==
  /\ At(n, "failing")
  /\ runs' = RunFinished(n, "failed") \/ UNCHANGED runs
  /\ GoesTo(n, "over")
  /\ UNCHANGED <<agent, open, step, attempts, drafts, process>>

(* After the join, which gives up on a renewal that takes too long.        *)
Check(n) ==
  /\ At(n, "returned")
  /\ GoesTo(n, IF work[n].cancelled \/ Stopping(n) THEN "over" ELSE "accepting")
  /\ UNCHANGED <<rows, process>>

Settled(n, state) == [attempts EXCEPT ![n] = [@ EXCEPT !.state = state, !.lease = 0, !.deadline = 0]]

(* accept_observation; a replay reads what the first acceptance recorded.  *)
RunMayComplete(n) == agent => runs[n] \in {"running", "completed"}

\* Mutant: the replay of an accepted result is consumed once more.
Mutant_MayAccept(n) ==
  open /\ (LiveLease(attempts[n]) \/ attempts[n].state = "completed") /\ RunMayComplete(n)

MayAccept(n) == open /\ LiveLease(attempts[n]) /\ RunMayComplete(n)

Accept(n) ==
  /\ At(n, "accepting")
  /\ GoesTo(n, "over")
  /\ \/ /\ MayAccept(n)
        /\ attempts' = Settled(n, "completed")
        /\ step' = "succeeded"
        /\ IF agent
           THEN /\ runs' = [runs EXCEPT ![n] = "completed"]
                /\ drafts' = Append(drafts, n)
           ELSE UNCHANGED <<runs, drafts>>
     \/ UNCHANGED <<step, attempts, runs, drafts>>     \* replay, stale or an error
  /\ UNCHANGED <<agent, open, process>>

-----------------------------------------------------------------------------
(* RenewalAttemptControl.recover_expired, at the start of a tick.          *)
\* Mutant: recovery leaves the Agent Run of the lost Attempt alone.
Mutant_RunAbandoned(n) == runs

RunAbandoned(n) == RunFinished(n, "abandoned")

\* Mutant: the last lost Attempt is retried like the others.
Mutant_AfterLoss(n) == "pending"

AfterLoss(n) == IF n < MaxRenewalAttempts THEN "pending" ELSE "failed"

Recover(w) ==
  /\ WorkerIdle(w) /\ open
  /\ \E n \in DOMAIN attempts :
       /\ Expired(attempts[n])
       /\ attempts' = Settled(n, "abandoned")
       /\ runs' = RunAbandoned(n)
       /\ step' = AfterLoss(n)
  /\ UNCHANGED <<agent, open, drafts, work, process>>

(* close_instance, by a cancellation of the renewal.                       *)
Close ==
  /\ open /\ open' = FALSE
  /\ step' = IF step = "pending" THEN "cancelled" ELSE step
  /\ attempts' = [n \in DOMAIN attempts |->
       IF attempts[n].state = "leased" THEN Settled(n, "cancelled")[n] ELSE attempts[n]]
  /\ UNCHANGED <<agent, runs, drafts, work, process>>

(* serve_worker: SIGTERM, the end of the process, a crash, another start.  *)
Shutdown(w) ==
  /\ process[w] = "up"
  /\ process' = [process EXCEPT ![w] = "stopping"]
  /\ UNCHANGED <<rows, work>>

Gone(w) ==
  /\ process' = [process EXCEPT ![w] = "down"]
  /\ work' = [n \in Number |->
       IF n \in DOMAIN attempts /\ attempts[n].worker = w THEN NoExecution ELSE work[n]]
  /\ UNCHANGED rows

Exit(w) == process[w] = "stopping" /\ Gone(w)
Crash(w) == process[w] = "up" /\ Gone(w)

Restart(w) ==
  /\ process[w] = "down"
  /\ process' = [process EXCEPT ![w] = "up"]
  /\ UNCHANGED <<rows, work>>

Elapse(seconds) == IF seconds > 0 THEN seconds - 1 ELSE 0

Tick ==
  /\ \E n \in DOMAIN attempts : attempts[n].state = "leased"
  /\ attempts' = [n \in DOMAIN attempts |->
       IF attempts[n].state = "leased"
       THEN [attempts[n] EXCEPT !.lease = Elapse(@), !.deadline = Elapse(@)]
       ELSE attempts[n]]
  /\ UNCHANGED <<agent, open, step, runs, drafts, work, process>>

WorkInit ==
  /\ agent \in BOOLEAN /\ open = TRUE /\ step = "pending"
  /\ attempts = <<>> /\ runs = [n \in Number |-> "none"] /\ drafts = <<>>
  /\ work = [n \in Number |-> NoExecution]
  /\ process = [w \in Worker |-> "up"]

(* The loop of the process goes on with Attempt n.                         *)
Proceed(n) == Prepare(n) \/ BeginExecution(n) \/ RecordFailure(n) \/ Check(n) \/ Accept(n)

WorkNext ==
  \/ \E n \in Number : \/ Proceed(n) \/ CompleteAgain(n) \/ Return(n) \/ Raise(n)
                       \/ Wake(n) \/ Heartbeat(n)
  \/ \E w \in Worker : \/ Claim(w) \/ Recover(w)
                       \/ Shutdown(w) \/ Exit(w) \/ Crash(w) \/ Restart(w)
  \/ Close
  \/ Tick

WorkSpec == WorkInit /\ [][WorkNext]_workVars

(* Threads are scheduled, processes that end are started again, and not    *)
(* every one of them ends before it has recovered or claimed anything.  An *)
(* executor may run for as long as it is not cancelled; it ends then: an   *)
(* Agent process is killed, an operation is a database read or an HTTP     *)
(* call with a timeout.                                                    *)
WorkFairness ==
  /\ WF_workVars(Tick)
  /\ SF_workVars(\E w \in Worker : Claim(w))
  /\ SF_workVars(\E w \in Worker : Recover(w))
  /\ \A w \in Worker : WF_workVars(Exit(w)) /\ WF_workVars(Restart(w))
  /\ \A n \in Number : /\ WF_workVars(Proceed(n)) /\ WF_workVars(Wake(n)) /\ WF_workVars(Heartbeat(n))
                       /\ WF_workVars(work[n].cancelled /\ Raise(n))

FairWorkSpec == WorkSpec /\ WorkFairness

-----------------------------------------------------------------------------
(* The Agent Run tells what became of its Attempt: it is completed with    *)
(* it, abandoned or failed before it is given up, and never completed or   *)
(* abandoned otherwise.  (Closing the Instance cancels the Attempt of a    *)
(* Run that is under way and leaves the Run as it is.)                     *)
RunFollowsAttempt ==
  \A n \in DOMAIN attempts :
    CASE attempts[n].state = "completed" -> runs[n] = IF agent THEN "completed" ELSE "none"
      [] attempts[n].state = "abandoned" -> runs[n] \in {"none", "failed", "abandoned"}
      [] OTHER -> runs[n] \in {"none", "running", "failed"}

(* However many executions of the Step overlap, and however often a claim  *)
(* is completed, one draft is recorded, by the last Attempt, and only when *)
(* the Step succeeds.                                                      *)
OneDraft ==
  drafts = IF agent /\ step = "succeeded" THEN <<Len(attempts)>> ELSE <<>>

(* "cancel immediately when it is lost" (execute_with_renewable_authority):*)
(* an executor does not run on for ever on an Attempt that expired, was    *)
(* taken over or was cancelled.                                            *)
AuthorityLossCancels ==
  \A n \in Number :
    (work[n].stage = "running" /\ ~LiveLease(attempts[n]))
      ~> (work[n].stage # "running" \/ work[n].cancelled)

(* The Step is settled, whatever its executors and their processes do.     *)
StepIsSettled == step = "pending" ~> step # "pending"

=============================================================================
