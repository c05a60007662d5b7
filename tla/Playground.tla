------------------------------ MODULE Playground ------------------------------
(***************************************************************************)
(* The playground: one synthetic deployment of API, workers and database,  *)
(* a local email provider, and the demonstrations that use them.           *)
(*                                                                         *)
(* One thread makes the calls; the processes live, work and die beside it, *)
(* so that each process it reaps, launches or waits for is a step.  A      *)
(* cleanup has the outcome AgentProcess shows: the tree is gone, or it is  *)
(* reported and the owner keeps that answer for ever.  A launch that fails *)
(* leaves no process.                                                      *)
(***************************************************************************)
EXTENDS Integers, FiniteSets, SequencesExt

CONSTANTS
  MaxPid,      \* bound: processes launched by calls made at will
  MaxMishaps   \* bound: things that go wrong

VARIABLES
  plan,       \* "calls", "control", "renewal" or "experiment": who makes the calls
  script,     \* the calls a demonstration has still to make
  op,         \* the call that is being made
  proc,       \* the processes launched: [role, live, owner]
  running,    \* PlaygroundDeployment._running
  provider,   \* SyntheticEmailProvider._process, or 0
  container,  \* PlaygroundDeployment._container: "none", "up" or "broken"
  db,         \* the database
  secret,     \* the file with the verification secret
  mishaps     \* what went wrong so far (bound)

services == <<running, provider, container, secret>>
playground == <<plan, script, op, proc, services, db, mishaps>>

ROLES == <<"api", "workflow-worker", "delivery-worker">>

Live(p) == proc[p].live

NoCall == [kind |-> "idle", reap |-> <<>>, launch |-> <<>>, ready |-> <<>>, failed |-> FALSE]

(* The elements of s at some of its positions, in their order.             *)
ElementsAt(s, positions) ==
  [k \in 1..Cardinality(positions) |->
     s[CHOOSE i \in positions : Cardinality({j \in positions : j <= i}) = k]]

OfRole(role) == ElementsAt(running, {i \in DOMAIN running : proc[running[i]].role = role})

MayLaunch(n) == plan = "calls" => Len(proc) + n <= MaxPid

Mishap == mishaps < MaxMishaps /\ mishaps' = mishaps + 1

-----------------------------------------------------------------------------
(* The demonstrations, call by call.                                       *)
Fixture == <<<<"submit">>, <<"work">>, <<"work">>, <<"deliver">>, <<"expect", "presented">>>>

Failure(outcome) == Fixture \o <<<<"approve">>, <<"work">>, <<"expect", outcome>>>>

Exercise ==
  <<<<"start">>, <<"drain">>>>
    \o Fixture \o <<<<"reset">>>> \o Fixture
    \o <<<<"provider", "not_applied">>>> \o Failure("not_applied") \o <<<<"provider_stop">>>>
    \o <<<<"reset">>>> \o Failure("uncertain")
    \o [i \in 1..3 |-> <<"scale", ROLES[i], 1>>] \o <<<<"stop">>>>

Demonstration ==
  <<<<"provider", "applied">>, <<"database">>>> \o Failure("applied")
    \o <<<<"database_stop">>, <<"provider_stop">>>>

(* The process experiment: losses by force, and more capacity than at first. *)
burst_capacity == <<2, 3, 2>>

Grow(i) == <<"scale", ROLES[i], burst_capacity[i]>>

ApiPool ==
  <<<<"drain", ROLES[2]>>, <<"drain", ROLES[3]>>, Grow(1), <<"post", 1>>, <<"post", 2>>,
    <<"terminate", ROLES[1]>>, <<"drain", ROLES[1]>>, Grow(1), <<"post", 1>>>>

WorkflowLoss ==
  <<<<"work">>, <<"work">>, <<"deliver">>, <<"approve">>,
    <<"scale", ROLES[2], 1>>, <<"await", "dispatching">>, <<"terminate", ROLES[2]>>,
    <<"scale", ROLES[2], 1>>, <<"await", "applied">>, <<"drain", ROLES[2]>>>>

WorkflowThroughput ==
  <<<<"queue">>, Grow(2), <<"await", "drafted">>, <<"drain", ROLES[2]>>>>

DeliveryLoss ==
  <<<<"lock">>, <<"scale", ROLES[3], 1>>, <<"await", "delivering">>, <<"terminate", ROLES[3]>>,
    <<"unlock">>, Grow(3), <<"await", "presented">>>>

Experiment ==
  <<<<"provider", "applied">>, <<"start">>>>
    \o ApiPool \o WorkflowLoss \o WorkflowThroughput \o DeliveryLoss
    \o <<<<"verify">>, <<"stop">>, <<"provider_stop">>>>

Scripts ==
  [calls |-> <<>>, control |-> Exercise, renewal |-> Demonstration, experiment |-> Experiment]

(* The lock on Messages is held inside of its context only.                *)
Locked == Contains(script, <<"unlock">>) /\ ~Contains(script, <<"lock">>)

Calls ==
  {<<"start">>, <<"stop">>, <<"reset">>, <<"drain">>}
    \cup {<<name, ROLES[i]>> : name \in {"terminate", "restart"}, i \in 1..3}
    \cup {<<"scale", ROLES[i], n>> : i \in 1..3, n \in 0..2}

(* Leaving the contexts of a demonstration calls what they close with.     *)
Closing(call) == call[1] \in {"stop", "provider_stop", "database_stop"}

LeaveContexts(calls) ==
  \E k \in 1..(Len(calls) + 1) :
    /\ \A j \in 1..(k - 1) : ~Closing(calls[j])
    /\ k <= Len(calls) => Closing(calls[k])
    /\ script' = SubSeq(calls, k, Len(calls))

(* The call is over: a demonstration goes on, or only cleans up.           *)
Returned(failed) ==
  /\ op' = [NoCall EXCEPT !.failed = op.failed \/ failed]
  /\ IF plan = "calls" THEN UNCHANGED script
     ELSE IF op'.failed THEN LeaveContexts(Tail(script)) ELSE script' = Tail(script)

Begins(kind, reap, launch) ==
  /\ op' = [NoCall EXCEPT !.kind = kind, !.reap = reap, !.launch = launch,
                        !.failed = plan # "calls" /\ op.failed]
  /\ UNCHANGED script

Asked(call) ==
  /\ op.kind = "idle"
  /\ IF plan = "calls" THEN call \in Calls ELSE script # <<>> /\ call = Head(script)

-----------------------------------------------------------------------------
(* reap: its answer is kept, and an owner that failed never succeeds.      *)
ReapAnswers(p) ==
  IF proc[p].owner # "open" THEN {proc[p].owner}
  ELSE {"reaped"} \cup (IF proc[p].live /\ mishaps < MaxMishaps THEN {"survives"} ELSE {})

Reaped(p, answer) ==
  /\ proc' = [proc EXCEPT ![p].owner = answer, ![p].live = @ /\ answer = "survives"]
  /\ mishaps' = IF answer = "survives" /\ proc[p].owner = "open" THEN mishaps + 1 ELSE mishaps

\* Mutant: the errors of the last process replace those of the others.
Mutant_FailedBy(answer) == answer = "survives"

FailedBy(answer) == op.failed \/ answer = "survives"

(* stop, drain and drain_role, scale_role, terminate_role: every process   *)
(* of the call is reaped, whatever happens to the others.                  *)
ReapNext ==
  /\ op.reap # <<>>
  /\ LET p == Head(op.reap) IN
       \E answer \in ReapAnswers(p) :
         /\ Reaped(p, answer)
         /\ running' = IF answer = "reaped" THEN RemoveFirst(running, p) ELSE running
         /\ op' = [op EXCEPT !.reap = Tail(@), !.failed = FailedBy(answer)]
  /\ UNCHANGED <<plan, script, provider, container, db, secret>>

(* The calls that only reap.                                               *)
Reaping == {"drain", "terminate"}

ReapingEnds ==
  /\ op.reap = <<>>
  /\ op.kind \in Reaping \/ (op.kind = "scale" /\ op.failed)
  /\ Returned(op.failed)
  /\ UNCHANGED <<plan, proc, services, db, mishaps>>

Launched(role) == Append(proc, [role |-> role, live |-> TRUE, owner |-> "open"])

(* _start_process: the secret is written for a Workflow worker.            *)
Launch ==
  /\ op.reap = <<>> /\ ~op.failed /\ op.launch # <<>>
  /\ \/ /\ proc' = Launched(Head(op.launch))
        /\ running' = Append(running, Len(proc) + 1)
        /\ op' = [op EXCEPT !.launch = Tail(@), !.ready = Append(@, Len(proc) + 1)]
        /\ UNCHANGED mishaps
     \/ /\ Mishap /\ op' = [op EXCEPT !.failed = TRUE]
        /\ UNCHANGED <<proc, running>>
  /\ secret' = (secret \/ Head(op.launch) = "workflow-worker")
  /\ UNCHANGED <<plan, script, provider, container, db>>

(* _wait_ready.                                                            *)
WaitReady ==
  /\ op.reap = <<>> /\ ~op.failed /\ op.launch = <<>> /\ op.ready # <<>>
  /\ \/ Live(Head(op.ready)) /\ op' = [op EXCEPT !.ready = Tail(@)] /\ UNCHANGED mishaps
     \/ ~Live(Head(op.ready)) /\ op' = [op EXCEPT !.failed = TRUE] /\ UNCHANGED mishaps
     \/ Mishap /\ op' = [op EXCEPT !.failed = TRUE]
  /\ UNCHANGED <<plan, script, proc, services, db>>

LaunchEnds ==
  /\ op.kind \in {"start", "scale"} /\ op.reap = <<>> /\ ~op.failed
  /\ op.launch = <<>> /\ op.ready = <<>>
  /\ Returned(FALSE)
  /\ UNCHANGED <<plan, proc, services, db, mishaps>>

(* start() that failed stops the deployment before it raises.              *)
StartFails ==
  /\ op.kind = "start" /\ op.failed /\ op.reap = <<>>
  /\ op' = [op EXCEPT !.kind = "stop", !.reap = Reverse(running)]
  /\ UNCHANGED <<plan, script, proc, services, db, mishaps>>

NoDatabase == [marked |-> FALSE, foreign |-> FALSE, work |-> "none"]

(* mark_synthetic_deployment, of a database nobody has used.               *)
Marked(d) == [d EXCEPT !.marked = d.work = "none"]

(* The container of the deployment is started, migrated and marked.        *)
ContainerStarts == container' = "up" /\ db' = Marked(NoDatabase) /\ UNCHANGED mishaps

(* It is up when its migration or the mark fails.                          *)
ContainerFails == container' = "up" /\ db' = NoDatabase /\ Mishap

StartDeployment ==
  /\ Asked(<<"start">>)
  /\ IF container # "none" \/ running # <<>>
     THEN Returned(TRUE) /\ UNCHANGED <<container, db, mishaps>>
     ELSE /\ MayLaunch(3)
          /\ UNCHANGED script
          /\ \E failed \in BOOLEAN :
               /\ IF failed THEN ContainerFails ELSE ContainerStarts
               /\ op' = [NoCall EXCEPT !.kind = "start", !.launch = ROLES, !.failed = failed]
  /\ UNCHANGED <<plan, proc, running, provider, secret>>

(* The end of stop(); of the provider's and the database's context.        *)
StopContainer(failed) ==
  \/ /\ container' = "none" /\ db' = NoDatabase /\ Returned(failed)
     /\ UNCHANGED mishaps
  \/ /\ container # "none" /\ Mishap
     /\ container' = "broken" /\ Returned(TRUE) /\ UNCHANGED db

Stop ==
  /\ Asked(<<"stop">>)
  /\ Begins("stop", Reverse(running), <<>>)
  /\ UNCHANGED <<plan, proc, services, db, mishaps>>

StopEnds ==
  /\ op.kind = "stop" /\ op.reap = <<>>
  /\ StopContainer(op.failed)
  /\ secret' = FALSE
  /\ UNCHANGED <<plan, proc, running, provider>>

Drained == OfRole(ROLES[1]) \o OfRole(ROLES[2]) \o OfRole(ROLES[3])

Drain ==
  /\ Asked(<<"drain">>)
  /\ Begins("drain", Drained, <<>>)
  /\ UNCHANGED <<plan, proc, services, db, mishaps>>

DrainRole(role) ==
  /\ Asked(<<"drain", role>>)
  /\ Begins("drain", OfRole(role), <<>>)
  /\ UNCHANGED <<plan, proc, services, db, mishaps>>

Terminate(role) ==
  /\ Asked(<<"terminate", role>>)
  /\ IF OfRole(role) = <<>> THEN Returned(TRUE)
     ELSE Begins("terminate", SubSeq(OfRole(role), 1, 1), <<>>)
  /\ UNCHANGED <<plan, proc, services, db, mishaps>>

Scale(role, capacity) ==
  LET current == OfRole(role)
      more == capacity - Len(current)
  IN  /\ Asked(<<"scale", role, capacity>>)
      /\ container = "up" /\ MayLaunch(more)
      /\ Begins("scale", Reverse(SubSeq(current, capacity + 1, Len(current))),
                [i \in 1..more |-> role])
      /\ UNCHANGED <<plan, proc, services, db, mishaps>>

Restart(role) ==
  /\ Asked(<<"restart", role>>)
  /\ container = "up" /\ MayLaunch(1)
  /\ Begins("scale", OfRole(role), <<role>>)
  /\ UNCHANGED <<plan, proc, services, db, mishaps>>

-----------------------------------------------------------------------------
(* _assess_connection; the name is synthetic from the start.               *)
Accepted(d) == ~d.foreign /\ d.marked

\* Mutant: a deployment is reset while its processes run.
Mutant_MayReset == container # "none"

MayReset == container # "none" /\ running = <<>>

Reset ==
  /\ Asked(<<"reset">>)
  /\ IF MayReset /\ container = "up" /\ Accepted(db)
     THEN db' = [db EXCEPT !.work = "none"] /\ Returned(FALSE)
     ELSE UNCHANGED db /\ Returned(TRUE)
  /\ UNCHANGED <<plan, proc, services, mishaps>>

(* SyntheticEmailProvider.start up to its answer on /health.               *)
StartProvider(behavior) ==
  /\ Asked(<<"provider", behavior>>) /\ provider = 0 /\ MayLaunch(1)
  /\ \/ /\ proc' = Launched(behavior) /\ provider' = Len(proc) + 1
        /\ Returned(FALSE) /\ UNCHANGED mishaps
     \/ /\ Mishap /\ Returned(TRUE) /\ UNCHANGED <<proc, provider>>
  /\ UNCHANGED <<plan, running, container, db, secret>>

StopProvider ==
  /\ Asked(<<"provider_stop">>)
  /\ IF provider = 0 THEN Returned(FALSE) /\ UNCHANGED <<proc, provider, mishaps>>
     ELSE \E answer \in ReapAnswers(provider) :
            /\ Reaped(provider, answer)
            /\ provider' = IF answer = "reaped" THEN 0 ELSE provider
            /\ Returned(answer = "survives")
  /\ UNCHANGED <<plan, running, container, db, secret>>

(* scenario_database.                                                      *)
OpenDatabase ==
  /\ Asked(<<"database">>)
  /\ \/ ContainerStarts /\ Returned(FALSE)
     \/ ContainerFails /\ Returned(TRUE)
  /\ UNCHANGED <<plan, proc, running, provider, secret>>

CloseDatabase ==
  /\ Asked(<<"database_stop">>)
  /\ StopContainer(FALSE)
  /\ UNCHANGED <<plan, proc, running, provider, secret>>

-----------------------------------------------------------------------------
(* The renewal of a demonstration: what the worker of a role makes of it.  *)
(* _ProviderHandler.do_POST, or a connection that is refused.              *)
Dispatched(behavior) == IF provider # 0 /\ Live(provider) THEN behavior ELSE "uncertain"

WorkDone(work) ==
  CASE work = "submitted" -> "gathered"
    [] work = "gathered" -> "drafted"
    [] work = "approved" -> Dispatched(IF provider = 0 THEN "uncertain" ELSE proc[provider].role)
    [] OTHER -> work

Delivered(work) == IF work = "drafted" THEN "presented" ELSE work

(* create_renewal_fixture, approve_renewal and the work that is run once.  *)
RenewalCall(call, changed, failed) ==
  /\ Asked(call)
  /\ db' = [db EXCEPT !.work = changed] /\ Returned(failed)
  /\ UNCHANGED <<plan, proc, services, mishaps>>

SubmitFixture == RenewalCall(<<"submit">>, "submitted", FALSE)

RunWorker == RenewalCall(<<"work">>, WorkDone(db.work), FALSE)

RunDelivery == RenewalCall(<<"deliver">>, Delivered(db.work), db.work # "drafted")

Approve == RenewalCall(<<"approve">>, "approved", db.work # "presented")

(* observe_safe_renewal, and what the failures and the effect must show.   *)
Expect(work) == RenewalCall(<<"expect", work>>, db.work, db.work # work)

Answering(k) == k <= Len(OfRole("api")) /\ Live(OfRole("api")[k])

(* _submit_via_api: what is submitted again is replayed.                   *)
Post(k) ==
  RenewalCall(<<"post", k>>, IF Answering(k) /\ db.work = "none" THEN "submitted" ELSE db.work,
          ~Answering(k))

(* The renewals of the burst, alternately through both.                    *)
Queue ==
  LET all == Answering(1) /\ Answering(2) IN
  RenewalCall(<<"queue">>, IF all THEN "submitted" ELSE db.work, ~all)

(* A wait may end at its bound, or miss a state that is over.              *)
Await(work) == RenewalCall(<<"await", work>>, db.work, db.work # work)

(* What became of the renewals of the burst.                               *)
Verify == RenewalCall(<<"verify">>, db.work, db.work # "presented")

Lock == RenewalCall(<<"lock">>, db.work, FALSE)

Unlock == RenewalCall(<<"unlock">>, db.work, FALSE)

(* A dispatch lasts as long as the provider takes; when its worker is lost *)
(* another one learns what became of it.                                   *)
WorkerDone(work) ==
  CASE work = "approved" -> "dispatching"
    [] work = "dispatching" -> WorkDone("approved")
    [] OTHER -> WorkDone(work)

(* So does a Delivery whose Message cannot be appended.                    *)
DeliveryDone(work) ==
  CASE work = "drafted" -> IF Locked THEN "delivering" ELSE "presented"
    [] work = "delivering" -> IF Locked THEN work ELSE "presented"
    [] OTHER -> work

(* A worker of the deployment.                                             *)
WorkerActs(p) ==
  /\ Live(p) /\ container = "up"
  /\ \/ /\ proc[p].role = "workflow-worker"
        /\ db' = [db EXCEPT !.work = WorkerDone(@)]
     \/ proc[p].role = "delivery-worker" /\ db' = [db EXCEPT !.work = DeliveryDone(@)]
  /\ UNCHANGED <<plan, script, op, proc, services, mishaps>>

(* Processes end, and other applications may use the database.             *)
ProcessDies(p) ==
  /\ Live(p) /\ Mishap
  /\ proc' = [proc EXCEPT ![p].live = FALSE]
  /\ UNCHANGED <<plan, script, op, services, db>>

Intrudes ==
  /\ plan = "calls" /\ container = "up" /\ ~db.foreign /\ Mishap
  /\ db' = [db EXCEPT !.foreign = TRUE]
  /\ UNCHANGED <<plan, script, op, proc, services>>

(* A client of the deployment submits a renewal.                           *)
ClientSubmits ==
  /\ plan = "calls" /\ op.kind = "idle" /\ container = "up" /\ db.work = "none"
  /\ \E p \in DOMAIN proc : Live(p) /\ proc[p].role = "api"
  /\ db' = [db EXCEPT !.work = "submitted"]
  /\ UNCHANGED <<plan, script, op, proc, services, mishaps>>

PlaygroundInit ==
  /\ plan \in DOMAIN Scripts /\ script = Scripts[plan] /\ op = NoCall
  /\ proc = <<>> /\ running = <<>> /\ provider = 0 /\ container = "none"
  /\ db = NoDatabase /\ secret = FALSE /\ mishaps = 0

PlaygroundNext ==
  \/ StartDeployment \/ Stop \/ Drain \/ Reset
  \/ \E i \in 1..3 :
       \/ DrainRole(ROLES[i]) \/ Terminate(ROLES[i]) \/ Restart(ROLES[i])
       \/ \E n \in 0..3 : Scale(ROLES[i], n)
  \/ ReapNext \/ ReapingEnds \/ Launch \/ WaitReady \/ LaunchEnds \/ StartFails \/ StopEnds
  \/ \E behavior \in {"applied", "not_applied"} : StartProvider(behavior)
  \/ StopProvider \/ OpenDatabase \/ CloseDatabase
  \/ SubmitFixture \/ RunWorker \/ RunDelivery \/ Approve
  \/ \E work \in {"presented", "applied", "not_applied", "uncertain"} : Expect(work)
  \/ \E k \in 1..2 : Post(k)
  \/ \E work \in {"dispatching", "applied", "drafted", "delivering", "presented"} : Await(work)
  \/ Queue \/ Verify \/ Lock \/ Unlock
  \/ \E p \in DOMAIN proc : WorkerActs(p) \/ ProcessDies(p)
  \/ Intrudes \/ ClientSubmits

PlaygroundSpec == PlaygroundInit /\ [][PlaygroundNext]_playground

-----------------------------------------------------------------------------
(* A reset takes the database from nobody: no process that was ever        *)
(* launched for the deployment is alive, after whatever calls, failed      *)
(* launches and cleanups.                                                  *)
TakesFromNobody ==
  db.work # "none" /\ db'.work = "none" /\ container' = "up" =>
    \A p \in DOMAIN proc : Live(p) => p = provider

ResetIsAlone == [][TakesFromNobody]_playground

(* A call that stops the deployment and raises nothing, and a              *)
(* demonstration that answers, leaves no process, container or secret.     *)
StoppedIsGone ==
  LET Stopped == plan = "calls" /\ op.kind = "idle" /\ container = "none"
      Answered == plan # "calls" /\ op.kind = "idle" /\ script = <<>>
  IN  (Stopped \/ Answered) /\ ~op.failed =>
        /\ \A p \in DOMAIN proc : ~Live(p)
        /\ running = <<>> /\ provider = 0 /\ container = "none" /\ ~secret

=============================================================================
