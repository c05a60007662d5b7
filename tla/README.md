# TLA+ models of OpenMagic

This directory models OpenMagic: the workflow kernel of
`packages/openmagic-runtime`, the Example Insurance application of
`reference-apps/example-insurance` that is built on it, and the two tools that
run the whole and judge it, the playground and the evaluation suite. All durable
state of kernel and application is in PostgreSQL; every process (API, workflow
worker, Delivery worker, application worker) is stateless apart from the Attempt
it is working on. What is hard in such a system is what happens *between*
transactions and between system calls: a worker that dies, stalls or is
superseded, a result that arrives late, an answer that is lost, two Commands
that meet, a process that outlives the one that started it. The modules are
about that.

Run a model with `tlc -config X.cfg M`, a proof with `tlapm M.tla`.
`PROJECT.json` lists every run with its properties, every theorem, the source
lines each definition models, and the hazards the properties are aimed at.

Paths: `RT` = `packages/openmagic-runtime/src/openmagic_runtime`,
`K` = `RT/kernel`, `KP` = `RT/kernel/_persistence`,
`EI` = `reference-apps/example-insurance/src/example_insurance`,
`EP` = `EI/_persistence`, `EV` = `evals/src/openmagic_evals`,
`PG` = `apps/playground/src/openmagic_playground`.

## 1. Inventory

| Component | Source | State it keeps | Operations | Module |
|---|---|---|---|---|
| Workflow kernel | `K/control.py`, `K/work.py`, `K/_transitions.py`, `KP/*` | Instances, Steps with dependencies, Attempts with leases, Waits, Trace Events | start, claim, renew, accept and dispose, recover and dispose, resolve deferred, accept Signal, close | `Kernel` |
| Deliveries | `RT/delivery.py`, `RT/_persistence/delivery_*.py` | Deliveries, Delivery Attempts | create, claim (with recovery), acknowledge, report failure | `Delivery` |
| Threads and Messages | `RT/threads.py`, `RT/_persistence/thread_records.py` | Threads, their Channel Reference, Messages in Sequence order | create, provision, append | `Delivery`, `CommandSubmission` |
| Command dispatcher | `RT/commands.py`, `RT/_persistence/command_records.py` | Command receipts | execute, replay, conflict | `CommandSubmission` |
| Renewal submission and facts | `EI/renewal_submission.py`, `EI/renewal_facts.py`, `EI/renewals.py` | renewal Workflows, authoritative facts and their revision | submit, replace facts | `CommandSubmission` |
| Review, email effect, completion | `EI/renewal_review_control.py`, `renewal_approval_policy.py`, `renewal_effect_control.py`, `renewal_effects.py`, `renewal_lifecycle.py`, `renewal_completion.py` | drafts, Approval Grant, External Effect, evidence, Workflow lifecycle | publish, approve, request revision, revoke, cancel, authorize dispatch, dispatch, look up, accept observations, complete | `RenewalEffect` |
| Step-up verification | `EI/verification_*.py`, `EP/verification_*.py` | identifiers, memberships, roles, protected Commands, Challenges, Sessions, code Workflows | provision, request, submit, revoke, close, expire, deliver a code | `Verification` |
| Worker loop, renewable execution | `RT/workers.py`, `RT/execution.py`, `EI/workers.py`, `EI/workflow_worker_control.py` | one claim and one lease maintainer per process | tick, prepare, execute, renew, cancel, return, raise, shut down | `WorkerExecution` |
| Agent Runs | `RT/agents.py`, `RT/_persistence/agent_run_records.py` | one Run per Agent Attempt | start, complete, fail, abandon | `WorkerExecution` |
| Process ownership, Agent children | `RT/_owned_process.py`, `_process_tree.py`, `RT/execution.py`, ... | process groups of Agents and of launched commands | start, handshake, answer, cancel, signal, wait, reap, release | `AgentProcess` |
| Workflow Definitions | `K/definitions.py`, `K/control_support.py`, `KP/definition_records.py`, the shipped manifests | registered Definitions by identity | validate, register, load and verify, materialize | `Manifests`, `Definitions`, `DependencyCheck` |
| Prototype of deterministic reuse | `docs/prototypes/issue-64-agent-deterministic-reuse` | one run of one of three Workflows | its shell commands | `DefinitionReuse` |
| Playground | `PG/*` | processes of a deployment, local provider, database container, secret | start, stop, drain, scale, terminate, restart, reset, demonstrations | `Playground` |
| Evaluation suite | `EV/*`, `EV/evidence/*` | races and their records, artifacts of the lanes, claim report | race two contenders, run a lane, write an artifact, make the claim report | `RaceHarness`, `ReleaseEvidence`, `Playground` |
| Inspection, canonical values, registries, migrations, HTTP API | see `PROJECT.json` | - | - | not modelled, section 8 |

### How the components interact

* An application transaction calls kernel operations in its own database
  transaction. The kernel locks the Instance row first in every mutation, so
  what happens to one Instance is serial, and the application's rows change
  together with it. This is why one action of a module is one transaction.
* A claim, the work and the result are three transactions with nothing but a
  lease between them. The worker that comes back must prove its authority again
  (`require_current`, `guard_current_attempt`).
* Accepting and recovering an Attempt hand the application an authority object
  that it must consume in the same transaction: succeed, retry, fail or defer
  the Step. The handlers roll back when it is left unconsumed.
* A Command carries its identity; its receipt is written in the transaction of
  its effects, which makes a repetition a replay. Callbacks of workers
  (authorize the email dispatch, accept an observation) are Commands, too, with
  an identity derived from the Attempt.
* Deliveries are a second queue with leases of its own. An approval or a
  Challenge depends on a Delivery: a reviewer approves a presentation that was
  delivered; a code counts once it was delivered.
* The email provider is outside: it may answer, answer late, never, or refuse.
* A transaction locks rows one after another and keeps them. The order in which
  every handler does that is a contract between components that nobody states in
  one place; `LockPlans` does.
* An Agent runs in a fresh process that the worker owns: it answers through a
  pipe, and its whole process group must be gone before the Attempt is disposed.
  The playground owns its services by the same code.
* An Instance takes its Definition's manifest from a row that any release may
  have written; the digest is verified each time it is loaded.
* The evaluation suite runs the system's operations against each other in fresh
  processes, and derives from the files of its lanes what may be claimed.

### What is hard, component by component

* **Kernel.** Competing claims choose a candidate before they hold its
  Instance; results race recovery, closure and newer Attempts; deferred Steps
  are resolved by an identity that may be repeated; Signals compete for a Wait;
  the claim query never looks behind its head. Correct means: one current
  authority per Step, one disposition per ended Attempt, an outcome based on
  the newest Attempt, nothing live in a closed Instance, no pending Step that
  nothing can ever move.
* **Deliveries.** A claim decides by its statement's snapshot what it locks
  later, and rests on a unique index for the rest. Correct means: one Message
  per Delivery, one running Attempt, no worker robbed of a live lease, every
  Delivery settled.
* **Email effect.** An exactly-once effect on a system that has no transaction
  with us: a fence before the call, evidence after it, reconciliation when there
  is none, and an idempotency key at the provider. Correct means: at most one
  email, the approved one, never after withdrawal, and no second dispatch
  without evidence about the first.
* **Verification.** Challenges, Commands, Sessions and code Workflows that are
  resolved from five directions (code, expiry, revocation, replaced authority,
  closed renewal), and a list of pending Challenges that is read before the
  locks are held. Correct means: one answer for each request, given by authority
  that holds at that moment; and a code sent to an identifier that was replaced
  proves as little as the unlocked read allows.
* **Workers.** Two threads per Attempt, each with its own connection, and a
  process that can be told to stop or die anywhere. Correct means: lost
  authority ends the execution, the Run agrees with its Attempt, one draft.
* **Submission.** Five kinds of keys and rows locked one after another under
  READ COMMITTED, beside the creation of Threads. Correct means serialisable,
  including the answers given.
* **Locks.** Twenty handlers lock Instance, Workflow, Challenge, Party, Delivery
  and Thread rows. Correct means that no circle of waits closes.
* **Process ownership.** Between any two calls of the operating system the tree
  forks, founds sessions, ends or ignores a signal. Correct means that nothing
  is left of a tree reported gone, that the owner never waits for ever, and that
  a candidate that was received is not thrown away.
* **Definitions.** Two releases register one identity; a row is changed in
  place; a graph is searched in an arbitrary order. Correct means that whoever
  is told "registered" finds that manifest, that an Instance runs only what was
  validated, and that validated Routes can be materialized.
* **Playground.** Several processes are stopped one after another and any step
  can fail. Correct means that what is reported stopped is gone, and that a
  reset takes the database from nobody.
* **Evaluation suite.** A race counts only if it was one; an artifact of an
  older run or another build stays where a failed command leaves it, and the
  build is pinned after it was tested. Correct means that what is recorded and
  claimed happened, and that the artifacts of a claim name one build.

## 2. Modules and how they correspond to the code

Conventions. Rows are functions of records over pools of identities, "absent"
before they are drawn. Timestamps are countdowns in seconds that `Tick`
decrements; a lease is live while its countdown is positive. A transaction that
first takes the lock under which everything it reads is protected is one
action; a transaction that reads before it locks is split at that point.
Digests and payloads are model values: equal contents have equal digests. A
definition named `Mutant_X` is a plausible wrong version of `X`; no
specification uses it; it is there to be exchanged for `X` to see a property
fail.

Components that do not share state are composed in two suites, `MCProgress` and
`MCSafety`, which extend their modules: the initial state chooses one component,
which then takes all the steps while the others rest in an initial state, or in
one in which nothing is under way. One run per suite checks the very definitions
the theorems are about, and a property of a component is vacuous in the
behaviours of the others. For that the modules of a suite have names of their
own for what most modules call `Init`, `Next` and `Spec`: `WorkSpec`,
`TreeSpec`, `RegistrySpec`, `SearchSpec`, `ReuseSpec`, `LockSpec`,
`PlaygroundSpec`, `RaceSpec`, `EvidenceSpec`.

### Kernel, with WorkQueue and KernelRefinement

Variables: `instances`, `steps` (state, `claimable_at`, the Attempt it is
deferred on, its prerequisites and the activation that made it), `attempts`
(a sequence for each Step, by `attempt_number`), `waits`, and `trace`, the set
of event identities by which a replay is recognised.

| Action | Code |
|---|---|
| `Start` | `control.start`, `materialize` of the start Route |
| `Claim` | `work.claim`: candidate, Instance lock, candidate again under it |
| `Renew` | `AttemptAuthorityRecords.renew`, capped by the hard deadline |
| `Accept` with `Succeed`, `Retry`, `Fail`, `Defer` | `accept_attempt_result` and the disposition its handler must consume |
| `Recover` | `recover_expired_attempt` and its disposition |
| `ResolveDeferred` | `resolve_deferred`, repeated or not |
| `AcceptSignal` | `accept_signal`: Wait satisfied, Route activated |
| `Close` | `close`: cancels Steps, Attempts, Waits |

`WorkQueue` is what the kernel promises about a Step without Instances,
Attempts, clocks or Routes: queued with a budget, held by one claim, parked,
queued again only while budget is left, decided once. `KernelRefinement` maps
the phase from the Step row and its Attempts, and the budget from
`MaxAttempts - Len(attempts)`.

### Delivery

`deliveries`, `attempts`, `messages` of each Thread, and `txn`, the open claim
transaction of each worker. `Scan` takes the snapshot in which an expired
Attempt is recovered and candidates are chosen; `Commit` locks one candidate
and inserts the Attempt or fails the Delivery; `Conflict` is the unique
violation, `Disconnect` the crash. `Create`, `Post` (a channel Message),
`Acknowledge` (appends the Message) and `ReportFailure` are one action each.

### RenewalEffect, with ApprovedEffect and RenewalEffectRefinement

One Workflow from its first draft to its end. Reviewers: `PublishDraft`,
`FailDraft`, `DeliverDraft`, `Approve`, `RequestRevision`, `Revoke`, `Cancel`.
Email worker: `ClaimSend`, `AuthorizeDispatch` (the fence), `Dispatch`,
`Timeout`, `LoseWorker`, `LapseSend`, `AcceptEmail`, `RecoverSend`.
Reconciliation: `ClaimRecon`, `Lookup`, `AcceptRecon`, `LapseRecon`,
`RecoverRecon`. Provider (modelled from how `renewal_effects.py` uses it):
`ProviderHandles`, `RequestLost`, `ProviderSettles`. A Step here keeps only its
state, its last Attempt, whether that is leased and what it is deferred on;
`Kernel` models the rest. Leases lapse at any moment, which includes every
schedule of the clock.

`ApprovedEffect` is the promise: authority is granted, then withdrawn or spent,
never both; the email is sent at most once and only on spent authority; it is
confirmed only if sent. The refinement reads authority off the Grant, the
verdict off the lifecycle and the email Step.

### Verification

One Party, several renewals, requests indexed by Command. `Begin` is the
unlocked read of the pending Challenges (`verification_request_control.py:71`);
`RefuseRequest`, `AuthorizeRequest`, `ChallengeRequest`, `Provision`,
`AbortProvision` (the index on current roles) and `Revoke` do the rest under the
locks, with the list that was read. Submitted codes (`SubmitTooLate`,
`SubmitWrong`, `SubmitRejected`, `SubmitAccepted`), the worker of the code
Workflow (`ClaimCode`, `AcceptCode`, `AcceptRefused`, `LapseCode`,
`RecoverCode`), its Delivery (`DeliverCode`), and what happens elsewhere
(`ExpireChallenge`, `ExpireSession`, `RevokeRenewal`, `CloseRenewal`) are single
actions.

`ReplacedIdentifiers` adds two history variables that observe these steps and
prevent none: `unread[t]`, the Challenges started while transaction t is about to
end the identifier, and `overlooked`, the Challenges whose code was out when the
identifier ended under a transaction that could not have read them, or that names
another renewal. `OnlyOverlookedCodesAreStale` says in these terms what a code
proves: it was sent to the current identifier or its Challenge was overlooked,
and an overlooked code authorizes its own Command and opens no Session for
another. `CodeProvesCurrentIdentifier` in `Verification` is the sentence without
that exception, which finding 3 refutes.

### WorkerExecution

One Step and the processes that work on it. `work[n]` is where the execution of
Attempt n is (held, prepared, running, failing, returned, accepting, over), what
its lease maintainer does (off, waiting, renewing) and whether the executor was
told to cancel. `Claim`, `Prepare`, `CompleteAgain`, `BeginExecution`, `Wake`,
`Heartbeat`, `Return`, `Raise`, `RecordFailure`, `Check`, `Accept` follow
`execute_with_renewable_authority` and the worker's `complete`; `Recover` is the
application role's tick; `Close` is anyone's closure of the Instance;
`Shutdown`, `Exit`, `Crash`, `Restart` are the process. Any answer may be lost,
which the process meets as an exception.

### CommandSubmission, with SubmissionLedger and SubmissionRefinement

`tx[c]` is the open transaction of a client and goes through `asked`, `fresh`
(receipt looked up under the identity's advisory lock), `keyed` and `placed`
(Thread and Channel keys locked in sorted order, Thread provisioned), `asserted`
(facts replaced under the row lock), `checked`, `recorded`, then `Commit`. A
plain start skips to the handler. `Abort` is a lost connection at any statement.
`ReplaceFacts` is the other writer of facts and `CreateThread` the other writer
of Threads (`ThreadStore.create`, which takes no keys: its insert waits for a
transaction that is inserting a Thread with one of its keys, and the unique
index refuses what is there). A transaction sees committed rows and its own.

`SubmissionLedger` executes each submission in one step: started with all it
provisions, told the same Instance again, conflict, or refused without a trace;
the answer may be lost. `CommandSubmission` implements it with its own
variables as the mapping: the transactions are hidden. This is serialisability,
with the answers the clients got. "Refused" covers every error to the caller;
it is no promise that a repetition is refused, too.

### LockOrder, with LockPlans

`LockPlans` lists for every handler the rows its statements lock, in their
order, on the longest way through it, and marks the statements that skip what is
locked. `LockOrder` lets any number of connections work through any plans, one
row at a time: `BeginWork`, `LockRow` (possible when nobody else holds the row),
`EndWork` (a statement that skips what is locked does not wait: it finds
nothing, and its transaction ends). `OrderAssumption` is the discipline the code
follows: every row has a place in the order of tables, and whoever may have to
wait holds no row that the other one could want later. The one handler that
breaks it, provisioning, is kept in the plans and named in the property.

### AgentProcess

`caller` is what the owning thread does next, call by call: `StartAgent` or
`LaunchCommand`, `ObserveSession`, `AwaitAnswer`, `Reap`, then `SignalTree`,
`AwaitLeader`, `AwaitGroup`, `KillSurvivors`, `KillTree`, `AwaitKilled`,
`Verify`, and for a start that fails half way `AdoptPartial`, `EndPartial`,
`AfterKill`, `Release`. Beside it the tree acts: `FoundSession`, `SendReady`,
`SendAnswer`, `Fork`, `EndProcess`; and the world: `Expire` (a deadline passes),
`Cancel` (lost authority). A process may handle SIGTERM and go on.

### Manifests, Definitions, DependencyCheck

`Manifests` holds the shipped Definitions as data and `Valid`, the conjunction
of the checks of `validate_definition`. `Definitions` is `register_definition`
by several processes, statement by statement (`Register`, `Insert`, `Select`,
`CommitRegistration`, and `Again` after a serialisation of two inserts), the rows that other
releases write or that are changed in place (`OtherRelease`, `ChangedInPlace`),
and one Instance that starts, settles and activates Routes with the manifest it
loaded and verified (`StartInstance`, `Settle`, `Activate`). `DependencyCheck` is the
depth-first search for cyclic dependencies, one call or return of `visit` per
step (`NextRoot`, `Descend`, `Return`, `Accept`); the order in which Python goes
through a set is open.

### DefinitionReuse

The prototype kept in the documentation: three Definitions as data and every
pure transition of its `model.py` (`Lease`, `AcceptResult`, `Advance`,
`RequestRevision`, `CompetingSignal`, `LoseStepLease`, `MakeEffectUncertain`,
`ConfirmUncertainEffect`, and the Delivery commands).

### Playground

`op` is the call being made, `script` the calls a demonstration or the process
experiment has still to make; under "calls" they come in any order. A cleanup
reaps one process per step (`ReapNext`) with the outcomes `AgentProcess` allows:
gone, or reported and never asked again. `StartDeployment`, `Stop`, `Drain`, `Terminate`,
`Scale`, `Restart`, `Reset` are the deployment; the provider, the container and
the database are the parts that `ContainerFails`, `ProcessDies` and `Intrudes`
put in trouble.

### RaceHarness

One coordinator and two contenders, each a process with a pipe and a connection,
and the advisory lock in PostgreSQL that is their barrier: `EnterBarrier`,
`StartContender`, `ReceiveSession`, `ReceiveWaiting`, `AwaitWaiters`,
`ReleaseBarrier`, `RequireOverlap`, `SendProceed`, `ReceiveResult`, `Cleanup`,
`NextSeed` against `Connect`, `RequestLock`, `SayAcquired`, `Perform`,
`CommitPerformance`, `Leave`. Seven races differ in whether the loser waits or
skips, and in what it answers. The rows of earlier seeds are left out: what a
trial claimed stays claimed until somebody recovers it, which nobody does in a
corpus, so a later trial cannot meet it.

### ReleaseEvidence

`runner` is the command that runs and what it has observed, `file` the artifact
of each lane, `report` the claims. `RunDeterministic`, `RunRaces`, `RunSurface`
observe and publish or raise, `Expires` is the wall-clock bound,
`WriteClaimReport` checks the pins of all artifacts, `Rebuild` changes checkout
and installation at any moment, also while a command runs. The code builds its
pin after the tests and the races (`release.py:337`, then `:370`, `:432`), so the
module keeps apart what the code does not: `ran`, the builds a command made its
observations on, and `whole`, that the build has not changed since the first of
them. Both go into the artifact, where no action reads them.

## 3. Runs

| Run | Instance | Distinct states | What it shows |
|---|---|---|---|
| `kernel` | 2 Instances, 4 Steps, 3 Waits, 1 worker, 2 Signals, 1 resolution identity | 149 k | `LeaseIsCurrent`, `PendingHasDriver`, `DisposedExactlyOnce`, `OutcomeBasis`, `ClosedIsQuiet`, `ActivatedOnce` |
| `kernel_queue` | 1 Instance, 3 Steps, 2 Waits, fair | 110 k | `ImplementsWorkQueue`, `EligibleIsSettled` |
| `delivery` | 1 Thread, 2 Deliveries, 2 workers, 1 channel Message, 2 Attempts, fair | 338 k | `RunningIsNewest`, `DeliveredOnce`, `LeaseProtects`, `PendingIsSettled` |
| `delivery_lease_loss` | 1 Delivery, 2 workers | violation | finding 1 |
| `renewal_effect` | 2 drafts, 2 email Attempts, 2 lookups for each, fair | 177 k | `MailedAtMostOnce`, `OnlyTheApprovedDraftIsMailed`, `RedispatchNeedsEvidence`, `DispatchIsResolved`, `ImplementsApprovedEffect` |
| `renewal_effect_race` | 1 draft | violation | finding 2 |
| `verification` | 1 renewal, 2 requests, 2 identifiers, 2 overlapping transactions | 3.93 M | `CommandFollowsChallenge`, `DisclosedOnce`, `AuthorityIsRevalidated`, `OnlyOverlookedCodesAreStale` |
| `verification_two_renewals` | 2 renewals, 1 request | violation | finding 3 |
| `verification_reprovision` | 2 renewals, 2 memberships | violation | finding 4 |
| `progress` | suite: `WorkerExecution`, `Verification`, `AgentProcess`, fair | 234 k | `RunFollowsAttempt`, `OneDraft`, `AuthorityLossCancels`, `StepIsSettled`; `CarrierEnds`; `NothingSurvives`, `NoCandidateLost`, `OwnerGoesOn` |
| `safety` | suite: `CommandSubmission`, `DependencyCheck`, `Definitions`, `DefinitionReuse`, `Playground`, `RaceHarness`, `LockOrder`, `ReleaseEvidence` | 2.05 M | `AnswersStand`, `ImplementsLedger`; `VerdictIsRight`; `AnswersAreTrue`, `RunsWhatWasRegistered`; `EffectConfirmedOnce`; `StoppedIsGone`, `ResetIsAlone`; `TrialsAreSound`; `CirclesNeedProvisioning`; `ClaimsAreBacked` |
| `definitions_wait` | 2 processes, Definitions with Waits | violation | finding 5 |

### Bounds, and why they are enough

* `kernel`: the Definition of the instance has a start Route with a dependent
  Step and a Wait, a step Route and a signal Route, templates with one and with
  two Attempts, and leases equal to and below the hard deadline. Two Instances
  let a Signal identity or a claim meet the wrong one; four Steps hold a start,
  a redraft and an approval; three Waits let a Wait follow a Wait; two Signals
  compete for one. Claims of several workers differ only in the name stored in
  the row, so one name suffices for safety; which worker holds an Attempt is
  unrestricted. Symmetry permutes pools of identities and is used only without
  liveness properties.
* `delivery`: two workers are needed for a stale snapshot, two Attempts for
  retry and exhaustion, two Deliveries to overtake each other in one Thread.
* `renewal_effect`: two of everything for which order matters: a superseded
  draft, a superseded dispatch, a superseded lookup. The application allows
  three Attempts; the third repeats the second's situation.
* `verification`: overlaps two transactions with minimal budgets, and replaces
  the identifier once, so that a request can start a Challenge between the read
  of a replacement and its locks: an overlooked code is accepted within the
  bounds. `MaxNames = 5` weighs a request 1, an organization 2, and a closed or
  revoked renewal or an identifier that is no longer current 1. A second
  renewal, the other way to overlook a Challenge, would exceed the instance; the
  theorem covers it and `verification_two_renewals` exhibits it. The part of
  `progress` has larger budgets (2 failed codes, 2 Attempts) and liveness, with
  one transaction at a time.
* `WorkerExecution` in `progress`: a lease of 2 s under a deadline of 3 s is
  renewed once in full and once capped; two Attempts let an old execution meet a
  new one.
* `AgentProcess` in `progress`: a leader and two descendants (`MaxPid = 3`), so
  that one member can be forked while another is signalled.
* `CommandSubmission` in `safety`: three clients, two identities, six contents
  that share, pairwise, the Command, the Workflow, the Thread or the Channel
  Reference, and all of them one Policy; three clients let two waiters queue for
  one lock. `MaxRevision = 1` lets facts be changed once from outside; the one
  Thread that can be created rivals some contents by its key and others by its
  Channel Reference.
* `DependencyCheck`: every graph over three slots, which has cycles of length
  one, two and three, and diamonds.
* `Definitions`: two processes, the shipped Definitions and variations of one
  that share its identity, one Instance.
* `DefinitionReuse`: `MaxOccurrences = 13` holds a Workflow with one revision,
  `MaxFaults = 2` lets a second fault hit the recovery from the first.
* `Playground`: `MaxPid = 5` is one more than the roles, so that a scaled or
  restarted role meets its predecessor; `MaxMishaps = 2`. A wait of the
  experiment may time out at any time.
* `RaceHarness`: `MaxSeeds = 2` lets a trial follow one in which something went
  wrong, `MaxTrouble = 1` in a corpus.
* `ReleaseEvidence`: five builds of four kinds, `MaxWrong = 1` deviation in a run
  and `MaxRebuilds = 1`: every check that should refuse an artifact must refuse
  it for that one deviation. One change of the build is enough to fall between
  two artifacts, or into a run between its tests and its pin.
* `LockOrder`: any two handlers meet on two connections, for two renewals of one
  Party with a pending Challenge each. Circles of more connections are the
  theorem's.

Deadlock is not checked: identities are used up and all work ends, so each of
these instances may stop.

### Fairness

Only `kernel_queue`, `delivery`, `renewal_effect` and `progress` assume any.
Liveness holds under what the processes really do: worker roles poll for ever
(`RT/workers.py:18-84`), the application role recovers and claims on every tick
(`EI/workers.py:35-51`), time passes. No run assumes that a worker that holds an
Attempt ever answers, that a provider responds, or that a person decides.
`RenewalEffect` and `Verification` assume fairness of claims, lapses and
recoveries only. `Delivery` needs strong fairness of "some commit serves this
Delivery", because `SKIP LOCKED` and snapshots let single claims miss it.
`WorkerExecution` has strong fairness of "some worker claims / recovers", and
weak fairness of each process's own next step and of its restart; a cancelled
executor ends (`execution.py` kills an Agent process; an operation has a
timeout). `AgentProcess` has weak fairness of the owning thread's next call and
of the passing of its deadlines, and none of anything the tree does: the owner
goes on although a child hangs, ignores SIGTERM or never answers.

## 4. Findings

Each is a run that TLC ends with a counterexample.

1. **`delivery_lease_loss`**: CONTEXT.md:372 says that lease loss abandons an
   Attempt. A claim whose snapshot predates the claim of the last budgeted
   Attempt counts the budget as used and fails the Delivery *under* its running
   Attempt. Recovery only looks at pending Deliveries, so the Attempt stays
   running, unless its worker answers; then the failed Delivery turns delivered.
2. **`renewal_effect_race`**: a lookup that overtakes the request of a lost
   worker is answered 404, which counts as definite evidence that nothing was
   applied, and a second Attempt is dispatched while the first can still commit.
   The research note asks for no automatic retry after a possible commit. The
   idempotency key keeps the policyholder from a second email
   (`MailedAtMostOnce` holds); a Step may fail although the email goes out.
3. **`verification_two_renewals`**: replacing the Party's identifier through one
   renewal leaves its pending Challenges about other renewals alone, and the
   code sent to the old address is accepted. CONTEXT.md:152 says the Session
   proves control of the current one. With overlapping transactions the same
   happens within one renewal, as the pending Challenges are read before the
   locks are held. These are the only two ways, and the code proves nothing
   beyond its own request: `OnlyOverlookedCodesAreStale`, in `verification`.
4. **`verification_reprovision`**: revoking a membership through one renewal
   leaves the roles of the Party's other renewals unrevoked under it;
   provisioning any of those then violates the index on current roles, every
   time.
5. **`definitions_wait`**: CONTEXT.md:160 says that registration validates the
   complete manifest, known references and acyclic dependencies included, before
   a Definition becomes selectable. A Step that depends on a Wait of its Route
   passes (`definitions.py:307`); materialization resolves Steps only and raises
   (`control_support.py:139-142`), so every Instance that takes the Route fails.

Seen while modelling, and not the subject of a run:

* Provisioning locks a person and an organization with `= ANY (...) FOR UPDATE`
  (`verification_authority_records.py:79`) in any order. `lock_authority` of a
  request or a submission on another renewal of the same Party locks the person
  first and the organization later. The circle can close, PostgreSQL breaks one
  transaction off, and no handler takes that error. `CirclesNeedProvisioning`
  exempts circles with a provisioning in them, and says that in the model there
  are no others. Locks are exclusive there; two transactions that hold one row
  `FOR KEY SHARE` and both ask for more of it, which is a circle, too, are not
  represented.
* The lanes of the evaluation suite pin the build that is there when their work
  is done and do not compare it with the one they started on. A checkout or an
  installation that changes meanwhile gives an artifact whose observations were
  made on another build than it names, although each artifact limits its
  observations to "the pinned build" (`release.py:397`), and nothing in the claim
  report can tell. `ClaimsAreBacked` says what is true: the build is named
  unanimously, and it is the one observed unless it changed in between.
* Closing an Instance cancels its Attempts and leaves their Agent Runs `running`;
  `RunFollowsAttempt` admits it.
* A leader that dies between the timeout of `wait_for_leader` and the wait for
  its group is reported as unreaped. Reaping is done once and its answer kept, so
  an unreaped process blocks start and reset of a deployment for good.
* A child that was given up before its handshake may found its session later;
  `NothingSurvives` names this case.
* A failed race corpus can never be written: the validators raise before
  `write_artifact`, the branch at `release.py:468` is not reachable, and an older
  passing artifact stays. `EV/evidence/surface.py:33` has no `@bounded_evidence`,
  although `deadline.py:1` speaks of one bound for every runner. Files are read a
  second time for their digest, after validation; two runs with one output share
  one `.tmp` name.
* In the prototype, `model.py:407` tells the reader that automatic retry is
  blocked, but `advance` leases another Attempt (`model.py:282-301`).
  `EffectConfirmedOnce` counts confirmations, not attempts, and admits it.
* `harness` email provider: two concurrent requests with one idempotency key
  both pass the look-up, and the second insert violates the primary key.
* A Route that a Command should activate is accepted by validation, and nothing
  activates it.

## 5. Proofs

`KernelProofs` proves, for every set of rows, every Definition that satisfies
the named assumptions (what `validate_definition` enforces), every number of
workers, every lease and every budget:

* `KernelTypeCorrect`: `Spec => []TypeOK`;
* `LeasesAreCurrent`: `Spec => []LeaseIsCurrent`. The fences of the application
  rest on it;
* `NoStepIsLost`: `Spec => []PendingHasDriver`. A pending Step of an open
  Instance is held, or parked on its newest Attempt, or claimable with budget
  left: the claim query cannot stall at an exhausted head;
* `ClosedInstancesAreQuiet`: `Spec => []ClosedIsQuiet`.

None of the three is inductive. The invariant `IInv` is type correctness
together with one predicate on a Step's row and its Attempts,
`RowInv(steps[s], attempts[s], open Instances)`, for each Step, and
"unsatisfied Waits are in open Instances". `RowInv` says of a Step at once that
only its newest Attempt can be leased, that a leased Step is pending, not
deferred and in an open Instance, that a deferral is on the newest Attempt and
that an idle pending Step has budget; the three properties need each other
(that a retried Step has budget left follows from the newest Attempt being the
leased one). Because `RowInv` concerns one Step, an action's proof is about the
one row it changes; `MaterializeAdds` and `AddedPreserves` treat the rows a
Route adds once for all actions that activate a Route, and `Dispositions` the
four dispositions once for acceptance and recovery. There is one lemma per action
(`StartIInv` ... `TickIInv`), combined in `NextIInv`.

The second part of `KernelProofs` adds what the transactions leave behind to that
invariant:

* `AttemptsAreDisposedOnce`: `Spec => []DisposedExactlyOnce`;
* `OutcomesRestOnTheNewest`: `Spec => []OutcomeBasis`;
* `RoutesAreActivatedOnce`: `Spec => []ActivatedOnce`.

`HistoryInv` relates the row of one Step, its Attempts and the `trace`: an Attempt
has a disposition there exactly when it is completed or abandoned, of one kind,
an outcome is on the newest Attempt, and a deferral is recorded. `ActivationInv`
says that the source of every Step and the Signal of every satisfied Wait is in
the `trace`. A transaction that needs a row to be absent (a first acceptance, a
Signal) or adds one under a key nobody else can write can then not act twice.

The third part proves `KernelIsAQueue`, `Spec => ImplementsWorkQueue`: every
transaction maps to one step of the plain queue, and `Renew` and `Tick` to a
stutter. `SamePhase` and `SameBudget` say what a Step's phase and budget depend
on, `AddedEnter` maps the rows a Route adds, and `DisposalDecides` treats
acceptance and recovery together; `IInv` supplies that a leased Attempt is the
newest and that a retry has budget.

`DeliveryProofs` proves, for any number of Deliveries, Threads and workers and
every policy with a positive lease and budget:

* `DeliveryTypeCorrect`: `Spec => []TypeOK`;
* `NewestRuns`: `Spec => []RunningIsNewest`;
* `DeliveredAtMostOnce`: `Spec => []DeliveredOnce`;
* `LeasesProtect`: `Spec => LeaseProtects`, an action property.

The invariant has three parts: `RowInv` of a Delivery and its Attempts,
`MessageInv` (the Messages of a Thread that a Delivery wrote are the one its row
names, behind its cutoff), and `ClaimInv` of an open claim transaction: the
Delivery it has recovered is still pending, its Attempt still expired, and no
other open transaction has recovered it. Nothing need be known about the
candidates of a snapshot: the unique index on running Attempts is the reason why
a stale one does no harm. The proofs have one lemma per action.

`RenewalEffectProofs` proves, for every number of drafts and every budget of
Attempts and look-ups:

* `EmailIsSentOnce`: `Spec => []MailedAtMostOnce`;
* `ApprovedDraftIsSent`: `Spec => []OnlyTheApprovedDraftIsMailed`;
* `RedispatchIsBacked`: `Spec => []RedispatchNeedsEvidence`;
* `EffectIsImplemented`: `Spec => ImplementsApprovedEffect`, the refinement.

Nine parts make the invariant: types; `RowsOK`, the email and the look-up Step
one row at a time; `OneReview`, only the last draft can be open for a decision, and
only while nothing is granted; `AuthorityFirst`, nothing is sent before an
approval, and nothing crosses the fence or reaches the provider before the Grant
is consumed; `OneRecord`, the provider has one record and sent what it says;
`TrueReports`, whoever read that the email was sent read the truth;
`ApprovedOnly`, grants and emails name an approved draft; `EvidenceFirst`, the
Effect points at the last Attempt that crossed the fence, and when it counts as
not applied the evidence is older than a leased Attempt; and
`RedispatchNeedsEvidence` itself. There is one lemma for each
part, with one step per action in it. The argument for "at most one email" does
not use the kernel: it needs the key, which is why it survives finding 2.

`SubmissionProofs` proves, for any number of clients, any set of contents and
any assignment of lock numbers that tells Threads and Channel References apart:

* `SubmissionTypeCorrect`: `Spec => []TypeOK`;
* `AnswersAreKept`: `Spec => []AnswersStand`;
* `CommandsStartOnce`: `Spec => []StartedOnce`;
* `SubmissionIsSerial`: `Spec => ImplementsLedger`, the refinement: the
  interleaved transactions behave like submissions executed one at a time.

The invariant `Inv` says that receipts and Workflow keys point at the Commands
executed and back (`KeysAgree`), that no lock is held twice (`LocksExclude`),
and that what a transaction has found out and not yet written is still true
(`StillTrue`): its identity has no receipt, its Thread can be provisioned, the
facts it will write replace the ones that are there. `StillTrue` survives
another transaction's commit because that one writes only what it has locked;
this is the whole argument for serialisability, and the reason why the row of a
Policy must be locked before it is read. `CreateThread` locks nothing, and
preserves it only because its insert waits for the transaction that has inserted
a rival. `OneMoves` treats all statements that change no row at once,
`CommitInv` and `ReplaceFactsInv` are the two that do. A commit maps to the
execution of its Command, the end of any other answered transaction to a
repetition or a refusal (`LookUpServes`, `RefusalServes`, `CommitServes`), and
everything else to a stutter.

Its second part is about `LockOrder`. It proves, for any number of connections and
any plans that satisfy `OrderAssumption`, `LocksAreExclusive` and
`LocksFormNoCircle` (`LockSpec => []CirclesNeedProvisioning`). A connection holds
the prefix of its plan it has got to, and locks are disjoint; so whoever waits,
waits for a row another holds, and by `OrderAssumption` the place of the awaited
row falls along a chain of waits. In a circle the lowest place would have to fall
further. TLC evaluates `OrderAssumption` for the plans of the code, two by two.

`VerificationProofs` proves, for any number of renewals, requests, organizations
and overlapping transactions:

* `VerificationTypeCorrect`: `Spec => []TypeOK`;
* `CommandsFollowChallenges`: `Spec => []CommandFollowsChallenge`;
* `DetailsLeaveOnce`: `Spec => []DisclosedOnce`;
* `AuthorityIsChecked`: `Spec => AuthorityIsRevalidated`, an action property;
* `StaleCodesProveNothingMore`: `HistorySpec => OnlyOverlookedCodesAreStale`, an
  action property of `ReplacedIdentifiers`.

The invariant is `TypeOK`, `RowsInv` and `ClientInv`. `RowsInv` says of one Command
what its row, its Challenge and the Deliveries made for it say together (`Agree`):
pending and waiting, accepted and authorized, ended and rejected for the matching
reason, delivered exactly when authorized. The reason why a list of pending
Challenges that was read too early does no harm to it is `EndingAgrees`: whoever
ends a list of Challenges looks at each again once it is locked, and ends the
Command with it. `ClientInv` keeps two requests from using one Command. For the
last theorem `HistoryInv` is added: whoever may end the identifier has read every
pending Challenge of its renewal, or it was started since (`unread`); a code that
is out was sent to the current identifier or is overlooked; and an overlooked
Challenge names an identifier that will not be current again, because numbers only
grow. A Session over the current identifier is therefore never that of an
overlooked Challenge (`SessionsAreFresh`). There is no hypothesis on the number of
renewals or of overlapping transactions.

`WorkerExecutionProofs` proves, for any number of workers and any budget of
Attempts, `ExecutionTypeCorrect`, `OnlyTheNewestIsLeased`, `RunsFollowAttempts`
(`WorkSpec => []RunFollowsAttempt`) and `DraftsAreRecordedOnce`
(`WorkSpec => []OneDraft`). The invariant adds to these that no Run and no
maintainer exists before its Attempt does (`UnclaimedInv`). A draft is recorded in
the transaction that ends the Step and needs the lease; by `LeaseInv` no Attempt
has one afterwards.

Its second part is about `AgentProcess`. It proves, for a tree of any size
(`TreeAssumption`), `ProcessTypeCorrect`, `CleanupLeavesNothing`
(`TreeSpec => []NothingSurvives`) and `CandidatesAreAccepted`
(`TreeSpec => []NoCandidateLost`). Every process but the leader is in the group the
leader founded, so the group that was found empty was the whole tree (`TreeInv`);
`OwnerInv` says which steps of the owner lead to a release without an error;
`AnswerInv` that an Agent that ends in time is reaped with what it sent read
before.

`DefinitionsProofs` proves, for any number of processes and any set of manifests,
`AnswersStayTrue` and `InstancesRunWhatWasRegistered`, assuming only that the value
that stands for "absent" is none of the others (`AbsentAssumption`). `Told` says
what a caller knows at each of its statements; a row that another has written and
not committed makes an insert wait, so a row that is found is committed
(`CallerInv`). `InstancesNeverJam` (`RegistrySpec => []SomethingIsReady`) draws the
conclusion validation is for: as an Instance runs only Routes of a manifest that
was validated (`InstanceInv`), and no set of slots of such a Route waits only for
its own members, something that is not done is always ready. No run lists it; it says of every
manifest what the few Definitions of a run could only exemplify. Its second part proves `SearchIsRight`: for every graph and in
whatever order it is searched, the depth-first search of `validate_definition`
accepts exactly when no set of slots waits only for its own members. A call that
returns leaves a larger set without such a circle (`ReturnKeepsAcyclic`); a slot
met again on the stack closes one. Its third part proves
`EffectsAreConfirmedOnce` (`ReuseSpec => []EffectConfirmedOnce`) for all three
Definitions of the prototype and any bound on occurrences and faults:
`Sound(scenario)` is what the three graphs have in common (no Route leads back
across the External Effect), `EffectOnce` that a run past the Effect has one
occurrence of it, and `OccurrenceInv` that an occurrence of it is over only when
confirmed.

`ToolProofs` is about the tools.

* `RaceHarness`, for a corpus of any length and any amount of trouble:
  `RecordedTrialsAreSound` (`RaceSpec => []TrialsAreSound`). `OverlapInv` holds
  always: nobody performs before both hold the barrier, or the other is gone
  without an answer. `CalmInv` holds as long as nothing went wrong: the pipes
  contain exactly what was said and not yet heard, and of two contenders that have
  performed exactly one has taken the row; hence every check of the coordinator
  passes.
* `ReleaseEvidence`, for every matrix (`MatrixAssumption`):
  `PublishedClaimsAreBacked` (`EvidenceSpec => []ClaimsAreBacked`). What stands in a
  file was written with its build pinned, by whichever run, and unless the build
  changed after the first observation all of them were made on it (`RunnerInv`);
  the report compares the pins of all files.
* `Playground`, for any number of processes and mishaps:
  `StoppedDeploymentsAreGone` (`PlaygroundSpec => []StoppedIsGone`) and
  `ResetsAreAlone` (`PlaygroundSpec => ResetIsAlone`, an action property). Neither
  property is inductive. `DeployedInv` adds to them who owns what:
  `OwnedInv`, every process that lives is in the list of the deployment, which
  names each once, or is the provider; `ContainerInv`, when there is no container,
  what is left in the list survived its cleanup, and the call that found out has
  not ended without saying so; `StopInv`, a stop has behind it only what it could
  not reap, and has failed then; `DemonstrationInv` and `WellMade`, what a
  demonstration has open, the rest of its script closes. `WellMade` is proved of
  the scripts themselves, and stays true of what is left of one, also when an
  error skips to the next call that closes something. A deployment that is reset
  has an empty list, so by `OwnedInv` nothing but the provider can be alive.
  `RemovedFirst` and `SelectedElements` are the lemmas about lists all of this
  rests on.

### Only model-checked

* Liveness: `EligibleIsSettled`, `PendingIsSettled`, `DispatchIsResolved`,
  `StepIsSettled`, `CarrierEnds`, `OwnerGoesOn` and `AuthorityLossCancels`. Liveness
  under fairness and anything with `ENABLED` is out of the prover's reach.
* What a recursively defined operator computes for every input (induction over
  data).

## 6. Plan

Order: the queue everything rests on first, then the effect that leaves the
system, then authority, processes and entry points, then the tools.

1. `Kernel`, `WorkQueue`, `KernelRefinement`, `KernelProofs`: done, all safety
   properties and the refinement proved.
2. `Delivery`, `DeliveryProofs`: done, all safety properties proved.
3. `RenewalEffect`, `ApprovedEffect`, `RenewalEffectProofs`: done, all safety
   properties and the refinement proved.
4. `Verification`, `ReplacedIdentifiers`, `VerificationProofs`: done, all safety properties proved.
5. `WorkerExecution`, `WorkerExecutionProofs`: done, all safety properties proved.
6. `CommandSubmission`, `SubmissionLedger`, `LockPlans`, `LockOrder`,
   `SubmissionProofs`: done, all safety properties and the refinement proved.
7. `AgentProcess` (proved in `WorkerExecutionProofs`), `RaceHarness`,
   `ReleaseEvidence` and `Playground` (proved in `ToolProofs`): done, all safety
   properties proved. Left: the lanes about Agent quality and the live smoke test.
8. `Manifests`, `Definitions`, `DependencyCheck`, `DefinitionReuse`,
   `DefinitionsProofs`: done, all safety properties proved.
9. Left to prove: nothing that a run checks as safety. Worth adding are theorems
   about what only TLC's refinement mappings use of `WorkQueue`, `ApprovedEffect`
   and `SubmissionLedger` themselves, namely what each promises by itself.

## 7. Reading the properties

Each property has a comment that says what it means and which code rests on it.
Three notes. `EligibleIsSettled` and `DispatchIsResolved` end in "or is parked":
a deferred Step waits for evidence, and when reconciliation spends its budget it
waits for good; the kernel keeps no clock on a deferral. `RunFollowsAttempt`
admits a Run that stays `running` when its Instance is closed, because closure
cancels the Attempt and only recovery abandons a Run. `StepIsSettled` ends in
success, failure or cancellation, whatever a worker does with its Attempt,
because the hard deadline ends it.

## 8. Not modelled

* Inspection and evidence projections, Thread Context: they change nothing.
* Canonical JSON and record decoding: pure functions; the models need only that
  equal contents have equal digests.
* Command registries and data contracts: declarations.
* Migrations and readiness: run at deployment. The keys and checks of the schema
  they create are in the modules.
* HTTP API: one route in front of the submission; its caller is a client of
  `CommandSubmission`.
* Playground: its command line and what the verification scenario shows.
* Evaluation suite: the lanes about Agent quality (`agent_*.py`, `matrix.py`:
  arithmetic on collected trials), the live smoke test and the playground; what
  an audit of the source looks for (`sql_scanner.py`, `surface_contracts.py`);
  the contents of correlations.
* Refusals that change nothing (wrong Party, wrong Thread), template rendering,
  health endpoints.
* Process numbers that the operating system gives out again, and members that
  join a process group while it is being listed.
* Lost time: clocks of the processes are not compared; all times are the
  database's (`now()`), as in the code.
