---------------------------- MODULE AgentProcess ----------------------------
(***************************************************************************)
(* A process tree that openmagic owns, from its start until the last of    *)
(* its members is gone: the fresh process of an Agent, which answers       *)
(* through a pipe, and a command launched for a deployment, a provider or  *)
(* an experiment.                                                          *)
(*                                                                         *)
(* The thread that owns the tree, the leader, and the processes the leader *)
(* starts interleave at every call of the operating system.  How long      *)
(* anything takes is left open: a wait with a timeout ends when its        *)
(* condition holds or when it does not.  Process numbers are not reused    *)
(* while the tree is owned, and the listing of a group is one step: a      *)
(* process that forks and ends between the listing of /proc and the read   *)
(* of its stat is not modelled.                                            *)
(***************************************************************************)
EXTENDS Integers

CONSTANT MaxPid   \* bound: processes of one tree

ASSUME TreeAssumption == MaxPid \in Nat \ {0}

VARIABLES
  kind,       \* "agent": a multiprocessing child; "command": a subprocess
  caller,     \* what the owning thread does next
  proc,       \* [Pid -> state of the process]
  stubborn,   \* the processes that handle SIGTERM and go on
  group,      \* the processes in the session of the leader
  pipe,       \* what the child has sent: its handshake and its answer
  deadline,   \* "ahead" or "past"
  cancelled,  \* the CancellationToken
  forced,     \* forced_loss: SIGKILL at once
  observed,   \* owned_group_observed
  exited,     \* leader_exited
  errors,     \* the cleanup has met an error
  reason      \* why the execution ended

tree == <<proc, stubborn, group, pipe>>
cleanup == <<forced, observed, exited, errors>>
treeVars == <<kind, caller, tree, deadline, cancelled, cleanup, reason>>

Pid == 1..MaxPid
Leader == 1

Live(p) == proc[p] \in {"running", "doomed"}

(* is_session_leader; an ended child that was not waited for still has its *)
(* group.                                                                  *)
IsSessionLeader == Leader \in group

\* Mutant: the group is taken to be gone with its leader.
Mutant_GroupExists == Live(Leader)

(* process_group_exists, over live_group_members: neither counts zombies.  *)
GroupExists == \E p \in group : Live(p)

(* killpg, and Process.terminate and kill for the leader alone.            *)
Doomed(targets) ==
  [p \in Pid |-> IF p \in targets /\ proc[p] = "running" THEN "doomed" ELSE proc[p]]

Signalled(targets, kill) == Doomed(IF kill THEN targets ELSE targets \ stubborn)

Goes(next) == caller' = next

-----------------------------------------------------------------------------
(* FreshAgentExecutor.run up to process.start().                           *)
StartAgent ==
  /\ caller = "start" /\ kind = "agent"
  /\ \/ /\ cancelled
        /\ Goes("over") /\ reason' = "cancelled" /\ UNCHANGED proc
     \/ /\ ~cancelled
        /\ Goes("observing") /\ proc' = [proc EXCEPT ![Leader] = "running"] /\ UNCHANGED reason
     \/ /\ ~cancelled                                 \* start() raises, no child
        /\ Goes("released") /\ reason' = "error" /\ UNCHANGED proc
  /\ UNCHANGED <<kind, stubborn, group, pipe, deadline, cancelled, cleanup>>

(* launch_subprocess_parts: start_new_session makes the child a leader     *)
(* before Popen returns.                                                   *)
LaunchCommand ==
  /\ caller = "start" /\ kind = "command"
  /\ \/ /\ Goes("using")
        /\ proc' = [proc EXCEPT ![Leader] = "running"] /\ group' = {Leader}
        /\ UNCHANGED reason
     \/ Goes("released") /\ reason' = "error" /\ UNCHANGED <<proc, group>>
  /\ UNCHANGED <<kind, stubborn, pipe, deadline, cancelled, cleanup>>

(* _observe_agent_session.  The pipe does not end while the parent holds   *)
(* its own sender, so a child that dies first is met by the timeout, which *)
(* starts after the deadline was set.                                      *)
ObserveSession ==
  /\ caller = "observing"
  /\ \/ pipe.hello /\ Goes("waiting") /\ UNCHANGED reason
     \/ /\ ~pipe.hello /\ deadline = "past"
        /\ Goes("partial") /\ reason' = "child_process_failure"
  /\ UNCHANGED <<kind, tree, deadline, cancelled, cleanup>>

\* Mutant: the wait for the child has no deadline.
Mutant_MayStopWaiting == ~Live(Leader) \/ cancelled

\* Mutant: the pipe is looked at before the child has ended.
Mutant_Impatient == TRUE

MayStopWaiting == ~Live(Leader) \/ deadline = "past" \/ cancelled

(* What the message in the pipe says.                                      *)
Read(answer) ==
  CASE answer = "none" -> "missing_result"
    [] answer = "broken" -> "error"                  \* OSError from recv
    [] answer = "failure" -> "child_process_failure"
    [] OTHER -> "returned"

AwaitAnswer ==
  /\ caller = "waiting" /\ MayStopWaiting
  /\ Goes("reap")
  /\ reason' = IF Live(Leader)
               THEN IF cancelled THEN "cancelled" ELSE "bounded_timeout"
               ELSE Read(pipe.answer)
  /\ UNCHANGED <<kind, tree, deadline, cancelled, cleanup>>

(* The owner of a command is done with it, or takes it for lost.           *)
Reap ==
  /\ caller = "using"
  /\ Goes("reap") /\ forced' \in BOOLEAN
  /\ UNCHANGED <<kind, tree, deadline, cancelled, observed, exited, errors, reason>>

-----------------------------------------------------------------------------
(* ProcessTree.reap.                                                       *)
FirstTargets == IF GroupExists THEN group ELSE {Leader}

SignalTree ==
  /\ caller = "reap"
  /\ observed' = GroupExists
  /\ proc' = Signalled(FirstTargets, forced)
  /\ Goes("leader")
  /\ UNCHANGED <<kind, stubborn, group, pipe, deadline, cancelled, forced, exited, errors, reason>>

AwaitLeader ==
  /\ caller = "leader"
  /\ exited' = ~Live(Leader)
  /\ Goes(IF observed THEN "group" ELSE "verify")
  /\ UNCHANGED <<kind, tree, deadline, cancelled, forced, observed, errors, reason>>

AwaitGroup ==
  /\ caller = "group"
  /\ Goes(IF GroupExists /\ ~forced THEN "kill" ELSE "verify")
  /\ errors' = (errors \/ (GroupExists /\ forced))
  /\ UNCHANGED <<kind, tree, deadline, cancelled, forced, observed, exited, reason>>

KillSurvivors == Signalled(group, TRUE)

KillTree ==
  /\ caller = "kill"
  /\ proc' = KillSurvivors
  /\ Goes("killed")
  /\ UNCHANGED <<kind, stubborn, group, pipe, deadline, cancelled, cleanup, reason>>

AwaitKilled ==
  /\ caller = "killed"
  /\ exited' = (exited \/ ~Live(Leader))
  /\ errors' = (errors \/ GroupExists)
  /\ Goes("verify")
  /\ UNCHANGED <<kind, tree, deadline, cancelled, forced, observed, reason>>

Troubled == errors \/ ~exited \/ GroupExists

Verify ==
  /\ caller = "verify"
  /\ errors' = Troubled
  /\ Goes("released")
  /\ UNCHANGED <<kind, tree, deadline, cancelled, forced, observed, exited, reason>>

-----------------------------------------------------------------------------
(* cleanup_multiprocessing_start: the child whose session was not observed *)
(* is owned now, or ended alone.                                           *)
AdoptPartial ==
  /\ caller = "partial"
  /\ Goes(IF IsSessionLeader \/ GroupExists THEN "reap" ELSE "terminate")
  /\ UNCHANGED <<kind, tree, deadline, cancelled, cleanup, reason>>

(* _cleanup_unowned_multiprocessing: terminate, then kill, each followed   *)
(* by a join.                                                              *)
EndLeader(now, kill, next) ==
  /\ caller = now
  /\ IF Live(Leader)
     THEN proc' = Signalled({Leader}, kill) /\ Goes(next)
     ELSE UNCHANGED proc /\ Goes("released")
  /\ UNCHANGED <<kind, stubborn, group, pipe, deadline, cancelled, cleanup, reason>>

AfterKill ==
  /\ caller = "survives"
  /\ errors' = (errors \/ Live(Leader))
  /\ Goes("released")
  /\ UNCHANGED <<kind, tree, deadline, cancelled, forced, observed, exited, reason>>

EndPartial ==
  \/ EndLeader("terminate", FALSE, "kill_leader")
  \/ EndLeader("kill_leader", TRUE, "survives")
  \/ AfterKill

(* The resources are closed; the cancellation and the type of the          *)
(* candidate are looked at after the scope.                                *)
Verdict ==
  CASE reason = "returned" /\ errors -> "cleanup"
    [] reason = "returned" /\ cancelled -> "cancelled"
    [] reason = "returned" /\ pipe.answer = "foreign" -> "malformed_result"
    [] reason = "returned" -> "accepted"
    [] OTHER -> reason

Release ==
  /\ caller = "released"
  /\ Goes("over")
  /\ reason' = Verdict
  /\ UNCHANGED <<kind, tree, deadline, cancelled, cleanup>>

-----------------------------------------------------------------------------
(* _run_agent_child: setsid, the handshake, the answer.  An answer that    *)
(* does not fit the pipe is "stuck": nobody reads before the child ends.   *)
FoundSession ==
  /\ kind = "agent" /\ proc[Leader] = "running" /\ Leader \notin group
  /\ group' = {Leader}
  /\ UNCHANGED <<kind, caller, proc, stubborn, pipe, deadline, cancelled, cleanup, reason>>

SendReady ==
  /\ kind = "agent" /\ proc[Leader] = "running" /\ Leader \in group /\ ~pipe.hello
  /\ pipe' = [pipe EXCEPT !.hello = TRUE]
  /\ UNCHANGED <<kind, caller, proc, stubborn, group, deadline, cancelled, cleanup, reason>>

SendAnswer ==
  /\ proc[Leader] = "running" /\ pipe.hello /\ pipe.answer = "none"
  /\ \E answer \in {"candidate", "foreign", "failure", "stuck"} :
       pipe' = [pipe EXCEPT !.answer = answer]
  /\ UNCHANGED <<kind, caller, proc, stubborn, group, deadline, cancelled, cleanup, reason>>

(* What an Agent, its tools or a command may do besides.                   *)
Fork(p) ==
  /\ proc[p] = "running" /\ p \in group
  /\ kind = "agent" => pipe.hello
  /\ \E q \in Pid :
       /\ proc[q] = "none" /\ \A r \in 1..(q - 1) : proc[r] # "none"
       /\ proc' = [proc EXCEPT ![q] = "running"]
       /\ group' = group \cup {q}
       /\ stubborn' \in {stubborn, stubborn \cup {q}}
  /\ UNCHANGED <<kind, caller, pipe, deadline, cancelled, cleanup, reason>>

(* A process ends, of itself or by a signal; an answer half sent stays so. *)
EndProcess(p) ==
  /\ Live(p)
  /\ proc' = [proc EXCEPT ![p] = "ended"]
  /\ pipe' = IF p = Leader /\ pipe.answer = "stuck" THEN [pipe EXCEPT !.answer = "broken"] ELSE pipe
  /\ UNCHANGED <<kind, caller, stubborn, group, deadline, cancelled, cleanup, reason>>

Expire ==
  /\ deadline = "ahead" /\ caller # "start" /\ deadline' = "past"
  /\ UNCHANGED <<kind, caller, tree, cancelled, cleanup, reason>>

Cancel ==
  /\ kind = "agent" /\ ~cancelled /\ cancelled' = TRUE
  /\ UNCHANGED <<kind, caller, tree, deadline, cleanup, reason>>

TreeInit ==
  /\ kind \in {"agent", "command"} /\ caller = "start" /\ reason = "none"
  /\ proc = [p \in Pid |-> "none"] /\ group = {} /\ stubborn \in {{}, {Leader}}
  /\ pipe = [hello |-> FALSE, answer |-> "none"]
  /\ deadline = "ahead" /\ cancelled = FALSE
  /\ forced = FALSE /\ observed = FALSE /\ exited = FALSE /\ errors = FALSE

Own ==
  \/ StartAgent \/ LaunchCommand \/ ObserveSession \/ AwaitAnswer
  \/ SignalTree \/ AwaitLeader \/ AwaitGroup \/ KillTree \/ AwaitKilled \/ Verify
  \/ AdoptPartial \/ EndPartial \/ Release

TreeNext ==
  \/ Own \/ Reap \/ Expire \/ Cancel
  \/ FoundSession \/ SendReady \/ SendAnswer
  \/ \E p \in Pid : Fork(p) \/ EndProcess(p)

TreeSpec == TreeInit /\ [][TreeNext]_treeVars

(* The owning thread is scheduled and time passes; nothing is assumed of   *)
(* the child.                                                              *)
TreeFairness == WF_treeVars(Own) /\ WF_treeVars(Expire)

FairTreeSpec == TreeSpec /\ TreeFairness

-----------------------------------------------------------------------------
(* "Own one session leader, its complete process group, and closeable      *)
(* resources" (OwnedProcess): a cleanup that reports no error has left no  *)
(* process behind, whatever the tree did meanwhile.  An Agent whose        *)
(* session was not observed in time is the exception: it is ended alone,   *)
(* and what it starts in a session it founds meanwhile is not looked for.  *)
NothingSurvives ==
  caller = "over" /\ ~errors =>
    \A p \in Pid : Live(p) =>
      kind = "agent" /\ ~observed /\ reason = "child_process_failure"

(* An Agent that has sent its candidate gets it accepted, unless it was    *)
(* cancelled, late or could not be cleaned up: the candidate is not        *)
(* mistaken for a missing one, and not lost with a child that is ended.    *)
NoCandidateLost ==
  caller = "over" /\ kind = "agent" /\ pipe.answer = "candidate" /\ ~cancelled
    /\ deadline = "ahead" /\ ~errors
  => reason = "accepted"

(* Nobody waits for ever, whatever the child does: not for its handshake,  *)
(* not while it waits for a reader of its answer, not for its end.         *)
OwnerGoesOn == (caller # "using") ~> (caller \in {"using", "over"})

=============================================================================
