----------------------------- MODULE MCProgress -----------------------------
(* The components whose progress is checked on one instance each: of every *)
(* behavior one component takes all the steps.  The others rest in a state *)
(* in which nothing is under way, so that no fairness asks them for a step.*)
EXTENDS WorkerExecution, Verification, AgentProcess

VARIABLE part

WorkerRests ==
  /\ agent = FALSE /\ open = FALSE /\ step = "cancelled"
  /\ attempts = <<>> /\ runs = [n \in Number |-> "none"] /\ drafts = <<>>
  /\ work = [n \in Number |-> NoExecution]
  /\ process = [x \in Worker |-> "up"]

TreeRests ==
  /\ kind = "command" /\ caller = "over" /\ reason = "none"
  /\ proc = [x \in 1..3 |-> "none"] /\ group = {} /\ stubborn = {}
  /\ pipe = [hello |-> FALSE, answer |-> "none"]
  /\ deadline = "past" /\ cancelled = FALSE
  /\ forced = FALSE /\ observed = FALSE /\ exited = FALSE /\ errors = FALSE

(* One transaction at a time, and a second identifier.                     *)
MCInit ==
  /\ part \in {"worker", "codes", "tree"}
  /\ IF part = "worker" THEN WorkInit ELSE WorkerRests
  /\ Init
  /\ IF part = "tree" THEN TreeInit ELSE TreeRests

MCNext ==
  \/ part = "worker" /\ WorkNext /\ UNCHANGED <<part, vars, treeVars>>
  \/ part = "codes" /\ Next /\ UNCHANGED <<part, workVars, treeVars>>
  \/ part = "tree" /\ TreeNext /\ UNCHANGED <<part, workVars, vars>>

MCSpec ==
  /\ MCInit /\ [][MCNext]_<<part, workVars, vars, treeVars>>
  /\ WorkFairness /\ Fairness /\ TreeFairness
=============================================================================
