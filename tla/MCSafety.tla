------------------------------ MODULE MCSafety ------------------------------
(* The components whose safety is checked on one instance each: of every   *)
(* behavior one component takes all the steps, and the others rest.        *)
EXTENDS
  MCCommandSubmission, MCManifests, Definitions, DependencyCheck, DefinitionReuse, LockOrder,
  Playground, RaceHarness, ReleaseEvidence

CONSTANTS s1, s2, b1, b2

VARIABLE part

(* The builds: two that can be published, one whose wheels came from an    *)
(* index, one installed editable, one with changes that were not committed.*)
(* The first two are alike: no behavior has to begin in the second.        *)
MCBuild == {"first", "second", "index", "editable", "dirty"}
MCWheel == {"first", "second", "index", "dirty"}
MCArchived == {"first", "second", "dirty"}
MCClean == {"first", "second", "index", "editable"}

(* A case of the matrix rests on a test and a scenario of its own.         *)
MCCase == {"policy", "trace"}
MCMatrix == [kase \in MCCase |-> {kase}]

LocalPlans == INSTANCE LockPlans WITH Renewal <- {1, 2}, ThreadKey <- {1, 2}

MCLockable == LocalPlans!Rows
MCPlan == LocalPlans!Plans
MCLevel(row) == LocalPlans!PlanLevel(row)

MCInit ==
  /\ part \in {"submission", "search", "registry", "prototype", "playground", "harness", "evidence",
             "locks"}
  /\ Init /\ LockInit
  /\ IF part = "search" THEN SearchInit
     ELSE graph = 0 /\ roots = 0 /\ path = 0 /\ left = 0 /\ visited = 0 /\ verdict = "none"
  /\ RegistryInit
  /\ ReuseInit /\ (part # "prototype" => scenario = Refund)
  /\ PlaygroundInit /\ (part # "playground" => plan = "calls")
  /\ RaceInit /\ (part # "harness" => race = CommandReceipt)
  /\ EvidenceInit /\ build # "second" /\ (part # "evidence" => build = "first")

MCNext ==
  /\ UNCHANGED part
  /\ \/ /\ part = "submission" /\ Next
        /\ UNCHANGED <<search, registry, prototype, playground, harness, evidence, lockVars>>
     \/ /\ part = "search" /\ SearchNext
        /\ UNCHANGED <<vars, registry, prototype, playground, harness, evidence, lockVars>>
     \/ /\ part = "registry" /\ RegistryNext
        /\ UNCHANGED <<vars, search, prototype, playground, harness, evidence, lockVars>>
     \/ /\ part = "prototype" /\ ReuseNext
        /\ UNCHANGED <<vars, search, registry, playground, harness, evidence, lockVars>>
     \/ /\ part = "playground" /\ PlaygroundNext
        /\ UNCHANGED <<vars, search, registry, prototype, harness, evidence, lockVars>>
     \/ /\ part = "harness" /\ RaceNext
        /\ UNCHANGED <<vars, search, registry, prototype, playground, evidence, lockVars>>
     \/ /\ part = "evidence" /\ EvidenceNext
        /\ UNCHANGED <<vars, search, registry, prototype, playground, harness, lockVars>>
     \/ /\ part = "locks" /\ LockNext
        /\ UNCHANGED <<vars, search, registry, prototype, playground, harness, evidence>>

MCSpec ==
  MCInit /\ [][MCNext]_<<part, vars, search, registry, prototype, playground, harness, evidence, lockVars>>
=============================================================================
