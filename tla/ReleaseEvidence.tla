--------------------------- MODULE ReleaseEvidence ---------------------------
(***************************************************************************)
(* openmagic-evidence: from what a run of the suite did to the claims that *)
(* may be published.  Each command runs in a process of its own, writes    *)
(* one artifact or none, and leaves the one that stood if it fails; the    *)
(* claim report is made from the files of all lanes.                       *)
(*                                                                         *)
(* An artifact keeps what happened; verdicts are derived from it as the    *)
(* code derives them.  Digests and schemas are sound.  RaceHarness shows   *)
(* what a trial is worth.  Checkout and installation change at any time,   *)
(* while a command runs as well: it pins the build that is there when its  *)
(* work is done, so the model also keeps which builds it observed.         *)
(***************************************************************************)
EXTENDS Integers, FiniteSets

CONSTANTS
  Build,        \* checkouts with what is installed
  Wheel,        \* those installed from wheels; the others are editable
  Archived,     \* those whose wheels are local archives that are unchanged
  Clean,        \* those with a clean tree that equals what is installed
  Case,         \* the cases of the release matrix
  TraceCase,    \* the one of family trace_completeness
  Node,         \* the tests of the suite
  Scenario,     \* the observations tests may record
  nodes,        \* [Case -> ReleaseCase.pytest_nodes], not empty
  scenarios,    \* [Case -> ReleaseCase.required_scenarios], not empty and disjoint
  MaxWrong,     \* bound: deviations in one run
  MaxRebuilds,  \* bound: changes of the build
  Nothing

ASSUME MatrixAssumption ==
  nodes \in [Case -> (SUBSET Node) \ {{}}] /\ scenarios \in [Case -> (SUBSET Scenario) \ {{}}]

VARIABLES
  build,     \* the build that is checked out and installed
  rebuilds,
  runner,    \* the command that runs, with what it has observed
  ran,       \* the builds it made its observations on
  whole,     \* the build has not changed since the first of them
  file,      \* [lane -> the artifact of its output path, or None]
  report     \* the artifacts the claim report was made from, or None

evidence == <<build, rebuilds, runner, ran, whole, file, report>>

Lane == {"deterministic", "races", "surface"}

NoRunner == [step |-> "idle"]

Outcome == {"passed", "failed", "skipped", "error", "teardown", "absent"}

Trial == {"agree", "differ", "unconstrained"}

AUDITS == {"repository", "installed", "cold"}

RunnerEnds == runner' = NoRunner /\ ran' = {} /\ whole' = TRUE

(* A command that raises: it writes nothing.                               *)
RunnerRaises == RunnerEnds /\ UNCHANGED file

(* Tests, races and audits meet the build that is there.                   *)
Observes == ran' = ran \cup {build} /\ UNCHANGED whole

-----------------------------------------------------------------------------
(* The tests, as the pytest plugin reports them: only the setup and the    *)
(* call of a test count, the exit status counts everything.                *)
Status(outcome) ==
  CASE outcome = "teardown" -> "passed"
    [] outcome = "error" -> "infrastructure_error"
    [] OTHER -> outcome

ExitCode(tests) == IF \A n \in Node : tests[n] \in {"passed", "skipped"} THEN 0 ELSE 1

Selected(c, tests) == {n \in nodes[c] : tests[n] # "absent"}

(* _release_case.                                                          *)
CaseVerdict(c, tests) ==
  IF Selected(c, tests) # nodes[c] THEN "infrastructure_error"
  ELSE IF \A n \in nodes[c] : Status(tests[n]) = "passed" THEN "passed"
  ELSE IF \E n \in nodes[c] : Status(tests[n]) = "failed" THEN "failed"
  ELSE "infrastructure_error"

(* load_case_observations: one observation of a scenario, not two.         *)
Loaded(copies) == \A s \in Scenario : copies[s] <= 1

(* _exact_observation.                                                     *)
ExactObservation(c, copies) == \A s \in scenarios[c] : copies[s] = 1

(* _trace_completeness_case: every identity, connected in the document.    *)
TraceComplete(c, chain) == c = TraceCase => chain

(* _race_case: the answers and the rows of every seed.                     *)
RaceVerdict(trial) == IF trial = "agree" THEN "passed" ELSE "failed"

(* RaceTrialEvidence refuses another number of rows than one.              *)
ValidTrial(trial) == trial # "unconstrained"

-----------------------------------------------------------------------------
(* What each artifact says of itself: the summary its validator derives.   *)
StrictRelease(a) ==
  /\ a.exit = 0
  /\ \A c \in Case : CaseVerdict(c, a.tests) = "passed"
  /\ RaceVerdict(a.trial) = "passed"

(* validate_standalone_race_matrix.                                        *)
StandaloneMatrix(a) == RaceVerdict(a.trial) = "passed"

StrictSurface(a) == a.passed = AUDITS

InstallationKind(b) == IF b \in Wheel THEN "wheel" ELSE "editable"

WheelArchivePinned(b) == InstallationKind(b) = "wheel" => b \in Archived

ValidBuild(b) == b \in Clean

(* build_pin, of the build that is there when the work is done.            *)
BuildPinned == WheelArchivePinned(build) /\ ValidBuild(build)

Written(lane, a) == file' = [file EXCEPT ![lane] = a] /\ RunnerEnds

-----------------------------------------------------------------------------
(* How often something is not as a good run has it.                        *)
TestsWrong(tests) == Cardinality({n \in Node : tests[n] # "passed"})

RecordsWrong(copies, chain) ==
  Cardinality({s \in Scenario : copies[s] # 1}) + (IF chain THEN 0 ELSE 1)

RacesWrong(trial, migrated) == (IF trial = "agree" THEN 0 ELSE 1) + (IF migrated THEN 0 ELSE 1)

RunDeterministic ==
  /\ runner = NoRunner /\ runner' = [step |-> "pytest"]
  /\ UNCHANGED <<build, rebuilds, ran, whole, file, report>>

(* pytest in a session of its own, or no result file: a test records its   *)
(* scenario, fails before it can, or is repeated.                          *)
RunTests ==
  /\ runner.step = "pytest"
  /\ \/ \E tests \in [Node -> Outcome], copies \in [Scenario -> 0..2], chain \in BOOLEAN :
          /\ TestsWrong(tests) + RecordsWrong(copies, chain) <= MaxWrong
          /\ runner' = [step |-> "collect", tests |-> tests, copies |-> copies, chain |-> chain]
          /\ Observes /\ UNCHANGED file
     \/ RunnerRaises
  /\ UNCHANGED <<build, rebuilds, report>>

Collect ==
  /\ runner.step = "collect"
  /\ IF /\ Loaded(runner.copies)
        /\ \A c \in Case : ExactObservation(c, runner.copies) /\ TraceComplete(c, runner.chain)
     THEN runner' = [step |-> "corpus", tests |-> runner.tests] /\ UNCHANGED <<ran, whole, file>>
     ELSE RunnerRaises
  /\ UNCHANGED <<build, rebuilds, report>>

(* run_all_races after the tests; the deployments it used are recorded.    *)
RunCorpus ==
  /\ runner.step = "corpus"
  /\ \E trial \in Trial, migrated \in BOOLEAN :
       /\ TestsWrong(runner.tests) + RacesWrong(trial, migrated) <= MaxWrong
       /\ IF ValidTrial(trial)
          THEN /\ runner' = [step |-> "publish", tests |-> runner.tests, trial |-> trial,
                             migrated |-> migrated]
               /\ Observes /\ UNCHANGED file
          ELSE RunnerRaises
  /\ UNCHANGED <<build, rebuilds, report>>

Publish ==
  /\ runner.step = "publish"
  /\ IF BuildPinned /\ runner.migrated
     THEN Written("deterministic",
                  [build |-> build, ran |-> ran, whole |-> whole, tests |-> runner.tests,
                   exit |-> ExitCode(runner.tests), trial |-> runner.trial])
     ELSE RunnerRaises
  /\ UNCHANGED <<build, rebuilds, report>>

(* run_race_release.                                                       *)
RunRaces ==
  /\ runner = NoRunner
  /\ \E trial \in Trial, migrated \in BOOLEAN :
       /\ RacesWrong(trial, migrated) <= MaxWrong
       /\ runner' = [step |-> "publish_races", trial |-> trial, migrated |-> migrated]
  /\ Observes
  /\ UNCHANGED <<build, rebuilds, file, report>>

PublishRaces ==
  /\ runner.step = "publish_races"
  /\ IF /\ ValidTrial(runner.trial) /\ StandaloneMatrix(runner)
        /\ BuildPinned /\ runner.migrated
     THEN Written("races",
                  [build |-> build, ran |-> ran, whole |-> whole, trial |-> runner.trial])
     ELSE RunnerRaises
  /\ UNCHANGED <<build, rebuilds, report>>

(* run_surface_audit: one audit after the other, of a tree, of what is     *)
(* installed and of a fresh database, each with or without violations.     *)
RunSurface ==
  /\ runner = NoRunner /\ runner' = [step |-> "repository", passed |-> AUDITS]
  /\ UNCHANGED <<build, rebuilds, ran, whole, file, report>>

Audit(name, next) ==
  /\ runner.step = name
  /\ \E violations \in SUBSET {name} :
       /\ Cardinality(AUDITS \ runner.passed) + Cardinality(violations) <= MaxWrong
       /\ runner' = [step |-> next, passed |-> runner.passed \ violations]
  /\ Observes
  /\ UNCHANGED <<build, rebuilds, file, report>>

AuditRepository == Audit("repository", "installed")

AuditInstalledEnvironment == Audit("installed", "cold")

AuditColdSchema == Audit("cold", "publish_surface")

PublishSurface ==
  /\ runner.step = "publish_surface"
  /\ IF BuildPinned
     THEN Written("surface",
                  [build |-> build, ran |-> ran, whole |-> whole, passed |-> runner.passed])
     ELSE RunnerRaises
  /\ UNCHANGED <<build, rebuilds, report>>

(* The outer bound of a runner expires, or its process is killed.          *)
Expires ==
  /\ runner # NoRunner /\ RunnerRaises
  /\ UNCHANGED <<build, rebuilds, report>>

-----------------------------------------------------------------------------
(* _validate_release_matrix: case by case, whatever the summary says.      *)
ReleaseMatrix(a) ==
  /\ \A c \in Case :
       CaseVerdict(c, a.tests) = "passed" /\ \A n \in nodes[c] : Status(a.tests[n]) = "passed"
  /\ RaceVerdict(a.trial) = "passed"

\* Mutant: the pins are compared without the build.
Mutant_CommonPin(files) == TRUE

CommonPin(files) == \A k, l \in Lane : files[k].build = files[l].build

ClaimSources(files) == StandaloneMatrix(files["races"])

FromWheels(files) == \A k \in Lane : InstallationKind(files[k].build) = "wheel"

RequiredArtifacts(files) == \A k \in Lane : files[k] # Nothing

WriteClaimReport ==
  /\ runner = NoRunner
  /\ RequiredArtifacts(file)
  /\ StrictRelease(file["deterministic"]) /\ ReleaseMatrix(file["deterministic"])
  /\ StrictSurface(file["surface"]) /\ ClaimSources(file)
  /\ CommonPin(file) /\ FromWheels(file)
  /\ report' = file
  /\ UNCHANGED <<build, rebuilds, runner, ran, whole, file>>

(* Another commit, another installation, or an edit of the tree, between   *)
(* the commands or during one.                                             *)
Rebuild ==
  /\ rebuilds < MaxRebuilds
  /\ build' \in Build \ {build} /\ rebuilds' = rebuilds + 1
  /\ whole' = (ran = {})
  /\ UNCHANGED <<runner, ran, file, report>>

EvidenceInit ==
  /\ build \in Build /\ rebuilds = 0
  /\ runner = NoRunner /\ ran = {} /\ whole = TRUE
  /\ file = [k \in Lane |-> Nothing] /\ report = Nothing

Run ==
  \/ RunDeterministic \/ RunTests \/ Collect \/ RunCorpus \/ Publish
  \/ RunRaces \/ PublishRaces
  \/ RunSurface \/ AuditRepository \/ AuditInstalledEnvironment \/ AuditColdSchema
  \/ PublishSurface

EvidenceNext == report = Nothing /\ (Run \/ Expires \/ WriteClaimReport \/ Rebuild)

EvidenceSpec == EvidenceInit /\ [][EvidenceNext]_evidence

-----------------------------------------------------------------------------
(* A published claim names one build, installed from wheels and clean, in  *)
(* all lanes, whatever older artifacts, failed runs and builds were there  *)
(* before; and what stands behind it is without exception: every test of   *)
(* the matrix passed with its teardown, the constraint decided every race, *)
(* every audit passed.  It was observed on that very build in each lane in *)
(* which the build did not change between the first observation and the    *)
(* pin.  More cannot be said: the pin is made after the tests and the      *)
(* races, and nothing compares it with the build that they met.            *)
ClaimsAreBacked ==
  report # Nothing =>
    \E b \in Wheel \cap Clean :
      /\ \A k \in Lane :
           report[k].build = b /\ (report[k].whole => report[k].ran = {b})
      /\ \A c \in Case : \A n \in nodes[c] : report["deterministic"].tests[n] = "passed"
      /\ report["deterministic"].trial = "agree" /\ report["races"].trial = "agree"
      /\ report["surface"].passed = AUDITS
=============================================================================
