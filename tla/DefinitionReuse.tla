-------------------------- MODULE DefinitionReuse --------------------------
(***************************************************************************)
(* The state model of the prototype that asks whether three applications,  *)
(* an insurance renewal, a refund and a security incident, can share one   *)
(* Workflow kernel: Definitions as data, and one pure transition for every *)
(* command of its shell.                                                   *)
(*                                                                         *)
(* A transition that refuses changes nothing and is a stuttering step.     *)
(* The position of an occurrence or fact stands for the uuid5 made from    *)
(* what led to it.                                                         *)
(***************************************************************************)
EXTENDS Naturals, FiniteSets, SequencesExt

CONSTANTS
  MaxOccurrences,   \* bound: Steps and Waits of the Instance, for revisions
  MaxFaults         \* bound: lost leases and uncertain effects together

VARIABLES
  scenario,   \* the Definition the shell has selected
  run         \* RuntimeState

prototype == <<scenario, run>>

(* Template, as a Step, an External Effect or a Wait.                      *)
StepOf(name) == [key |-> name, kind |-> "step", effect |-> FALSE, budget |-> 3, signal |-> "none"]
EffectOf(name) == [StepOf(name) EXCEPT !.effect = TRUE, !.budget = 2]
WaitFor(name, signal) == [StepOf(name) EXCEPT !.kind = "wait", !.signal = signal]

(* Route and EventRule.                                                    *)
Leads(source, activation, output) ==
  [source |-> source, activation |-> activation, outputs |-> <<output>>]
Tells(source, activation, mode) == [source |-> source, activation |-> activation, mode |-> mode]

Renewal ==
  [templates |-> {StepOf("gather"), StepOf("draft"), WaitFor("approve", "approved"),
                  EffectOf("send")},
   routes |-> {Leads("__start__", "start", "gather"), Leads("gather", "succeeded", "draft"),
               Leads("draft", "succeeded", "approve"), Leads("approve", "approved", "send"),
               Leads("approve", "revise", "draft")},
   events |-> {Tells("draft", "succeeded", "template"), Tells("approve", "approved", "none"),
               Tells("approve", "revise", "none"), Tells("send", "succeeded", "template"),
               Tells("__completion__", "completed", "none")},
   revisions |-> {<<"approve", "revise">>}]

Refund ==
  [templates |-> {StepOf("validate"), WaitFor("verify", "verified"), StepOf("calculate"),
                  EffectOf("issue"), StepOf("settle")},
   routes |-> {Leads("__start__", "start", "validate"), Leads("validate", "succeeded", "verify"),
               Leads("verify", "verified", "calculate"), Leads("calculate", "succeeded", "issue"),
               Leads("issue", "succeeded", "settle")},
   events |-> {Tells("validate", "succeeded", "template"), Tells("verify", "verified", "none"),
               Tells("calculate", "succeeded", "none"), Tells("issue", "succeeded", "none"),
               Tells("settle", "succeeded", "template"),
               Tells("__completion__", "completed", "none")},
   revisions |-> {}]

Incident ==
  [templates |-> {StepOf("normalize"), StepOf("analyze"), WaitFor("scope", "confirmed"),
                  StepOf("collect"), WaitFor("findings", "confirmed"), StepOf("plan"),
                  WaitFor("containment", "approved"), EffectOf("contain"), StepOf("recover"),
                  WaitFor("closure", "confirmed"), StepOf("archive")},
   routes |-> {Leads("__start__", "start", "normalize"),
               Leads("normalize", "succeeded", "analyze"),
               Leads("analyze", "succeeded", "scope"), Leads("scope", "confirmed", "collect"),
               Leads("scope", "revise", "analyze"), Leads("collect", "succeeded", "findings"),
               Leads("findings", "confirmed", "plan"), Leads("findings", "revise", "collect"),
               Leads("plan", "succeeded", "containment"),
               Leads("containment", "approved", "contain"),
               Leads("containment", "revise", "plan"),
               Leads("contain", "succeeded", "recover"), Leads("recover", "succeeded", "closure"),
               Leads("closure", "confirmed", "archive")},
   events |-> {Tells("analyze", "succeeded", "template"), Tells("scope", "confirmed", "none"),
               Tells("scope", "revise", "none"), Tells("collect", "succeeded", "agent"),
               Tells("findings", "confirmed", "none"), Tells("findings", "revise", "none"),
               Tells("plan", "succeeded", "template"), Tells("containment", "approved", "none"),
               Tells("containment", "revise", "none"), Tells("contain", "succeeded", "none"),
               Tells("recover", "succeeded", "template"), Tells("closure", "confirmed", "none"),
               Tells("__completion__", "completed", "template")},
   revisions |-> {<<"scope", "revise">>, <<"findings", "revise">>, <<"containment", "revise">>}]

TemplateOf(definition, key) == CHOOSE t \in definition.templates : t.key = key

Template(key) == TemplateOf(scenario, key)

RouteFor(source, activation) ==
  {r \in scenario.routes : r.source = source /\ r.activation = activation}

EventRule(source, activation) ==
  {e \in scenario.events : e.source = source /\ e.activation = activation}

-----------------------------------------------------------------------------
(* _append_trace and _replace_occurrence.                                  *)
Traced(s, event) == [s EXCEPT !.traces = Append(@, event)]
WithOccurrence(s, i, row) == [s EXCEPT !.occurrences[i] = row]

IsActive(row) == row.state \in {"pending", "unsatisfied"}

ActiveIndex(s) == SelectLastInSeq(s.occurrences, IsActive)

Occurrence(definition, key) ==
  LET t == TemplateOf(definition, key)
  IN  [key |-> key, kind |-> t.kind, attempts |-> <<>>, dispatch |-> "none",
       state |-> IF t.kind = "step" THEN "pending" ELSE "unsatisfied"]

Materialize(s, route, definition) ==
  LET rows == [k \in DOMAIN route.outputs |-> Occurrence(definition, route.outputs[k])]
  IN  Traced([s EXCEPT !.occurrences = @ \o rows], "route_applied")

(* _emit_application_fact: the fact, and its Delivery when it has content. *)
Emitted(s, source, activation) ==
  LET rules == EventRule(source, activation)
      rule == CHOOSE r \in rules : TRUE
      told == [s EXCEPT !.events = Append(@, <<source, activation>>)]
      letter == [fact |-> Len(told.events), state |-> "queued", attempts |-> <<>>, message |-> 0]
  IN  IF rules = {} THEN s
      ELSE IF rule.mode = "none" THEN told
      ELSE [told EXCEPT !.deliveries = Append(@, letter)]

(* _apply_activation: no Route left means the Instance is complete.        *)
Activated(s, source, activation) ==
  LET told == Emitted(s, source, activation)
      routes == RouteFor(source, activation)
  IN  IF routes # {} THEN Materialize(told, CHOOSE r \in routes : TRUE, scenario)
      ELSE Traced([Emitted(told, "__completion__", "completed") EXCEPT !.open = FALSE],
                  "instance_closed")

Started(definition) ==
  Materialize([open |-> TRUE, occurrences |-> <<>>, events |-> <<>>, deliveries |-> <<>>,
               traces |-> <<>>],
              CHOOSE r \in definition.routes : r.source = "__start__", definition)

-----------------------------------------------------------------------------
(* The occurrence every command works on, its Template and last Attempt.   *)
active == ActiveIndex(run)
current == run.occurrences[active]
Leased == /\ active # 0 /\ current.kind = "step" /\ current.attempts # <<>>
          /\ Last(current.attempts) = "leased"

LastAttempt(outcome) == [current EXCEPT !.attempts[Len(current.attempts)] = outcome]

Waiting == active # 0 /\ current.kind = "wait"

SignalAccepted(type) ==
  /\ Waiting /\ RouteFor(current.key, type) # {}
  /\ run' = Activated(Traced(WithOccurrence(run, active, [current EXCEPT !.state = "satisfied"]),
                             "signal_accepted"),
                      current.key, type)

Lease ==
  /\ active # 0 /\ current.kind = "step" /\ ~Leased
  /\ Len(current.attempts) < Template(current.key).budget
  /\ run' = Traced(WithOccurrence(run, active, [current EXCEPT !.attempts = Append(@, "leased")]),
                   "attempt_leased")

AcceptResult ==
  /\ Leased
  /\ LET done == [LastAttempt("succeeded") EXCEPT
                    !.state = "succeeded",
                    !.dispatch = IF Template(current.key).effect THEN "confirmed" ELSE "none"]
     IN  run' = Activated(Traced(WithOccurrence(run, active, done), "attempt_result_accepted"),
                          current.key, "succeeded")

(* advance.                                                                *)
Advance == Lease \/ AcceptResult \/ (Waiting /\ SignalAccepted(Template(current.key).signal))

RequestRevision ==
  \E revision \in scenario.revisions :
    active # 0 /\ revision[1] = current.key /\ SignalAccepted(revision[2])

(* signal_race: the competing Signal is not applied.                       *)
CompetingSignal == Waiting /\ SignalAccepted(Template(current.key).signal)

LoseStepLease ==
  /\ Leased
  /\ run' = Traced(WithOccurrence(run, active, LastAttempt("abandoned")), "attempt_abandoned")

MakeEffectUncertain ==
  /\ Leased /\ Template(current.key).effect
  /\ LET unknown == [LastAttempt("uncertain") EXCEPT !.dispatch = "uncertain"]
     IN  run' = Traced(WithOccurrence(run, active, unknown), "attempt_result_accepted")

\* Mutant: the Step succeeds, its effect stays uncertain.
Mutant_ConfirmUncertainEffect ==
  /\ active # 0 /\ current.dispatch = "uncertain"
  /\ run' = Activated(WithOccurrence(run, active, [current EXCEPT !.state = "succeeded"]),
                      current.key, "succeeded")

ConfirmUncertainEffect ==
  /\ active # 0 /\ current.dispatch = "uncertain"
  /\ LET done == [current EXCEPT !.state = "succeeded", !.dispatch = "confirmed"]
     IN  run' = Activated(Traced(WithOccurrence(run, active, done), "deferred_step_resolved"),
                          current.key, "succeeded")

-----------------------------------------------------------------------------
Undelivered(letter) == letter.state \in {"queued", "delivering"}

first == SelectInSeq(run.deliveries, Undelivered)

(* A Delivery and its last Attempt in other states.                        *)
Delivery(i, state, attempts) ==
  run' = [run EXCEPT !.deliveries[i].state = state, !.deliveries[i].attempts = attempts]

Attempted(i, outcome) == Append(Front(run.deliveries[i].attempts), outcome)

(* advance_delivery: the claim, then Message and Acknowledgement together. *)
ClaimDelivery ==
  /\ first # 0 /\ run.deliveries[first].state = "queued"
  /\ Delivery(first, "delivering", Append(run.deliveries[first].attempts, "running"))

Deliver ==
  /\ first # 0 /\ run.deliveries[first].state = "delivering"
  /\ LET sent == {j \in DOMAIN run.deliveries : run.deliveries[j].message # 0}
     IN  run' = [run EXCEPT !.deliveries[first] =
                   [@ EXCEPT !.state = "delivered", !.attempts = Attempted(first, "succeeded"),
                             !.message = Cardinality(sent) + 1]]

LoseDeliveryLease ==
  LET Delivering(letter) == letter.state = "delivering"
      i == SelectInSeq(run.deliveries, Delivering)
  IN  i # 0 /\ Delivery(i, "queued", Attempted(i, "abandoned"))

(* The bounds.                                                             *)
Faults(rows) ==
  Cardinality({x \in (DOMAIN rows) \X (1..(MaxFaults + 3)) :
                 LET attempts == rows[x[1]].attempts IN
                 x[2] \in DOMAIN attempts /\ attempts[x[2]] \in {"abandoned", "uncertain"}})

Bounded(s) ==
  /\ Len(s.occurrences) <= MaxOccurrences
  /\ Faults(s.occurrences) + Faults(s.deliveries) <= MaxFaults

ReuseInit == \E s \in {Renewal, Refund, Incident} : scenario = s /\ run = Started(s)

ReuseNext ==
  /\ \/ Advance \/ RequestRevision \/ CompetingSignal
     \/ LoseStepLease \/ MakeEffectUncertain \/ ConfirmUncertainEffect
     \/ ClaimDelivery \/ Deliver \/ LoseDeliveryLease
  /\ Bounded(run')
  /\ UNCHANGED scenario

ReuseSpec == ReuseInit /\ [][ReuseNext]_prototype

-----------------------------------------------------------------------------
(* A Definition that closed has confirmed its External Effect exactly once,*)
(* by a result or by evidence for an outcome that was uncertain.           *)
EffectConfirmedOnce ==
  ~run.open =>
    \E i \in DOMAIN run.occurrences :
      /\ \A j \in DOMAIN run.occurrences : run.occurrences[j].dispatch # "none" <=> j = i
      /\ run.occurrences[i].dispatch = "confirmed"
      /\ \E k \in DOMAIN run.occurrences[i].attempts :
           run.occurrences[i].attempts[k] \in {"succeeded", "uncertain"}

=============================================================================
