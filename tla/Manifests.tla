----------------------------- MODULE Manifests -----------------------------
(***************************************************************************)
(* Workflow Definitions as data, and their validation.                     *)
(*                                                                         *)
(* A contract of fields is a function from names to value types, a list of *)
(* bindings a function from targets to sources, so that neither can name a *)
(* field twice; templates, Routes and outputs are sets.                    *)
(***************************************************************************)
EXTENDS Integers, FiniteSets, TLC

(* FieldContract, StepTemplate, WaitTemplate, RouteOutput, Route.          *)
Fields(uuids, strings) == [n \in uuids |-> "uuid"] @@ [n \in strings |-> "string"]

Step(key, input, observation, output, lease, maximum, delays) ==
  [key |-> key, input |-> input, observation |-> observation, output |-> output,
   lease |-> lease, maximum |-> maximum, delays |-> delays]

Wait(key, signal, input) == [key |-> key, signal |-> signal, input |-> input]

Output(slot, kind, template, names, depends) ==
  [slot |-> slot, kind |-> kind, template |-> template,
   bindings |-> [n \in names |-> n], depends |-> depends]

Route(key, activation, source, contract, outputs) ==
  [key |-> key, activation |-> activation, source |-> source, contract |-> contract,
   outputs |-> outputs]

PolicyFields ==
  Fields({}, {"policy_number", "policyholder_name", "policyholder_email"})
    @@ ("renewal_date" :> "date") @@ ("expiring_premium_cents" :> "integer")
Facts == Fields({"policy_id"}, {}) @@ PolicyFields
Drafting == Fields({"workflow_id", "thread_id"}, {"revision_instruction"}) @@ PolicyFields
Review == Fields({"workflow_id", "draft_id"},
                 {"presentation_fingerprint", "recipient_email", "subject", "body"})
Sending == Fields({"workflow_id", "draft_id", "approval_grant_id"},
                  {"effect_fingerprint", "recipient_email", "subject", "body"})
Lookup == Fields({"workflow_id", "effect_step_id", "basis_attempt_id", "logical_effect_id"},
                 {"provider_idempotency_key"})
Provider == Fields({}, {"classification", "provider_request_id"})
Effect == Fields({"logical_effect_id"}, {"classification"})

RenewalSteps ==
  {Step("gather_renewal_facts", Facts, PolicyFields, PolicyFields, 1, 5, <<0, 0>>),
   Step("draft_renewal_email", Drafting, Fields({}, {"subject", "body"}),
        Fields({"draft_id"}, {"presentation_fingerprint"}), 1, 5, <<0, 0>>),
   Step("send_renewal_email", Sending, Provider, Effect, 1, 10, <<0, 0>>),
   Step("reconcile_renewal_email", Lookup, Provider, Effect, 1, 10, <<0, 0>>)}

RenewalRoutes ==
  LET one(slot, kind, template, contract) ==
        {Output(slot, kind, template, DOMAIN contract, {})}
  IN  {Route("start", "start", "none", Facts, one("facts", "step", "gather_renewal_facts", Facts)),
       Route("draft_after_facts", "step", "gather_renewal_facts", Drafting,
             one("draft", "step", "draft_renewal_email", Drafting)),
       Route("await_approval", "step", "draft_renewal_email", Review,
             one("approval", "wait", "renewal_draft_approval", Review)),
       Route("approve_email", "signal", "none",
             Sending @@ Fields({"wait_id"}, {"presentation_fingerprint"}),
             one("email_effect", "step", "send_renewal_email", Sending)),
       Route("revise_email", "signal", "none", Review @@ Drafting @@ Fields({"wait_id"}, {}),
             one("revision_draft", "step", "draft_renewal_email", Drafting)),
       Route("reconcile_email", "step", "send_renewal_email", Lookup,
             one("reconciliation", "step", "reconcile_renewal_email", Lookup))}

RENEWAL_DEFINITION ==
  [identity |-> "example_insurance.renewal_outreach",
   inputs |-> Fields({"workflow_id", "thread_id", "policy_id"}, {}), steps |-> RenewalSteps,
   waits |-> {Wait("renewal_draft_approval", "renewal.draft.decision", Review)},
   routes |-> RenewalRoutes]

VERIFICATION_DEFINITION ==
  LET delivery == Fields({"challenge_id", "protected_workflow_id", "thread_id",
                          "destination_thread_id"}, {})
      challenge == Fields({"challenge_id"}, {})
  IN  [identity |-> "example_insurance.verification_delivery",
       inputs |-> Fields({"workflow_id"}, {}) @@ delivery,
       steps |-> {Step("deliver_verification_challenge", delivery, challenge, challenge, 1, 5,
                       <<0, 0>>)},
       waits |-> {},
       routes |-> {Route("start", "start", "none", delivery,
                         {Output("delivery", "step", "deliver_verification_challenge",
                                 DOMAIN delivery, {})})}]

(* The Definitions of the races.                                           *)
TransitionRace ==
  LET f == Fields({}, {"value"})
      out(key) == {Output(key, "step", key, {"value"}, {})}
  IN  [identity |-> "eval.issue71_transition_race", inputs |-> f,
       steps |-> {Step(key, f, f, f, 2, 5, <<>>) : key \in {"origin", "finish"}}, waits |-> {},
       routes |-> {Route("start", "start", "none", f, out("origin")),
                   Route("finish_after_origin", "step", "origin", f, out("finish"))}]

SignalRace(identity, signal, f, result, lease, maximum) ==
  LET out(slot) == {Output(slot, "step", "winner", DOMAIN f, {})}
  IN  [identity |-> identity, inputs |-> f,
       steps |-> {Step("winner", f, result, result, lease, maximum, <<>>)},
       waits |-> {Wait("decision", signal, f)},
       routes |-> {Route("start", "start", "none", f,
                         {Output("decision", "wait", "decision", DOMAIN f, {})}),
                   Route("approve", "signal", "none", f, out("approved")),
                   Route("revise", "signal", "none", f, out("revision"))}]

SIGNAL_RACE == SignalRace("eval.issue71_signal_race", "eval.issue71.decision",
                          Fields({}, {"value"}), Fields({}, {"value"}), 2, 5)
SIGNAL_RELEASE == SignalRace("eval.signal_race", "eval.signal.decision",
                             Fields({"subject_id"}, {}), Fields({}, {"result"}), 1, 2)

Shipped == <<RENEWAL_DEFINITION, VERIFICATION_DEFINITION, TransitionRace, SIGNAL_RACE,
             SIGNAL_RELEASE>>

-----------------------------------------------------------------------------
(* validate_definition, one operator for each group of its conditions.     *)
Contracts(d) ==
  {d.inputs} \cup {t.input : t \in d.steps \cup d.waits} \cup {t.observation : t \in d.steps}
    \cup {t.output : t \in d.steps} \cup {r.contract : r \in d.routes}

ContractsValid(d) ==
  \A contract \in Contracts(d) :
    \A n \in DOMAIN contract : contract[n] \in {"string", "integer", "uuid", "date"}

Unique(rows) == \A a, b \in rows : a.key = b.key => a = b

KeysUnique(d) == Unique(d.steps) /\ Unique(d.waits) /\ Unique(d.routes)

OneStart(d) ==
  \E r \in d.routes : r.key = "start" /\ {s \in d.routes : s.activation = "start"} = {r}

TimingsValid(d) ==
  \A t \in d.steps :
    /\ 0 < t.lease /\ t.lease <= t.maximum
    /\ \A k \in DOMAIN t.delays : t.delays[k] >= 0

ActivationValid(d, r) ==
  /\ r.activation \in {"start", "step", "signal", "command"}
  /\ r.outputs # {}
  /\ IF r.activation = "step" THEN \E t \in d.steps : t.key = r.source ELSE r.source = "none"

SlotsUnique(r) == \A a, b \in r.outputs : a.slot = b.slot => a = b

Slots(r) == {o.slot : o \in r.outputs}

TemplatesOf(d, o) ==
  {t \in (CASE o.kind = "step" -> d.steps [] o.kind = "wait" -> d.waits [] OTHER -> {}) :
     t.key = o.template}

BindingsFit(r, o, t) ==
  /\ DOMAIN o.bindings = DOMAIN t.input
  /\ \A n \in DOMAIN o.bindings :
       o.bindings[n] \in DOMAIN r.contract /\ r.contract[o.bindings[n]] = t.input[n]

OutputValid(d, r, o) ==
  /\ \E t \in TemplatesOf(d, o) : BindingsFit(r, o, t)
  /\ o.kind = "wait" => o.depends = {}
  /\ o.depends \subseteq Slots(r)

DependsOn(r) == [s \in Slots(r) |-> (CHOOSE o \in r.outputs : o.slot = s).depends]

(* _validate_acyclic: no set of slots waits only for its own members; the  *)
(* depth-first search that decides it is DependencyCheck.                  *)
Acyclic(depends) ==
  \A S \in (SUBSET DOMAIN depends) \ {{}} : \E s \in S : depends[s] \cap S = {}

Valid(d) ==
  /\ ContractsValid(d) /\ KeysUnique(d) /\ OneStart(d) /\ TimingsValid(d)
  /\ \A r \in d.routes :
       /\ ActivationValid(d, r) /\ SlotsUnique(r)
       /\ \A o \in r.outputs : OutputValid(d, r, o)
       /\ Acyclic(DependsOn(r))

=============================================================================
