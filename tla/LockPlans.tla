------------------------------ MODULE LockPlans ------------------------------
(***************************************************************************)
(* The rows that the handlers of the runtime and of Example Insurance      *)
(* lock, in the order of their statements, on the longest way through each *)
(* handler: one that answers early locks a part of it.  Each renewal has   *)
(* one pending Challenge with its code Workflow; all renewals belong to    *)
(* one Party, its organization and its identifier.                         *)
(*                                                                         *)
(* Left out: a Command's own identity and the other identities locked with *)
(* pg_advisory_xact_lock before anything else, for which only repetitions  *)
(* of one call meet, with nothing in their hands; transactions that lock   *)
(* one row; Steps, Attempts, Waits and Agent Runs, which are only touched  *)
(* with their Instance locked; rows that a transaction inserts.            *)
(***************************************************************************)
EXTENDS Integers, Sequences

CONSTANTS Renewal, ThreadKey

Common == 0
RowOf(table, key) == [table |-> table, key |-> key]

Handler(op, rows) == [op |-> op, rows |-> rows, skips |-> FALSE]
Poll(op, rows) == [op |-> op, rows |-> rows, skips |-> TRUE]

When(condition, rows) == IF condition THEN rows ELSE <<>>

CodeInstance(r) == RowOf("code_instances", r)
ThreadRow(r) == RowOf("threads", r)
IdentifierThread == RowOf("threads", Common)

(* lock_instance_for_workflow: the Instance first, then the Workflow.      *)
WorkflowRows(r) == <<RowOf("instances", r), RowOf("renewal_workflows", r)>>

(* The Challenge and its Command; what its Delivery is known by.           *)
ChallengeAndCommand(r) == <<RowOf("verification_challenges", r), RowOf("protected_commands", r)>>
CodeDelivery(r) == <<RowOf("verification_workflows", r), RowOf("code_deliveries", r), RowOf("code_messages", r)>>

(* lock_authority.                                                         *)
Authority(r) ==
  <<RowOf("parties", Common), RowOf("party_identifiers", Common), RowOf("workflow_participants", r),
    RowOf("organization_memberships", Common), RowOf("organizations", Common), RowOf("approval_grants", r)>>

-----------------------------------------------------------------------------
(* Verification.  pending: a Challenge of this renewal was found pending.  *)
Pending(r, pending) == When(pending, <<CodeInstance(r)>>) \o WorkflowRows(r)

RequestDetails(r, pending) ==
  Handler("request",
    Pending(r, pending) \o Authority(r)
    \o When(pending, ChallengeAndCommand(r) \o CodeDelivery(r))
    \o <<RowOf("verification_sessions", Common), ThreadRow(r), IdentifierThread>>)

(* The rows of both Parties are locked by one statement, in any order.     *)
Provision(r, pending, personFirst) ==
  Handler("provision",
    Pending(r, pending)
    \o (IF personFirst THEN <<RowOf("parties", Common), RowOf("organizations", Common)>>
                       ELSE <<RowOf("organizations", Common), RowOf("parties", Common)>>)
    \o <<RowOf("party_identifiers", Common), IdentifierThread,
         RowOf("organization_memberships", Common), RowOf("workflow_participants", r)>>
    \o When(pending, ChallengeAndCommand(r)))

RevokeRows(r, target) ==
  CASE target = "identifier" -> <<RowOf("party_identifiers", Common)>>
    [] target = "membership" -> <<RowOf("workflow_participants", r), RowOf("organization_memberships", Common)>>
    [] target = "role" -> <<RowOf("workflow_participants", r)>>

Revoke(r, pending, target) ==
  Handler("revoke",
    Pending(r, pending) \o RevokeRows(r, target)
    \o When(pending, ChallengeAndCommand(r) \o CodeDelivery(r)))

Submit(r) ==
  Handler("submit",
    Pending(r, TRUE) \o ChallengeAndCommand(r) \o CodeDelivery(r) \o Authority(r) \o <<ThreadRow(r)>>)

AcceptCode(r) ==
  Handler("accept_code",
    <<CodeInstance(r), RowOf("verification_workflows", r), RowOf("verification_challenges", r),
      RowOf("party_identifiers", Common), IdentifierThread>>)

(* The result of an Attempt whose Challenge has expired, or its recovery.  *)
ExpireCode(r) ==
  <<CodeInstance(r), RowOf("verification_workflows", r)>> \o ChallengeAndCommand(r)

-----------------------------------------------------------------------------
(* The renewal.                                                            *)
PublishDraft(r) == Handler("publish_draft", WorkflowRows(r) \o <<ThreadRow(r)>>)

Decide(r) ==
  Handler("decide",
    WorkflowRows(r) \o <<RowOf("renewal_drafts", r), RowOf("deliveries", r), RowOf("messages", r)>>)

RevokeAuthority(r) ==
  Handler("revoke_authority", <<RowOf("renewal_workflows", r), RowOf("approval_grants", r)>>)

Cancel(r) == Handler("cancel", WorkflowRows(r) \o <<RowOf("approval_grants", r)>>)

AuthorizeDispatch(r) ==
  Handler("authorize_dispatch",
    WorkflowRows(r) \o <<RowOf("approval_grants", r), RowOf("external_effects", r)>>)

AcceptEffect(r) == Handler("accept_effect", WorkflowRows(r) \o <<RowOf("external_effects", r)>>)

RecoverEffect(r) == Poll("recover_effect", WorkflowRows(r) \o <<RowOf("external_effects", r)>>)

(* First the keys of Thread and Channel Reference in ascending order, then *)
(* the Thread, then the facts of the Policy.                               *)
SubmitRenewal(low, high, r) ==
  Handler("submit_renewal",
    <<RowOf("thread_keys", low), RowOf("thread_keys", high), ThreadRow(r), RowOf("policy_renewal_facts", Common)>>)

-----------------------------------------------------------------------------
(* Deliveries: of a draft to the renewal's Thread, of a code to the        *)
(* identifier's.                                                           *)
Acknowledge(deliveries, attempts, r, thread) ==
  Handler("acknowledge", <<RowOf(deliveries, r), RowOf(attempts, r), thread>>)

ReportFailure(deliveries, attempts, r) ==
  Handler("report_failure", <<RowOf(deliveries, r), RowOf(attempts, r)>>)

ClaimDelivery(deliveries, attempts, r) ==
  Poll("claim_delivery", <<RowOf(deliveries, r), RowOf(attempts, r)>>)

DeliveryWork(r) ==
  {Acknowledge("deliveries", "delivery_attempts", r, ThreadRow(r)),
   Acknowledge("code_deliveries", "code_attempts", r, IdentifierThread),
   ReportFailure("deliveries", "delivery_attempts", r),
   ReportFailure("code_deliveries", "code_attempts", r),
   ClaimDelivery("deliveries", "delivery_attempts", r),
   ClaimDelivery("code_deliveries", "code_attempts", r)}

-----------------------------------------------------------------------------
RenewalWork(r) ==
  {PublishDraft(r), Decide(r), RevokeAuthority(r), Cancel(r), AuthorizeDispatch(r),
   AcceptEffect(r), RecoverEffect(r)}

VerificationWork(r) ==
  {Submit(r), AcceptCode(r), Handler("expire_code", ExpireCode(r)), Poll("recover_code", ExpireCode(r))}
    \cup {RequestDetails(r, pending) : pending \in BOOLEAN}
    \cup {Provision(r, pending, first) : pending \in BOOLEAN, first \in BOOLEAN}
    \cup {Revoke(r, pending, target) :
            pending \in BOOLEAN, target \in {"identifier", "membership", "role"}}

Plans ==
  UNION {RenewalWork(r) \cup VerificationWork(r) \cup DeliveryWork(r) : r \in Renewal}
    \cup UNION {{SubmitRenewal(low, high, r) : low \in {key \in ThreadKey : key < high}, r \in Renewal}
             : high \in ThreadKey}

Rows == UNION {{t.rows[i] : i \in DOMAIN t.rows} : t \in Plans}

(* The order the handlers keep.  Rows at 0 are only asked for by who holds *)
(* another row that everyone asks for before.                              *)
Shared ==
  <<"policy_renewal_facts", "threads", "code_deliveries", "deliveries", "organizations",
    "organization_memberships", "party_identifiers", "parties", "renewal_workflows",
    "instances", "code_instances">>

PlanLevel(row) ==
  IF row.table = "thread_keys" THEN 90 - row.key
  ELSE IF row.table = "threads" THEN (IF row = IdentifierThread THEN 3 ELSE 4)
  ELSE IF \E i \in DOMAIN Shared : Shared[i] = row.table
       THEN 2 * (CHOOSE i \in DOMAIN Shared : Shared[i] = row.table)
       ELSE 0
=============================================================================
