---------------------------- MODULE RenewalEffect ----------------------------
(***************************************************************************)
(* One renewal outreach Workflow of the Example Insurance application,     *)
(* from its drafts to the policyholder email: review of delivered drafts,  *)
(* the exact Approval Grant, the dispatch fence in front of the provider   *)
(* call, the provider's evidence, reconciliation after an ambiguous        *)
(* outcome, revocation, cancellation and completion.                       *)
(*                                                                         *)
(* Every command and every Attempt disposition is one transaction under    *)
(* the Instance lock or, for revocation, the Workflow row lock that all    *)
(* the others take next; each is one action.  What happens in between is   *)
(* not atomic: a worker that holds a committed permit may stall, die or    *)
(* lose its lease before, during and after the provider call, and the      *)
(* request it sent may arrive late, or never.                              *)
(*                                                                         *)
(* The kernel's Steps are modelled in full by Kernel; here a Step keeps    *)
(* its state, its last attempt_number, whether that Attempt is leased and  *)
(* the Attempt it is deferred on.  The Instance is open while the          *)
(* lifecycle is "active", as the same transactions close both.             *)
(***************************************************************************)
EXTENDS Integers, Sequences, FiniteSets

CONSTANTS
  MaxAttempts,   \* RENEWAL_ATTEMPT_RETRY_POLICY.max_attempts
  MaxDrafts      \* bound on revisions: how many drafts reviewers ask for

ASSUME BudgetAssumption == MaxAttempts \in Nat \ {0}
ASSUME DraftsAssumption == MaxDrafts \in Nat \ {0}

VARIABLES
  lifecycle,   \* of the renewal_workflows row
  revoked,     \* authority_revoked_at IS NOT NULL
  drafting,    \* state of the newest facts or draft Step
  drafts,      \* published drafts, each with its Delivery and approval Wait
  grant,       \* the approval_grants row
  send,        \* the send_renewal_email Step
  sender,      \* [Number -> what the process running that Attempt is doing]
  effect,      \* the external_effects row
  evidence,    \* rows of external_effect_evidence
  started,     \* Attempts with an external_effect.dispatch_started event
  recon,       \* [Number -> the Reconciliation Step of that basis Attempt]
  lookup,      \* [Number -> what its current process read from the provider]
  requests,    \* Attempts whose dispatch request is on its way
  records,     \* [Key -> the provider's record under that idempotency key]
  mailed       \* the drafts the provider sent to the policyholder, in order

review == <<drafting, drafts>>
outside == <<requests, records, mailed>>
vars == <<lifecycle, revoked, review, grant, send, sender, effect, evidence,
          started, recon, lookup, outside>>

Number == 1..MaxAttempts                     \* attempt_number
Key == 0..MaxAttempts                        \* 0: the logical_effect_id
Observation == {"applied", "not_applied", "uncertain"}

NewDraft == [delivered |-> FALSE, decision |-> "unsatisfied"]

-----------------------------------------------------------------------------
(* What the kernel does to a Step.                                         *)

AbsentStep == [state |-> "absent", number |-> 0, attempt |-> "none", deferred |-> 0]
NewStep == [AbsentStep EXCEPT !.state = "pending"]

Claimable(s) == s.state = "pending" /\ s.attempt = "none" /\ s.deferred = 0
Claimed(s) == [s EXCEPT !.number = @ + 1, !.attempt = "live"]
Settled(s, state) == [s EXCEPT !.state = state, !.attempt = "none", !.deferred = 0]
Deferred(s) == [s EXCEPT !.attempt = "none", !.deferred = s.number]

\* Mutant: the retry leaves deferred_attempt_id in place.
Mutant_RetriedDeferred(s) == [s EXCEPT !.attempt = "none"]

Retried(s) == [s EXCEPT !.attempt = "none", !.deferred = 0]

Closed(s) == IF s.state = "pending" THEN Settled(s, "cancelled") ELSE s

BudgetLeft(n) == n < MaxAttempts

(* Retry within the budget, else fail.                                     *)
RetriedOrFailed(s) == IF BudgetLeft(s.number) THEN Retried(s) ELSE Settled(s, "failed")

(* The Route reconcile_email starts from the Attempt the Step defers on.   *)
Reconciled(s) == IF s.deferred = 0 THEN recon ELSE [recon EXCEPT ![s.deferred] = NewStep]

-----------------------------------------------------------------------------
(* Drafts, their presentation and the decision on them.                    *)

(* The draft Step succeeds: it publishes its draft, creates the Delivery   *)
(* that presents it and opens the Wait for the decision.                   *)
PublishDraft ==
  /\ lifecycle = "active" /\ drafting = "pending"
  /\ drafting' = "succeeded"
  /\ drafts' = Append(drafts, NewDraft)
  /\ UNCHANGED <<lifecycle, revoked, grant, send, sender, effect, evidence,
                 started, recon, lookup, outside>>

(* The facts or the draft Step runs out of Attempts.                       *)
FailDraft ==
  /\ lifecycle = "active" /\ drafting = "pending"
  /\ drafting' = "failed"
  /\ UNCHANGED <<lifecycle, revoked, drafts, grant, send, sender, effect,
                 evidence, started, recon, lookup, outside>>

(* A Delivery worker acknowledges the presentation of draft d.             *)
DeliverDraft(d) ==
  /\ ~drafts[d].delivered
  /\ drafts' = [drafts EXCEPT ![d].delivered = TRUE]
  /\ UNCHANGED <<lifecycle, revoked, drafting, grant, send, sender, effect,
                 evidence, started, recon, lookup, outside>>

\* Mutant: any open Wait takes a decision on any draft.
Mutant_AnyWait(d, w) == TRUE

(* The input of Wait w names the draft it was opened for.                  *)
WaitInputMatches(d, w) == d = w

(* RenewalApprovalPolicy.decide on draft d and Wait w.                     *)
Accepts(d, w) ==
  /\ lifecycle = "active" /\ ~revoked
  /\ drafts[w].decision = "unsatisfied"
  /\ WaitInputMatches(d, w)
  /\ drafts[d].delivered

Approve(d, w) ==
  /\ Accepts(d, w)
  /\ drafts' = [drafts EXCEPT ![w].decision = "approve"]
  /\ send' = NewStep
  /\ grant' = [state |-> "usable", draft |-> d]
  /\ UNCHANGED <<lifecycle, revoked, drafting, sender, effect, evidence, started,
                 recon, lookup, outside>>

RequestRevision(d, w) ==
  /\ Len(drafts) < MaxDrafts
  /\ Accepts(d, w)
  /\ drafts' = [drafts EXCEPT ![w].decision = "request_revision"]
  /\ drafting' = "pending"
  /\ UNCHANGED <<lifecycle, revoked, grant, send, sender, effect, evidence,
                 started, recon, lookup, outside>>

-----------------------------------------------------------------------------
(* Revocation and cancellation.                                            *)

\* Mutant: consumed grants are invalidated as well.
Mutant_WithdrawnAlways(g) == IF g.state = "none" THEN g ELSE [g EXCEPT !.state = "invalidated"]

(* invalidate_unconsumed_grants.                                           *)
Withdrawn(g) == IF g.state = "usable" THEN [g EXCEPT !.state = "invalidated"] ELSE g

Revoke ==
  /\ ~revoked
  /\ revoked' = TRUE
  /\ grant' = Withdrawn(grant)
  /\ UNCHANGED <<lifecycle, review, send, sender, effect, evidence, started,
                 recon, lookup, outside>>

DispatchBoundaryCrossed == effect.certainty # "none"

(* Cancellation closes the Instance: what was pending is cancelled.        *)
Cancel ==
  /\ lifecycle = "active" /\ ~DispatchBoundaryCrossed
  /\ lifecycle' = "cancelled"
  /\ grant' = Withdrawn(grant)
  /\ send' = Closed(send)
  /\ recon' = [b \in Number |-> Closed(recon[b])]
  /\ drafting' = IF drafting = "pending" THEN "cancelled" ELSE drafting
  /\ drafts' = [d \in DOMAIN drafts |->
                  IF drafts[d].decision = "unsatisfied"
                    THEN [drafts[d] EXCEPT !.decision = "cancelled"] ELSE drafts[d]]
  /\ UNCHANGED <<revoked, sender, effect, evidence, started, lookup, outside>>

-----------------------------------------------------------------------------
(* The email Attempt: claim, fence, provider call, observation.            *)

ClaimSend ==
  /\ lifecycle = "active" /\ Claimable(send)
  /\ send' = Claimed(send)
  /\ sender' = [sender EXCEPT ![send.number + 1] = "claimed"]
  /\ UNCHANGED <<lifecycle, revoked, review, grant, effect, evidence, started,
                 recon, lookup, outside>>

Current(n) == lifecycle = "active" /\ send.number = n /\ send.attempt = "live"

(* DurableExternalEffect.require_safe_dispatch.                            *)
SafeToDispatch == effect.certainty \in {"none", "not_applied"}

GrantAuthorizes ==
  /\ grant.state # "invalidated"
  /\ (grant.state = "consumed") <=> (effect.certainty # "none")

(* The dispatch fence: it commits before the provider is called.           *)
AuthorizeDispatch(n) ==
  /\ sender[n] = "claimed" /\ Current(n)
  /\ lifecycle = "active" /\ ~revoked
  /\ GrantAuthorizes /\ SafeToDispatch
  /\ effect' = [certainty |-> "dispatching", attempt |-> n]
  /\ grant' = [grant EXCEPT !.state = "consumed"]
  /\ started' = started \cup {n}
  /\ sender' = [sender EXCEPT ![n] = "permitted"]
  /\ UNCHANGED <<lifecycle, revoked, review, send, evidence, recon, lookup, outside>>

(* The executor posts the permit: no authority is checked any more.        *)
Dispatch(n) ==
  /\ sender[n] = "permitted"
  /\ sender' = [sender EXCEPT ![n] = "waiting"]
  /\ requests' = requests \cup {n}
  /\ UNCHANGED <<lifecycle, revoked, review, grant, send, effect, evidence,
                 started, recon, lookup, records, mailed>>

TransportFailure == "uncertain"

(* urlopen gives up on the request, which may still be on its way.         *)
Timeout(n) ==
  /\ sender[n] = "waiting"
  /\ sender' = [sender EXCEPT ![n] = TransportFailure]
  /\ UNCHANGED <<lifecycle, revoked, review, grant, send, effect, evidence,
                 started, recon, lookup, outside>>

(* The process of Attempt n dies, or an exception makes it drop the claim. *)
LoseWorker(n) ==
  /\ sender[n] \notin {"none", "done"}
  /\ sender' = [sender EXCEPT ![n] = "done"]
  /\ UNCHANGED <<lifecycle, revoked, review, grant, send, effect, evidence,
                 started, recon, lookup, outside>>

(* The lease is not renewed in time, or the hard deadline passes.          *)
LapseSend ==
  /\ send.attempt = "live"
  /\ send' = [send EXCEPT !.attempt = "lapsed"]
  /\ UNCHANGED <<lifecycle, revoked, review, grant, sender, effect, evidence,
                 started, recon, lookup, outside>>

(* RenewalExternalEffectPolicy.result_disposition.                         *)
AfterResponse(s, observation) ==
  CASE observation = "applied" -> Settled(s, "succeeded")
    [] observation = "not_applied" -> RetriedOrFailed(s)
    [] observation = "uncertain" -> Deferred(s)

(* record_effect_observation.                                              *)
Record(basis, source, observation) ==
  /\ effect' = [effect EXCEPT !.certainty = observation]
  /\ evidence' = evidence \cup
       {[basis |-> basis, source |-> source, classification |-> observation]}

(* RenewalCompletionPolicy.is_complete on the transaction's own writes,    *)
(* and what complete_if_ready does with it.                                *)
IsComplete ==
  /\ drafting = "succeeded" /\ send'.state = "succeeded"
  /\ \A b \in Number : recon'[b].state \in {"absent", "succeeded"}
  /\ effect'.certainty = "applied"
  /\ \E e \in evidence' : /\ e.classification = "applied"
                          /\ e.source \in {"provider_response", "provider_lookup"}

CompleteIfReady ==
  lifecycle' = IF send'.state = "succeeded" /\ IsComplete THEN "completed" ELSE lifecycle

AcceptEmail(n) ==
  /\ sender[n] \in Observation /\ Current(n)
  /\ effect.certainty # "none" /\ effect.attempt = n
  /\ send' = AfterResponse(send, sender[n])
  /\ recon' = Reconciled(send')
  /\ Record(n, "provider_response", sender[n])
  /\ CompleteIfReady
  /\ sender' = [sender EXCEPT ![n] = "done"]
  /\ UNCHANGED <<revoked, review, grant, started, lookup, outside>>

\* Mutant: recovery does not notice that the fence was crossed.
Mutant_AfterLossRetried ==
  [step |-> RetriedOrFailed(send), known |-> "not_applied"]

(* recover_fenced_attempt: a lost Attempt of an Effect that exists leaves  *)
(* its outcome uncertain and the Step deferred on a Reconciliation Step.   *)
AfterLoss == [step |-> Deferred(send), known |-> "uncertain"]

RecoverSend ==
  /\ lifecycle = "active" /\ send.attempt = "lapsed"
  /\ IF effect.certainty = "none"
       THEN /\ send' = RetriedOrFailed(send)
            /\ UNCHANGED <<effect, evidence, recon>>
       ELSE /\ send' = AfterLoss.step
            /\ recon' = Reconciled(send')
            /\ Record(send.number, "worker_loss_after_fence", AfterLoss.known)
  /\ UNCHANGED <<lifecycle, revoked, review, grant, sender, started, lookup, outside>>

-----------------------------------------------------------------------------
(* The Reconciliation Step of basis Attempt b.                             *)

ClaimRecon(b) ==
  /\ lifecycle = "active" /\ Claimable(recon[b])
  /\ recon' = [recon EXCEPT ![b] = Claimed(@)]
  /\ lookup' = [lookup EXCEPT ![b] = "none"]
  /\ UNCHANGED <<lifecycle, revoked, review, grant, send, sender, effect,
                 evidence, started, outside>>

(* What the provider knows under the logical_effect_id; 404 when nothing.  *)
Known(record) ==
  CASE record = "applied" -> "applied"
    [] record = "pending" -> "uncertain"
    [] record \in {"none", "rejected"} -> "not_applied"

Lookup(b) ==
  /\ recon[b].attempt # "none" /\ lookup[b] = "none"
  /\ \E answer \in {Known(records[0]), TransportFailure} :
       lookup' = [lookup EXCEPT ![b] = answer]
  /\ UNCHANGED <<lifecycle, revoked, review, grant, send, sender, effect,
                 evidence, started, recon, outside>>

(* RenewalExternalEffectPolicy.reconciliation_disposition: the lookup      *)
(* settles both Steps, or is repeated, or ends deferred without a Route.   *)
AcceptRecon(b) ==
  /\ lifecycle = "active" /\ recon[b].attempt = "live" /\ lookup[b] # "none"
  /\ Record(b, "provider_lookup", lookup[b])
  /\ IF lookup[b] = "uncertain"
       THEN /\ recon' = [recon EXCEPT ![b] =
                           IF BudgetLeft(@.number) THEN Retried(@) ELSE Deferred(@)]
            /\ send' = send
       ELSE /\ recon' = [recon EXCEPT ![b] = Settled(@, "succeeded")]
            /\ send.state = "pending" /\ send.deferred = b      \* resolve_deferred
            /\ send' = AfterResponse(send, lookup[b])
  /\ CompleteIfReady
  /\ UNCHANGED <<revoked, review, grant, sender, started, lookup, outside>>

LapseRecon(b) ==
  /\ recon[b].attempt = "live"
  /\ recon' = [recon EXCEPT ![b].attempt = "lapsed"]
  /\ UNCHANGED <<lifecycle, revoked, review, grant, send, sender, effect,
                 evidence, started, lookup, outside>>

(* RenewalWorkflowPolicy.expired_attempt.                                  *)
RecoverRecon(b) ==
  /\ lifecycle = "active" /\ recon[b].attempt = "lapsed"
  /\ recon' = [recon EXCEPT ![b] = RetriedOrFailed(@)]
  /\ UNCHANGED <<lifecycle, revoked, review, grant, send, sender, effect,
                 evidence, started, lookup, outside>>

-----------------------------------------------------------------------------
(* The email provider: external, idempotent under the permit's key.        *)

\* Mutant: each Attempt gets an idempotency key of its own.
Mutant_KeyOfAttempt(n) == n

IdempotencyKey(n) == 0                       \* str(logical_effect_id)

(* A request arrives.  A key it has a record of is answered from it; a new *)
(* one is applied, refused, or taken on without an outcome yet.            *)
ProviderHandles(n) ==
  /\ n \in requests
  /\ requests' = requests \ {n}
  /\ LET key == IdempotencyKey(n) IN
     \E outcome \in IF records[key] = "none" THEN {"applied", "none", "pending"}
                                             ELSE {records[key]},
        arrives \in BOOLEAN :
       /\ records' = [records EXCEPT ![key] = outcome]
       /\ mailed' = IF records[key] # "applied" /\ outcome = "applied"
                      THEN Append(mailed, grant.draft) ELSE mailed
       /\ sender' = IF arrives /\ sender[n] = "waiting"
                      THEN [sender EXCEPT ![n] = Known(outcome)] ELSE sender
  /\ UNCHANGED <<lifecycle, revoked, review, grant, send, effect, evidence,
                 started, recon, lookup>>

RequestLost(n) ==
  /\ n \in requests
  /\ requests' = requests \ {n}
  /\ UNCHANGED <<lifecycle, revoked, review, grant, send, sender, effect,
                 evidence, started, recon, lookup, records, mailed>>

ProviderSettles(key) ==
  /\ records[key] = "pending"
  /\ \/ /\ records' = [records EXCEPT ![key] = "applied"]
        /\ mailed' = Append(mailed, grant.draft)
     \/ /\ records' = [records EXCEPT ![key] = "rejected"]
        /\ mailed' = mailed
  /\ UNCHANGED <<lifecycle, revoked, review, grant, send, sender, effect,
                 evidence, started, recon, lookup, requests>>

-----------------------------------------------------------------------------
Init ==
  /\ lifecycle = "active" /\ revoked = FALSE
  /\ drafting = "pending" /\ drafts = <<>>
  /\ grant = [state |-> "none", draft |-> 0]
  /\ send = AbsentStep
  /\ sender = [n \in Number |-> "none"]
  /\ effect = [certainty |-> "none", attempt |-> 0]
  /\ evidence = {} /\ started = {}
  /\ recon = [b \in Number |-> AbsentStep]
  /\ lookup = [b \in Number |-> "none"]
  /\ requests = {} /\ records = [k \in Key |-> "none"] /\ mailed = <<>>

Reviewer == \/ Revoke
            \/ Cancel
            \/ \E d \in DOMAIN drafts : DeliverDraft(d)
            \/ \E d, w \in DOMAIN drafts : Approve(d, w) \/ RequestRevision(d, w)

Drafter == PublishDraft \/ FailDraft

Sending == \/ ClaimSend
           \/ LapseSend
           \/ RecoverSend
           \/ \E n \in Number : \/ AuthorizeDispatch(n) \/ Dispatch(n) \/ Timeout(n)
                                \/ LoseWorker(n) \/ AcceptEmail(n)

Reconciling == \E b \in Number : \/ ClaimRecon(b) \/ Lookup(b) \/ AcceptRecon(b)
                                 \/ LapseRecon(b) \/ RecoverRecon(b)

Provider == \/ \E n \in Number : ProviderHandles(n) \/ RequestLost(n)
            \/ \E key \in Key : ProviderSettles(key)

Next == Reviewer \/ Drafter \/ Sending \/ Reconciling \/ Provider

Spec == Init /\ [][Next]_vars

(* A worker role recovers and claims on every tick, and maximum_attempt_   *)
(* seconds ends every Attempt that does not settle.  No worker, reviewer   *)
(* or provider has to answer.                                              *)
Fairness ==
  /\ WF_vars(ClaimSend) /\ WF_vars(LapseSend) /\ WF_vars(RecoverSend)
  /\ \A b \in Number :
       WF_vars(ClaimRecon(b)) /\ WF_vars(LapseRecon(b)) /\ WF_vars(RecoverRecon(b))

LiveSpec == Spec /\ Fairness

-----------------------------------------------------------------------------
(* Properties.                                                             *)

(* However many Attempts cross the fence, and however late their requests  *)
(* arrive, the policyholder gets at most one email: all of them carry the  *)
(* idempotency key of the one logical effect.                              *)
MailedAtMostOnce == Len(mailed) <= 1

(* The email that goes out is the draft the authorised reviewer approved   *)
(* after its presentation was delivered, never one sent back for revision. *)
OnlyTheApprovedDraftIsMailed ==
  \A i \in DOMAIN mailed :
    drafts[mailed[i]].delivered /\ drafts[mailed[i]].decision = "approve"

(* A second Attempt crosses the fence only after the provider itself said  *)
(* of the one before it, in a response or in a lookup, that nothing was    *)
(* applied; the loss of a worker is no such evidence.                      *)
RedispatchNeedsEvidence ==
  \A m, n \in started : m < n =>
    \E e \in evidence : /\ e.classification = "not_applied"
                        /\ e.source # "worker_loss_after_fence"
                        /\ m <= e.basis /\ e.basis < n

(* Once a dispatch was fenced, the Workflow completes, the email Step      *)
(* fails, or reconciliation gives up with the uncertainty on record.       *)
GaveUp(b) == recon[b].state = "failed" \/ recon[b].deferred # 0

DispatchIsResolved ==
  effect.certainty # "none" ~>
    \/ lifecycle = "completed" \/ send.state = "failed"
    \/ send.deferred # 0 /\ GaveUp(send.deferred)

(* docs/research/issue-65-evals-harness-engineering.md:286: "no automatic  *)
(* retry after possible commit".  An Attempt crosses the fence only when   *)
(* no request of an earlier one can still arrive at the provider.          *)
NoRetryAfterPossibleCommit == [][started' # started => requests = {}]_vars
=============================================================================
