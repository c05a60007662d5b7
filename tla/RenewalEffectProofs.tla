------------------------ MODULE RenewalEffectProofs ------------------------
(***************************************************************************)
(* Proofs about RenewalEffect, for every Attempt budget and every number   *)
(* of drafts: the policyholder gets one email at most, of the approved     *)
(* draft, no Attempt is dispatched again on the loss of a worker alone,    *)
(* and the whole implements ApprovedEffect.                                *)
(***************************************************************************)
EXTENDS RenewalEffectRefinement, TLAPS, SequenceTheorems

StepRow == [state : {"absent", "pending", "succeeded", "failed", "cancelled"},
            number : 0..MaxAttempts, attempt : {"none", "live", "lapsed"},
            deferred : 0..MaxAttempts]
Draft == [delivered : BOOLEAN,
          decision : {"unsatisfied", "approve", "request_revision", "cancelled"}]
EvidenceRow ==
  [basis : Number, classification : Observation,
   source : {"provider_response", "provider_lookup", "worker_loss_after_fence"}]

TypeOK ==
  /\ lifecycle \in {"active", "cancelled", "completed"}
  /\ revoked \in BOOLEAN
  /\ drafting \in {"pending", "succeeded", "failed", "cancelled"}
  /\ drafts \in Seq(Draft)
  /\ grant \in [state : {"none", "usable", "consumed", "invalidated"}, draft : Nat]
  /\ send \in StepRow
  /\ sender \in [Number -> {"none", "claimed", "permitted", "waiting", "done"} \cup Observation]
  /\ effect \in [certainty : {"none", "dispatching"} \cup Observation, attempt : 0..MaxAttempts]
  /\ evidence \subseteq EvidenceRow
  /\ started \subseteq Number
  /\ recon \in [Number -> StepRow]
  /\ lookup \in [Number -> {"none"} \cup Observation]
  /\ requests \subseteq Number
  /\ records \in [Key -> {"none", "applied", "pending", "rejected"}]
  /\ mailed \in Seq(Nat)

(* An Attempt is leased only on a pending Step, a deferral is on the last  *)
(* Attempt, and a Step that can be claimed has budget left.                *)
RowOK(s) ==
  /\ s.attempt # "none" => s.state = "pending" /\ s.deferred = 0 /\ s.number # 0
  /\ s.deferred # 0 => s.state = "pending" /\ s.deferred = s.number
  /\ Claimable(s) => s.number < MaxAttempts

RowsOK == RowOK(send) /\ \A b \in Number : RowOK(recon[b])

(* Only the last draft can be open for a decision, and only while nothing  *)
(* is granted and no other draft is being written.                         *)
OneReview ==
  /\ \A d \in DOMAIN drafts : drafts[d].decision = "unsatisfied" =>
       d = Len(drafts) /\ drafting = "succeeded" /\ grant.state = "none"
  /\ drafting = "pending" => grant.state = "none"

(* Nothing is sent before an approval, nothing crosses the fence or        *)
(* reaches the provider before the Grant is consumed, and there is nothing *)
(* to reconcile before an Effect.                                          *)
AuthorityFirst ==
  /\ grant.state = "none" =>
       send.state = "absent" /\ \A n \in Number : sender[n] = "none"
  /\ grant.state # "consumed" =>
       /\ effect.certainty = "none" /\ started = {}
       /\ requests = {} /\ records[0] = "none"
       /\ \A n \in Number : sender[n] \notin {"permitted", "waiting"}
  /\ effect.certainty = "none" => \A b \in Number : recon[b].state = "absent"

(* The provider has one record, and sent what that record says.            *)
OneRecord ==
  /\ \A key \in Key \ {0} : records[key] = "none"
  /\ Len(mailed) <= 1
  /\ mailed # <<>> <=> records[0] = "applied"

(* Whoever read that the email was sent read the truth.                    *)
TrueReports ==
  \A n \in Number : sender[n] = "applied" \/ lookup[n] = "applied" => mailed # <<>>

Approved(list, d) ==
  d \in DOMAIN list /\ list[d].delivered /\ list[d].decision = "approve"

ApprovedOnly ==
  /\ grant.state # "none" => Approved(drafts, grant.draft)
  /\ \A i \in DOMAIN mailed : Approved(drafts, mailed[i])

(* The provider's word, on an Attempt of m..n-1, that nothing was applied. *)
NothingApplied(m, n) ==
  \E e \in evidence : /\ e.classification = "not_applied"
                      /\ e.source # "worker_loss_after_fence"
                      /\ m <= e.basis /\ e.basis < n

(* The Effect points at the last Attempt that crossed the fence; when it   *)
(* counts as not applied, the evidence is older than a leased Attempt.     *)
EvidenceFirst ==
  /\ effect.certainty # "none" => effect.attempt <= send.number
  /\ \A m \in started : effect.certainty # "none" /\ m <= effect.attempt
  /\ effect.certainty = "not_applied" =>
       NothingApplied(effect.attempt,
                      IF send.attempt = "none" THEN send.number + 1 ELSE send.number)

IInv ==
  /\ TypeOK /\ RowsOK /\ OneReview /\ AuthorityFirst /\ OneRecord /\ TrueReports
  /\ ApprovedOnly /\ EvidenceFirst /\ RedispatchNeedsEvidence

-----------------------------------------------------------------------------
(* What the kernel's operations make of a Step.                            *)
Kept(s) == s \in StepRow /\ RowOK(s)

LEMMA RowFields ==
  ASSUME NEW s \in StepRow
  PROVE  /\ \A state : LET t == Settled(s, state) IN
              t.state = state /\ t.number = s.number /\ t.attempt = "none" /\ t.deferred = 0
         /\ LET t == Retried(s) IN
              t.state = s.state /\ t.number = s.number /\ t.attempt = "none" /\ t.deferred = 0
         /\ LET t == Deferred(s) IN
              t.state = s.state /\ t.number = s.number /\ t.attempt = "none"
              /\ t.deferred = s.number
         /\ LET t == Claimed(s) IN
              t.state = s.state /\ t.number = s.number + 1 /\ t.attempt = "live"
              /\ t.deferred = s.deferred
         /\ LET t == [s EXCEPT !.attempt = "lapsed"] IN
              t.state = s.state /\ t.number = s.number /\ t.attempt = "lapsed"
              /\ t.deferred = s.deferred
         /\ NewStep.state = "pending" /\ NewStep.number = 0
         /\ NewStep.attempt = "none" /\ NewStep.deferred = 0
BY DEF StepRow, Settled, Retried, Deferred, Claimed, NewStep, AbsentStep

LEMMA RowsKept ==
  ASSUME NEW s, Kept(s)
  PROVE  /\ Kept(NewStep)
         /\ Kept(Closed(s)) /\ Closed(s).number = s.number
         /\ Claimable(s) => Kept(Claimed(s)) /\ s.number + 1 \in Number
         /\ s.attempt # "none" =>
              /\ Kept([s EXCEPT !.attempt = "lapsed"])
              /\ Kept(Deferred(s))
              /\ s.number \in Number
         /\ \A state \in {"succeeded", "failed", "cancelled"} : Kept(Settled(s, state))
         /\ Kept(RetriedOrFailed(s))
         /\ BudgetLeft(s.number) => Kept(Retried(s))
<1>0. /\ s \in StepRow /\ RowOK(s) /\ s.number \in 0..MaxAttempts /\ 0 \in 0..MaxAttempts
      /\ s.number < MaxAttempts =>
           /\ s.number + 1 \in 0..MaxAttempts /\ s.number + 1 # 0 /\ s.number + 1 \in Number
      /\ s.number # 0 => s.number \in Number
      /\ 0 < MaxAttempts
  BY BudgetAssumption DEF Kept, StepRow, Number
<1> USE <1>0, RowFields DEF Kept
<1>1. Kept(NewStep)
  <2>1. NewStep \in StepRow
    BY DEF NewStep, AbsentStep, StepRow
  <2> QED BY <2>1 DEF RowOK, Claimable
<1>2. ASSUME NEW state \in {"succeeded", "failed", "cancelled"} PROVE Kept(Settled(s, state))
  <2>1. Settled(s, state) \in StepRow
    BY DEF StepRow, Settled
  <2> QED BY <2>1 DEF RowOK, Claimable
<1>3. Kept(Closed(s)) /\ Closed(s).number = s.number
  BY <1>2 DEF Closed
<1>4. ASSUME Claimable(s) PROVE Kept(Claimed(s)) /\ s.number + 1 \in Number
  <2>1. s.number + 1 \in 0..MaxAttempts /\ s.number + 1 \in Number
    BY <1>4 DEF RowOK
  <2>2. Claimed(s) \in StepRow
    BY <2>1 DEF StepRow, Claimed
  <2> QED BY <1>4, <2>1, <2>2 DEF RowOK, Claimable
<1>5. ASSUME BudgetLeft(s.number) PROVE Kept(Retried(s))
  <2>1. Retried(s) \in StepRow
    BY DEF StepRow, Retried
  <2> QED BY <1>5, <2>1 DEF RowOK, Claimable, BudgetLeft
<1>6. Kept(RetriedOrFailed(s))
  BY <1>2, <1>5 DEF RetriedOrFailed
<1>7. ASSUME s.attempt # "none" PROVE Kept([s EXCEPT !.attempt = "lapsed"])
  <2>1. [s EXCEPT !.attempt = "lapsed"] \in StepRow
    BY DEF StepRow
  <2> QED BY <1>7, <2>1 DEF RowOK, Claimable
<1>8. ASSUME s.attempt # "none" PROVE Kept(Deferred(s)) /\ s.number \in Number
  <2>1. Deferred(s) \in StepRow
    BY DEF StepRow, Deferred
  <2> QED BY <1>8, <2>1 DEF RowOK, Claimable
<1> QED BY <1>1, <1>2, <1>3, <1>4, <1>5, <1>6, <1>7, <1>8

(* The Steps stay as the claim query needs them.                           *)
LEMMA StepsKept ==
  ASSUME TypeOK, RowsOK, Next
  PROVE  send' \in StepRow /\ recon' \in [Number -> StepRow] /\ RowsOK'
<1> DEFINE Goal ==
      Kept(send') /\ recon' \in [Number -> StepRow] /\ \A b \in Number : Kept(recon'[b])
<1> SUFFICES Goal
  BY DEF Kept, RowsOK
<1>1. Kept(send) /\ recon \in [Number -> StepRow] /\ \A b \in Number : Kept(recon[b])
  BY DEF TypeOK, RowsOK, Kept
<1>2. Kept(NewStep)
  BY <1>1, RowsKept
<1>3. ASSUME NEW b \in Number, NEW row, Kept(row),
             recon' = [recon EXCEPT ![b] = row], UNCHANGED send
      PROVE  Goal
  BY <1>1, <1>3 DEF Kept
<1>4. ASSUME Kept(send'), UNCHANGED recon PROVE Goal
  BY <1>1, <1>4
<1>5. ASSUME Kept(send'), recon' = Reconciled(send') PROVE Goal
  BY <1>1, <1>2, <1>5 DEF Reconciled, Kept, StepRow, Number
<1> HIDE DEF Goal
<1>6. CASE UNCHANGED <<send, recon>>
  BY <1>1, <1>6 DEF Goal
<1>7. ASSUME NEW d, NEW w, Approve(d, w) PROVE Goal
  BY <1>2, <1>4, <1>7 DEF Approve
<1>8. CASE Cancel
  <2>1. /\ Kept(send')
        /\ \A b \in Number : Kept(Closed(recon[b]))
    BY <1>1, <1>8, RowsKept DEF Cancel
  <2> QED BY <1>8, <2>1 DEF Cancel, Goal, Kept
<1>9. CASE ClaimSend
  BY <1>1, <1>4, <1>9, RowsKept DEF ClaimSend
<1>10. CASE LapseSend
  BY <1>1, <1>4, <1>10, RowsKept DEF LapseSend
<1>11. ASSUME NEW n \in Number, AcceptEmail(n) PROVE Goal
  <2>1. Kept(AfterResponse(send, sender[n]))
    BY <1>1, <1>11, RowsKept DEF AcceptEmail, Current, AfterResponse, Observation
  <2> QED BY <1>5, <1>11, <2>1 DEF AcceptEmail
<1>12. CASE RecoverSend
  <2>1. Kept(RetriedOrFailed(send)) /\ Kept(Deferred(send))
    BY <1>1, <1>12, RowsKept DEF RecoverSend
  <2> QED BY <1>4, <1>5, <1>12, <2>1 DEF RecoverSend, AfterLoss
<1>13. ASSUME NEW b \in Number, ClaimRecon(b) PROVE Goal
  BY <1>1, <1>3, <1>13, RowsKept DEF ClaimRecon
<1>14. ASSUME NEW b \in Number, LapseRecon(b) PROVE Goal
  BY <1>1, <1>3, <1>14, RowsKept DEF LapseRecon
<1>15. ASSUME NEW b \in Number, RecoverRecon(b) PROVE Goal
  BY <1>1, <1>3, <1>15, RowsKept DEF RecoverRecon
<1>16. ASSUME NEW b \in Number, AcceptRecon(b) PROVE Goal
  <2>1. CASE lookup[b] = "uncertain"
    <3>1. Kept(IF BudgetLeft(recon[b].number) THEN Retried(recon[b]) ELSE Deferred(recon[b]))
      BY <1>1, <1>16, RowsKept DEF AcceptRecon
    <3> QED BY <1>3, <1>16, <2>1, <3>1 DEF AcceptRecon
  <2>2. CASE lookup[b] # "uncertain"
    <3>1. lookup[b] \in {"applied", "not_applied"}
      BY <1>16, <2>2 DEF AcceptRecon, TypeOK, Observation
    <3>2. Kept(AfterResponse(send, lookup[b])) /\ Kept(Settled(recon[b], "succeeded"))
      BY <1>1, <3>1, RowsKept DEF AfterResponse
    <3> QED BY <1>1, <1>16, <2>2, <3>2 DEF AcceptRecon, Goal, Kept
  <2> QED BY <2>1, <2>2
<1>17. CASE Reviewer \/ Drafter
  BY <1>6, <1>7, <1>8, <1>17 DEF Reviewer, Drafter, Revoke, DeliverDraft, RequestRevision,
     PublishDraft, FailDraft
<1>18. CASE Sending
  BY <1>6, <1>9, <1>10, <1>11, <1>12, <1>18 DEF Sending, AuthorizeDispatch, Dispatch, Timeout,
     LoseWorker
<1>19. CASE Reconciling
  BY <1>6, <1>13, <1>14, <1>15, <1>16, <1>19 DEF Reconciling, Lookup
<1>20. CASE Provider
  BY <1>6, <1>20 DEF Provider, ProviderHandles, RequestLost, ProviderSettles
<1> QED BY <1>17, <1>18, <1>19, <1>20 DEF Next

-----------------------------------------------------------------------------
(* A draft stays as it was decided, and keeps its place.                   *)
LEMMA DraftsKept ==
  ASSUME TypeOK, Next
  PROVE  /\ drafts' \in Seq(Draft)
         /\ \A d : Approved(drafts, d) => Approved(drafts', d)
<1>1. drafts \in Seq(Draft) /\ Len(drafts) \in Nat /\ DOMAIN drafts = 1..Len(drafts)
      /\ \A d \in DOMAIN drafts : drafts[d] \in Draft
  BY DEF TypeOK
<1>2. CASE UNCHANGED drafts
  BY <1>1, <1>2 DEF Approved
<1>3. ASSUME NEW d \in DOMAIN drafts, NEW row \in Draft, drafts' = [drafts EXCEPT ![d] = row],
             Approved(drafts, d) => row.delivered /\ row.decision = "approve"
      PROVE  /\ drafts' \in Seq(Draft)
             /\ \A e : Approved(drafts, e) => Approved(drafts', e)
  <2>1. drafts' \in Seq(Draft)
    BY <1>1, <1>3
  <2>2. ASSUME NEW e, Approved(drafts, e) PROVE Approved(drafts', e)
    <3>1. CASE e = d
      BY <1>1, <1>3, <2>2, <3>1 DEF Approved
    <3>2. CASE e # d
      BY <1>1, <1>3, <2>2, <3>2 DEF Approved
    <3> QED BY <3>1, <3>2
  <2> QED BY <2>1, <2>2
<1>4. ASSUME NEW d \in DOMAIN drafts, NEW decision \in {"approve", "request_revision"},
             drafts[d].decision = "unsatisfied",
             drafts' = [drafts EXCEPT ![d].decision = decision]
      PROVE  /\ drafts' \in Seq(Draft)
             /\ \A e : Approved(drafts, e) => Approved(drafts', e)
  <2>1. [drafts[d] EXCEPT !.decision = decision] \in Draft
    BY <1>1 DEF Draft
  <2>2. ~Approved(drafts, d)
    BY <1>4 DEF Approved
  <2> QED BY <1>3, <1>4, <2>1, <2>2
<1>5. CASE PublishDraft
  <2>1. NewDraft \in Draft
    BY DEF NewDraft, Draft
  <2>2. /\ drafts' \in Seq(Draft) /\ DOMAIN drafts' = 1..(Len(drafts) + 1)
        /\ \A d \in DOMAIN drafts : drafts'[d] = drafts[d]
    BY <1>1, <1>5, <2>1 DEF PublishDraft
  <2> QED BY <1>1, <2>2 DEF Approved
<1>6. ASSUME NEW d \in DOMAIN drafts, DeliverDraft(d)
      PROVE  /\ drafts' \in Seq(Draft)
             /\ \A e : Approved(drafts, e) => Approved(drafts', e)
  <2> DEFINE row == [drafts[d] EXCEPT !.delivered = TRUE]
  <2>1. row \in Draft
    BY <1>1 DEF Draft
  <2>2. ~Approved(drafts, d)
    BY <1>6 DEF DeliverDraft, Approved
  <2>3. drafts' = [drafts EXCEPT ![d] = row]
    BY <1>6 DEF DeliverDraft
  <2> HIDE DEF row
  <2> QED BY <1>3, <2>1, <2>2, <2>3
<1>7. ASSUME NEW d \in DOMAIN drafts, NEW w \in DOMAIN drafts,
             Approve(d, w) \/ RequestRevision(d, w)
      PROVE  /\ drafts' \in Seq(Draft)
             /\ \A e : Approved(drafts, e) => Approved(drafts', e)
  BY <1>4, <1>7 DEF Approve, RequestRevision, Accepts
<1>8. CASE Cancel
  <2> DEFINE After(d) == IF drafts[d].decision = "unsatisfied"
                           THEN [drafts[d] EXCEPT !.decision = "cancelled"] ELSE drafts[d]
  <2>1. drafts' = [d \in 1..Len(drafts) |-> After(d)]
    BY <1>1, <1>8 DEF Cancel
  <2>2. \A d \in 1..Len(drafts) : After(d) \in Draft
    BY <1>1 DEF Draft
  <2>3. \A d \in 1..Len(drafts) : drafts[d].decision = "approve" => After(d) = drafts[d]
    OBVIOUS
  <2> HIDE DEF After
  <2>4. drafts' \in Seq(Draft) /\ DOMAIN drafts' = DOMAIN drafts
    BY <1>1, <2>1, <2>2, SeqDef
  <2> QED BY <1>1, <2>1, <2>3, <2>4 DEF Approved
<1>9. CASE Reviewer
  BY <1>2, <1>6, <1>7, <1>8, <1>9 DEF Reviewer, Revoke, review
<1>10. CASE Drafter
  BY <1>2, <1>5, <1>10 DEF Drafter, FailDraft
<1>11. CASE Sending
  BY <1>2, <1>11 DEF Sending, review, ClaimSend, LapseSend, RecoverSend, AuthorizeDispatch,
     Dispatch, Timeout, LoseWorker, AcceptEmail
<1>12. CASE Reconciling
  BY <1>2, <1>12 DEF Reconciling, review, ClaimRecon, LapseRecon, RecoverRecon, AcceptRecon, Lookup
<1>13. CASE Provider
  BY <1>2, <1>13 DEF Provider, review, ProviderHandles, RequestLost, ProviderSettles
<1> QED BY <1>9, <1>10, <1>11, <1>12, <1>13 DEF Next

LEMMA TypesKept ==
  ASSUME TypeOK, RowsOK, Next
  PROVE  TypeOK'
<1> DEFINE Goal ==
      /\ lifecycle' \in {"active", "cancelled", "completed"}
      /\ revoked' \in BOOLEAN
      /\ drafting' \in {"pending", "succeeded", "failed", "cancelled"}
      /\ grant' \in [state : {"none", "usable", "consumed", "invalidated"}, draft : Nat]
      /\ sender' \in [Number -> {"none", "claimed", "permitted", "waiting", "done"} \cup Observation]
      /\ effect' \in [certainty : {"none", "dispatching"} \cup Observation, attempt : 0..MaxAttempts]
      /\ evidence' \subseteq EvidenceRow
      /\ started' \subseteq Number
      /\ lookup' \in [Number -> {"none"} \cup Observation]
      /\ requests' \subseteq Number
      /\ records' \in [Key -> {"none", "applied", "pending", "rejected"}]
      /\ mailed' \in Seq(Nat)
<1> SUFFICES Goal
  BY StepsKept, DraftsKept DEF TypeOK
<1> USE DEF TypeOK, Observation
<1>1. Number \subseteq 0..MaxAttempts /\ 0 \in Key
  BY BudgetAssumption DEF Number, Key
<1>2. CASE Reviewer \/ Drafter
  <2>1. Withdrawn(grant) \in [state : {"none", "usable", "consumed", "invalidated"}, draft : Nat]
    BY DEF Withdrawn
  <2>2. \A d \in DOMAIN drafts : d \in Nat
    OBVIOUS
  <2>3. CASE Revoke \/ Cancel
    BY <2>1, <2>3 DEF Revoke, Cancel, outside, review
  <2>4. ASSUME NEW d \in DOMAIN drafts, NEW w \in DOMAIN drafts, Approve(d, w) PROVE Goal
    BY <2>2, <2>4 DEF Approve, outside
  <2>5. CASE Drafter
    BY <2>5 DEF Drafter, PublishDraft, FailDraft, outside
  <2>6. ASSUME NEW d \in DOMAIN drafts, NEW w \in DOMAIN drafts,
               DeliverDraft(d) \/ RequestRevision(d, w)
        PROVE  Goal
    BY <2>6 DEF DeliverDraft, RequestRevision, outside
  <2> HIDE DEF Goal
  <2> QED BY <1>2, <2>3, <2>4, <2>5, <2>6 DEF Reviewer
<1>3. ASSUME NEW n \in Number, NEW observation \in Observation, NEW source \in
               {"provider_response", "provider_lookup", "worker_loss_after_fence"},
             Record(n, source, observation)
      PROVE  /\ effect' \in [certainty : {"none", "dispatching"} \cup Observation,
                             attempt : 0..MaxAttempts]
             /\ evidence' \subseteq EvidenceRow
  <2>1. effect' \in [certainty : {"none", "dispatching"} \cup Observation, attempt : 0..MaxAttempts]
    BY <1>3 DEF Record
  <2>2. [basis |-> n, source |-> source, classification |-> observation] \in EvidenceRow
    BY DEF EvidenceRow
  <2> QED BY <1>3, <2>1, <2>2 DEF Record
<1>4. CASE ClaimSend \/ LapseSend
  BY <1>4 DEF ClaimSend, LapseSend, review, outside
<1>5. CASE RecoverSend
  <2>1. send.number \in Number
    BY <1>5 DEF RecoverSend, RowsOK, RowOK, StepRow, Number
  <2> QED BY <1>3, <1>5, <2>1 DEF RecoverSend, AfterLoss, review, outside
<1>6. ASSUME NEW n \in Number, AuthorizeDispatch(n) PROVE Goal
  BY <1>1, <1>6 DEF AuthorizeDispatch, review, outside
<1>7. ASSUME NEW n \in Number, Dispatch(n) \/ Timeout(n) \/ LoseWorker(n) PROVE Goal
  BY <1>7 DEF Dispatch, Timeout, LoseWorker, TransportFailure, review, outside
<1>8. ASSUME NEW n \in Number, AcceptEmail(n) PROVE Goal
  BY <1>3, <1>8 DEF AcceptEmail, CompleteIfReady, review, outside
<1>9. ASSUME NEW b \in Number, ClaimRecon(b) \/ LapseRecon(b) \/ RecoverRecon(b) PROVE Goal
  BY <1>9 DEF ClaimRecon, LapseRecon, RecoverRecon, review, outside
<1>10. ASSUME NEW b \in Number, Lookup(b) PROVE Goal
  BY <1>1, <1>10 DEF Lookup, Known, TransportFailure, review, outside
<1>11. ASSUME NEW b \in Number, AcceptRecon(b) PROVE Goal
  BY <1>3, <1>11 DEF AcceptRecon, CompleteIfReady, review, outside
<1>12. ASSUME NEW n \in Number, ProviderHandles(n) PROVE Goal
  BY <1>1, <1>12 DEF ProviderHandles, IdempotencyKey, Known, review
<1>13. ASSUME NEW n \in Number, RequestLost(n) PROVE Goal
  BY <1>13 DEF RequestLost, review
<1>14. ASSUME NEW key \in Key, ProviderSettles(key) PROVE Goal
  <2>1. mailed' \in Seq(Nat)
    <3>1. mailed \in Seq(Nat) /\ grant.draft \in Nat
      OBVIOUS
    <3>2. mailed' = Append(mailed, grant.draft) \/ mailed' = mailed
      BY <1>14 DEF ProviderSettles
    <3> HIDE DEF Goal, TypeOK
    <3> QED BY <3>1, <3>2
  <2>2. records' \in [Key -> {"none", "applied", "pending", "rejected"}]
    <3>1. \/ records' = [records EXCEPT ![key] = "applied"]
          \/ records' = [records EXCEPT ![key] = "rejected"]
      BY <1>14 DEF ProviderSettles
    <3>2. records \in [Key -> {"none", "applied", "pending", "rejected"}]
      OBVIOUS
    <3> HIDE DEF Goal, TypeOK
    <3> QED BY <3>1, <3>2
  <2> QED BY <1>14, <2>1, <2>2 DEF ProviderSettles, review
<1> HIDE DEF Goal
<1>15. CASE Sending
  BY <1>4, <1>5, <1>6, <1>7, <1>8, <1>15 DEF Sending
<1>16. CASE Reconciling
  BY <1>9, <1>10, <1>11, <1>16 DEF Reconciling
<1>17. CASE Provider
  BY <1>12, <1>13, <1>14, <1>17 DEF Provider
<1> QED BY <1>2, <1>15, <1>16, <1>17 DEF Next

-----------------------------------------------------------------------------
LEMMA OneReviewKept ==
  ASSUME IInv, Next
  PROVE  OneReview'
<1>1. drafts \in Seq(Draft) /\ Len(drafts) \in Nat /\ DOMAIN drafts = 1..Len(drafts) /\ OneReview
  BY DEF IInv, TypeOK
<1>2. CASE UNCHANGED review /\ grant.state' = grant.state
  BY <1>1, <1>2 DEF OneReview, review
<1>3. CASE PublishDraft
  <2>1. /\ Len(drafts') = Len(drafts) + 1 /\ DOMAIN drafts' = 1..(Len(drafts) + 1)
        /\ \A d \in DOMAIN drafts : drafts'[d] = drafts[d]
    BY <1>1, <1>3 DEF PublishDraft
  <2>2. drafting' = "succeeded" /\ grant'.state = "none"
    BY <1>1, <1>3 DEF PublishDraft, OneReview
  <2> QED BY <1>1, <1>3, <2>1, <2>2 DEF PublishDraft, OneReview
<1>4. CASE FailDraft
  BY <1>1, <1>4 DEF FailDraft, OneReview
<1>5. ASSUME NEW d \in DOMAIN drafts, DeliverDraft(d) PROVE OneReview'
  <2>1. /\ Len(drafts') = Len(drafts) /\ DOMAIN drafts' = DOMAIN drafts
        /\ \A e \in DOMAIN drafts : drafts'[e].decision = drafts[e].decision
    BY <1>1, <1>5 DEF DeliverDraft, Draft
  <2> QED BY <1>1, <1>5, <2>1 DEF DeliverDraft, OneReview
<1>6. ASSUME NEW d \in DOMAIN drafts, NEW w \in DOMAIN drafts,
             Approve(d, w) \/ RequestRevision(d, w)
      PROVE  OneReview'
  <2>1. /\ Len(drafts') = Len(drafts) /\ DOMAIN drafts' = DOMAIN drafts
        /\ \A e \in DOMAIN drafts :
             drafts'[e].decision = "unsatisfied" => e # w /\ drafts[e].decision = "unsatisfied"
    <3>1. PICK decision \in {"approve", "request_revision"} :
            drafts' = [drafts EXCEPT ![w].decision = decision]
      BY <1>6 DEF Approve, RequestRevision
    <3>2. drafts[w] \in Draft
      BY <1>1
    <3>3. drafts'[w].decision = decision
      BY <1>1, <3>1, <3>2 DEF Draft
    <3>4. \A e \in DOMAIN drafts : e # w => drafts'[e] = drafts[e]
      BY <1>1, <3>1
    <3> QED BY <1>1, <3>1, <3>3, <3>4
  <2>2. w = Len(drafts) /\ drafting = "succeeded" /\ grant.state = "none"
    BY <1>1, <1>6 DEF Approve, RequestRevision, Accepts, OneReview
  <2>3. \A e \in DOMAIN drafts' : drafts'[e].decision # "unsatisfied"
    BY <1>1, <2>1, <2>2 DEF OneReview
  <2> QED BY <1>6, <2>2, <2>3 DEF Approve, RequestRevision, OneReview
<1>7. CASE Revoke
  BY <1>1, <1>7 DEF Revoke, review, Withdrawn, OneReview
<1>8. CASE Cancel
  <2>1. \A d \in DOMAIN drafts' : drafts'[d].decision # "unsatisfied"
    BY <1>1, <1>8 DEF Cancel, Draft
  <2> QED BY <1>8, <2>1 DEF Cancel, OneReview
<1>9. ASSUME NEW n \in Number, AuthorizeDispatch(n) PROVE OneReview'
  <2>1. grant.state # "none"
    BY <1>9 DEF AuthorizeDispatch, IInv, AuthorityFirst
  <2> QED BY <1>1, <1>9, <2>1 DEF AuthorizeDispatch, review, OneReview
<1>10. CASE Reviewer \/ Drafter
  BY <1>3, <1>4, <1>5, <1>6, <1>7, <1>8, <1>10 DEF Reviewer, Drafter
<1>11. CASE Sending
  BY <1>2, <1>9, <1>11 DEF Sending, ClaimSend, LapseSend, RecoverSend, Dispatch, Timeout,
     LoseWorker, AcceptEmail
<1>12. CASE Reconciling
  BY <1>2, <1>12 DEF Reconciling, ClaimRecon, LapseRecon, RecoverRecon, AcceptRecon, Lookup
<1>13. CASE Provider
  BY <1>2, <1>13 DEF Provider, ProviderHandles, RequestLost, ProviderSettles
<1> QED BY <1>10, <1>11, <1>12, <1>13 DEF Next

LEMMA OneRecordKept ==
  ASSUME IInv, Next
  PROVE  OneRecord'
<1>1. /\ OneRecord /\ mailed \in Seq(Nat) /\ 0 \in Key
      /\ records \in [Key -> {"none", "applied", "pending", "rejected"}]
  BY BudgetAssumption DEF IInv, TypeOK, Key
<1>2. CASE UNCHANGED <<records, mailed>>
  BY <1>1, <1>2 DEF OneRecord
<1>3. ASSUME NEW outcome \in {"applied", "none", "pending", "rejected"},
             records' = [records EXCEPT ![0] = outcome],
             records[0] = "applied" => outcome = "applied",
             mailed' = IF records[0] # "applied" /\ outcome = "applied"
                         THEN Append(mailed, grant.draft) ELSE mailed
      PROVE  OneRecord'
  <2>1. /\ records'[0] = outcome
        /\ \A key \in Key \ {0} : records'[key] = records[key]
    BY <1>1, <1>3
  <2>2. CASE mailed = <<>>
    <3>1. records[0] # "applied"
      BY <1>1, <2>2 DEF OneRecord
    <3>2. Len(mailed') <= 1 /\ (mailed' # <<>> <=> outcome = "applied")
      <4>1. CASE outcome = "applied"
        <5>1. mailed' = Append(<<>>, grant.draft)
          BY <1>3, <2>2, <3>1, <4>1
        <5> QED BY <4>1, <5>1
      <4>2. CASE outcome # "applied"
        BY <1>3, <2>2, <4>2
      <4> QED BY <4>1, <4>2
    <3> QED BY <1>1, <2>1, <3>2 DEF OneRecord
  <2>3. CASE mailed # <<>>
    <3>1. records[0] = "applied" /\ outcome = "applied" /\ mailed' = mailed
      BY <1>1, <1>3, <2>3 DEF OneRecord
    <3> QED BY <1>1, <2>1, <2>3, <3>1 DEF OneRecord
  <2> QED BY <2>2, <2>3
<1>4. ASSUME NEW n \in Number, ProviderHandles(n) PROVE OneRecord'
  BY <1>1, <1>3, <1>4 DEF ProviderHandles, IdempotencyKey
<1>5. ASSUME NEW key \in Key, ProviderSettles(key) PROVE OneRecord'
  <2>1. key = 0
    BY <1>1, <1>5 DEF ProviderSettles, OneRecord
  <2> QED BY <1>1, <1>3, <1>5, <2>1 DEF ProviderSettles
<1>6. CASE Reviewer \/ Drafter
  BY <1>2, <1>6 DEF Reviewer, Drafter, outside, Revoke, Cancel, DeliverDraft, Approve,
     RequestRevision, PublishDraft, FailDraft
<1>7. CASE Sending
  BY <1>2, <1>7 DEF Sending, outside, ClaimSend, LapseSend, RecoverSend, AuthorizeDispatch,
     Dispatch, Timeout, LoseWorker, AcceptEmail
<1>8. CASE Reconciling
  BY <1>2, <1>8 DEF Reconciling, outside, ClaimRecon, LapseRecon, RecoverRecon, AcceptRecon, Lookup
<1>9. CASE Provider
  BY <1>2, <1>4, <1>5, <1>9 DEF Provider, RequestLost
<1> QED BY <1>6, <1>7, <1>8, <1>9 DEF Next

LEMMA TrueReportsKept ==
  ASSUME IInv, Next
  PROVE  TrueReports'
<1>1. /\ TrueReports /\ OneRecord /\ mailed \in Seq(Nat)
      /\ sender \in [Number -> {"none", "claimed", "permitted", "waiting", "done"} \cup Observation]
      /\ lookup \in [Number -> {"none"} \cup Observation]
  BY DEF IInv, TypeOK
<1>2. mailed # <<>> => mailed' # <<>>
  <2>1. \A x : Append(mailed, x) # <<>>
    BY <1>1
  <2>2. CASE UNCHANGED mailed
    BY <2>2
  <2>3. CASE Provider
    BY <2>1, <2>3 DEF Provider, ProviderHandles, RequestLost, ProviderSettles
  <2>4. CASE Reviewer \/ Drafter
    BY <2>2, <2>4 DEF Reviewer, Drafter, outside, Revoke, Cancel, DeliverDraft, Approve,
       RequestRevision, PublishDraft, FailDraft
  <2>5. CASE Sending
    BY <2>2, <2>5 DEF Sending, outside, ClaimSend, LapseSend, RecoverSend, AuthorizeDispatch,
       Dispatch, Timeout, LoseWorker, AcceptEmail
  <2>6. CASE Reconciling
    BY <2>2, <2>6 DEF Reconciling, outside, ClaimRecon, LapseRecon, RecoverRecon, AcceptRecon,
       Lookup
  <2> QED BY <2>3, <2>4, <2>5, <2>6 DEF Next
<1>3. ASSUME \A n \in Number : /\ sender'[n] = "applied" => sender[n] = "applied" \/ mailed' # <<>>
                               /\ lookup'[n] = "applied" => lookup[n] = "applied" \/ mailed' # <<>>
      PROVE  TrueReports'
  BY <1>1, <1>2, <1>3 DEF TrueReports
<1>4. CASE Reviewer \/ Drafter
  BY <1>3, <1>4 DEF Reviewer, Drafter, Revoke, Cancel, DeliverDraft, Approve,
     RequestRevision, PublishDraft, FailDraft
<1>5. CASE Sending
  BY <1>1, <1>3, <1>5 DEF Sending, ClaimSend, LapseSend, RecoverSend, AuthorizeDispatch,
     Dispatch, Timeout, TransportFailure, LoseWorker, AcceptEmail
<1>6. CASE Reconciling
  <2>1. ASSUME NEW b \in Number, Lookup(b) PROVE TrueReports'
    <3>1. Known(records[0]) = "applied" => mailed' # <<>>
      <4>1. records[0] \in {"none", "applied", "pending", "rejected"}
        BY BudgetAssumption DEF IInv, TypeOK, Key
      <4> QED BY <1>1, <1>2, <4>1 DEF Known, OneRecord
    <3> QED BY <1>1, <1>3, <2>1, <3>1 DEF Lookup, TransportFailure
  <2> QED BY <1>1, <1>3, <1>6, <2>1 DEF Reconciling, ClaimRecon, LapseRecon, RecoverRecon,
             AcceptRecon
<1>7. ASSUME NEW n \in Number, ProviderHandles(n) PROVE TrueReports'
  <2>1. OneRecord'
    BY OneRecordKept
  <2>2. PICK outcome \in {"applied", "none", "pending", "rejected"} :
          /\ records' = [records EXCEPT ![0] = outcome]
          /\ \/ UNCHANGED sender
             \/ sender' = [sender EXCEPT ![n] = Known(outcome)]
    <3>1. records[0] \in {"none", "applied", "pending", "rejected"}
      BY BudgetAssumption DEF IInv, TypeOK, Key
    <3> QED BY <1>7, <3>1 DEF ProviderHandles, IdempotencyKey
  <2>3. Known(outcome) = "applied" => mailed' # <<>>
    <3>1. Known(outcome) = "applied" => outcome = "applied"
      BY DEF Known
    <3>2. records'[0] = outcome
      BY <2>2, BudgetAssumption DEF IInv, TypeOK, Key
    <3> QED BY <2>1, <3>1, <3>2 DEF OneRecord
  <2> QED BY <1>1, <1>3, <1>7, <2>2, <2>3 DEF ProviderHandles
<1>8. CASE Provider
  BY <1>3, <1>7, <1>8 DEF Provider, RequestLost, ProviderSettles
<1> QED BY <1>4, <1>5, <1>6, <1>8 DEF Next

LEMMA ApprovedOnlyKept ==
  ASSUME IInv, Next
  PROVE  ApprovedOnly'
<1>1. /\ ApprovedOnly /\ mailed \in Seq(Nat) /\ DOMAIN mailed = 1..Len(mailed)
      /\ \A d : Approved(drafts, d) => Approved(drafts', d)
      /\ drafts \in Seq(Draft) /\ \A d \in DOMAIN drafts : drafts[d] \in Draft
      /\ grant \in [state : {"none", "usable", "consumed", "invalidated"}, draft : Nat]
  BY DraftsKept DEF IInv, TypeOK
<1>2. ASSUME grant'.state # "none" => grant.state # "none" /\ grant'.draft = grant.draft,
             UNCHANGED mailed
      PROVE  ApprovedOnly'
  BY <1>1, <1>2 DEF ApprovedOnly
<1>3. ASSUME NEW d \in DOMAIN drafts, NEW w \in DOMAIN drafts, Approve(d, w) PROVE ApprovedOnly'
  <2>1. d = w /\ drafts' = [drafts EXCEPT ![d].decision = "approve"] /\ drafts[d].delivered
    BY <1>3 DEF Approve, Accepts, WaitInputMatches
  <2>2. DOMAIN drafts' = DOMAIN drafts
        /\ drafts'[d].decision = "approve" /\ drafts'[d].delivered
    BY <1>1, <2>1 DEF Draft
  <2>3. grant'.draft = d
    BY <1>3 DEF Approve
  <2>4. \A i \in DOMAIN mailed : Approved(drafts', mailed[i])
    BY <1>1 DEF ApprovedOnly
  <2> QED BY <1>3, <2>2, <2>3, <2>4 DEF Approve, outside, ApprovedOnly, Approved
<1>4. ASSUME grant.state # "none", UNCHANGED <<grant, drafts>>,
             mailed' = mailed \/ mailed' = Append(mailed, grant.draft)
      PROVE  ApprovedOnly'
  <2>1. Approved(drafts, grant.draft)
    BY <1>1, <1>4 DEF ApprovedOnly
  <2>2. \A i \in DOMAIN mailed' : 
          \/ mailed'[i] = grant.draft
          \/ i \in DOMAIN mailed /\ mailed'[i] = mailed[i]
    <3>1. CASE mailed' = mailed
      BY <3>1
    <3>2. CASE mailed' = Append(mailed, grant.draft)
      <4>1. /\ DOMAIN mailed' = 1..(Len(mailed) + 1) /\ mailed'[Len(mailed) + 1] = grant.draft
            /\ \A i \in 1..Len(mailed) : mailed'[i] = mailed[i]
        BY <1>1, <3>2
      <4>2. Len(mailed) \in Nat
        BY <1>1
      <4>3. \A i \in 1..(Len(mailed) + 1) : i = Len(mailed) + 1 \/ i \in 1..Len(mailed)
        BY <4>2
      <4> QED BY <1>1, <4>1, <4>3
    <3> QED BY <1>4, <3>1, <3>2
  <2> QED BY <1>1, <1>4, <2>1, <2>2 DEF ApprovedOnly, Approved
<1>5. ASSUME NEW n \in Number, ProviderHandles(n) PROVE ApprovedOnly'
  <2>1. grant.state # "none"
    BY <1>5 DEF ProviderHandles, IInv, AuthorityFirst
  <2> QED BY <1>4, <1>5, <2>1 DEF ProviderHandles, review
<1>6. ASSUME NEW key \in Key, ProviderSettles(key) PROVE ApprovedOnly'
  <2>1. grant.state # "none"
    BY <1>6 DEF ProviderSettles, IInv, AuthorityFirst, OneRecord
  <2> QED BY <1>4, <1>6, <2>1 DEF ProviderSettles, review
<1>7. CASE Revoke \/ Cancel
  BY <1>1, <1>2, <1>7 DEF Revoke, Cancel, Withdrawn, outside
<1>8. ASSUME NEW n \in Number, AuthorizeDispatch(n) PROVE ApprovedOnly'
  <2>1. grant.state # "none" /\ grant'.draft = grant.draft
    BY <1>1, <1>8 DEF AuthorizeDispatch, IInv, AuthorityFirst
  <2> QED BY <1>2, <1>8, <2>1 DEF AuthorizeDispatch, outside
<1>9. CASE Reviewer \/ Drafter
  BY <1>2, <1>3, <1>7, <1>9 DEF Reviewer, Drafter, outside, DeliverDraft,
     RequestRevision, PublishDraft, FailDraft
<1>10. CASE Sending
  BY <1>2, <1>8, <1>10 DEF Sending, outside, ClaimSend, LapseSend, RecoverSend,
     Dispatch, Timeout, LoseWorker, AcceptEmail
<1>11. CASE Reconciling
  BY <1>2, <1>11 DEF Reconciling, outside, ClaimRecon, LapseRecon, RecoverRecon, AcceptRecon, Lookup
<1>12. CASE Provider
  BY <1>2, <1>5, <1>6, <1>12 DEF Provider, RequestLost
<1> QED BY <1>9, <1>10, <1>11, <1>12 DEF Next

(* What holds before the Grant is consumed is left only by consuming it.   *)
LEMMA AuthorityFirstKept ==
  ASSUME IInv, Next
  PROVE  AuthorityFirst'
<1>1. /\ AuthorityFirst /\ TypeOK /\ RowsOK /\ RowsOK' /\ 0 \in Key
      /\ send \in StepRow /\ recon \in [Number -> StepRow]
      /\ grant.state \in {"none", "usable", "consumed", "invalidated"}
      /\ sender \in [Number -> {"none", "claimed", "permitted", "waiting", "done"} \cup Observation]
  BY StepsKept, BudgetAssumption DEF IInv, TypeOK, Key
<1>2. ASSUME UNCHANGED <<grant, send, sender, effect, started, recon, requests, records>>
      PROVE  AuthorityFirst'
  BY <1>1, <1>2 DEF AuthorityFirst
<1>3. ASSUME grant.state = "consumed", UNCHANGED grant,
             effect'.certainty = "none" => \A b \in Number : recon'[b].state = "absent"
      PROVE  AuthorityFirst'
  BY <1>3 DEF AuthorityFirst
<1>4. CASE Revoke
  BY <1>1, <1>4 DEF Revoke, outside, Withdrawn, AuthorityFirst
<1>5. CASE Cancel
  <2>1. /\ grant'.state = "none" => grant.state = "none"
        /\ grant.state = "consumed" <=> grant'.state = "consumed"
    BY <1>1, <1>5 DEF Cancel, Withdrawn
  <2>2. \A s : s.state = "absent" => Closed(s) = s
    BY DEF Closed
  <2> QED BY <1>1, <1>5, <2>1, <2>2 DEF Cancel, outside, AuthorityFirst
<1>6. ASSUME NEW d \in DOMAIN drafts, NEW w \in DOMAIN drafts, Approve(d, w) PROVE AuthorityFirst'
  <2>1. grant.state = "none"
    BY <1>6 DEF Approve, Accepts, IInv, OneReview
  <2> QED BY <1>1, <1>6, <2>1 DEF Approve, outside, AuthorityFirst
<1>7. CASE ClaimSend
  <2>1. grant.state # "none"
    BY <1>1, <1>7 DEF ClaimSend, Claimable, AuthorityFirst
  <2>2. \A n \in Number : sender'[n] = sender[n] \/ sender'[n] = "claimed"
    BY <1>1, <1>7 DEF ClaimSend
  <2> QED BY <1>1, <1>7, <2>1, <2>2 DEF ClaimSend, outside, AuthorityFirst
<1>8. CASE LapseSend
  BY <1>1, <1>8, RowFields DEF LapseSend, outside, AuthorityFirst
<1>9. CASE RecoverSend
  <2>1. grant.state # "none"
    BY <1>1, <1>9 DEF RecoverSend, RowsOK, RowOK, AuthorityFirst
  <2>2. CASE effect.certainty = "none"
    BY <1>1, <1>9, <2>1, <2>2 DEF RecoverSend, outside, AuthorityFirst
  <2>3. CASE effect.certainty # "none"
    <3>1. effect'.certainty = "uncertain"
      BY <1>1, <1>9, <2>3 DEF RecoverSend, Record, AfterLoss, TypeOK
    <3> QED BY <1>1, <1>3, <1>9, <2>3, <3>1 DEF RecoverSend, AuthorityFirst
  <2> QED BY <2>2, <2>3
<1>10. ASSUME NEW n \in Number, AuthorizeDispatch(n) PROVE AuthorityFirst'
  <2>1. grant'.state = "consumed" /\ effect'.certainty = "dispatching"
    BY <1>1, <1>10 DEF AuthorizeDispatch, TypeOK
  <2> QED BY <2>1 DEF AuthorityFirst
<1>11. ASSUME NEW n \in Number, Dispatch(n) \/ Timeout(n) PROVE AuthorityFirst'
  <2>1. grant.state = "consumed"
    BY <1>1, <1>11 DEF Dispatch, Timeout, AuthorityFirst
  <2> QED BY <1>1, <1>3, <1>11, <2>1 DEF Dispatch, Timeout, AuthorityFirst
<1>12. ASSUME NEW n \in Number, LoseWorker(n) PROVE AuthorityFirst'
  <2>1. grant.state # "none"
    BY <1>1, <1>12 DEF LoseWorker, AuthorityFirst
  <2>2. \A m \in Number : sender'[m] = sender[m] \/ sender'[m] = "done"
    BY <1>1, <1>12 DEF LoseWorker
  <2> QED BY <1>1, <1>12, <2>1, <2>2 DEF LoseWorker, outside, AuthorityFirst
<1>13. ASSUME NEW n \in Number, AcceptEmail(n) PROVE AuthorityFirst'
  <2>1. grant.state = "consumed"
    BY <1>1, <1>13 DEF AcceptEmail, AuthorityFirst
  <2>2. effect'.certainty # "none"
    BY <1>1, <1>13 DEF AcceptEmail, Record, Observation, TypeOK
  <2> QED BY <1>3, <1>13, <2>1, <2>2 DEF AcceptEmail
<1>14. ASSUME NEW b \in Number,
              ClaimRecon(b) \/ LapseRecon(b) \/ RecoverRecon(b) \/ Lookup(b) \/ AcceptRecon(b)
       PROVE  AuthorityFirst'
  <2>1. recon[b].state # "absent"
    BY <1>1, <1>14 DEF ClaimRecon, Claimable, LapseRecon, RecoverRecon, Lookup, AcceptRecon,
       RowsOK, RowOK
  <2>2. grant.state = "consumed" /\ effect.certainty # "none"
    BY <1>1, <2>1 DEF AuthorityFirst
  <2>3. effect'.certainty # "none" /\ UNCHANGED grant
    BY <1>1, <1>14, <2>2 DEF ClaimRecon, LapseRecon, RecoverRecon, Lookup, AcceptRecon, Record,
       Observation, TypeOK
  <2> QED BY <1>3, <2>2, <2>3
<1>15. CASE Provider
  <2>1. grant.state = "consumed"
    BY <1>1, <1>15 DEF Provider, ProviderHandles, RequestLost, ProviderSettles,
       AuthorityFirst, IInv, OneRecord
  <2>2. UNCHANGED <<grant, effect, recon>>
    BY <1>15 DEF Provider, ProviderHandles, RequestLost, ProviderSettles
  <2> QED BY <1>1, <1>3, <2>1, <2>2 DEF AuthorityFirst
<1>16. CASE Reviewer \/ Drafter
  BY <1>2, <1>4, <1>5, <1>6, <1>16 DEF Reviewer, Drafter, outside, DeliverDraft,
     RequestRevision, PublishDraft, FailDraft
<1>17. CASE Sending
  BY <1>7, <1>8, <1>9, <1>10, <1>11, <1>12, <1>13, <1>17 DEF Sending
<1>18. CASE Reconciling
  BY <1>14, <1>18 DEF Reconciling
<1> QED BY <1>15, <1>16, <1>17, <1>18 DEF Next

(* Evidence is about Attempts of the Step, and never lost.                 *)
LEMMA EvidenceFirstKept ==
  ASSUME IInv, Next
  PROVE  EvidenceFirst' /\ RedispatchNeedsEvidence'
<1> DEFINE Until == IF send.attempt = "none" THEN send.number + 1 ELSE send.number
<1> DEFINE UntilNext == IF send'.attempt = "none" THEN send'.number + 1 ELSE send'.number
<1> DEFINE Says(m, n) ==
      \E e \in evidence' : /\ e.classification = "not_applied"
                           /\ e.source # "worker_loss_after_fence"
                           /\ m <= e.basis /\ e.basis < n
<1>1. /\ EvidenceFirst /\ RedispatchNeedsEvidence /\ AuthorityFirst /\ TypeOK /\ RowsOK
      /\ send \in StepRow /\ send.number \in Nat /\ RowOK(send)
      /\ effect.attempt \in Nat /\ started \subseteq Nat
      /\ \A e \in evidence : e.basis \in Nat
  <2>1. 0..MaxAttempts \subseteq Nat /\ Number \subseteq Nat
    BY BudgetAssumption DEF Number
  <2>2. send \in StepRow /\ effect.attempt \in 0..MaxAttempts /\ evidence \subseteq EvidenceRow
    BY DEF IInv, TypeOK
  <2>3. send.number \in 0..MaxAttempts
    BY <2>2 DEF StepRow
  <2>4. \A e \in evidence : e.basis \in Number
    BY <2>2 DEF EvidenceRow
  <2> QED BY <2>1, <2>2, <2>3, <2>4 DEF IInv, TypeOK, RowsOK
<1>2. ASSUME evidence \subseteq evidence', started' = started,
             effect.certainty # "none" => effect'.certainty # "none",
             effect'.certainty # "none" => effect'.attempt <= send'.number,
             effect'.attempt = effect.attempt,
             effect'.certainty = "not_applied" => Says(effect'.attempt, UntilNext)
      PROVE  EvidenceFirst' /\ RedispatchNeedsEvidence'
  BY <1>1, <1>2 DEF EvidenceFirst, RedispatchNeedsEvidence, NothingApplied
<1>3. ASSUME UNCHANGED <<evidence, started, effect>>,
             effect.certainty # "none" => send.number <= send'.number,
             effect.certainty = "not_applied" => Until <= UntilNext,
             UntilNext \in Nat, send'.number \in Nat
      PROVE  EvidenceFirst' /\ RedispatchNeedsEvidence'
  <2>1. Until \in Nat
    BY <1>1
  <2>2. effect'.certainty # "none" => effect'.attempt <= send'.number
    BY <1>1, <1>3 DEF EvidenceFirst
  <2>3. effect'.certainty = "not_applied" => Says(effect'.attempt, UntilNext)
    BY <1>1, <1>3, <2>1 DEF EvidenceFirst, NothingApplied
  <2> QED BY <1>2, <1>3, <2>2, <2>3
<1>4. ASSUME UNCHANGED <<evidence, started, effect, send>>
      PROVE  EvidenceFirst' /\ RedispatchNeedsEvidence'
  BY <1>1, <1>3, <1>4
<1>5. ASSUME NEW b \in Number, NEW observation \in Observation,
             NEW source \in {"provider_response", "provider_lookup", "worker_loss_after_fence"},
             Record(b, source, observation), UNCHANGED started,
             effect.certainty # "none", send'.number = send.number,
             observation = "not_applied" =>
               source # "worker_loss_after_fence" /\ b = send.number /\ send'.attempt = "none"
      PROVE  EvidenceFirst' /\ RedispatchNeedsEvidence'
  <2>1. effect'.certainty = observation /\ effect'.attempt = effect.attempt
    BY <1>1, <1>5 DEF Record, TypeOK
  <2>2. evidence \subseteq evidence'
    BY <1>5 DEF Record
  <2>3. effect'.attempt <= send'.number
    BY <1>1, <1>5, <2>1 DEF EvidenceFirst
  <2>4. ASSUME observation = "not_applied" PROVE Says(effect'.attempt, UntilNext)
    <3> DEFINE row == [basis |-> b, source |-> source, classification |-> observation]
    <3>1. /\ row \in evidence' /\ row.basis = b
          /\ row.classification = observation /\ row.source = source
      BY <1>5 DEF Record
    <3>2. effect'.attempt <= row.basis /\ row.basis < UntilNext
      BY <1>1, <1>5, <2>3, <2>4, <3>1
    <3> HIDE DEF row
    <3> QED BY <1>5, <2>4, <3>1, <3>2
  <2> QED BY <1>2, <1>5, <2>1, <2>2, <2>3, <2>4 DEF Observation
<1>6. CASE Reviewer \/ Drafter
  <2>1. CASE Cancel
    <3>1. send'.number = send.number /\ effect.certainty = "none"
      BY <1>1, <2>1, RowFields DEF Cancel, DispatchBoundaryCrossed, Closed
    <3> QED BY <1>1, <1>3, <2>1, <3>1 DEF Cancel
  <2>2. ASSUME NEW d \in DOMAIN drafts, NEW w \in DOMAIN drafts, Approve(d, w)
        PROVE  EvidenceFirst' /\ RedispatchNeedsEvidence'
    <3>1. grant.state = "none"
      BY <2>2 DEF Approve, Accepts, IInv, OneReview
    <3>2. effect.certainty = "none"
      BY <1>1, <3>1 DEF AuthorityFirst
    <3>3. send'.number = 0 /\ send'.attempt = "none"
      BY <1>1, <2>2, RowFields DEF Approve
    <3> QED BY <1>1, <1>3, <2>2, <3>2, <3>3 DEF Approve
  <2> HIDE DEF Until, UntilNext, Says
  <2> QED BY <1>4, <1>6, <2>1, <2>2 DEF Reviewer, Drafter, Revoke, DeliverDraft, RequestRevision,
             PublishDraft, FailDraft
<1>7. CASE ClaimSend
  <2>1. send'.number = send.number + 1 /\ send.attempt = "none" /\ send'.attempt = "live"
    BY <1>1, <1>7, RowFields DEF ClaimSend, Claimable
  <2> QED BY <1>1, <1>3, <1>7, <2>1 DEF ClaimSend
<1>8. CASE LapseSend
  <2>1. send'.number = send.number /\ send.attempt = "live" /\ send'.attempt = "lapsed"
    BY <1>1, <1>8, RowFields DEF LapseSend
  <2> QED BY <1>1, <1>3, <1>8, <2>1 DEF LapseSend
<1>9. CASE RecoverSend
  <2>1. /\ RetriedOrFailed(send).number = send.number /\ RetriedOrFailed(send).attempt = "none"
        /\ Deferred(send).number = send.number /\ Deferred(send).attempt = "none"
        /\ send.number \in Number
    BY <1>1, <1>9, RowFields DEF RecoverSend, RetriedOrFailed, RowOK, StepRow, Number
  <2>2. CASE effect.certainty = "none"
    BY <1>1, <1>3, <1>9, <2>1, <2>2 DEF RecoverSend
  <2>3. CASE effect.certainty # "none"
    <3>1. Record(send.number, "worker_loss_after_fence", "uncertain")
          /\ send' = Deferred(send) /\ UNCHANGED started
      BY <1>9, <2>3 DEF RecoverSend, AfterLoss
    <3> HIDE DEF Until, UntilNext, Says
    <3> QED BY <1>5, <2>1, <2>3, <3>1 DEF Observation
  <2> QED BY <2>2, <2>3
<1>10. ASSUME NEW n \in Number, AuthorizeDispatch(n)
       PROVE  EvidenceFirst' /\ RedispatchNeedsEvidence'
  <2>1. /\ n = send.number /\ send.attempt = "live" /\ UNCHANGED <<send, evidence>>
        /\ started' = started \cup {n}
        /\ effect'.certainty = "dispatching" /\ effect'.attempt = n
        /\ effect.certainty \in {"none", "not_applied"}
    BY <1>1, <1>10 DEF AuthorizeDispatch, Current, SafeToDispatch
  <2>2. \A m \in started : m <= n /\ (m < n => NothingApplied(m, n))
    BY <1>1, <2>1 DEF EvidenceFirst, NothingApplied
  <2>3. EvidenceFirst'
    BY <1>1, <2>1, <2>2 DEF EvidenceFirst
  <2>4. ASSUME NEW m \in started', NEW k \in started', m < k
        PROVE  NothingApplied(m, k)
    <3> m \in Nat /\ k \in Nat /\ n \in Nat
      BY <1>1, <2>1
    <3>1. CASE m \in started /\ k \in started
      BY <1>1, <2>4, <3>1 DEF RedispatchNeedsEvidence, NothingApplied
    <3>2. CASE m \in started /\ k = n
      BY <2>2, <2>4, <3>2
    <3>3. m # n
      BY <2>1, <2>2, <2>4
    <3> QED BY <2>1, <2>4, <3>1, <3>2, <3>3
  <2>5. RedispatchNeedsEvidence'
    BY <2>1, <2>4 DEF RedispatchNeedsEvidence, NothingApplied
  <2> QED BY <2>3, <2>5
<1>11. ASSUME NEW n \in Number, AcceptEmail(n)
       PROVE  EvidenceFirst' /\ RedispatchNeedsEvidence'
  <2>1. /\ sender[n] \in Observation /\ n = send.number /\ effect.certainty # "none"
        /\ send' = AfterResponse(send, sender[n]) /\ UNCHANGED started
        /\ Record(n, "provider_response", sender[n])
    BY <1>11 DEF AcceptEmail, Current
  <2>2. send'.number = send.number /\ send'.attempt = "none"
    BY <1>1, <2>1, RowFields DEF AfterResponse, RetriedOrFailed, Observation
  <2> HIDE DEF Until, UntilNext, Says
  <2> QED BY <1>5, <2>1, <2>2
<1>12. ASSUME NEW b \in Number, AcceptRecon(b)
       PROVE  EvidenceFirst' /\ RedispatchNeedsEvidence'
  <2>1. effect.certainty # "none"
    BY <1>1, <1>12 DEF AcceptRecon, RowsOK, RowOK, AuthorityFirst
  <2>2. lookup[b] \in Observation /\ Record(b, "provider_lookup", lookup[b]) /\ UNCHANGED started
    BY <1>1, <1>12 DEF AcceptRecon, TypeOK
  <2>3. CASE lookup[b] = "uncertain"
    <3>1. UNCHANGED send
      BY <1>12, <2>3 DEF AcceptRecon
    <3> HIDE DEF Until, UntilNext, Says
    <3> QED BY <1>5, <2>1, <2>2, <2>3, <3>1
  <2>4. CASE lookup[b] # "uncertain"
    <3>1. b = send.number /\ send' = AfterResponse(send, lookup[b])
      BY <1>1, <1>12, <2>4 DEF AcceptRecon, RowOK, Number
    <3>2. send'.number = send.number /\ send'.attempt = "none"
      BY <1>1, <2>2, <2>4, <3>1, RowFields DEF AfterResponse, RetriedOrFailed, Observation
    <3> HIDE DEF Until, UntilNext, Says
    <3> QED BY <1>5, <2>1, <2>2, <3>1, <3>2
  <2> QED BY <2>3, <2>4
<1> HIDE DEF Until, UntilNext, Says
<1>13. CASE Sending
  BY <1>4, <1>7, <1>8, <1>9, <1>10, <1>11, <1>13 DEF Sending, Dispatch, Timeout, LoseWorker
<1>14. CASE Reconciling
  BY <1>4, <1>12, <1>14 DEF Reconciling, ClaimRecon, LapseRecon, RecoverRecon, Lookup
<1>15. CASE Provider
  BY <1>4, <1>15 DEF Provider, ProviderHandles, RequestLost, ProviderSettles
<1> QED BY <1>6, <1>13, <1>14, <1>15 DEF Next

-----------------------------------------------------------------------------
LEMMA InitIInv == Init => IInv
<1> SUFFICES ASSUME Init PROVE IInv
  OBVIOUS
<1> USE BudgetAssumption DEF Init
<1>1. 0 \in 0..MaxAttempts /\ 0 \in Key /\ 0 < MaxAttempts
  BY DEF Key
<1>2. AbsentStep \in StepRow /\ RowOK(AbsentStep)
  BY <1>1 DEF AbsentStep, StepRow, RowOK, Claimable
<1>3. TypeOK
  <2>1. drafts \in Seq(Draft) /\ mailed \in Seq(Nat)
    OBVIOUS
  <2>2. grant \in [state : {"none", "usable", "consumed", "invalidated"}, draft : Nat]
    OBVIOUS
  <2>3. effect \in [certainty : {"none", "dispatching"} \cup Observation, attempt : 0..MaxAttempts]
    BY <1>1
  <2> QED BY <1>2, <2>1, <2>2, <2>3 DEF TypeOK
<1>4. RowsOK
  BY <1>2 DEF RowsOK
<1>5. OneReview /\ ApprovedOnly
  BY DEF OneReview, ApprovedOnly
<1>6. AuthorityFirst
  BY <1>1 DEF AuthorityFirst, AbsentStep
<1>7. OneRecord /\ TrueReports
  BY <1>1 DEF OneRecord, TrueReports
<1>8. EvidenceFirst /\ RedispatchNeedsEvidence
  BY DEF EvidenceFirst, RedispatchNeedsEvidence
<1> QED BY <1>3, <1>4, <1>5, <1>6, <1>7, <1>8 DEF IInv

LEMMA NextIInv == IInv /\ [Next]_vars => IInv'
<1> SUFFICES ASSUME IInv, [Next]_vars PROVE IInv'
  OBVIOUS
<1>1. CASE Next
  <2>1. TypeOK' /\ RowsOK'
    BY <1>1, TypesKept, StepsKept DEF IInv
  <2> QED BY <1>1, <2>1, OneReviewKept, AuthorityFirstKept, OneRecordKept, TrueReportsKept,
             ApprovedOnlyKept, EvidenceFirstKept DEF IInv
<1>2. CASE UNCHANGED vars
  BY <1>2 DEF vars, review, outside, IInv, TypeOK, RowsOK, OneReview, AuthorityFirst, OneRecord,
              TrueReports, ApprovedOnly, EvidenceFirst, NothingApplied, RedispatchNeedsEvidence
<1> QED BY <1>1, <1>2

LEMMA IInvAlways == Spec => []IInv
BY InitIInv, NextIInv, PTL DEF Spec

(* However many Attempts cross the fence, and however late their requests  *)
(* arrive, the policyholder gets at most one email.                        *)
THEOREM EmailIsSentOnce == Spec => []MailedAtMostOnce
<1>1. IInv => MailedAtMostOnce
  BY DEF IInv, OneRecord, MailedAtMostOnce
<1> QED BY <1>1, IInvAlways, PTL

(* What is sent is a draft that was delivered to its reviewer and approved.*)
THEOREM ApprovedDraftIsSent == Spec => []OnlyTheApprovedDraftIsMailed
<1>1. IInv => OnlyTheApprovedDraftIsMailed
  BY DEF IInv, ApprovedOnly, Approved, OnlyTheApprovedDraftIsMailed
<1> QED BY <1>1, IInvAlways, PTL

(* A second dispatch rests on the provider's own word about the first.     *)
THEOREM RedispatchIsBacked == Spec => []RedispatchNeedsEvidence
<1>1. IInv => RedispatchNeedsEvidence
  BY DEF IInv
<1> QED BY <1>1, IInvAlways, PTL

-----------------------------------------------------------------------------
(* The refinement: which step of the promise a step is.                    *)
Mapped == [Abstract!Next]_<<authority, sent, verdict>>

LEMMA SameMeaning ==
  ASSUME UNCHANGED <<grant, mailed>>, lifecycle' = "completed" <=> lifecycle = "completed",
         send'.state = "failed" <=> send.state = "failed"
  PROVE  Mapped
BY DEF Mapped, authority, sent, verdict

(* An answer about the email settles the Step, defers it or retries it.    *)
LEMMA Concludes ==
  ASSUME lifecycle = "active", send.state = "pending", UNCHANGED <<grant, mailed>>,
         grant.state \in {"usable", "consumed", "invalidated"},
         lifecycle' \in {"active", "completed"},
         lifecycle' = "completed" => send'.state = "succeeded" /\ mailed # <<>>
  PROVE  Mapped
<1>1. /\ verdict = "open" /\ authority # "none" /\ UNCHANGED <<authority, sent>>
      /\ verdict' \in {"open", "confirmed", "refused"}
      /\ verdict' = "confirmed" => sent
  BY DEF verdict, authority, sent
<1>2. CASE verdict' = "open"
  BY <1>1, <1>2 DEF Mapped
<1>3. CASE verdict' = "confirmed"
  BY <1>1, <1>3 DEF Mapped, Abstract!Next, Abstract!Confirm
<1>4. CASE verdict' = "refused"
  BY <1>1, <1>4 DEF Mapped, Abstract!Next, Abstract!Refuse
<1> QED BY <1>1, <1>2, <1>3, <1>4

LEMMA StepIsMapped == IInv /\ [Next]_vars => Mapped
<1> SUFFICES ASSUME IInv, [Next]_vars PROVE Mapped
  OBVIOUS
<1>1. /\ send \in StepRow /\ RowOK(send) /\ AuthorityFirst /\ OneRecord /\ TrueReports
      /\ grant.state \in {"none", "usable", "consumed", "invalidated"}
      /\ effect.certainty \in {"none", "dispatching"} \cup Observation
  BY DEF IInv, TypeOK, RowsOK
<1>2. CASE UNCHANGED vars
  BY <1>2, SameMeaning DEF vars, outside
<1>3. CASE Revoke \/ Cancel
  <2>1. UNCHANGED <<sent, verdict>>
    BY <1>3, RowFields, <1>1 DEF Revoke, Cancel, outside, sent, verdict, Closed
  <2>2. \/ authority' = authority
        \/ authority = "granted" /\ authority' = "withdrawn"
    <3>1. grant'.state = IF grant.state = "usable" THEN "invalidated" ELSE grant.state
      BY <1>3 DEF Revoke, Cancel, Withdrawn, TypeOK, IInv
    <3>2. CASE grant.state = "usable"
      BY <3>1, <3>2 DEF authority
    <3>3. CASE grant.state # "usable"
      BY <3>1, <3>3 DEF authority
    <3> QED BY <3>2, <3>3
  <2> QED BY <2>1, <2>2 DEF Mapped, Abstract!Next, Abstract!Withdraw
<1>4. ASSUME NEW d \in DOMAIN drafts, NEW w \in DOMAIN drafts, Approve(d, w) PROVE Mapped
  <2>1. grant.state = "none" /\ lifecycle = "active"
    BY <1>4 DEF Approve, Accepts, IInv, OneReview
  <2>2. send.state = "absent" /\ send'.state = "pending"
    BY <1>1, <1>4, <2>1, RowFields DEF Approve, AuthorityFirst
  <2>3. authority = "none" /\ authority' = "granted" /\ UNCHANGED <<sent, verdict>>
    BY <1>4, <2>1, <2>2 DEF Approve, outside, authority, sent, verdict
  <2> QED BY <2>3 DEF Mapped, Abstract!Next, Abstract!Grant
<1>5. ASSUME NEW d \in DOMAIN drafts, NEW w \in DOMAIN drafts,
             DeliverDraft(d) \/ RequestRevision(d, w)
      PROVE  Mapped
  BY <1>5, SameMeaning DEF DeliverDraft, RequestRevision, outside
<1>6. CASE Drafter
  BY <1>6, SameMeaning DEF Drafter, PublishDraft, FailDraft, outside
<1>7. CASE ClaimSend \/ LapseSend
  <2>1. send'.state = send.state
    <3>1. CASE ClaimSend
      BY <1>1, <3>1, RowFields DEF ClaimSend
    <3>2. CASE LapseSend
      BY <1>1, <3>2, RowFields DEF LapseSend
    <3> QED BY <1>7, <3>1, <3>2
  <2> QED BY <1>7, <2>1, SameMeaning DEF ClaimSend, LapseSend, outside
<1>8. CASE RecoverSend
  BY <1>1, <1>8, Concludes DEF RecoverSend, RowOK, AuthorityFirst, outside
<1>9. ASSUME NEW n \in Number, AuthorizeDispatch(n) PROVE Mapped
  <2>1. grant.state \in {"usable", "consumed"} /\ grant'.state = "consumed"
    BY <1>1, <1>9 DEF AuthorizeDispatch, GrantAuthorizes, AuthorityFirst, IInv, TypeOK
  <2>2. send.state = "pending" /\ lifecycle = "active"
    BY <1>1, <1>9 DEF AuthorizeDispatch, Current, RowOK
  <2>3. verdict = "open" /\ UNCHANGED <<sent, verdict>>
    BY <1>9, <2>2 DEF AuthorizeDispatch, outside, sent, verdict
  <2>4. authority \in {"granted", "spent"} /\ authority' = "spent"
    BY <2>1 DEF authority
  <2> QED BY <2>3, <2>4 DEF Mapped, Abstract!Next, Abstract!Spend
<1>10. ASSUME NEW n \in Number, Dispatch(n) \/ Timeout(n) \/ LoseWorker(n) PROVE Mapped
  BY <1>10, SameMeaning DEF Dispatch, Timeout, LoseWorker, outside
<1>11. ASSUME effect'.certainty = "applied" => mailed # <<>>, CompleteIfReady,
              lifecycle = "active", send.state = "pending", UNCHANGED <<grant, mailed>>
       PROVE  Mapped
  <2>1. lifecycle' \in {"active", "completed"}
        /\ (lifecycle' = "completed" => send'.state = "succeeded" /\ mailed # <<>>)
    BY <1>11 DEF CompleteIfReady, IsComplete
  <2> QED BY <1>1, <1>11, <2>1, Concludes DEF AuthorityFirst
<1>12. ASSUME NEW n \in Number, AcceptEmail(n) PROVE Mapped
  <2>1. effect'.certainty = "applied" => mailed # <<>>
    BY <1>1, <1>12 DEF AcceptEmail, Record, IInv, TypeOK, TrueReports
  <2> QED BY <1>1, <1>11, <1>12, <2>1 DEF AcceptEmail, Current, RowOK, outside
<1>13. ASSUME NEW b \in Number, ClaimRecon(b) \/ LapseRecon(b) \/ RecoverRecon(b) \/ Lookup(b)
       PROVE  Mapped
  BY <1>13, SameMeaning DEF ClaimRecon, LapseRecon, RecoverRecon, Lookup, outside
<1>14. ASSUME NEW b \in Number, AcceptRecon(b) PROVE Mapped
  <2>1. effect'.certainty = lookup[b]
    BY <1>14 DEF AcceptRecon, Record, IInv, TypeOK
  <2>2. CASE lookup[b] = "uncertain"
    <3>1. UNCHANGED <<send, lifecycle, grant, mailed>>
      BY <1>14, <2>1, <2>2 DEF AcceptRecon, CompleteIfReady, IsComplete, outside
    <3> QED BY <3>1, SameMeaning
  <2>3. CASE lookup[b] # "uncertain"
    BY <1>1, <1>11, <1>14, <2>1, <2>3 DEF AcceptRecon, TrueReports, outside
  <2> QED BY <2>2, <2>3
<1>15. ASSUME NEW n \in Number, ProviderHandles(n) \/ RequestLost(n) PROVE Mapped
  <2>1. grant.state = "consumed" /\ UNCHANGED <<grant, lifecycle, send>>
    BY <1>1, <1>15 DEF ProviderHandles, RequestLost, AuthorityFirst
  <2>2. CASE UNCHANGED mailed
    BY <2>1, <2>2, SameMeaning
  <2>3. CASE ~UNCHANGED mailed
    <3>1. records[0] # "applied" /\ mailed' = Append(mailed, grant.draft)
      BY <1>15, <2>3 DEF ProviderHandles, RequestLost, IdempotencyKey
    <3>2. ~sent /\ sent'
      BY <1>1, <3>1 DEF sent, OneRecord
    <3>3. authority = "spent" /\ UNCHANGED <<authority, verdict>>
      BY <2>1 DEF authority, verdict
    <3> QED BY <3>2, <3>3 DEF Mapped, Abstract!Next, Abstract!Send
  <2> QED BY <2>2, <2>3
<1>16. ASSUME NEW key \in Key, ProviderSettles(key) PROVE Mapped
  <2>1. key = 0 /\ records[0] = "pending" /\ UNCHANGED <<grant, lifecycle, send>>
    BY <1>1, <1>16 DEF ProviderSettles, OneRecord
  <2>2. grant.state = "consumed"
    BY <1>1, <2>1 DEF AuthorityFirst
  <2>3. CASE UNCHANGED mailed
    BY <2>1, <2>3, SameMeaning
  <2>4. CASE mailed' = Append(mailed, grant.draft)
    <3>1. ~sent /\ sent'
      BY <1>1, <2>1, <2>4 DEF sent, OneRecord
    <3>2. authority = "spent" /\ UNCHANGED <<authority, verdict>>
      BY <2>1, <2>2 DEF authority, verdict
    <3> QED BY <3>1, <3>2 DEF Mapped, Abstract!Next, Abstract!Send
  <2> QED BY <1>16, <2>3, <2>4 DEF ProviderSettles
<1>17. CASE Reviewer
  BY <1>3, <1>4, <1>5, <1>17 DEF Reviewer
<1>18. CASE Sending
  BY <1>7, <1>8, <1>9, <1>10, <1>12, <1>18 DEF Sending
<1>19. CASE Reconciling
  BY <1>13, <1>14, <1>19 DEF Reconciling
<1>20. CASE Provider
  BY <1>15, <1>16, <1>20 DEF Provider
<1> QED BY <1>2, <1>6, <1>17, <1>18, <1>19, <1>20 DEF Next

(* The application keeps its promise about the email: it is sent at most   *)
(* once, on authority that was granted and not withdrawn before it was     *)
(* spent, and confirmed only when it was sent.                             *)
THEOREM EffectIsImplemented == Spec => ImplementsApprovedEffect
<1>1. Init => Abstract!Init
  BY DEF Init, AbsentStep, Abstract!Init, authority, sent, verdict
<1>2. Mapped => [Abstract!Next]_(Abstract!vars)
  BY DEF Mapped, Abstract!vars
<1> QED BY <1>1, <1>2, StepIsMapped, IInvAlways, PTL
       DEF Spec, ImplementsApprovedEffect, Abstract!Spec

=============================================================================
