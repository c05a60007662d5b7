----------------------------- MODULE Verification -----------------------------
(***************************************************************************)
(* Step-up verification of the Example Insurance application: a Party asks *)
(* for protected renewal details; the request waits for a Challenge whose  *)
(* code is delivered to the Party's email identifier by a Workflow of its  *)
(* own; the right code resumes the waiting Command, whose details are then *)
(* delivered to the protected Thread, and opens a Session that spares the  *)
(* next requests the code.                                                 *)
(*                                                                         *)
(* One Party asks, on one protected Thread, about several renewals.  A     *)
(* Command that provisions, requests or revokes first reads which          *)
(* Challenges are pending, without a lock, and then waits for the locks of *)
(* their Instances and of the renewal's Instance, under which it does the  *)
(* rest: two actions, and anything may happen in between.  A submitted     *)
(* code, a claim and an Attempt's result are decided under locks taken     *)
(* first and are one action each.                                          *)
(*                                                                         *)
(* A request names the Challenge it starts: both are indexed by the        *)
(* Command.  Identifiers and memberships are numbered in the order they    *)
(* are created; only the newest can be current.                            *)
(***************************************************************************)
EXTENDS Integers, FiniteSets

CONSTANTS
  Workflows,        \* the protected renewals, all of one Party and Thread
  Commands,         \* identities of requests for protected details
  Organizations,    \* the organizations the Party can be a member of
  Clients,          \* transactions that can be open at the same time
  MaxAttempts,      \* VERIFICATION_ATTEMPT_RETRY_POLICY.max_attempts
  MaxFailedCodes,   \* MAX_FAILED_CODE_ATTEMPTS
  MaxIdentifiers,   \* bound on the email identifiers the Party ever has
  MaxMemberships    \* bound on its memberships of one organization

ASSUME BudgetAssumption ==
  MaxAttempts \in Nat \ {0} /\ MaxFailedCodes \in Nat \ {0}
ASSUME BoundAssumption == MaxIdentifiers \in Nat /\ MaxMemberships \in Nat

VARIABLES
  identifier,   \* the newest party_identifiers row
  membership,   \* [Organization -> the newest organization_memberships row]
  role,         \* [Workflow -> the membership its current broker role is held under]
  renewal,      \* [Workflow -> what the renewal's own rows say]
  command,      \* [Command -> its protected_commands row]
  challenge,    \* [Command -> its verification_challenges row]
  carrier,      \* [Command -> the Workflow that delivers its code]
  session,      \* [Command -> the session its Challenge established]
  disclosures,  \* [Command -> Deliveries of protected details created for it]
  client,       \* [Client -> the transaction it is in]
  aborted       \* renewals whose provisioning ended in a database error

authority == <<identifier, membership, role>>
outcomes == <<command, challenge>>
vars == <<authority, renewal, outcomes, carrier, session, disclosures, client, aborted>>

Target == {"identifier", "membership", "workflow_role"}
NoMembership == [number |-> 0, current |-> FALSE]
OpenRenewal == [active |-> TRUE, revoked |-> FALSE, granted |-> TRUE]
NoCommand == [state |-> "absent", outcome |-> "none"]
NoRole == [organization |-> "none", number |-> 0]

NoChallenge ==
  [state |-> "absent", workflow |-> "none", identifier |-> 0, failed |-> 0, expired |-> FALSE]
NoCarrier == [lifecycle |-> "absent", number |-> 0, lease |-> "none", code |-> "none"]
Idle == [kind |-> "idle", workflow |-> "none", about |-> "none", pending |-> {}]

-----------------------------------------------------------------------------
(* Authority and its check.                                                *)

(* A current broker role for w over a current membership.                  *)
BrokerAuthority(w) ==
  /\ role[w] # NoRole
  /\ membership[role[w].organization] = [number |-> role[w].number, current |-> TRUE]

\* Mutant: the policy forgets that roles and memberships can be revoked.
Mutant_AuthorizeWithoutRole(w) ==
  IF ~renewal[w].active THEN "workflow_closed"
  ELSE IF ~identifier.current THEN "identifier_revoked"
  ELSE IF ~renewal[w].granted THEN "approval_required"
  ELSE IF renewal[w].revoked THEN "authority_revoked"
  ELSE "authorized"

(* VerificationPolicy.authorize on the rows lock_authority locks.          *)
Authorize(w) ==
  IF ~renewal[w].active THEN "workflow_closed"
  ELSE IF ~identifier.current THEN "identifier_revoked"
  ELSE IF ~renewal[w].granted THEN "approval_required"
  ELSE IF renewal[w].revoked \/ ~BrokerAuthority(w) THEN "authority_revoked"
  ELSE "authorized"

(* A Session of the Party on the Thread, over a current identifier.        *)
ActiveSession ==
  /\ identifier.current
  /\ \E s \in Commands : session[s] = "live" /\ challenge[s].identifier = identifier.number

-----------------------------------------------------------------------------
(* Terminal resolution of Challenges and of the Commands that wait on them *)

TerminalState(resolution) ==
  CASE resolution = "verification_expired" -> "expired"
    [] resolution = "verification_delivery_failed" -> "delivery_failed"
    [] resolution = "verification_attempts_exhausted" -> "attempts_exhausted"
    [] OTHER -> "rejected"

(* The Challenges after those in DOMAIN ending are resolved as it says.    *)
Challenges(ending) ==
  [c \in Commands |->
    IF c \in DOMAIN ending /\ ending[c] # "none" /\ challenge[c].state = "pending"
    THEN [challenge[c] EXCEPT !.state = TerminalState(ending[c])]
    ELSE challenge[c]]

\* Mutant: only the Challenge is resolved, and its Command waits on.
Mutant_CommandsKept(ending) == command

CommandsResolved(ending) ==
  [c \in Commands |->
    IF c \in DOMAIN ending /\ ending[c] # "none" /\ command[c].state = "waiting"
    THEN [state |-> "rejected", outcome |-> ending[c]]
    ELSE command[c]]

Resolve(ending) ==
  /\ challenge' = Challenges(ending)
  /\ command' = CommandsResolved(ending)

All(set, resolution) == [c \in set |-> resolution]

(* reconcile_pending without a terminal outcome.                           *)
Reconciled(pending) ==
  [c \in pending |->
    IF challenge[c].expired THEN "verification_expired"
    ELSE IF carrier[c].code = "failed" THEN "verification_delivery_failed"
    ELSE "none"]

PendingOf(w) == {c \in Commands : challenge[c].state = "pending" /\ challenge[c].workflow = w}

-----------------------------------------------------------------------------
(* Commands that begin by reading the pending Challenges.                  *)

Begin(t, kind, w, about) ==
  /\ client[t].kind = "idle"
  /\ client' = [client EXCEPT ![t] =
       [kind |-> kind, workflow |-> w, about |-> about, pending |-> PendingOf(w)]]
  /\ UNCHANGED <<authority, renewal, outcomes, carrier, session, disclosures, aborted>>

(* A Command identity is in one transaction at a time, and runs once.      *)
BeginRequest(t, w, c) ==
  /\ command[c].state = "absent"
  /\ \A u \in Clients : client[u].about # c
  /\ Begin(t, "request", w, c)

BeginProvision(t, w, organization) == Begin(t, "provision", w, organization)
BeginRevoke(t, w, target) == Begin(t, "revoke", w, target)

End(t) == client' = [client EXCEPT ![t] = Idle]

(* Refused: pending Challenges end with it unless only the approval lacks. *)
RefuseRequest(t) ==
  LET verdict == Authorize(client[t].workflow) IN
  /\ client[t].kind = "request" /\ verdict # "authorized"
  /\ Resolve(All(IF verdict = "approval_required" THEN {} ELSE client[t].pending, verdict))
  /\ End(t)
  /\ UNCHANGED <<authority, renewal, carrier, session, disclosures, aborted>>

(* Authorized at once under an active Session.                             *)
AuthorizeRequest(t) ==
  LET c == client[t].about
      ending == Reconciled(client[t].pending) IN
  /\ client[t].kind = "request"
  /\ Authorize(client[t].workflow) = "authorized" /\ ActiveSession
  /\ challenge' = Challenges(ending)
  /\ command' = [CommandsResolved(ending) EXCEPT
                   ![c] = [state |-> "authorized", outcome |-> "authorized"]]
  /\ disclosures' = [disclosures EXCEPT ![c] = @ + 1]
  /\ End(t)
  /\ UNCHANGED <<authority, renewal, carrier, session, aborted>>

(* Otherwise the Command waits for a new Challenge to the newest           *)
(* identifier, and the Workflow that delivers its code starts.             *)
ChallengeRequest(t) ==
  LET c == client[t].about
      ending == Reconciled(client[t].pending) IN
  /\ client[t].kind = "request"
  /\ Authorize(client[t].workflow) = "authorized" /\ ~ActiveSession
  /\ challenge' = [Challenges(ending) EXCEPT ![c] =
       [NoChallenge EXCEPT !.state = "pending", !.workflow = client[t].workflow,
                           !.identifier = identifier.number]]
  /\ command' = [CommandsResolved(ending) EXCEPT ![c] = [state |-> "waiting", outcome |-> "none"]]
  /\ carrier' = [carrier EXCEPT ![c] = [NoCarrier EXCEPT !.lifecycle = "active"]]
  /\ End(t)
  /\ UNCHANGED <<authority, renewal, session, disclosures, aborted>>

(* Another email is provisioned, or none is current: a new identifier.     *)
Provisioned(replace) ==
  IF identifier.current /\ ~replace THEN identifier
  ELSE [number |-> identifier.number + 1, current |-> TRUE]

Member(o) ==
  IF membership[o].current THEN membership[o]
  ELSE [number |-> membership[o].number + 1, current |-> TRUE]

RoleOf(o) == [organization |-> o, number |-> Member(o).number]

(* one_current_workflow_role: any other role not revoked is in the way,     *)
(* even one whose membership has been revoked.                             *)
RoleConflict(w, o) == role[w] \notin {NoRole, RoleOf(o)}

\* Mutant: provisioning leaves the Challenges of the old identifier alone.
Mutant_NothingSuperseded(pending, number) == All({}, "none")

(* reconcile_superseded_identifier.                                        *)
Superseded(pending, number) ==
  All({c \in pending : challenge[c].identifier # number}, "identifier_revoked")

Provision(t, replace) ==
  LET w == client[t].workflow
      o == client[t].about IN
  /\ client[t].kind = "provision" /\ ~RoleConflict(w, o)
  /\ Provisioned(replace).number <= MaxIdentifiers /\ Member(o).number <= MaxMemberships
  /\ identifier' = Provisioned(replace)
  /\ membership' = [membership EXCEPT ![o] = Member(o)]
  /\ role' = [role EXCEPT ![w] = RoleOf(o)]
  /\ Resolve(Superseded(client[t].pending, Provisioned(replace).number))
  /\ End(t)
  /\ UNCHANGED <<renewal, carrier, session, disclosures, aborted>>

(* The INSERT of the role violates the index: everything is rolled back.   *)
AbortProvision(t) ==
  /\ client[t].kind = "provision" /\ RoleConflict(client[t].workflow, client[t].about)
  /\ aborted' = aborted \cup {client[t].workflow}
  /\ End(t)
  /\ UNCHANGED <<authority, renewal, outcomes, carrier, session, disclosures>>

(* What is no longer current after target is revoked for w.                *)
Revoked(target, w) ==
  CASE target = "identifier" ->
         /\ identifier' = [identifier EXCEPT !.current = FALSE]
         /\ UNCHANGED <<membership, role>>
    [] target = "membership" ->
         /\ IF BrokerAuthority(w)
            THEN /\ membership' = [membership EXCEPT ![role[w].organization].current = FALSE]
                 /\ role' = [role EXCEPT ![w] = NoRole]
            ELSE UNCHANGED <<membership, role>>
         /\ UNCHANGED identifier
    [] target = "workflow_role" ->
         /\ role' = [role EXCEPT ![w] = NoRole]
         /\ UNCHANGED <<identifier, membership>>

Revoke(t) ==
  LET target == client[t].about IN
  /\ client[t].kind = "revoke"
  /\ Revoked(target, client[t].workflow)
  /\ Resolve(All(client[t].pending,
       IF target = "identifier" THEN "identifier_revoked" ELSE "authority_revoked"))
  /\ End(t)
  /\ UNCHANGED <<renewal, carrier, session, disclosures, aborted>>

-----------------------------------------------------------------------------
(* Submitted codes.                                                        *)

Pending(c) == challenge[c].state = "pending"

(* The Challenge has expired, or its code could not be delivered.          *)
SubmitTooLate(c) ==
  /\ Pending(c)
  /\ Reconciled({c})[c] # "none"
  /\ Resolve(Reconciled({c}))
  /\ UNCHANGED <<authority, renewal, carrier, session, disclosures, client, aborted>>

\* Mutant: a code is taken again after its Challenge was accepted.
Mutant_AnswerableTwice(c) ==
  /\ challenge[c].state \in {"pending", "accepted"}
  /\ ~challenge[c].expired /\ carrier[c].code = "delivered"

Answerable(c) == Pending(c) /\ ~challenge[c].expired /\ carrier[c].code = "delivered"

(* record_failed_code.                                                     *)
FailedCode(row) ==
  [row EXCEPT !.failed = @ + 1,
              !.state = IF row.failed + 1 >= MaxFailedCodes THEN "attempts_exhausted" ELSE @]

SubmitWrong(c) ==
  LET after == FailedCode(challenge[c]) IN
  /\ Answerable(c)
  /\ challenge' = [challenge EXCEPT ![c] = after]
  /\ command' = IF after.state = "attempts_exhausted"
                THEN CommandsResolved(All({c}, "verification_attempts_exhausted"))
                ELSE command
  /\ UNCHANGED <<authority, renewal, carrier, session, disclosures, client, aborted>>

(* The right code, but the Command is no longer authorized.                *)
SubmitRejected(c) ==
  LET verdict == Authorize(challenge[c].workflow) IN
  /\ Answerable(c) /\ verdict # "authorized"
  /\ Resolve(All({c}, verdict))
  /\ UNCHANGED <<authority, renewal, carrier, session, disclosures, client, aborted>>

(* The right code: a Session, and the waiting Command resumes.             *)
SubmitAccepted(c) ==
  /\ Answerable(c) /\ Authorize(challenge[c].workflow) = "authorized"
  /\ challenge' = [challenge EXCEPT ![c].state = "accepted"]
  /\ session' = [session EXCEPT ![c] = "live"]
  /\ disclosures' = [disclosures EXCEPT ![c] = @ + 1]
  /\ command' = IF command[c].state = "waiting"
                THEN [command EXCEPT ![c] = [state |-> "authorized", outcome |-> "authorized"]]
                ELSE command
  /\ UNCHANGED <<authority, renewal, carrier, client, aborted>>

-----------------------------------------------------------------------------
(* The Workflow that delivers the code of c: one Step, claimed by workers. *)

ClaimCode(c) ==
  /\ carrier[c].lifecycle = "active" /\ carrier[c].lease = "none"
  /\ carrier[c].number < MaxAttempts
  /\ carrier' = [carrier EXCEPT ![c].number = @ + 1, ![c].lease = "live"]
  /\ UNCHANGED <<authority, renewal, outcomes, session, disclosures, client, aborted>>

Finished(c, lifecycle) == [carrier[c] EXCEPT !.lifecycle = lifecycle, !.lease = "none"]

Unsuitable(c) ==
  IF challenge[c].expired THEN "verification_expired"
  ELSE IF identifier # [number |-> challenge[c].identifier, current |-> TRUE]
  THEN "identifier_revoked"
  ELSE "none"

(* The Step fails and its Instance closes: nothing is sent.                *)
AcceptRefused(c) ==
  /\ carrier[c].lifecycle = "active" /\ carrier[c].lease = "live"
  /\ ~Pending(c) \/ Unsuitable(c) # "none"
  /\ carrier' = [carrier EXCEPT ![c] = Finished(c, "failed")]
  /\ Resolve(All({c}, IF Pending(c) THEN Unsuitable(c) ELSE "none"))
  /\ UNCHANGED <<authority, renewal, session, disclosures, client, aborted>>

(* The Step succeeds: a Delivery of the code to the identifier's Thread.   *)
AcceptCode(c) ==
  /\ carrier[c].lifecycle = "active" /\ carrier[c].lease = "live"
  /\ Pending(c) /\ Unsuitable(c) = "none"
  /\ carrier' = [carrier EXCEPT ![c] = [Finished(c, "completed") EXCEPT !.code = "pending"]]
  /\ UNCHANGED <<authority, renewal, outcomes, session, disclosures, client, aborted>>

(* The worker is lost, or its execution outlives the lease.                *)
LapseCode(c) ==
  /\ carrier[c].lease = "live"
  /\ carrier' = [carrier EXCEPT ![c].lease = "lapsed"]
  /\ UNCHANGED <<authority, renewal, outcomes, session, disclosures, client, aborted>>

GivenUp(c) == All({c}, "verification_delivery_failed")

\* Mutant: recovery only knows the retry.
Mutant_RecoverCode(c) ==
  /\ carrier[c].lifecycle = "active" /\ carrier[c].lease = "lapsed"
  /\ carrier[c].number < MaxAttempts
  /\ carrier' = [carrier EXCEPT ![c].lease = "none"]
  /\ UNCHANGED <<authority, renewal, outcomes, session, disclosures, client, aborted>>

RecoverCode(c) ==
  /\ carrier[c].lifecycle = "active" /\ carrier[c].lease = "lapsed"
  /\ \/ /\ carrier[c].number < MaxAttempts
        /\ carrier' = [carrier EXCEPT ![c].lease = "none"]
        /\ UNCHANGED outcomes
     \/ /\ carrier[c].number >= MaxAttempts
        /\ carrier' = [carrier EXCEPT ![c] = Finished(c, "failed")]
        /\ Resolve(GivenUp(c))
  /\ UNCHANGED <<authority, renewal, session, disclosures, client, aborted>>

(* The Delivery of the code reaches its Thread, or fails for good.         *)
DeliverCode(c) ==
  /\ carrier[c].code = "pending"
  /\ \E status \in {"delivered", "failed"} : carrier' = [carrier EXCEPT ![c].code = status]
  /\ UNCHANGED <<authority, renewal, outcomes, session, disclosures, client, aborted>>

-----------------------------------------------------------------------------
(* Time, and what happens to the renewals themselves.                      *)

ExpireChallenge(c) ==
  /\ Pending(c) /\ ~challenge[c].expired
  /\ challenge' = [challenge EXCEPT ![c].expired = TRUE]
  /\ UNCHANGED <<authority, renewal, command, carrier, session, disclosures, client, aborted>>

ExpireSession(c) ==
  /\ session[c] = "live"
  /\ session' = [session EXCEPT ![c] = "expired"]
  /\ UNCHANGED <<authority, renewal, outcomes, carrier, disclosures, client, aborted>>

(* The grant goes with the authority unless a dispatch has consumed it.    *)
RevokeRenewal(w, consumed) ==
  /\ renewal[w].active /\ ~renewal[w].revoked
  /\ renewal' = [renewal EXCEPT ![w].revoked = TRUE, ![w].granted = @ /\ consumed]
  /\ UNCHANGED <<authority, outcomes, carrier, session, disclosures, client, aborted>>

(* Completed, its grant consumed, or cancelled before that.                *)
CloseRenewal(w, completed) ==
  /\ renewal[w].active
  /\ completed => renewal[w].granted
  /\ renewal' = [renewal EXCEPT ![w].active = FALSE, ![w].granted = @ /\ completed]
  /\ UNCHANGED <<authority, outcomes, carrier, session, disclosures, client, aborted>>

-----------------------------------------------------------------------------
Init ==
  /\ identifier = [number |-> 0, current |-> FALSE]
  /\ membership = [o \in Organizations |-> NoMembership]
  /\ role = [w \in Workflows |-> NoRole]
  /\ renewal = [w \in Workflows |-> OpenRenewal]
  /\ command = [c \in Commands |-> NoCommand]
  /\ challenge = [c \in Commands |-> NoChallenge]
  /\ carrier = [c \in Commands |-> NoCarrier]
  /\ session = [c \in Commands |-> "none"]
  /\ disclosures = [c \in Commands |-> 0]
  /\ client = [t \in Clients |-> Idle]
  /\ aborted = {}

Transact(t) ==
  \/ \E w \in Workflows, c \in Commands : BeginRequest(t, w, c)
  \/ \E w \in Workflows, o \in Organizations : BeginProvision(t, w, o)
  \/ \E w \in Workflows, target \in Target : BeginRevoke(t, w, target)
  \/ RefuseRequest(t)
  \/ AuthorizeRequest(t)
  \/ ChallengeRequest(t)
  \/ \E replace \in BOOLEAN : Provision(t, replace)
  \/ AbortProvision(t)
  \/ Revoke(t)

Submit(c) ==
  SubmitTooLate(c) \/ SubmitWrong(c) \/ SubmitRejected(c) \/ SubmitAccepted(c)

Work(c) ==
  \/ ClaimCode(c)
  \/ AcceptRefused(c)
  \/ AcceptCode(c)
  \/ LapseCode(c)
  \/ RecoverCode(c)
  \/ DeliverCode(c)

Elsewhere ==
  \/ \E c \in Commands : ExpireChallenge(c) \/ ExpireSession(c)
  \/ \E w \in Workflows : \E b \in BOOLEAN : RevokeRenewal(w, b) \/ CloseRenewal(w, b)

Next ==
  \/ \E t \in Clients : Transact(t)
  \/ \E c \in Commands : Submit(c) \/ Work(c)
  \/ Elsewhere

Spec == Init /\ [][Next]_vars

(* The worker role recovers and claims on every tick, and no lease outlives *)
(* maximum_attempt_seconds; nobody has to answer or to submit a code.       *)
Fairness ==
  \A c \in Commands :
    WF_vars(ClaimCode(c)) /\ WF_vars(LapseCode(c)) /\ WF_vars(RecoverCode(c))

FairSpec == Spec /\ Fairness

-----------------------------------------------------------------------------
(* A Challenge and its Command are resolved together: the Command waits    *)
(* while the Challenge is pending, is authorized when it is accepted, and  *)
(* is rejected for the reason the Challenge ended with.                    *)
CommandFollowsChallenge ==
  \A c \in Commands : challenge[c].state # "absent" =>
    /\ command[c].state = "waiting" <=> challenge[c].state = "pending"
    /\ command[c].state = "authorized" <=> challenge[c].state = "accepted"
    /\ command[c].state = "rejected" => TerminalState(command[c].outcome) = challenge[c].state

(* Protected details leave at most once for a Command, and for exactly the *)
(* Commands that are authorized: however many codes, requests, revocations *)
(* and expiries meet, none is answered twice, none without an answer.      *)
DisclosedOnce ==
  \A c \in Commands : disclosures[c] = IF command[c].state = "authorized" THEN 1 ELSE 0

(* "Every protected Command still revalidates its own Workflow authority,  *)
(* lifecycle, and exact Approval Grant requirements" (CONTEXT.md): no      *)
(* Command is authorized, by a code or under a Session, once its renewal   *)
(* is closed or its grant, role, membership or identifier was withdrawn,   *)
(* even when all of them held while it was asked for.                      *)
AuthorityIsRevalidated == [][
  \A c \in Commands : command'[c].state = "authorized" /\ command[c].state # "authorized" =>
    \E w \in Workflows :
      /\ challenge[c].workflow = w \/ \E t \in Clients : client[t].about = c /\ client[t].workflow = w
      /\ renewal[w].active /\ renewal[w].granted /\ ~renewal[w].revoked
      /\ identifier.current /\ BrokerAuthority(w)]_vars

(* "A durable, single-use request for a Party to prove current control of  *)
(* an on-file identifier" (CONTEXT.md): the code that is accepted was sent *)
(* to the identifier that is current when it is accepted.                  *)
CodeProvesCurrentIdentifier == [][
  \A c \in Commands : challenge'[c].state = "accepted" /\ challenge[c].state # "accepted" =>
    identifier.current /\ challenge[c].identifier = identifier.number]_vars

(* Authority that was revoked can be provisioned again for the Participant *)
(* it was revoked from (the test of reprovisioning a revoked membership).  *)
CanBeReprovisioned == aborted = {}

(* The Workflow that delivers a code ends, whatever workers are lost: its  *)
(* Instance is never left open with nothing that can run.                  *)
CarrierEnds ==
  \A c \in Commands :
    carrier[c].lifecycle = "active" ~> carrier[c].lifecycle \in {"completed", "failed"}
===============================================================================
