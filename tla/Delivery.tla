------------------------------ MODULE Delivery ------------------------------
(***************************************************************************)
(* Deliveries, their leased Attempts, and the Threads they append to.      *)
(*                                                                         *)
(* Acknowledge and ReportFailure lock the Delivery row first and read only *)
(* locked rows after it: each is one atomic action.  A claim is not: its   *)
(* candidates are chosen from the snapshot its query took, before it locks *)
(* one of them (FOR UPDATE SKIP LOCKED), and a claim that committed in     *)
(* between has written no column of the Delivery row, so the lock          *)
(* re-checks nothing about it.  A claim is therefore Scan, which keeps the *)
(* snapshot in txn, and then Lock, Conflict or Disconnect.                 *)
(*                                                                         *)
(* Time is kept as in Kernel: countdowns that Tick lets run.               *)
(***************************************************************************)
EXTENDS Integers, Sequences

CONSTANTS
  Thread, Delivery, Worker,
  ChannelMessage,      \* source identities of Messages from the channel
  LeaseSeconds,        \* lease_seconds
  Delays,              \* delays_seconds
  None

(* DeliveryRetryPolicy.__post_init__.                                      *)
ASSUME PolicyAssumption ==
  /\ LeaseSeconds \in Nat \ {0}
  /\ Delays \in Seq(Nat)

(* A source identity is that of a Delivery or of a Message of the channel. *)
ASSUME SourceAssumption ==
  /\ Delivery \cap ChannelMessage = {}
  /\ None \notin Delivery

MaxAttempts == Len(Delays) + 1

VARIABLES
  deliveries,   \* [Delivery -> row of deliveries]
  attempts,     \* [Delivery -> its rows of delivery_attempts]
  messages,     \* [Thread -> sources of its Messages, by sequence]
  txn           \* [Worker -> its open claim transaction]

vars == <<deliveries, attempts, messages, txn>>

Idle == [open |-> FALSE, recovered |-> None, candidates |-> {}]

Absent ==
  [status |-> "absent", thread |-> None, cutoff |-> 0, eligible |-> 0,
   success |-> 0, message |-> 0]

Init ==
  /\ deliveries = [d \in Delivery |-> Absent]
  /\ attempts = [d \in Delivery |-> <<>>]
  /\ messages = [t \in Thread |-> <<>>]
  /\ txn = [w \in Worker |-> Idle]

-----------------------------------------------------------------------------
Live(a) == a.state = "running" /\ a.lease > 0

\* Mutant: recovery takes every running Attempt.
Mutant_ExpiredEarly(a) == a.state = "running"

Expired(a) == a.state = "running" /\ a.lease = 0

Running(d) == \E n \in DOMAIN attempts[d] : attempts[d][n].state = "running"
Last(d) == Len(attempts[d])

(* A claim transaction holds the row lock of what it recovered.            *)
Locked(d) == \E w \in Worker : txn[w].open /\ txn[w].recovered = d

Eligible(d) == deliveries[d].status = "pending" /\ deliveries[d].eligible = 0

Posted(source) ==
  \E t \in Thread : \E n \in DOMAIN messages[t] : messages[t][n] = source

-----------------------------------------------------------------------------
(* DeliveryIntentRecords.create: the context cutoff is the newest Message. *)
Create(d, t) ==
  /\ deliveries[d].status = "absent"
  /\ deliveries' = [deliveries EXCEPT ![d] =
       [Absent EXCEPT !.status = "pending", !.thread = t,
                      !.cutoff = Len(messages[t])]]
  /\ UNCHANGED <<attempts, messages, txn>>

(* append_message, under the Thread lock and the unique key of sources.    *)
Appended(t, source) == [messages EXCEPT ![t] = Append(@, source)]

Post(t, m) ==
  /\ ~Posted(m)
  /\ messages' = Appended(t, m)
  /\ UNCHANGED <<deliveries, attempts, txn>>

(* What _recover_one_expired makes of a Delivery row.                      *)
LapsedNumber(d) == CHOOSE n \in DOMAIN attempts[d] : Expired(attempts[d][n])

Recovered(d) ==
  IF LapsedNumber(d) >= MaxAttempts
  THEN [deliveries[d] EXCEPT !.status = "failed"]
  ELSE [deliveries[d] EXCEPT !.eligible = Delays[LapsedNumber(d)]]

Recoverable ==
  {d \in Delivery :
     /\ deliveries[d].status = "pending"
     /\ \E n \in DOMAIN attempts[d] : Expired(attempts[d][n])
     /\ ~Locked(d)}

(* The candidates of the claim query: the transaction sees what it has     *)
(* recovered itself.                                                       *)
Candidates(recovered) ==
  {d \in Delivery : Eligible(d) /\ ~Running(d)}
    \cup {d \in {recovered} \cap Delivery :
            Recovered(d).status = "pending" /\ Recovered(d).eligible = 0}

(* DeliveryClaimRecords.claim, to the snapshot of its claim query.         *)
Scan(w) ==
  /\ ~txn[w].open
  /\ \E recovered \in Recoverable \cup {None} :
       /\ recovered = None => Recoverable = {}
       /\ txn' = [txn EXCEPT ![w] =
            [open |-> TRUE, recovered |-> recovered,
             candidates |-> Candidates(recovered)]]
  /\ UNCHANGED <<deliveries, attempts, messages>>

\* Mutant: the recovered Attempt is rescheduled and never abandoned.
Mutant_AbandonedNot(a) == a

Abandoned(a) == [a EXCEPT !.state = "abandoned", !.lease = 0]

(* The rows as the transaction sees them, its own recovery included.       *)
DeliveriesOf(w) ==
  [d \in Delivery |-> IF d = txn[w].recovered THEN Recovered(d) ELSE deliveries[d]]

AttemptsOf(w) ==
  [d \in Delivery |->
     IF d = txn[w].recovered
     THEN [n \in DOMAIN attempts[d] |->
             IF Expired(attempts[d][n]) THEN Abandoned(attempts[d][n])
             ELSE attempts[d][n]]
     ELSE attempts[d]]

(* The candidates it can lock now: an updated row is checked again.        *)
Lockable(w) ==
  {d \in txn[w].candidates :
     /\ d = txn[w].recovered \/ ~Locked(d)
     /\ DeliveriesOf(w)[d].status = "pending"
     /\ DeliveriesOf(w)[d].eligible = 0}

RunningIn(rows) == \E n \in DOMAIN rows : rows[n].state = "running"

(* The unique index one_running_delivery_attempt.                          *)
\* Mutant: there is no such index.
Mutant_NoIndex(rows) == FALSE

Conflicts(rows) == RunningIn(rows)

Exhausted(rows) == Len(rows) >= MaxAttempts

(* Locks a candidate, counts its Attempts, inserts the next one or fails   *)
(* the exhausted Delivery, and commits; without a candidate it commits the *)
(* recovery alone.                                                         *)
Commit(w) ==
  /\ txn[w].open
  /\ txn' = [txn EXCEPT ![w] = Idle]
  /\ \/ /\ Lockable(w) = {}
        /\ deliveries' = DeliveriesOf(w)
        /\ attempts' = AttemptsOf(w)
     \/ \E d \in Lockable(w) :
          LET rows == AttemptsOf(w)[d] IN
          \/ /\ Exhausted(rows)
             /\ deliveries' = [DeliveriesOf(w) EXCEPT ![d].status = "failed"]
             /\ attempts' = AttemptsOf(w)
          \/ /\ ~Exhausted(rows)
             /\ ~Conflicts(rows)
             /\ deliveries' = DeliveriesOf(w)
             /\ attempts' = [AttemptsOf(w) EXCEPT ![d] =
                  Append(@, [state |-> "running", worker |-> w,
                             lease |-> LeaseSeconds])]
  /\ UNCHANGED messages

(* The insert violates the index: claim_delivery_once rolls the            *)
(* transaction back, the recovery included, and returns None.              *)
Conflict(w) ==
  /\ txn[w].open
  /\ \E d \in Lockable(w) :
       ~Exhausted(AttemptsOf(w)[d]) /\ Conflicts(AttemptsOf(w)[d])
  /\ txn' = [txn EXCEPT ![w] = Idle]
  /\ UNCHANGED <<deliveries, attempts, messages>>

(* The worker or its connection dies: PostgreSQL rolls back.               *)
Disconnect(w) ==
  /\ txn[w].open
  /\ txn' = [txn EXCEPT ![w] = Idle]
  /\ UNCHANGED <<deliveries, attempts, messages>>

(* acknowledge, for the claim of Attempt n by worker w.                    *)
Held(d, n, w) ==
  /\ ~Locked(d)
  /\ attempts[d][n].worker = w
  /\ Live(attempts[d][n])

\* Mutant: the Attempt that appended the Message is left as it was.
Mutant_SucceededNot(a) == a

Succeeded(a) == [a EXCEPT !.state = "succeeded", !.lease = 0]

Acknowledge(d, n, w) ==
  LET t == deliveries[d].thread IN
  /\ deliveries[d].status # "delivered"
  /\ Held(d, n, w)
  /\ ~Posted(d)
  /\ messages' = Appended(t, d)
  /\ attempts' = [attempts EXCEPT ![d][n] = Succeeded(@)]
  /\ deliveries' = [deliveries EXCEPT ![d] =
       [@ EXCEPT !.status = "delivered", !.success = n,
                 !.message = Len(messages[t]) + 1]]
  /\ UNCHANGED txn

(* report_failure; the class decides whether the policy retries.           *)
ReportFailure(d, n, w) ==
  /\ Held(d, n, w)
  /\ deliveries[d].status = "pending"
  /\ attempts' = [attempts EXCEPT ![d][n] =
                    [@ EXCEPT !.state = "failed", !.lease = 0]]
  /\ \/ /\ n < MaxAttempts
        /\ deliveries' = [deliveries EXCEPT ![d].eligible = Delays[n]]
     \/ deliveries' = [deliveries EXCEPT ![d].status = "failed"]
  /\ UNCHANGED <<messages, txn>>

Elapse(seconds) == IF seconds > 0 THEN seconds - 1 ELSE 0

Tick ==
  /\ deliveries' = [d \in Delivery |-> [deliveries[d] EXCEPT !.eligible = Elapse(@)]]
  /\ attempts' = [d \in Delivery |-> [n \in DOMAIN attempts[d] |->
                    [attempts[d][n] EXCEPT !.lease = Elapse(@)]]]
  /\ <<deliveries, attempts>>' # <<deliveries, attempts>>
  /\ UNCHANGED <<messages, txn>>

Next ==
  \/ \E t \in Thread : \/ \E d \in Delivery : Create(d, t)
                       \/ \E m \in ChannelMessage : Post(t, m)
  \/ \E w \in Worker : \/ Scan(w) \/ Commit(w) \/ Conflict(w) \/ Disconnect(w)
                       \/ \E d \in Delivery : \E n \in DOMAIN attempts[d] :
                            Acknowledge(d, n, w) \/ ReportFailure(d, n, w)
  \/ Tick

(* Delivery Workers poll: serve_worker claims again and again, PostgreSQL  *)
(* ends the transactions, and the connections that are lost are not, for   *)
(* ever, just those that recover or claim the same Delivery.               *)
Fairness ==
  /\ WF_vars(Tick)
  /\ \A w \in Worker : /\ WF_vars(Scan(w))
                      /\ WF_vars(Commit(w) \/ Conflict(w))
  /\ \A d \in Delivery :
       SF_vars(\E w \in Worker : d \in {txn[w].recovered} \cup txn[w].candidates /\ Commit(w))

Spec == Init /\ [][Next]_vars
FairSpec == Spec /\ Fairness

-----------------------------------------------------------------------------
(* Properties.                                                             *)

Source == Delivery \cup ChannelMessage

DeliveryRow ==
  [status : {"absent", "pending", "delivered", "failed"},
   thread : Thread \cup {None}, cutoff : Nat, eligible : Nat,
   success : Nat, message : Nat]

AttemptRow ==
  [state : {"running", "succeeded", "failed", "abandoned"},
   worker : Worker, lease : 0 .. LeaseSeconds]

(* The rows hold values of their types, within the attempt budget.         *)
TypeOK ==
  /\ deliveries \in [Delivery -> DeliveryRow]
  /\ attempts \in [Delivery -> Seq(AttemptRow)]
  /\ messages \in [Thread -> Seq(Source)]
  /\ txn \in [Worker -> [open : BOOLEAN, recovered : Delivery \cup {None},
                         candidates : SUBSET Delivery]]
  /\ \A d \in Delivery :
       /\ deliveries[d].status # "absent" => deliveries[d].thread \in Thread
       /\ Len(attempts[d]) <= MaxAttempts

(* At most one Attempt of a Delivery is running, and it is the newest: a   *)
(* worker whose Attempt was superseded has no authority left.              *)
RunningIsNewest ==
  \A d \in Delivery : \A n \in DOMAIN attempts[d] :
    attempts[d][n].state = "running" => n = Last(d)

(* A Delivery appends at most one Message, to its own Thread, behind the   *)
(* context it was created in, and exactly when it is delivered; the        *)
(* Attempt that appended it is its only successful one.                    *)
DeliveredOnce ==
  \A d \in Delivery :
    LET row == deliveries[d] IN
    /\ \A t \in Thread : \A n \in DOMAIN messages[t] :
         messages[t][n] = d <=>
           row.status = "delivered" /\ t = row.thread /\ n = row.message
    /\ row.status = "delivered" =>
         row.message \in DOMAIN messages[row.thread] /\ row.message > row.cutoff
    /\ \A n \in DOMAIN attempts[d] :
         attempts[d][n].state = "succeeded" <=>
           row.status = "delivered" /\ n = row.success

(* A lease protects its holder: while it runs nobody abandons the Attempt  *)
(* or claims the Delivery again; and an Attempt that ended, or a Delivery  *)
(* that was delivered, stays as it is.                                     *)
LeaseProtects ==
  [][\A d \in Delivery :
       /\ \A n \in DOMAIN attempts[d] :
            /\ Live(attempts[d][n]) =>
                 /\ attempts'[d][n].state # "abandoned"
                 /\ Len(attempts'[d]) = Len(attempts[d])
            /\ attempts[d][n].state # "running" =>
                 attempts'[d][n] = attempts[d][n]
       /\ deliveries[d].status = "delivered" => deliveries'[d] = deliveries[d]
    ]_vars

(* Every Delivery is settled, whatever its workers lose.                   *)
PendingIsSettled ==
  \A d \in Delivery :
    deliveries[d].status = "pending" ~> deliveries[d].status # "pending"

Lapsed(d, n) == n \in DOMAIN attempts[d] /\ Expired(attempts[d][n])

(* CONTEXT.md of a Delivery Attempt: "lease loss abandons it".             *)
LeaseLossAbandons ==
  \A d \in Delivery, n \in 1 .. MaxAttempts : Lapsed(d, n) ~> ~Lapsed(d, n)

=============================================================================
