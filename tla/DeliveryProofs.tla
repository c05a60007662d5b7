---------------------------- MODULE DeliveryProofs ----------------------------
(***************************************************************************)
(* Proofs about Delivery for every set of Threads, Deliveries and workers, *)
(* every retry policy, and any number of claims at once.                   *)
(***************************************************************************)
EXTENDS Delivery, TLAPS, SequenceTheorems

(* A row of deliveries with its Attempts.                                  *)
RowInv(row, list) ==
  /\ row \in DeliveryRow
  /\ list \in Seq(AttemptRow)
  /\ Len(list) <= MaxAttempts
  /\ row.status = "absent" => list = <<>>
  /\ row.status # "absent" => row.thread \in Thread
  /\ row.status = "delivered" => row.eligible = 0
  /\ \A n \in DOMAIN list :
       /\ list[n].state = "running" => n = Len(list) /\ row.eligible = 0
       /\ list[n].state # "running" => list[n].lease = 0
       /\ list[n].state = "succeeded" <=> row.status = "delivered" /\ n = row.success

(* The Messages of a Delivery.                                             *)
MessageInv(d, row, posts) ==
  /\ row.status # "absent" => row.cutoff <= Len(posts[row.thread])
  /\ \A t \in Thread : \A n \in DOMAIN posts[t] :
       posts[t][n] = d <=> row.status = "delivered" /\ t = row.thread /\ n = row.message
  /\ row.status = "delivered" =>
       row.message \in DOMAIN posts[row.thread] /\ row.message > row.cutoff

(* What an open claim has recovered waits for it alone.                    *)
ClaimInv ==
  \A w \in Worker : txn[w].open /\ txn[w].recovered \in Delivery =>
    /\ deliveries[txn[w].recovered].status = "pending"
    /\ \E n \in DOMAIN attempts[txn[w].recovered] : Expired(attempts[txn[w].recovered][n])
    /\ \A v \in Worker : txn[v].open /\ txn[v].recovered = txn[w].recovered => v = w

TxnRow == [open : BOOLEAN, recovered : Delivery \cup {None}, candidates : SUBSET Delivery]

IInv ==
  /\ deliveries \in [Delivery -> DeliveryRow]
  /\ attempts \in [Delivery -> Seq(AttemptRow)]
  /\ messages \in [Thread -> Seq(Source)]
  /\ txn \in [Worker -> TxnRow]
  /\ \A d \in Delivery : RowInv(deliveries[d], attempts[d])
  /\ \A d \in Delivery : MessageInv(d, deliveries[d], messages)
  /\ ClaimInv

LEMMA IInvImplies == IInv => TypeOK /\ RunningIsNewest /\ DeliveredOnce
BY DEF IInv, TypeOK, RunningIsNewest, DeliveredOnce, RowInv, MessageInv, TxnRow, Last

LEMMA InitIInv == Init => IInv
<1> SUFFICES ASSUME Init PROVE IInv
  OBVIOUS
<1>1. Absent \in DeliveryRow /\ Absent.status = "absent"
  BY DEF Absent, DeliveryRow
<1>2. Idle \in TxnRow /\ ~Idle.open
  BY DEF Idle, TxnRow
<1>3. MaxAttempts \in Nat
  BY PolicyAssumption DEF MaxAttempts
<1>4. \A d \in Delivery : RowInv(deliveries[d], attempts[d])
  BY <1>1, <1>3 DEF Init, RowInv
<1>5. \A d \in Delivery : MessageInv(d, deliveries[d], messages)
  BY <1>1 DEF Init, MessageInv
<1>6. ClaimInv
  BY <1>2 DEF Init, ClaimInv
<1>7. /\ deliveries \in [Delivery -> DeliveryRow]
      /\ attempts \in [Delivery -> Seq(AttemptRow)]
      /\ messages \in [Thread -> Seq(Source)]
      /\ txn \in [Worker -> TxnRow]
  BY <1>1, <1>2 DEF Init
<1> QED BY <1>4, <1>5, <1>6, <1>7 DEF IInv

LEMMA CreateIInv ==
  ASSUME IInv, NEW d \in Delivery, NEW t \in Thread, Create(d, t)
  PROVE  IInv'
<1> DEFINE row == [Absent EXCEPT !.status = "pending", !.thread = t,
                                 !.cutoff = Len(messages[t])]
<1>0. Len(messages[t]) \in Nat
  BY DEF IInv
<1>1. row \in DeliveryRow /\ row.status = "pending" /\ row.thread = t
      /\ row.cutoff = Len(messages[t]) /\ row.eligible = 0
  BY <1>0 DEF Absent, DeliveryRow
<1>2. /\ deliveries' = [deliveries EXCEPT ![d] = row]
      /\ UNCHANGED <<attempts, messages, txn>>
      /\ deliveries[d].status = "absent"
  BY DEF Create
<1> HIDE DEF row
<1>3. RowInv(row, attempts[d])
  BY <1>1, <1>2 DEF IInv, RowInv
<1>4. MessageInv(d, row, messages)
  BY <1>1, <1>2 DEF IInv, MessageInv
<1>5. ClaimInv'
  BY <1>1, <1>2 DEF IInv, ClaimInv
<1> QED BY <1>1, <1>2, <1>3, <1>4, <1>5 DEF IInv

(* A Thread that grows by the Message of another source.                   *)
LEMMA AppendedKeeps ==
  ASSUME messages \in [Thread -> Seq(Source)], NEW t \in Thread, NEW m \in Source,
         NEW d \in Delivery, d # m, NEW row \in DeliveryRow,
         row.status # "absent" => row.thread \in Thread,
         MessageInv(d, row, messages)
  PROVE  MessageInv(d, row, Appended(t, m))
<1> DEFINE posts == Appended(t, m)
<1>1. /\ posts[t] = Append(messages[t], m)
      /\ \A u \in Thread : u # t => posts[u] = messages[u]
  BY DEF Appended
<1>2. /\ Len(posts[t]) = Len(messages[t]) + 1
      /\ DOMAIN posts[t] = 1 .. Len(messages[t]) + 1
      /\ posts[t][Len(messages[t]) + 1] = m
      /\ \A n \in DOMAIN messages[t] : posts[t][n] = messages[t][n]
      /\ DOMAIN messages[t] = 1 .. Len(messages[t]) /\ Len(messages[t]) \in Nat
  BY <1>1
<1> HIDE DEF posts
<1>3. row.status # "absent" => row.cutoff <= Len(posts[row.thread])
  BY <1>1, <1>2 DEF MessageInv, DeliveryRow
<1>4. row.status = "delivered" =>
        row.message \in DOMAIN posts[row.thread] /\ row.message > row.cutoff
  BY <1>1, <1>2 DEF MessageInv
<1>5. ASSUME NEW u \in Thread, NEW n \in DOMAIN posts[u]
      PROVE  posts[u][n] = d <=> row.status = "delivered" /\ u = row.thread /\ n = row.message
  <2>1. CASE u # t \/ n \in DOMAIN messages[u]
    BY <1>1, <1>2, <2>1 DEF MessageInv
  <2>2. CASE u = t /\ n \notin DOMAIN messages[u]
    <3>1. n = Len(messages[t]) + 1 /\ posts[u][n] # d
      BY <1>1, <1>2, <2>2
    <3>2. ~(row.status = "delivered" /\ u = row.thread /\ n = row.message)
      BY <2>2 DEF MessageInv
    <3> QED BY <3>1, <3>2
  <2> QED BY <2>1, <2>2
<1> QED BY <1>3, <1>4, <1>5 DEF MessageInv, posts

LEMMA AppendedType ==
  ASSUME messages \in [Thread -> Seq(Source)], NEW t \in Thread, NEW m \in Source
  PROVE  Appended(t, m) \in [Thread -> Seq(Source)]
BY DEF Appended

LEMMA PostIInv ==
  ASSUME IInv, NEW t \in Thread, NEW m \in ChannelMessage, Post(t, m)
  PROVE  IInv'
<1>1. messages' = Appended(t, m) /\ UNCHANGED <<deliveries, attempts, txn>>
  BY DEF Post
<1>2. m \in Source /\ \A d \in Delivery : d # m
  BY SourceAssumption DEF Source
<1>3. messages' \in [Thread -> Seq(Source)]
  BY <1>1, <1>2, AppendedType DEF IInv
<1>4. ASSUME NEW d \in Delivery
      PROVE  MessageInv(d, deliveries[d], messages')
  BY <1>1, <1>2, AppendedKeeps DEF IInv, RowInv
<1>5. ClaimInv'
  BY <1>1 DEF IInv, ClaimInv
<1> QED BY <1>1, <1>3, <1>4, <1>5 DEF IInv

LEMMA ScanIInv ==
  ASSUME IInv, NEW w \in Worker, Scan(w)
  PROVE  IInv'
<1>1. PICK recovered \in Recoverable \cup {None} :
        txn' = [txn EXCEPT ![w] =
          [open |-> TRUE, recovered |-> recovered, candidates |-> Candidates(recovered)]]
  BY DEF Scan
<1>2. UNCHANGED <<deliveries, attempts, messages>>
  BY DEF Scan
<1>3. Recoverable \subseteq Delivery /\ Candidates(recovered) \subseteq Delivery
  BY DEF Recoverable, Candidates
<1>4. txn' \in [Worker -> TxnRow]
  BY <1>1, <1>3 DEF IInv, TxnRow
<1>5. recovered \in Delivery =>
        /\ deliveries[recovered].status = "pending"
        /\ \E n \in DOMAIN attempts[recovered] : Expired(attempts[recovered][n])
        /\ \A v \in Worker : ~(txn[v].open /\ txn[v].recovered = recovered)
  BY SourceAssumption DEF Recoverable, Locked
<1>6. /\ txn'[w].open /\ txn'[w].recovered = recovered
      /\ \A v \in Worker : v # w => txn'[v] = txn[v]
  BY <1>1 DEF IInv
<1>7. ClaimInv'
  <2> SUFFICES ASSUME NEW v \in Worker, txn'[v].open, txn'[v].recovered \in Delivery
               PROVE  /\ deliveries[txn'[v].recovered].status = "pending"
                      /\ \E n \in DOMAIN attempts[txn'[v].recovered] :
                           Expired(attempts[txn'[v].recovered][n])
                      /\ \A u \in Worker :
                           txn'[u].open /\ txn'[u].recovered = txn'[v].recovered => u = v
    BY <1>2 DEF ClaimInv, Expired
  <2>1. CASE v = w
    BY <1>5, <1>6, <2>1
  <2>2. CASE v # w
    BY <1>5, <1>6, <2>2 DEF IInv, ClaimInv
  <2> QED BY <2>1, <2>2
<1> QED BY <1>2, <1>4, <1>7 DEF IInv

(* A claim that ends without an effect.                                    *)
LEMMA EndedIInv ==
  ASSUME IInv, NEW w \in Worker, txn' = [txn EXCEPT ![w] = Idle],
         UNCHANGED <<deliveries, attempts, messages>>
  PROVE  IInv'
<1>1. Idle \in TxnRow /\ ~Idle.open
  BY DEF Idle, TxnRow
<1>2. txn' \in [Worker -> TxnRow]
  BY <1>1 DEF IInv
<1>3. ~txn'[w].open /\ \A v \in Worker : v # w => txn'[v] = txn[v]
  BY <1>1 DEF IInv
<1>4. ClaimInv'
  BY <1>3 DEF IInv, ClaimInv
<1> QED BY <1>2, <1>4 DEF IInv

(* Recovery ends the lapsed Attempt, which is the newest, and leaves a row *)
(* that may be claimed again or has failed.                                *)
LEMMA RecoveredRow ==
  ASSUME IInv, NEW d \in Delivery, deliveries[d].status = "pending",
         \E n \in DOMAIN attempts[d] : Expired(attempts[d][n])
  PROVE  LET list == [n \in DOMAIN attempts[d] |->
                        IF Expired(attempts[d][n]) THEN Abandoned(attempts[d][n])
                        ELSE attempts[d][n]]
         IN  /\ RowInv(Recovered(d), list)
             /\ Recovered(d).status \in {"pending", "failed"}
             /\ Recovered(d).thread = deliveries[d].thread
             /\ Recovered(d).cutoff = deliveries[d].cutoff
             /\ Len(list) = Len(attempts[d])
             /\ ~RunningIn(list)
             /\ \A n \in DOMAIN attempts[d] :
                  attempts[d][n].state # "running" => list[n] = attempts[d][n]
             /\ \A n \in DOMAIN attempts[d] : ~Live(attempts[d][n])
<1> DEFINE rows == attempts[d]
           list == [n \in DOMAIN rows |-> IF Expired(rows[n]) THEN Abandoned(rows[n]) ELSE rows[n]]
<1>1. /\ rows \in Seq(AttemptRow) /\ Len(rows) \in Nat /\ DOMAIN rows = 1 .. Len(rows)
      /\ deliveries[d] \in DeliveryRow /\ RowInv(deliveries[d], rows)
  BY DEF IInv
<1>2. \A n \in DOMAIN rows : rows[n] \in AttemptRow
  BY <1>1
<1>3. LapsedNumber(d) \in DOMAIN rows /\ Expired(rows[LapsedNumber(d)])
  BY DEF LapsedNumber
<1> DEFINE k == LapsedNumber(d)
<1> HIDE DEF rows, k
<1>4. /\ k = Len(rows)
      /\ \A n \in DOMAIN rows : rows[n].state = "running" => n = k
  BY <1>1, <1>3 DEF RowInv, Expired, k, rows
<1>5. /\ list \in Seq(AttemptRow) /\ Len(list) = Len(rows) /\ DOMAIN list = DOMAIN rows
  <2>1. \A n \in 1 .. Len(rows) :
          (IF Expired(rows[n]) THEN Abandoned(rows[n]) ELSE rows[n]) \in AttemptRow
    <3>1. 0 \in 0 .. LeaseSeconds
      BY PolicyAssumption
    <3> QED BY <1>1, <1>2, <3>1 DEF Abandoned, AttemptRow
  <2> HIDE DEF Expired, Abandoned
  <2> QED BY <1>1, <2>1
<1>6. \A n \in DOMAIN rows :
        /\ n # k => list[n] = rows[n] /\ rows[n].state # "running"
        /\ n = k => list[n].state = "abandoned" /\ list[n].lease = 0 /\ rows[n].state = "running"
  BY <1>2, <1>3, <1>4 DEF Expired, Abandoned, k, rows, AttemptRow
<1>7. /\ Recovered(d) \in DeliveryRow
      /\ Recovered(d).status \in {"pending", "failed"}
      /\ Recovered(d).thread = deliveries[d].thread
      /\ Recovered(d).cutoff = deliveries[d].cutoff
  <2>1. k \in Nat /\ (k < MaxAttempts => Delays[k] \in Nat)
    BY <1>1, <1>3, PolicyAssumption DEF MaxAttempts, k, rows
  <2>2. MaxAttempts \in Nat
    BY PolicyAssumption DEF MaxAttempts
  <2>3. CASE k >= MaxAttempts
    BY <1>1, <2>3 DEF Recovered, DeliveryRow, k
  <2>4. CASE k < MaxAttempts
    BY <1>1, <2>1, <2>2, <2>4 DEF Recovered, DeliveryRow, k
  <2> QED BY <2>1, <2>2, <2>3, <2>4
<1> HIDE DEF list
<1>8. RowInv(Recovered(d), list)
  <2>1. Len(list) <= MaxAttempts
    BY <1>1, <1>5 DEF RowInv
  <2>2. ASSUME NEW n \in DOMAIN list
        PROVE  /\ list[n].state # "running" /\ list[n].lease = 0
               /\ list[n].state # "succeeded"
    BY <1>1, <1>5, <1>6 DEF RowInv
  <2> QED BY <1>1, <1>5, <1>7, <2>1, <2>2 DEF RowInv
<1>9. ~RunningIn(list) /\ \A n \in DOMAIN rows : ~Live(rows[n])
  <2>1. \A n \in DOMAIN rows : n = k => rows[n].lease = 0
    BY <1>3 DEF Expired, k, rows
  <2> QED BY <1>5, <1>6, <2>1 DEF RunningIn, Live
<1> QED BY <1>5, <1>6, <1>7, <1>8, <1>9 DEF list, rows

(* The rows as an open claim sees them.                                    *)
LEMMA ViewInv ==
  ASSUME IInv, NEW w \in Worker, txn[w].open
  PROVE  /\ DeliveriesOf(w) \in [Delivery -> DeliveryRow]
         /\ AttemptsOf(w) \in [Delivery -> Seq(AttemptRow)]
         /\ \A d \in Delivery :
              /\ RowInv(DeliveriesOf(w)[d], AttemptsOf(w)[d])
              /\ MessageInv(d, DeliveriesOf(w)[d], messages)
              /\ d # txn[w].recovered =>
                   DeliveriesOf(w)[d] = deliveries[d] /\ AttemptsOf(w)[d] = attempts[d]
<1>1. ASSUME NEW d \in Delivery
      PROVE  /\ RowInv(DeliveriesOf(w)[d], AttemptsOf(w)[d])
             /\ MessageInv(d, DeliveriesOf(w)[d], messages)
             /\ d # txn[w].recovered =>
                  DeliveriesOf(w)[d] = deliveries[d] /\ AttemptsOf(w)[d] = attempts[d]
  <2>1. CASE d = txn[w].recovered
    <3>1. /\ deliveries[d].status = "pending"
          /\ \E n \in DOMAIN attempts[d] : Expired(attempts[d][n])
      BY <2>1 DEF IInv, ClaimInv
    <3>2. MessageInv(d, Recovered(d), messages)
      <4>1. /\ Recovered(d).status \in {"pending", "failed"}
            /\ Recovered(d).thread = deliveries[d].thread
            /\ Recovered(d).cutoff = deliveries[d].cutoff
        BY <3>1, RecoveredRow
      <4> QED BY <3>1, <4>1 DEF IInv, MessageInv
    <3> QED BY <2>1, <3>1, <3>2, RecoveredRow DEF DeliveriesOf, AttemptsOf
  <2>2. CASE d # txn[w].recovered
    BY <2>2 DEF IInv, DeliveriesOf, AttemptsOf
  <2> QED BY <2>1, <2>2
<1>2. DeliveriesOf(w) \in [Delivery -> DeliveryRow]
  <2>1. DeliveriesOf(w) = [d \in Delivery |-> DeliveriesOf(w)[d]]
    BY DEF DeliveriesOf
  <2> QED BY <1>1, <2>1 DEF RowInv
<1>3. AttemptsOf(w) \in [Delivery -> Seq(AttemptRow)]
  <2>1. AttemptsOf(w) = [d \in Delivery |-> AttemptsOf(w)[d]]
    BY DEF AttemptsOf
  <2> QED BY <1>1, <2>1 DEF RowInv
<1> QED BY <1>1, <1>2, <1>3

(* The row of a candidate that is locked.                                  *)
LEMMA LockableRow ==
  ASSUME IInv, NEW w \in Worker, txn[w].open, NEW d \in Lockable(w)
  PROVE  /\ d \in Delivery
         /\ DeliveriesOf(w)[d].status = "pending" /\ DeliveriesOf(w)[d].eligible = 0
         /\ \A v \in Worker : v # w /\ txn[v].open => txn[v].recovered # d
<1>1. d \in Delivery /\ (d = txn[w].recovered \/ ~Locked(d))
  BY DEF Lockable, IInv, TxnRow
<1>2. \A v \in Worker : v # w /\ txn[v].open => txn[v].recovered # d
  BY <1>1 DEF Locked, IInv, ClaimInv
<1> QED BY <1>1, <1>2 DEF Lockable

LEMMA CommitIInv ==
  ASSUME IInv, NEW w \in Worker, Commit(w)
  PROVE  IInv'
<1>1. txn[w].open /\ txn' = [txn EXCEPT ![w] = Idle] /\ UNCHANGED messages
  BY DEF Commit
<1>2. txn' \in [Worker -> TxnRow] /\ ~txn'[w].open /\ \A v \in Worker : v # w => txn'[v] = txn[v]
  BY <1>1 DEF IInv, Idle, TxnRow
<1> DEFINE D == DeliveriesOf(w)
           A == AttemptsOf(w)
<1>3. /\ D \in [Delivery -> DeliveryRow] /\ A \in [Delivery -> Seq(AttemptRow)]
      /\ \A d \in Delivery :
           /\ RowInv(D[d], A[d]) /\ MessageInv(d, D[d], messages)
           /\ d # txn[w].recovered => D[d] = deliveries[d] /\ A[d] = attempts[d]
  BY <1>1, ViewInv
<1>4. ASSUME \A v \in Worker : v # w /\ txn[v].open /\ txn[v].recovered \in Delivery =>
               /\ deliveries'[txn[v].recovered] = D[txn[v].recovered]
               /\ attempts'[txn[v].recovered] = A[txn[v].recovered]
      PROVE  ClaimInv'
  <2> SUFFICES ASSUME NEW v \in Worker, txn'[v].open, txn'[v].recovered \in Delivery
               PROVE  /\ deliveries'[txn'[v].recovered].status = "pending"
                      /\ \E n \in DOMAIN attempts'[txn'[v].recovered] :
                           Expired(attempts'[txn'[v].recovered][n])
                      /\ \A u \in Worker :
                           txn'[u].open /\ txn'[u].recovered = txn'[v].recovered => u = v
    BY DEF ClaimInv, Expired
  <2>1. v # w /\ txn'[v] = txn[v]
    BY <1>2
  <2>2. txn[v].recovered # txn[w].recovered
    BY <1>1, <2>1 DEF IInv, ClaimInv
  <2>3. /\ deliveries'[txn[v].recovered] = deliveries[txn[v].recovered]
        /\ attempts'[txn[v].recovered] = attempts[txn[v].recovered]
    BY <1>3, <1>4, <2>1, <2>2
  <2> QED BY <1>2, <2>1, <2>3 DEF IInv, ClaimInv
<1>5. CASE deliveries' = D /\ attempts' = A
  BY <1>1, <1>2, <1>3, <1>4, <1>5 DEF IInv
<1>6. ASSUME NEW d \in Lockable(w),
             deliveries' = [D EXCEPT ![d].status = "failed"], attempts' = A
      PROVE  IInv'
  <2> DEFINE row == [D[d] EXCEPT !.status = "failed"]
  <2>1. /\ d \in Delivery /\ D[d].status = "pending"
        /\ \A v \in Worker : v # w /\ txn[v].open => txn[v].recovered # d
    BY <1>1, LockableRow
  <2>2. D[d] \in DeliveryRow /\ RowInv(D[d], A[d]) /\ MessageInv(d, D[d], messages)
    BY <1>3, <2>1
  <2> HIDE DEF D, A
  <2>3. /\ row \in DeliveryRow /\ row.status = "failed" /\ row.thread = D[d].thread
        /\ row.cutoff = D[d].cutoff /\ row.eligible = D[d].eligible
    BY <2>2 DEF DeliveryRow
  <2>4. deliveries' = [D EXCEPT ![d] = row]
    BY <1>6
  <2> HIDE DEF row
  <2>5. RowInv(row, A[d]) /\ MessageInv(d, row, messages)
    BY <2>1, <2>2, <2>3 DEF RowInv, MessageInv
  <2>6. ClaimInv'
    BY <1>3, <1>4, <1>6, <2>1, <2>4
  <2>7. /\ deliveries' \in [Delivery -> DeliveryRow]
        /\ \A e \in Delivery : e # d => deliveries'[e] = D[e]
        /\ deliveries'[d] = row
    BY <1>3, <2>1, <2>3, <2>4
  <2> QED BY <1>1, <1>2, <1>3, <1>6, <2>5, <2>6, <2>7 DEF IInv
<1>7. ASSUME NEW d \in Lockable(w), ~Exhausted(A[d]), ~Conflicts(A[d]), deliveries' = D,
             attempts' = [A EXCEPT ![d] =
               Append(@, [state |-> "running", worker |-> w, lease |-> LeaseSeconds])]
      PROVE  IInv'
  <2> DEFINE new == [state |-> "running", worker |-> w, lease |-> LeaseSeconds]
             list == Append(A[d], new)
  <2>1. /\ d \in Delivery /\ D[d].status = "pending" /\ D[d].eligible = 0
        /\ \A v \in Worker : v # w /\ txn[v].open => txn[v].recovered # d
    BY <1>1, LockableRow
  <2>2. /\ D[d] \in DeliveryRow /\ RowInv(D[d], A[d])
        /\ A[d] \in Seq(AttemptRow) /\ Len(A[d]) \in Nat /\ DOMAIN A[d] = 1 .. Len(A[d])
    BY <1>3, <2>1
  <2>3. new \in AttemptRow
    BY PolicyAssumption DEF AttemptRow
  <2>4. attempts' = [A EXCEPT ![d] = list]
    BY <1>7
  <2> HIDE DEF D, A, new
  <2>5. /\ list \in Seq(AttemptRow) /\ Len(list) = Len(A[d]) + 1
        /\ DOMAIN list = 1 .. Len(A[d]) + 1
        /\ \A n \in DOMAIN A[d] : list[n] = A[d][n]
        /\ list[Len(A[d]) + 1] = new
    BY <2>2, <2>3
  <2>6. \A n \in DOMAIN A[d] : A[d][n].state # "running"
    BY <1>7 DEF Conflicts, RunningIn
  <2> HIDE DEF list
  <2>7. RowInv(D[d], list)
    <3>1. Len(list) <= MaxAttempts
      <4>1. MaxAttempts \in Nat
        BY PolicyAssumption DEF MaxAttempts
      <4> QED BY <1>7, <2>2, <2>5, <4>1 DEF Exhausted
    <3>2. ASSUME NEW n \in DOMAIN list
          PROVE  /\ list[n].state = "running" => n = Len(list) /\ D[d].eligible = 0
                 /\ list[n].state # "running" => list[n].lease = 0
                 /\ list[n].state = "succeeded" <=>
                      D[d].status = "delivered" /\ n = D[d].success
      <4>1. CASE n \in DOMAIN A[d]
        BY <2>2, <2>5, <2>6, <4>1 DEF RowInv
      <4>2. CASE n = Len(A[d]) + 1
        BY <2>1, <2>5, <4>2 DEF new
      <4> QED BY <2>2, <2>5, <4>1, <4>2
    <3> QED BY <2>1, <2>2, <2>5, <3>1, <3>2 DEF RowInv
  <2>8. /\ attempts' \in [Delivery -> Seq(AttemptRow)]
        /\ \A e \in Delivery : e # d => attempts'[e] = A[e]
        /\ attempts'[d] = list
    BY <1>3, <2>1, <2>4, <2>5
  <2>9. ClaimInv'
    BY <1>4, <1>7, <2>1, <2>8
  <2> QED BY <1>1, <1>2, <1>3, <1>7, <2>7, <2>8, <2>9 DEF IInv
<1> QED BY <1>5, <1>6, <1>7 DEF Commit

(* The holder of the newest Attempt ends it.                               *)
(* What is left when the running Attempt n of Delivery d ends.             *)
EndedKeeps(d, n, state) ==
  LET ended == [attempts[d][n] EXCEPT !.state = state, !.lease = 0]
      list == [attempts[d] EXCEPT ![n] = ended]
  IN  /\ list \in Seq(AttemptRow)
      /\ Len(list) = Len(attempts[d]) /\ DOMAIN list = DOMAIN attempts[d]
      /\ \A k \in DOMAIN list : k # n =>
           list[k] = attempts[d][k] /\ attempts[d][k].state # "running"
      /\ list[n].state = state /\ list[n].lease = 0

LEMMA EndedRow ==
  ASSUME IInv, NEW d \in Delivery, NEW n \in DOMAIN attempts[d], Live(attempts[d][n]),
         NEW state \in {"succeeded", "failed"}
  PROVE  EndedKeeps(d, n, state)
<1> DEFINE rows == attempts[d]
           ended == [rows[n] EXCEPT !.state = state, !.lease = 0]
<1>1. /\ rows \in Seq(AttemptRow) /\ DOMAIN rows = 1 .. Len(rows) /\ Len(rows) \in Nat
      /\ RowInv(deliveries[d], rows)
  BY DEF IInv
<1>2. rows[n] \in AttemptRow /\ rows[n].state = "running"
  BY <1>1 DEF Live
<1>3. ended \in AttemptRow /\ ended.state = state /\ ended.lease = 0
  <2>1. 0 \in 0 .. LeaseSeconds
    BY PolicyAssumption
  <2> HIDE DEF rows
  <2> QED BY <1>2, <2>1 DEF AttemptRow
<1>4. \A k \in DOMAIN rows : k # n => rows[k].state # "running"
  BY <1>1, <1>2 DEF RowInv
<1> HIDE DEF ended
<1> QED BY <1>1, <1>3, <1>4 DEF ended, EndedKeeps

LEMMA AcknowledgeIInv ==
  ASSUME IInv, NEW d \in Delivery, NEW n \in DOMAIN attempts[d], NEW w \in Worker,
         Acknowledge(d, n, w)
  PROVE  IInv'
<1> DEFINE t == deliveries[d].thread
           list == [attempts[d] EXCEPT ![n] = Succeeded(attempts[d][n])]
           row == [deliveries[d] EXCEPT !.status = "delivered", !.success = n,
                                        !.message = Len(messages[t]) + 1]
<1>1. /\ deliveries[d].status # "delivered" /\ ~Posted(d) /\ ~Locked(d)
      /\ messages' = Appended(t, d)
      /\ attempts' = [attempts EXCEPT ![d] = list]
      /\ deliveries' = [deliveries EXCEPT ![d] = row]
      /\ UNCHANGED txn
      /\ Live(attempts[d][n])
  BY DEF Acknowledge, Held, IInv
<1>2. /\ deliveries[d] \in DeliveryRow /\ attempts[d] \in Seq(AttemptRow)
      /\ DOMAIN attempts[d] = 1 .. Len(attempts[d]) /\ Len(attempts[d]) \in Nat
      /\ RowInv(deliveries[d], attempts[d]) /\ MessageInv(d, deliveries[d], messages)
  BY DEF IInv
<1>3. deliveries[d].status # "absent" /\ deliveries[d].eligible = 0 /\ t \in Thread
  BY <1>1, <1>2 DEF RowInv, Live
<1>4. /\ messages[t] \in Seq(Source) /\ Len(messages[t]) \in Nat
      /\ DOMAIN messages[t] = 1 .. Len(messages[t])
      /\ d \in Source
  BY <1>3 DEF IInv, Source
<1>5. /\ row \in DeliveryRow /\ row.status = "delivered" /\ row.success = n
      /\ row.message = Len(messages[t]) + 1 /\ row.thread = t /\ row.eligible = 0
      /\ row.cutoff = deliveries[d].cutoff
  <2>1. n \in Nat /\ Len(messages[t]) + 1 \in Nat
    BY <1>2, <1>4
  <2> HIDE DEF t
  <2> QED BY <1>2, <1>3, <2>1 DEF DeliveryRow, t
<1>6. /\ list \in Seq(AttemptRow)
      /\ Len(list) = Len(attempts[d]) /\ DOMAIN list = DOMAIN attempts[d]
      /\ \A k \in DOMAIN list : k # n =>
           list[k] = attempts[d][k] /\ attempts[d][k].state # "running"
      /\ list[n].state = "succeeded" /\ list[n].lease = 0
  BY <1>1, EndedRow DEF Succeeded, EndedKeeps
<1> HIDE DEF list, row
<1>7. RowInv(row, list)
  <2>1. ASSUME NEW k \in DOMAIN list
        PROVE  /\ list[k].state # "running" /\ list[k].lease = 0
               /\ list[k].state = "succeeded" <=> k = n
    BY <1>1, <1>2, <1>6 DEF RowInv
  <2> QED BY <1>2, <1>3, <1>5, <1>6, <2>1 DEF RowInv
<1>8. MessageInv(d, row, messages')
  <2>1. /\ messages'[t] = Append(messages[t], d)
        /\ \A u \in Thread : u # t => messages'[u] = messages[u]
    BY <1>1, <1>3 DEF IInv, Appended
  <2> HIDE DEF t
  <2>2. /\ Len(messages'[t]) = Len(messages[t]) + 1
        /\ DOMAIN messages'[t] = 1 .. Len(messages[t]) + 1
        /\ messages'[t][Len(messages[t]) + 1] = d
        /\ \A k \in DOMAIN messages[t] : messages'[t][k] = messages[t][k]
    BY <1>4, <2>1
  <2>3. \A u \in Thread : \A k \in DOMAIN messages[u] : messages[u][k] # d
    BY <1>1 DEF Posted
  <2>4. ASSUME NEW u \in Thread, NEW k \in DOMAIN messages'[u]
        PROVE  messages'[u][k] = d <=> u = t /\ k = Len(messages[t]) + 1
    <3>1. CASE u # t
      BY <2>1, <2>3, <3>1
    <3>2. CASE u = t
      BY <1>4, <2>2, <2>3, <3>2
    <3> QED BY <3>1, <3>2
  <2>5. row.cutoff \in Nat /\ row.cutoff <= Len(messages[t])
    BY <1>2, <1>3, <1>5 DEF MessageInv, DeliveryRow, t
  <2> QED BY <1>4, <1>5, <2>2, <2>4, <2>5 DEF MessageInv
<1>9. ASSUME NEW e \in Delivery, e # d
      PROVE  MessageInv(e, deliveries[e], messages')
  BY <1>1, <1>3, <1>4, <1>9, AppendedKeeps DEF IInv, RowInv
<1>10. /\ deliveries' \in [Delivery -> DeliveryRow] /\ deliveries'[d] = row
       /\ attempts' \in [Delivery -> Seq(AttemptRow)] /\ attempts'[d] = list
       /\ messages' \in [Thread -> Seq(Source)]
       /\ \A e \in Delivery : e # d =>
            deliveries'[e] = deliveries[e] /\ attempts'[e] = attempts[e]
  BY <1>1, <1>3, <1>4, <1>5, <1>6, AppendedType DEF IInv
<1>11. ClaimInv'
  <2>1. \A v \in Worker : txn[v].open => txn[v].recovered # d
    BY <1>1 DEF Locked
  <2> QED BY <1>1, <1>10, <2>1 DEF IInv, ClaimInv
<1> QED BY <1>1, <1>7, <1>8, <1>9, <1>10, <1>11 DEF IInv

LEMMA ReportFailureIInv ==
  ASSUME IInv, NEW d \in Delivery, NEW n \in DOMAIN attempts[d], NEW w \in Worker,
         ReportFailure(d, n, w)
  PROVE  IInv'
<1> DEFINE list == [attempts[d] EXCEPT ![n] =
                      [attempts[d][n] EXCEPT !.state = "failed", !.lease = 0]]
<1>1. /\ deliveries[d].status = "pending" /\ ~Locked(d) /\ Live(attempts[d][n])
      /\ attempts' = [attempts EXCEPT ![d] = list]
      /\ UNCHANGED <<messages, txn>>
  BY DEF ReportFailure, Held, IInv
<1>2. /\ deliveries[d] \in DeliveryRow /\ DOMAIN attempts[d] = 1 .. Len(attempts[d])
      /\ Len(attempts[d]) \in Nat
      /\ RowInv(deliveries[d], attempts[d]) /\ MessageInv(d, deliveries[d], messages)
  BY DEF IInv
<1>3. PICK row \in DeliveryRow :
        /\ deliveries' = [deliveries EXCEPT ![d] = row]
        /\ row.status \in {"pending", "failed"} /\ row.thread = deliveries[d].thread
        /\ row.cutoff = deliveries[d].cutoff
  <2>1. CASE n < MaxAttempts /\ deliveries' = [deliveries EXCEPT ![d].eligible = Delays[n]]
    <3>1. Delays[n] \in Nat
      BY <1>2, <2>1, PolicyAssumption DEF MaxAttempts
    <3>2. [deliveries[d] EXCEPT !.eligible = Delays[n]] \in DeliveryRow
      BY <1>2, <3>1 DEF DeliveryRow
    <3> QED BY <1>1, <1>2, <2>1, <3>2 DEF DeliveryRow
  <2>2. CASE deliveries' = [deliveries EXCEPT ![d].status = "failed"]
    <3>1. [deliveries[d] EXCEPT !.status = "failed"] \in DeliveryRow
      BY <1>2 DEF DeliveryRow
    <3> QED BY <1>2, <2>2, <3>1 DEF DeliveryRow
  <2> QED BY <2>1, <2>2 DEF ReportFailure
<1>4. /\ list \in Seq(AttemptRow)
      /\ Len(list) = Len(attempts[d]) /\ DOMAIN list = DOMAIN attempts[d]
      /\ \A k \in DOMAIN list : k # n =>
           list[k] = attempts[d][k] /\ attempts[d][k].state # "running"
      /\ list[n].state = "failed" /\ list[n].lease = 0
  BY <1>1, EndedRow DEF EndedKeeps
<1> HIDE DEF list
<1>5. RowInv(row, list)
  <2>1. ASSUME NEW k \in DOMAIN list
        PROVE  /\ list[k].state # "running" /\ list[k].lease = 0
               /\ list[k].state # "succeeded"
    BY <1>1, <1>2, <1>4 DEF RowInv
  <2>2. row.thread \in Thread /\ Len(list) <= MaxAttempts
    BY <1>1, <1>2, <1>3, <1>4 DEF RowInv
  <2> QED BY <1>3, <1>4, <2>1, <2>2 DEF RowInv
<1>6. MessageInv(d, row, messages)
  BY <1>1, <1>2, <1>3 DEF MessageInv
<1>7. /\ deliveries' \in [Delivery -> DeliveryRow] /\ deliveries'[d] = row
      /\ attempts' \in [Delivery -> Seq(AttemptRow)] /\ attempts'[d] = list
      /\ \A e \in Delivery : e # d =>
           deliveries'[e] = deliveries[e] /\ attempts'[e] = attempts[e]
  BY <1>1, <1>3, <1>4 DEF IInv
<1>8. ClaimInv'
  <2>1. \A v \in Worker : txn[v].open => txn[v].recovered # d
    BY <1>1 DEF Locked
  <2> QED BY <1>1, <1>7, <2>1 DEF IInv, ClaimInv
<1> QED BY <1>1, <1>5, <1>6, <1>7, <1>8 DEF IInv

(* A second passes for one Delivery.                                       *)
(* What a second that elapses leaves of a Delivery and its Attempts.       *)
ElapsedKeeps(d, row, list) ==
  LET later == [row EXCEPT !.eligible = Elapse(@)]
      rows == [n \in DOMAIN list |-> [list[n] EXCEPT !.lease = Elapse(@)]]
  IN  /\ RowInv(later, rows)
      /\ MessageInv(d, row, messages) => MessageInv(d, later, messages)
      /\ later.status = row.status
      /\ row.status = "delivered" => later = row
      /\ Len(rows) = Len(list) /\ DOMAIN rows = DOMAIN list
      /\ \A n \in DOMAIN list :
           /\ rows[n].state = list[n].state
           /\ Expired(list[n]) => Expired(rows[n])
           /\ list[n].state # "running" => rows[n] = list[n]

LEMMA ElapsedRow ==
  ASSUME NEW d \in Delivery, NEW row, NEW list, RowInv(row, list)
  PROVE  ElapsedKeeps(d, row, list)
<1> DEFINE later == [row EXCEPT !.eligible = Elapse(@)]
           rows == [n \in DOMAIN list |-> [list[n] EXCEPT !.lease = Elapse(@)]]
<1>1. \A k \in Nat : Elapse(k) \in Nat /\ Elapse(k) <= k
  BY DEF Elapse
<1>2. Elapse(0) = 0
  BY DEF Elapse
<1>3. /\ later \in DeliveryRow
      /\ later.status = row.status /\ later.thread = row.thread /\ later.cutoff = row.cutoff
      /\ later.success = row.success /\ later.message = row.message
      /\ later.eligible = Elapse(row.eligible) /\ row.eligible \in Nat
      /\ row.eligible = 0 => later = row
  BY <1>1, <1>2 DEF RowInv, DeliveryRow
<1>4. list \in Seq(AttemptRow) /\ Len(list) \in Nat /\ DOMAIN list = 1 .. Len(list)
  BY DEF RowInv
<1>5. ASSUME NEW n \in DOMAIN list
      PROVE  /\ [list[n] EXCEPT !.lease = Elapse(@)] \in AttemptRow
             /\ [list[n] EXCEPT !.lease = Elapse(@)].state = list[n].state
             /\ [list[n] EXCEPT !.lease = Elapse(@)].lease = Elapse(list[n].lease)
             /\ list[n].lease = 0 => [list[n] EXCEPT !.lease = Elapse(@)] = list[n]
  <2>1. list[n] \in AttemptRow
    BY <1>4
  <2>2. LeaseSeconds \in Nat /\ list[n].lease \in 0 .. LeaseSeconds
    BY <2>1, PolicyAssumption DEF AttemptRow
  <2>3. Elapse(list[n].lease) \in 0 .. LeaseSeconds
    BY <1>1, <2>2
  <2> HIDE DEF Elapse
  <2> QED BY <1>2, <2>1, <2>3 DEF AttemptRow
<1>6. rows \in Seq(AttemptRow) /\ Len(rows) = Len(list) /\ DOMAIN rows = DOMAIN list
  <2>1. rows \in [1 .. Len(list) -> AttemptRow]
    BY <1>4, <1>5
  <2> QED BY <1>4, <2>1
<1>7. ASSUME NEW n \in DOMAIN list
      PROVE  /\ rows[n].state = list[n].state /\ rows[n].lease = Elapse(list[n].lease)
             /\ list[n].lease = 0 => rows[n] = list[n]
  BY <1>5
<1>0. (/\ RowInv(later, rows)
       /\ MessageInv(d, row, messages) => MessageInv(d, later, messages)
       /\ later.status = row.status
       /\ row.status = "delivered" => later = row
       /\ Len(rows) = Len(list) /\ DOMAIN rows = DOMAIN list
       /\ \A n \in DOMAIN list :
            /\ rows[n].state = list[n].state
            /\ Expired(list[n]) => Expired(rows[n])
            /\ list[n].state # "running" => rows[n] = list[n])
      => ElapsedKeeps(d, row, list)
  BY Zenon DEF ElapsedKeeps
<1> HIDE DEF later, rows
<1>8. RowInv(later, rows)
  BY <1>2, <1>3, <1>4, <1>6, <1>7 DEF RowInv
<1>9. MessageInv(d, row, messages) => MessageInv(d, later, messages)
  BY <1>3 DEF MessageInv
<1>10. \A n \in DOMAIN list :
         /\ rows[n].state = list[n].state
         /\ Expired(list[n]) => Expired(rows[n])
         /\ list[n].state # "running" => rows[n] = list[n]
  BY <1>2, <1>7 DEF Expired, RowInv
<1>11. row.status = "delivered" => later = row
  BY <1>3 DEF RowInv
<1> QED BY <1>0, <1>3, <1>6, <1>8, <1>9, <1>10, <1>11

LEMMA TickIInv == IInv /\ Tick => IInv'
<1> SUFFICES ASSUME IInv, Tick PROVE IInv'
  OBVIOUS
<1>1. UNCHANGED <<messages, txn>>
  BY DEF Tick
<1>2. /\ DOMAIN deliveries' = Delivery /\ DOMAIN attempts' = Delivery
      /\ deliveries' = [d \in Delivery |-> deliveries'[d]]
      /\ attempts' = [d \in Delivery |-> attempts'[d]]
  BY DEF Tick
<1>3. ASSUME NEW d \in Delivery
      PROVE  /\ RowInv(deliveries'[d], attempts'[d])
             /\ MessageInv(d, deliveries'[d], messages)
             /\ deliveries'[d].status = deliveries[d].status
             /\ DOMAIN attempts'[d] = DOMAIN attempts[d]
             /\ \A n \in DOMAIN attempts[d] :
                  Expired(attempts[d][n]) => Expired(attempts'[d][n])
  <2>1. /\ deliveries'[d] = [deliveries[d] EXCEPT !.eligible = Elapse(@)]
        /\ attempts'[d] = [n \in DOMAIN attempts[d] |->
                             [attempts[d][n] EXCEPT !.lease = Elapse(@)]]
    BY DEF Tick
  <2>2. RowInv(deliveries[d], attempts[d]) /\ MessageInv(d, deliveries[d], messages)
    BY DEF IInv
  <2> QED BY <2>1, <2>2, ElapsedRow DEF ElapsedKeeps
<1>4. /\ deliveries' \in [Delivery -> DeliveryRow]
      /\ attempts' \in [Delivery -> Seq(AttemptRow)]
  BY <1>2, <1>3 DEF RowInv
<1>5. ClaimInv'
  BY <1>1, <1>3 DEF IInv, ClaimInv
<1> QED BY <1>1, <1>3, <1>4, <1>5 DEF IInv

LEMMA NextIInv == IInv /\ [Next]_vars => IInv'
<1> SUFFICES ASSUME IInv, [Next]_vars PROVE IInv'
  OBVIOUS
<1>1. CASE UNCHANGED vars
  BY <1>1 DEF vars, IInv, ClaimInv, RowInv, MessageInv
<1>2. CASE \E t \in Thread, d \in Delivery : Create(d, t)
  BY <1>2, CreateIInv
<1>3. CASE \E t \in Thread, m \in ChannelMessage : Post(t, m)
  BY <1>3, PostIInv
<1>4. CASE \E w \in Worker : Scan(w)
  BY <1>4, ScanIInv
<1>5. CASE \E w \in Worker : Commit(w)
  BY <1>5, CommitIInv
<1>6. CASE \E w \in Worker : Conflict(w) \/ Disconnect(w)
  BY <1>6, EndedIInv DEF Conflict, Disconnect
<1>7. CASE \E w \in Worker, d \in Delivery : \E n \in DOMAIN attempts[d] : Acknowledge(d, n, w)
  BY <1>7, AcknowledgeIInv
<1>8. CASE \E w \in Worker, d \in Delivery : \E n \in DOMAIN attempts[d] : ReportFailure(d, n, w)
  BY <1>8, ReportFailureIInv
<1>9. CASE Tick
  BY <1>9, TickIInv
<1> QED BY <1>1, <1>2, <1>3, <1>4, <1>5, <1>6, <1>7, <1>8, <1>9 DEF Next

LEMMA IInvAlways == Spec => []IInv
BY InitIInv, NextIInv, PTL DEF Spec

-----------------------------------------------------------------------------
(* What LeaseProtects says of one step.                                    *)
Protected(d) ==
  /\ \A n \in DOMAIN attempts[d] :
       /\ Live(attempts[d][n]) =>
            attempts'[d][n].state # "abandoned" /\ Len(attempts'[d]) = Len(attempts[d])
       /\ attempts[d][n].state # "running" => attempts'[d][n] = attempts[d][n]
  /\ deliveries[d].status = "delivered" => deliveries'[d] = deliveries[d]

LEMMA UnchangedProtected ==
  ASSUME IInv, NEW d \in Delivery, deliveries'[d] = deliveries[d], attempts'[d] = attempts[d]
  PROVE  Protected(d)
BY DEF Protected, Live

LEMMA CommitProtected ==
  ASSUME IInv, NEW w \in Worker, Commit(w), NEW d \in Delivery
  PROVE  Protected(d)
<1> DEFINE D == DeliveriesOf(w)
           A == AttemptsOf(w)
<1>1. txn[w].open
  BY DEF Commit
<1>2. D \in [Delivery -> DeliveryRow] /\ A \in [Delivery -> Seq(AttemptRow)]
  BY <1>1, ViewInv
<1>3. /\ Len(A[d]) = Len(attempts[d])
      /\ Len(attempts[d]) \in Nat /\ DOMAIN attempts[d] = 1 .. Len(attempts[d])
      /\ \A n \in DOMAIN attempts[d] :
           /\ attempts[d][n].state # "running" => A[d][n] = attempts[d][n]
           /\ Live(attempts[d][n]) => A[d][n] = attempts[d][n]
      /\ deliveries[d].status = "delivered" => D[d] = deliveries[d]
  <2>0. Len(attempts[d]) \in Nat /\ DOMAIN attempts[d] = 1 .. Len(attempts[d])
    BY DEF IInv
  <2>1. CASE d = txn[w].recovered
    <3>1. /\ deliveries[d].status = "pending"
          /\ \E n \in DOMAIN attempts[d] : Expired(attempts[d][n])
      BY <1>1, <2>1 DEF IInv, ClaimInv
    <3> QED BY <2>0, <2>1, <3>1, RecoveredRow DEF AttemptsOf
  <2>2. CASE d # txn[w].recovered
    BY <1>1, <2>0, <2>2, ViewInv
  <2> QED BY <2>1, <2>2
<1>4. \A n \in DOMAIN attempts[d] : Live(attempts[d][n]) => attempts[d][n].state = "running"
  BY DEF Live
<1> HIDE DEF D, A
<1>5. CASE deliveries'[d] = D[d] /\ attempts'[d] = A[d]
  BY <1>3, <1>4, <1>5 DEF Protected
<1>6. CASE /\ D[d].status = "pending"
           /\ deliveries' = [D EXCEPT ![d].status = "failed"] /\ attempts' = A
  BY <1>2, <1>3, <1>4, <1>6 DEF Protected
<1>7. CASE /\ ~RunningIn(A[d]) /\ deliveries' = D
           /\ attempts' = [A EXCEPT ![d] =
                Append(@, [state |-> "running", worker |-> w, lease |-> LeaseSeconds])]
  <2>1. attempts'[d] =
          Append(A[d], [state |-> "running", worker |-> w, lease |-> LeaseSeconds])
    BY <1>2, <1>7
  <2>2. A[d] \in Seq(AttemptRow) /\ DOMAIN A[d] = 1 .. Len(A[d])
    BY <1>2
  <2>3. \A n \in DOMAIN A[d] : attempts'[d][n] = A[d][n] /\ A[d][n].state # "running"
    BY <1>7, <2>1, <2>2 DEF RunningIn
  <2> QED BY <1>3, <1>4, <1>7, <2>2, <2>3 DEF Protected
<1>8. CASE \E e \in Lockable(w) :
             /\ deliveries' = [D EXCEPT ![e].status = "failed"] /\ attempts' = A
  <2>1. PICK e \in Lockable(w) : deliveries' = [D EXCEPT ![e].status = "failed"] /\ attempts' = A
    BY <1>8
  <2>2. e \in Delivery /\ D[e].status = "pending"
    BY <1>1, LockableRow DEF D
  <2> QED BY <1>2, <1>5, <1>6, <2>1, <2>2
<1>9. CASE \E e \in Lockable(w) :
             /\ ~Conflicts(A[e]) /\ deliveries' = D
             /\ attempts' = [A EXCEPT ![e] =
                  Append(@, [state |-> "running", worker |-> w, lease |-> LeaseSeconds])]
  BY <1>2, <1>5, <1>7, <1>9 DEF Conflicts
<1>10. CASE deliveries' = D /\ attempts' = A
  BY <1>5, <1>10
<1> QED BY <1>8, <1>9, <1>10 DEF Commit, D, A

LEMMA EndedProtected ==
  ASSUME IInv, NEW e \in Delivery, NEW n \in DOMAIN attempts[e], Live(attempts[e][n]),
         deliveries[e].status # "delivered",
         \A d \in Delivery : d # e => deliveries'[d] = deliveries[d],
         NEW state \in {"succeeded", "failed"},
         attempts' = [attempts EXCEPT ![e] = [attempts[e] EXCEPT ![n] =
           [attempts[e][n] EXCEPT !.state = state, !.lease = 0]]],
         NEW d \in Delivery
  PROVE  Protected(d)
<1>1. CASE d # e
  BY <1>1, UnchangedProtected DEF IInv
<1>2. CASE d = e
  <2> DEFINE list == [attempts[e] EXCEPT ![n] =
                        [attempts[e][n] EXCEPT !.state = state, !.lease = 0]]
  <2>1. attempts'[d] = list
    BY <1>2 DEF IInv
  <2>2. /\ Len(list) = Len(attempts[e]) /\ DOMAIN list = DOMAIN attempts[e]
        /\ \A k \in DOMAIN list : k # n =>
             list[k] = attempts[e][k] /\ attempts[e][k].state # "running"
        /\ list[n].state = state
    <3>1. IInv /\ Live(attempts[e][n])
      OBVIOUS
    <3>2. EndedKeeps(e, n, state)
      BY <3>1, EndedRow
    <3> QED BY <3>2 DEF EndedKeeps
  <2> HIDE DEF list
  <2> QED BY <1>2, <2>1, <2>2 DEF Protected, Live
<1> QED BY <1>1, <1>2

LEMMA TickProtected ==
  ASSUME IInv, Tick, NEW d \in Delivery
  PROVE  Protected(d)
<1>1. /\ deliveries'[d] = [deliveries[d] EXCEPT !.eligible = Elapse(@)]
      /\ attempts'[d] = [n \in DOMAIN attempts[d] |->
                           [attempts[d][n] EXCEPT !.lease = Elapse(@)]]
  BY DEF Tick
<1>2. RowInv(deliveries[d], attempts[d])
  BY DEF IInv
<1> DEFINE later == [deliveries[d] EXCEPT !.eligible = Elapse(@)]
           rows == [n \in DOMAIN attempts[d] |-> [attempts[d][n] EXCEPT !.lease = Elapse(@)]]
<1>3. /\ deliveries[d].status = "delivered" => later = deliveries[d]
      /\ Len(rows) = Len(attempts[d])
      /\ \A n \in DOMAIN attempts[d] :
           /\ rows[n].state = attempts[d][n].state
           /\ attempts[d][n].state # "running" => rows[n] = attempts[d][n]
  <2>1. ElapsedKeeps(d, deliveries[d], attempts[d])
    BY <1>2, ElapsedRow
  <2> QED BY <2>1 DEF ElapsedKeeps
<1>4. deliveries'[d] = later /\ attempts'[d] = rows
  BY <1>1
<1> HIDE DEF later, rows
<1> QED BY <1>3, <1>4 DEF Protected, Live

LEMMA NextProtected ==
  ASSUME IInv, [Next]_vars, NEW d \in Delivery
  PROVE  Protected(d)
<1>1. CASE deliveries' = deliveries /\ attempts' = attempts
  BY <1>1, UnchangedProtected
<1>2. CASE \E e \in Delivery, t \in Thread : Create(e, t)
  <2>1. CASE deliveries[d].status = "absent"
    <3>1. attempts[d] = <<>> /\ attempts'[d] = attempts[d]
      BY <1>2, <2>1 DEF IInv, RowInv, Create
    <3> QED BY <2>1, <3>1 DEF Protected
  <2>2. CASE deliveries[d].status # "absent"
    BY <1>2, <2>2, UnchangedProtected DEF Create, IInv
  <2> QED BY <2>1, <2>2
<1>3. CASE \E w \in Worker : Commit(w)
  BY <1>3, CommitProtected
<1>4. CASE \E w \in Worker, e \in Delivery : \E n \in DOMAIN attempts[e] : Acknowledge(e, n, w)
  <2>1. PICK w \in Worker, e \in Delivery : \E n \in DOMAIN attempts[e] : Acknowledge(e, n, w)
    BY <1>4
  <2>2. PICK n \in DOMAIN attempts[e] : Acknowledge(e, n, w)
    BY <2>1
  <2>3. /\ Live(attempts[e][n]) /\ deliveries[e].status # "delivered"
        /\ \A f \in Delivery : f # e => deliveries'[f] = deliveries[f]
    BY <2>2 DEF Acknowledge, Held, IInv
  <2>4. attempts' = [attempts EXCEPT ![e] = [attempts[e] EXCEPT ![n] =
          [attempts[e][n] EXCEPT !.state = "succeeded", !.lease = 0]]]
    BY <2>2 DEF Acknowledge, Succeeded
  <2> QED BY <2>3, <2>4, EndedProtected
<1>5. CASE \E w \in Worker, e \in Delivery : \E n \in DOMAIN attempts[e] : ReportFailure(e, n, w)
  <2>1. PICK w \in Worker, e \in Delivery : \E n \in DOMAIN attempts[e] : ReportFailure(e, n, w)
    BY <1>5
  <2>2. PICK n \in DOMAIN attempts[e] : ReportFailure(e, n, w)
    BY <2>1
  <2>3. /\ Live(attempts[e][n]) /\ deliveries[e].status # "delivered"
        /\ \A f \in Delivery : f # e => deliveries'[f] = deliveries[f]
    BY <2>2 DEF ReportFailure, Held, IInv
  <2>4. attempts' = [attempts EXCEPT ![e] = [attempts[e] EXCEPT ![n] =
          [attempts[e][n] EXCEPT !.state = "failed", !.lease = 0]]]
    BY <2>2 DEF ReportFailure
  <2> QED BY <2>3, <2>4, EndedProtected
<1>6. CASE Tick
  BY <1>6, TickProtected
<1> QED BY <1>1, <1>2, <1>3, <1>4, <1>5, <1>6 DEF Next, vars, Post, Scan, Conflict, Disconnect

-----------------------------------------------------------------------------
(* The rows of Deliveries, Attempts and Threads have their types, and no   *)
(* Delivery has more Attempts than its policy allows, however many claims  *)
(* meet.                                                                   *)
THEOREM DeliveryTypeCorrect == Spec => []TypeOK
BY IInvAlways, IInvImplies, PTL

(* A superseded worker has no authority: only the newest Attempt runs.     *)
THEOREM NewestRuns == Spec => []RunningIsNewest
BY IInvAlways, IInvImplies, PTL

(* A Delivery appends at most one Message, exactly when it is delivered.   *)
THEOREM DeliveredAtMostOnce == Spec => []DeliveredOnce
BY IInvAlways, IInvImplies, PTL

(* A lease protects its holder, and what has ended stays as it is.         *)
THEOREM LeasesProtect == Spec => LeaseProtects
<1>1. IInv /\ [Next]_vars => [\A d \in Delivery : Protected(d)]_vars
  BY NextProtected
<1>2. (\A d \in Delivery : Protected(d)) <=>
        \A d \in Delivery :
          /\ \A n \in DOMAIN attempts[d] :
               /\ Live(attempts[d][n]) =>
                    /\ attempts'[d][n].state # "abandoned"
                    /\ Len(attempts'[d]) = Len(attempts[d])
               /\ attempts[d][n].state # "running" =>
                    attempts'[d][n] = attempts[d][n]
          /\ deliveries[d].status = "delivered" => deliveries'[d] = deliveries[d]
  BY DEF Protected
<1> QED BY <1>1, <1>2, IInvAlways, PTL DEF Spec, LeaseProtects
===============================================================================
