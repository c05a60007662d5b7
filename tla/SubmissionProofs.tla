-------------------------- MODULE SubmissionProofs ---------------------------
(***************************************************************************)
(* Proofs about CommandSubmission, for every number of clients, every set  *)
(* of contents and every way the statements of transactions interleave;    *)
(* and about the order of the locks that the handlers of Commands take.    *)
(***************************************************************************)
EXTENDS SubmissionRefinement, LockOrder, SequenceTheorems, WellFoundedInduction, TLAPS

(* Receipts and Workflow keys point at the Commands executed, and back.    *)
KeysAgree ==
  /\ \A i \in Command : receipts[i] # 0 =>
       receipts[i] \in DOMAIN started /\ started[receipts[i]].id = i
  /\ \A w \in Workflow : workflows[w] # 0 =>
       workflows[w] \in DOMAIN started /\ started[workflows[w]].workflow = w
  /\ \A n \in DOMAIN started :
       receipts[started[n].id] = n /\ workflows[started[n].workflow] = n

(* What a transaction has found out still holds, because of its locks.     *)
StillTrue(t) ==
  /\ t.stage \in AfterLookup => receipts[t.request.id] = 0
  /\ t.stage \in {"fresh", "keyed", "placed"} => t.provision
  /\ t.stage \in AfterThread /\ t.provision => Provisionable(t.request)
  /\ t.stage \in AfterFacts /\ t.provision =>
       t.facts = Replaced(facts[t.request.policy], t.request.fact)
  /\ t.stage \in {"checked", "recorded"} /\ ~t.provision => threads[t.request.thread] # None
  /\ t.stage = "recorded" => workflows[t.request.workflow] = 0

(* No lock is held twice.                                                  *)
LocksExclude ==
  \A c, d \in Client : c # d => Locks(tx[c]) \cap Locks(tx[d]) = {}

Inv ==
  /\ TypeOK
  /\ KeysAgree
  /\ \A c \in Client : StillTrue(tx[c])
  /\ LocksExclude
  /\ AnswersStand

Tx == Transaction \cup {NoTransaction}
Answer == {NoAnswer} \cup
  [request : Request, outcome : {"started", "conflict", "refused"}, instance : Nat]

-----------------------------------------------------------------------------
LEMMA InitInv == Init => Inv
<1> SUFFICES ASSUME Init PROVE Inv
  OBVIOUS
<1>1. TypeOK
  BY DEF Init, TypeOK, NoFacts, FactsRow
<1>2. KeysAgree
  BY DEF Init, KeysAgree
<1>3. \A c \in Client : tx[c].stage = "idle"
  BY DEF Init, NoTransaction
<1>4. \A c \in Client : StillTrue(tx[c])
  BY <1>3 DEF StillTrue, AfterLookup, AfterThread, AfterFacts
<1>5. \A c \in Client : Locks(tx[c]) = {}
  BY <1>3 DEF Locks, Keys, AfterLookup, AfterThread, AfterFacts
<1>6. LocksExclude
  BY <1>5 DEF LocksExclude
<1>7. AnswersStand
  BY DEF Init, AnswersStand, NoAnswer
<1> QED BY <1>1, <1>2, <1>4, <1>6, <1>7 DEF Inv

(* A step that changes one transaction and no row.                         *)
LEMMA OneMoves ==
  ASSUME Inv, NEW c \in Client, NEW t \in Tx,
         tx' = [tx EXCEPT ![c] = t],
         UNCHANGED rows,
         StillTrue(t),
         \A d \in Client \ {c} : Locks(t) \cap Locks(tx[d]) = {},
         answer' \in [Client -> Answer],
         AnswersStand'
  PROVE  Inv'
<1>1. tx \in [Client -> Tx]
  BY DEF Inv, TypeOK, Tx
<1>2. tx' \in [Client -> Tx] /\ tx'[c] = t /\ \A d \in Client \ {c} : tx'[d] = tx[d]
  BY <1>1
<1>3. TypeOK'
  BY <1>2 DEF Inv, TypeOK, rows, Tx, Answer
<1>4. KeysAgree'
  BY DEF Inv, KeysAgree, rows
<1>5. \A d \in Client : StillTrue(tx[d])'
  BY <1>2 DEF Inv, StillTrue, rows, Provisionable
<1>6. LocksExclude'
  BY <1>2 DEF Inv, LocksExclude
<1> QED BY <1>3, <1>4, <1>5, <1>6 DEF Inv

(* An open transaction is a record with its request.                       *)
LEMMA OpenIsTransaction ==
  ASSUME TypeOK, NEW c \in Client, tx[c].stage # "idle"
  PROVE  tx[c] \in Transaction
BY DEF TypeOK, NoTransaction

(* A transaction that ends releases its locks; what its caller is told is  *)
(* true.                                                                   *)
LEMMA EndKeepsInv ==
  ASSUME Inv, NEW c \in Client, Ended(c), UNCHANGED rows,
         answer' \in [Client -> Answer], AnswersStand'
  PROVE  Inv'
<1>1. NoTransaction \in Tx
  BY DEF Tx
<1>2. StillTrue(NoTransaction)
  BY DEF StillTrue, NoTransaction, AfterLookup, AfterThread, AfterFacts
<1>3. \A d \in Client \ {c} : Locks(NoTransaction) \cap Locks(tx[d]) = {}
  <2>1. Locks(NoTransaction) = {}
    BY DEF Locks, Keys, NoTransaction, AfterLookup, AfterThread, AfterFacts
  <2> QED BY <2>1
<1> QED BY <1>1, <1>2, <1>3, OneMoves DEF Ended

LEMMA ToldIsTrue ==
  ASSUME Inv, NEW c \in Client, tx[c].stage # "idle",
         NEW outcome \in {"started", "conflict", "refused"}, NEW instance \in Nat,
         Ends(c, outcome, instance), UNCHANGED rows,
         LET n == receipts[tx[c].request.id] IN
           /\ outcome = "started" => n # 0 /\ n = instance /\ started[n] = tx[c].request
           /\ outcome = "conflict" => n # 0 /\ started[n] # tx[c].request
  PROVE  Inv'
<1>1. tx[c].request \in Request
  BY OpenIsTransaction DEF Inv, Transaction
<1> DEFINE told == [request |-> tx[c].request, outcome |-> outcome, instance |-> instance]
<1>2. told \in Answer
  BY <1>1 DEF Answer
<1>3. answer \in [Client -> Answer]
  BY DEF Inv, TypeOK, Answer
<1>4. answer' = answer \/ answer' = [answer EXCEPT ![c] = told]
  BY DEF Ends
<1>5. answer' \in [Client -> Answer]
  BY <1>2, <1>3, <1>4
<1>6. \A d \in Client : answer'[d] = answer[d] \/ (d = c /\ answer'[d] = told)
  <2> HIDE DEF told
  <2> QED BY <1>3, <1>4
<1>7. AnswersStand'
  BY <1>6 DEF Inv, AnswersStand, rows
<1> QED BY <1>5, <1>7, EndKeepsInv DEF Ends

(* A transaction that goes on with at most one lock more.                  *)
LEMMA MoveKeepsInv ==
  ASSUME Inv, NEW c \in Client, NEW t \in Tx, NEW lock,
         tx' = [tx EXCEPT ![c] = t],
         Free(c, lock),
         Locks(t) \subseteq Locks(tx[c]) \cup {lock},
         StillTrue(t),
         UNCHANGED <<rows, answer>>
  PROVE  Inv'
<1>1. \A d \in Client \ {c} : Locks(t) \cap Locks(tx[d]) = {}
  BY DEF Inv, LocksExclude, Free
<1>2. answer' \in [Client -> Answer] /\ AnswersStand'
  BY DEF Inv, TypeOK, Answer, AnswersStand, rows
<1>3. UNCHANGED rows
  OBVIOUS
<1> QED BY <1>1, <1>2, <1>3, OneMoves

-----------------------------------------------------------------------------
LEMMA SubmitInv ==
  ASSUME Inv, NEW c \in Client, NEW r \in Request, NEW provision \in BOOLEAN,
         Submit(c, r, provision)
  PROVE  Inv'
<1> DEFINE t == [stage |-> "asked", request |-> r, provision |-> provision, facts |-> NoFacts]
<1>1. t \in Tx
  BY DEF Tx, Transaction, Stage, NoFacts
<1>2. StillTrue(t) /\ Locks(t) = {}
  BY DEF StillTrue, Locks, Keys, AfterLookup, AfterThread, AfterFacts
<1>3. answer' \in [Client -> Answer]
  BY DEF Inv, TypeOK, Submit, Answer
<1>4. \A d \in Client : answer'[d] = answer[d] \/ answer'[d] = NoAnswer
  BY DEF Inv, TypeOK, Submit
<1>5. AnswersStand'
  BY <1>4 DEF Inv, AnswersStand, Submit, rows, NoAnswer
<1>6. tx' = [tx EXCEPT ![c] = t] /\ UNCHANGED rows
  BY DEF Submit
<1> HIDE DEF t
<1> QED BY <1>1, <1>2, <1>3, <1>5, <1>6, OneMoves

LEMMA LookUpInv ==
  ASSUME Inv, NEW c \in Client, LookUp(c)
  PROVE  Inv'
<1> DEFINE r == tx[c].request
           n == receipts[r.id]
<1>1. tx[c] \in Transaction /\ tx[c].stage = "asked"
  BY OpenIsTransaction DEF Inv, LookUp
<1>2. r \in Request /\ r.id \in Command /\ n \in Nat
  BY <1>1, RequestAssumption DEF Transaction, Inv, TypeOK
<1>3. CASE n = 0
  <2> DEFINE t == [tx[c] EXCEPT !.stage = IF tx[c].provision THEN "fresh" ELSE "asserted"]
  <2>1. t \in Transaction /\ t.request = r /\ t.provision = tx[c].provision
        /\ t.stage = IF tx[c].provision THEN "fresh" ELSE "asserted"
    BY <1>1 DEF Transaction, Stage, AfterLookup
  <2>2. tx' = [tx EXCEPT ![c] = t] /\ UNCHANGED <<rows, answer>> /\ Free(c, <<"command", r.id>>)
    BY <1>3 DEF LookUp, Moved
  <2> HIDE DEF t
  <2>3. StillTrue(t)
    BY <1>3, <2>1 DEF StillTrue, AfterLookup, AfterThread, AfterFacts
  <2>4. Locks(t) \subseteq Locks(tx[c]) \cup {<<"command", r.id>>}
    BY <2>1 DEF Locks, Keys, AfterLookup, AfterThread, AfterFacts
  <2> QED BY <2>1, <2>2, <2>3, <2>4, MoveKeepsInv DEF Tx
<1>4. CASE n # 0
  BY <1>1, <1>2, <1>4, ToldIsTrue DEF LookUp, SameContent
<1> QED BY <1>3, <1>4

LEMMA LockFirstKeyInv ==
  ASSUME Inv, NEW c \in Client, LockFirstKey(c)
  PROVE  Inv'
<1> DEFINE r == tx[c].request
           t == [tx[c] EXCEPT !.stage = "keyed"]
<1>1. tx[c] \in Transaction /\ tx[c].stage = "fresh"
  BY OpenIsTransaction DEF Inv, LockFirstKey
<1>2. t \in Transaction /\ t.request = r /\ t.provision = tx[c].provision
      /\ t.facts = tx[c].facts /\ t.stage = "keyed"
  BY <1>1 DEF Transaction, Stage, AfterLookup
<1>3. tx' = [tx EXCEPT ![c] = t] /\ UNCHANGED <<rows, answer>>
      /\ Free(c, <<"thread", FirstKey(r)>>)
  BY DEF LockFirstKey, Moved
<1>4. StillTrue(tx[c])
  BY DEF Inv
<1> HIDE DEF t
<1>5. StillTrue(t)
  BY <1>1, <1>2, <1>4 DEF StillTrue, AfterLookup, AfterThread, AfterFacts
<1>6. Locks(t) \subseteq Locks(tx[c]) \cup {<<"thread", FirstKey(r)>>}
  BY <1>1, <1>2 DEF Locks, Keys, AfterLookup, AfterThread, AfterFacts
<1> QED BY <1>2, <1>3, <1>5, <1>6, MoveKeepsInv DEF Tx

(* The second key is whichever of the two the first was not.               *)
LEMMA ProvisionInv ==
  ASSUME Inv, NEW c \in Client, Provision(c)
  PROVE  Inv'
<1> DEFINE r == tx[c].request
           t == [tx[c] EXCEPT !.stage = "placed"]
           second == IF FirstKey(r) = r.thread THEN r.channel ELSE r.thread
<1>1. tx[c] \in Transaction /\ tx[c].stage = "keyed"
  BY OpenIsTransaction DEF Inv, Provision
<1>2. CASE Provisionable(r)
  <2>1. t \in Transaction /\ t.request = r /\ t.provision = tx[c].provision
        /\ t.facts = tx[c].facts /\ t.stage = "placed"
    BY <1>1 DEF Transaction, Stage, AfterLookup
  <2>2. tx' = [tx EXCEPT ![c] = t] /\ UNCHANGED <<rows, answer>>
        /\ Free(c, <<"thread", second>>)
    BY <1>2 DEF Provision, Moved
  <2>3. StillTrue(tx[c])
    BY DEF Inv
  <2> HIDE DEF t
  <2>4. StillTrue(t)
    BY <1>1, <1>2, <2>1, <2>3 DEF StillTrue, AfterLookup, AfterThread, AfterFacts
  <2>5. Keys(t) \subseteq Keys(tx[c]) \cup {second}
    BY <1>1, <2>1 DEF Keys, FirstKey, AfterThread
  <2>6. Locks(t) \subseteq Locks(tx[c]) \cup {<<"thread", second>>}
    BY <1>1, <2>1, <2>5 DEF Locks, AfterLookup, AfterFacts
  <2> HIDE DEF second
  <2> QED BY <2>1, <2>2, <2>4, <2>6, MoveKeepsInv DEF Tx
<1>3. CASE ~Provisionable(r)
  BY <1>1, <1>3, ToldIsTrue DEF Provision
<1> QED BY <1>2, <1>3

LEMMA AssertFactsInv ==
  ASSUME Inv, NEW c \in Client, AssertFacts(c)
  PROVE  Inv'
<1> DEFINE r == tx[c].request
           row == Replaced(facts[r.policy], r.fact)
           t == [tx[c] EXCEPT !.stage = "asserted", !.facts = row]
<1>1. tx[c] \in Transaction /\ tx[c].stage = "placed"
  BY OpenIsTransaction DEF Inv, AssertFacts
<1>2. r \in Request /\ r.policy \in Policy /\ r.fact \in Fact
  BY <1>1, RequestAssumption DEF Transaction
<1>3. row \in [value : Fact \cup {None}, revision : Nat]
  BY <1>2 DEF Inv, TypeOK, FactsRow, Replaced, NoFacts
<1>4. t \in Transaction /\ t.request = r /\ t.provision = tx[c].provision
      /\ t.facts = row /\ t.stage = "asserted"
  <2> HIDE DEF row
  <2> QED BY <1>1, <1>3 DEF Transaction, Stage, AfterLookup
<1>5. tx' = [tx EXCEPT ![c] = t] /\ UNCHANGED <<rows, answer>>
      /\ Free(c, <<"policy", r.policy>>)
  BY DEF AssertFacts, FactsFree
<1>6. StillTrue(tx[c])
  BY DEF Inv
<1> HIDE DEF t
<1>7. StillTrue(t)
  BY <1>1, <1>4, <1>6 DEF StillTrue, AfterLookup, AfterThread, AfterFacts
<1>8. Locks(t) \subseteq Locks(tx[c]) \cup {<<"policy", r.policy>>}
  BY <1>1, <1>4 DEF Locks, Keys, AfterLookup, AfterThread, AfterFacts
<1> QED BY <1>4, <1>5, <1>7, <1>8, MoveKeepsInv DEF Tx

LEMMA CheckInv ==
  ASSUME Inv, NEW c \in Client, Check(c)
  PROVE  Inv'
<1> DEFINE r == tx[c].request
           t == [tx[c] EXCEPT !.stage = "checked"]
           passed == (tx[c].provision \/ threads[r.thread] # None) /\ workflows[r.workflow] = 0
<1>1. tx[c] \in Transaction /\ tx[c].stage = "asserted"
  BY OpenIsTransaction DEF Inv, Check
<1>2. CASE passed
  <2>1. t \in Transaction /\ t.request = r /\ t.provision = tx[c].provision
        /\ t.facts = tx[c].facts /\ t.stage = "checked"
    BY <1>1 DEF Transaction, Stage, AfterLookup
  <2>2. tx' = [tx EXCEPT ![c] = t] /\ UNCHANGED <<rows, answer>>
    BY <1>2 DEF Check, Moved
  <2>3. StillTrue(tx[c])
    BY DEF Inv
  <2> HIDE DEF t
  <2>4. StillTrue(t)
    BY <1>1, <1>2, <2>1, <2>3 DEF StillTrue, AfterLookup, AfterThread, AfterFacts
  <2>5. Locks(t) \subseteq Locks(tx[c])
    BY <1>1, <2>1 DEF Locks, Keys, AfterLookup, AfterThread, AfterFacts
  <2>6. <<"command", r.id>> \in Locks(tx[c])
    BY <1>1 DEF Locks, AfterLookup
  <2>7. Free(c, <<"command", r.id>>)
    BY <2>6 DEF Inv, LocksExclude, Free
  <2> QED BY <2>1, <2>2, <2>4, <2>5, <2>7, MoveKeepsInv DEF Tx
<1>3. CASE ~passed
  BY <1>1, <1>3, ToldIsTrue DEF Check
<1> QED BY <1>2, <1>3

LEMMA RecordInv ==
  ASSUME Inv, NEW c \in Client, Record(c)
  PROVE  Inv'
<1> DEFINE r == tx[c].request
           t == [tx[c] EXCEPT !.stage = "recorded"]
<1>1. tx[c] \in Transaction /\ tx[c].stage = "checked"
  BY OpenIsTransaction DEF Inv, Record
<1>2. CASE Recordable(r)
  <2>1. t \in Transaction /\ t.request = r /\ t.provision = tx[c].provision
        /\ t.facts = tx[c].facts /\ t.stage = "recorded"
    BY <1>1 DEF Transaction, Stage, AfterLookup
  <2>2. tx' = [tx EXCEPT ![c] = t] /\ UNCHANGED <<rows, answer>>
        /\ Free(c, <<"workflow", r.workflow>>)
    BY <1>2 DEF Record, Moved
  <2>3. StillTrue(tx[c])
    BY DEF Inv
  <2> HIDE DEF t
  <2>4. StillTrue(t)
    BY <1>1, <1>2, <2>1, <2>3
    DEF StillTrue, Recordable, AfterLookup, AfterThread, AfterFacts
  <2>5. Locks(t) \subseteq Locks(tx[c]) \cup {<<"workflow", r.workflow>>}
    BY <1>1, <2>1 DEF Locks, Keys, AfterLookup, AfterThread, AfterFacts
  <2> QED BY <2>1, <2>2, <2>4, <2>5, MoveKeepsInv DEF Tx
<1>3. CASE ~Recordable(r)
  BY <1>1, <1>3, ToldIsTrue DEF Record
<1> QED BY <1>2, <1>3

(* The rows a commit writes are those of its locks, so that no other       *)
(* transaction has found out anything about them.                          *)
LEMMA CommitInv ==
  ASSUME Inv, NEW c \in Client, Commit(c)
  PROVE  Inv'
<1> DEFINE r == tx[c].request
           n == Len(started) + 1
           told == [request |-> r, outcome |-> "started", instance |-> n]
<1>1. tx[c] \in Transaction /\ tx[c].stage = "recorded"
  BY OpenIsTransaction DEF Inv, Commit
<1>2. /\ r \in Request /\ r.id \in Command /\ r.workflow \in Workflow
      /\ r.thread \in Thread /\ r.channel \in Channel /\ r.policy \in Policy
      /\ r.channel # None
  BY <1>1, RequestAssumption, NoneAssumption DEF Transaction
<1>3. /\ started \in Seq(Request) /\ started' = Append(started, r)
      /\ n \in Nat \ {0}
      /\ DOMAIN started' = 1..n /\ DOMAIN started = 1..(n - 1)
      /\ started'[n] = r
      /\ \A m \in DOMAIN started : started'[m] = started[m] /\ m # n
  BY <1>2 DEF Inv, TypeOK, Commit
<1>4. /\ receipts \in [Command -> Nat] /\ receipts' = [receipts EXCEPT ![r.id] = n]
      /\ workflows \in [Workflow -> Nat] /\ workflows' = [workflows EXCEPT ![r.workflow] = n]
  BY DEF Inv, TypeOK, Commit
<1>5. StillTrue(tx[c])
  BY DEF Inv
<1>6. receipts[r.id] = 0 /\ workflows[r.workflow] = 0
  BY <1>1, <1>5 DEF StillTrue, AfterLookup
<1>7. /\ tx \in [Client -> Tx] /\ tx' = [tx EXCEPT ![c] = NoTransaction]
      /\ \A d \in Client \ {c} : tx'[d] = tx[d]
      /\ tx'[c] = NoTransaction
  BY DEF Inv, TypeOK, Tx, Commit, Ends, Ended
<1>8. /\ threads \in [Thread -> Channel \cup {None}] /\ facts \in [Policy -> FactsRow]
      /\ tx[c].provision =>
           /\ threads' = [threads EXCEPT ![r.thread] = r.channel]
           /\ facts' = [facts EXCEPT ![r.policy] = tx[c].facts]
      /\ ~tx[c].provision => UNCHANGED <<threads, facts>>
  BY DEF Inv, TypeOK, Commit
<1>9. /\ answer \in [Client -> Answer]
      /\ answer' = answer \/ answer' = [answer EXCEPT ![c] = told]
  BY DEF Inv, TypeOK, Answer, Commit, Ends
<1>10. tx[c].provision => tx[c].facts \in FactsRow
  <2>1. tx[c].provision => tx[c].facts = Replaced(facts[r.policy], r.fact)
    BY <1>1, <1>5 DEF StillTrue, AfterFacts
  <2>2. r.fact \in Fact /\ r.fact # None
    BY <1>2, RequestAssumption, NoneAssumption
  <2> QED BY <1>2, <1>8, <2>1, <2>2 DEF FactsRow, Replaced, NoFacts
<1>11. told \in Answer
  BY <1>2, <1>3 DEF Answer
<1>12. TypeOK'
  <2> HIDE DEF r, n, told
  <2>1. answer' \in [Client -> Answer]
    BY <1>9, <1>11
  <2>2. tx' \in [Client -> Tx]
    BY <1>7 DEF Tx
  <2>3. threads' \in [Thread -> Channel \cup {None}] /\ facts' \in [Policy -> FactsRow]
    BY <1>2, <1>8, <1>10
  <2>4. started' \in Seq(Request)
    BY <1>2, <1>3
  <2>5. receipts' \in [Command -> Nat] /\ workflows' \in [Workflow -> Nat]
    BY <1>2, <1>3, <1>4
  <2> QED BY <2>1, <2>2, <2>3, <2>4, <2>5 DEF TypeOK, Tx, Answer
<1>13. KeysAgree'
  <2> HIDE DEF r, n
  <2>1. \A m \in DOMAIN started : started[m].id # r.id /\ started[m].workflow # r.workflow
    BY <1>3, <1>6 DEF Inv, KeysAgree
  <2>2. \A m \in DOMAIN started : started[m].id \in Command /\ started[m].workflow \in Workflow
    BY <1>3, RequestAssumption
  <2>3. \A i \in Command : receipts'[i] = IF i = r.id THEN n ELSE receipts[i]
    BY <1>2, <1>4
  <2>4. \A w \in Workflow : workflows'[w] = IF w = r.workflow THEN n ELSE workflows[w]
    BY <1>2, <1>4
  <2> QED BY <1>2, <1>3, <2>1, <2>2, <2>3, <2>4 DEF Inv, KeysAgree
<1>14. LocksExclude'
  <2>1. Locks(NoTransaction) = {}
    BY DEF Locks, Keys, NoTransaction, AfterLookup, AfterThread, AfterFacts
  <2>2. Locks(tx[c])' = {}
    BY <1>7, <2>1
  <2>3. \A d \in Client \ {c} : Locks(tx[d])' = Locks(tx[d])
    BY <1>7
  <2> QED BY <2>2, <2>3 DEF Inv, LocksExclude
<1>15. ASSUME NEW d \in Client
       PROVE  StillTrue(tx[d])'
  <2>1. CASE d = c
    BY <1>7, <2>1 DEF StillTrue, NoTransaction, AfterLookup, AfterThread, AfterFacts
  <2>2. CASE d # c
    <3> DEFINE q == tx[d].request
    <3>1. tx'[d] = tx[d] /\ StillTrue(tx[d])
      BY <1>7, <2>2 DEF Inv
    <3>2. Locks(tx[c]) \cap Locks(tx[d]) = {}
      BY <2>2 DEF Inv, LocksExclude
    <3>3. tx[d].stage = "idle" \/ (tx[d] \in Transaction /\ q \in Request)
      BY OpenIsTransaction DEF Inv, Transaction
    <3>4. q \in Request => /\ q.id \in Command /\ q.workflow \in Workflow
                           /\ q.thread \in Thread /\ q.policy \in Policy /\ q.channel # None
      BY RequestAssumption, NoneAssumption
    <3>5. tx[d].stage \in AfterLookup => q.id # r.id
      BY <1>1, <3>2 DEF Locks, AfterLookup
    <3>6. tx[d].stage = "recorded" => q.workflow # r.workflow
      BY <1>1, <3>2 DEF Locks
    <3>7. tx[c].provision /\ tx[d].stage \in AfterFacts /\ tx[d].provision => q.policy # r.policy
      BY <1>1, <3>2 DEF Locks, AfterFacts
    <3>8. tx[c].provision /\ tx[d].stage \in AfterThread /\ tx[d].provision =>
            q.thread # r.thread /\ q.channel # r.channel
      <4>1. tx[c].provision => {r.thread, r.channel} \subseteq Keys(tx[c])
        BY <1>1 DEF Keys, AfterThread
      <4>2. tx[d].stage \in AfterThread /\ tx[d].provision => {q.thread, q.channel} \subseteq Keys(tx[d])
        BY DEF Keys, AfterThread
      <4>3. Keys(tx[c]) \cap Keys(tx[d]) = {}
        BY <3>2 DEF Locks
      <4> QED BY <4>1, <4>2, <4>3
    <3>9. tx[c].provision => r.channel # None /\ threads'[r.thread] = r.channel
          /\ \A t \in Thread : t # r.thread => threads'[t] = threads[t]
      BY <1>2, <1>8
    <3>10. (tx[d].stage \in AfterLookup => receipts'[q.id] = 0)
           /\ (tx[d].stage = "recorded" => workflows'[q.workflow] = 0)
      <4>1. (tx[d].stage \in AfterLookup => receipts[q.id] = 0)
            /\ (tx[d].stage = "recorded" => workflows[q.workflow] = 0)
        BY <3>1 DEF StillTrue
      <4> HIDE DEF r, q, n
      <4> QED BY <1>2, <1>4, <3>3, <3>4, <3>5, <3>6, <4>1 DEF AfterLookup
    <3>11. tx[d].stage \in AfterFacts /\ tx[d].provision =>
             tx[d].facts = Replaced(facts'[q.policy], q.fact)
      <4> HIDE DEF r, q, n
      <4>1. tx[d].stage \in AfterFacts /\ tx[d].provision =>
              facts'[q.policy] = facts[q.policy]
        BY <1>2, <1>8, <3>3, <3>4, <3>7 DEF AfterFacts
      <4> QED BY <3>1, <4>1 DEF StillTrue, q
    <3>12. tx[d].stage \in AfterThread /\ tx[d].provision =>
             \/ threads'[q.thread] = q.channel
             \/ threads'[q.thread] = None /\ \A t \in Thread : threads'[t] # q.channel
      <4>1. tx[d].stage \in AfterThread /\ tx[d].provision =>
              \/ threads[q.thread] = q.channel
              \/ threads[q.thread] = None /\ \A t \in Thread : threads[t] # q.channel
        BY <3>1 DEF StillTrue, Provisionable
      <4> HIDE DEF r, q, n
      <4> QED BY <1>2, <1>8, <3>3, <3>4, <3>8, <3>9, <4>1 DEF AfterThread
    <3>13. tx[d].stage \in {"checked", "recorded"} /\ ~tx[d].provision => threads'[q.thread] # None
      <4>1. tx[d].stage \in {"checked", "recorded"} /\ ~tx[d].provision => threads[q.thread] # None
        BY <3>1 DEF StillTrue
      <4> HIDE DEF r, q, n
      <4> QED BY <1>2, <1>8, <3>3, <3>4, <3>9, <4>1
    <3>14. tx[d].stage \in {"fresh", "keyed", "placed"} => tx[d].provision
      BY <3>1 DEF StillTrue
    <3> QED BY <3>1, <3>10, <3>11, <3>12, <3>13, <3>14 DEF StillTrue, Provisionable
  <2> QED BY <2>1, <2>2
<1>16. AnswersStand'
  <2> DEFINE Stands(a, receiptRows, list) ==
        LET m == receiptRows[a.request.id] IN
          /\ a.outcome = "started" => m # 0 /\ m = a.instance /\ list[m] = a.request
          /\ a.outcome = "conflict" => m # 0 /\ list[m] # a.request
  <2>1. \A d \in Client : Stands(answer[d], receipts, started)
    BY DEF Inv, AnswersStand
  <2>2. ASSUME NEW a \in Answer, Stands(a, receipts, started)
        PROVE  Stands(a, receipts', started')
    <3>1. CASE a.outcome \in {"started", "conflict"}
      <4> DEFINE m == receipts[a.request.id]
      <4>1. a.request.id \in Command /\ m # 0
        BY <2>2, <3>1, RequestAssumption DEF Answer, NoAnswer
      <4>2. m \in DOMAIN started
        BY <4>1 DEF Inv, KeysAgree
      <4>3. a.request.id # r.id
        BY <1>6, <4>1
      <4>4. receipts'[a.request.id] = m
        BY <1>4, <4>1, <4>3
      <4>5. started'[m] = started[m]
        BY <1>3, <4>2
      <4> QED BY <2>2, <4>4, <4>5
    <3>2. CASE a.outcome \notin {"started", "conflict"}
      BY <3>2
    <3> QED BY <3>1, <3>2
  <2>3. Stands(told, receipts', started')
    BY <1>2, <1>3, <1>4
  <2>4. \A d \in Client : answer'[d] = answer[d] \/ answer'[d] = told
    <3> HIDE DEF told
    <3> QED BY <1>9
  <2>5. \A d \in Client : answer[d] \in Answer
    BY <1>9
  <2>6. \A d \in Client : Stands(answer'[d], receipts', started')
    <3> HIDE DEF Stands, told
    <3> QED BY <2>1, <2>2, <2>3, <2>4, <2>5
  <2> QED BY <2>6 DEF AnswersStand
<1> QED BY <1>12, <1>13, <1>14, <1>15, <1>16 DEF Inv

LEMMA AbortInv ==
  ASSUME Inv, NEW c \in Client, Abort(c)
  PROVE  Inv'
<1>1. answer' \in [Client -> Answer] /\ AnswersStand'
  BY DEF Abort, rows, Inv, TypeOK, Answer, AnswersStand
<1> QED BY <1>1, EndKeepsInv DEF Abort

(* Facts are replaced from outside only while no transaction has locked    *)
(* their row, that is, before it has read what it will write.              *)
LEMMA ReplaceFactsInv ==
  ASSUME Inv, NEW p \in Policy, NEW fact \in Fact, ReplaceFacts(p, fact)
  PROVE  Inv'
<1>1. /\ facts \in [Policy -> FactsRow] /\ facts' = [facts EXCEPT ![p] = Replaced(@, fact)]
      /\ UNCHANGED <<receipts, workflows, started, threads, tx, answer>>
  BY DEF Inv, TypeOK, ReplaceFacts
<1>2. Replaced(facts[p], fact) \in FactsRow
  <2>1. fact # None
    BY NoneAssumption
  <2> QED BY <1>1, <2>1 DEF FactsRow, Replaced, NoFacts
<1>3. TypeOK'
  <2>1. facts' \in [Policy -> FactsRow]
    BY <1>1, <1>2
  <2> QED BY <1>1, <2>1 DEF Inv, TypeOK
<1>4. KeysAgree' /\ LocksExclude' /\ AnswersStand'
  BY <1>1 DEF Inv, KeysAgree, LocksExclude, AnswersStand
<1>5. ASSUME NEW d \in Client
      PROVE  StillTrue(tx[d])'
  <2> DEFINE q == tx[d].request
  <2>1. StillTrue(tx[d])
    BY DEF Inv
  <2>2. tx[d].stage \in AfterFacts /\ tx[d].provision => facts'[q.policy] = facts[q.policy]
    <3>1. tx[d].stage \in AfterFacts /\ tx[d].provision => q.policy # p
      BY DEF ReplaceFacts, Locks
    <3>2. tx[d].stage \in AfterFacts => q.policy \in Policy
      BY OpenIsTransaction, RequestAssumption DEF Inv, Transaction, AfterFacts
    <3> HIDE DEF q
    <3> QED BY <1>1, <3>1, <3>2
  <2> QED BY <1>1, <2>1, <2>2 DEF StillTrue, Provisionable
<1> QED BY <1>3, <1>4, <1>5 DEF Inv

(* A Thread is created on its own only where no transaction is inserting   *)
(* it or another one for its Channel Reference.                            *)
LEMMA CreateThreadInv ==
  ASSUME Inv, NEW t \in Thread, NEW ch \in Channel, CreateThread(t, ch)
  PROVE  Inv'
<1>1. /\ threads \in [Thread -> Channel \cup {None}] /\ threads' = [threads EXCEPT ![t] = ch]
      /\ threads[t] = None /\ ch # None
      /\ UNCHANGED <<receipts, workflows, started, facts, tx, answer>>
  BY NoneAssumption DEF Inv, TypeOK, CreateThread
<1>2. /\ threads' \in [Thread -> Channel \cup {None}] /\ threads'[t] = ch
      /\ \A u \in Thread : u # t => threads'[u] = threads[u]
  BY <1>1
<1>3. TypeOK'
  BY <1>1, <1>2 DEF Inv, TypeOK
<1>4. KeysAgree' /\ LocksExclude' /\ AnswersStand'
  BY <1>1 DEF Inv, KeysAgree, LocksExclude, AnswersStand
<1>5. ASSUME NEW d \in Client
      PROVE  StillTrue(tx[d])'
  <2> DEFINE q == tx[d].request
  <2>1. StillTrue(tx[d])
    BY DEF Inv
  <2>2. tx[d].stage \in AfterThread \cup {"checked", "recorded"} => q.thread \in Thread
    BY OpenIsTransaction, RequestAssumption DEF Inv, Transaction, AfterThread
  <2>3. tx[d].stage \in AfterThread /\ tx[d].provision => Provisionable(q)'
    <3> SUFFICES ASSUME tx[d].stage \in AfterThread, tx[d].provision
                 PROVE  Provisionable(q)'
      OBVIOUS
    <3>1. q.thread # t /\ q.channel # ch
      BY DEF CreateThread, Inserting
    <3>2. Provisionable(q)
      BY <2>1 DEF StillTrue
    <3>3. q.thread \in Thread
      BY <2>2
    <3>4. \/ threads[q.thread] = q.channel
          \/ threads[q.thread] = None /\ \A u \in Thread : threads[u] # q.channel
      BY <3>2 DEF Provisionable
    <3>5. \/ threads'[q.thread] = q.channel
          \/ threads'[q.thread] = None /\ \A u \in Thread : threads'[u] # q.channel
      <4> HIDE DEF q
      <4> QED BY <1>2, <3>1, <3>3, <3>4
    <3>6. q' = q
      BY <1>1
    <3> HIDE DEF q
    <3> QED BY <3>5, <3>6 DEF Provisionable
  <2>4. tx[d].stage \in {"checked", "recorded"} /\ ~tx[d].provision => threads'[q.thread] # None
    <3>1. tx[d].stage \in {"checked", "recorded"} /\ ~tx[d].provision => threads[q.thread] # None
      BY <2>1 DEF StillTrue
    <3> HIDE DEF q
    <3> QED BY <1>1, <1>2, <2>2, <3>1
  <2> QED BY <1>1, <2>1, <2>3, <2>4 DEF StillTrue
<1> QED BY <1>3, <1>4, <1>5 DEF Inv

LEMMA NextInv == Inv /\ [Next]_vars => Inv'
<1> SUFFICES ASSUME Inv, [Next]_vars PROVE Inv'
  OBVIOUS
<1>1. ASSUME NEW c \in Client, NEW r \in Request, NEW provision \in BOOLEAN,
             Submit(c, r, provision)
      PROVE  Inv'
  BY <1>1, SubmitInv
<1>2. ASSUME NEW c \in Client,
             LookUp(c) \/ LockFirstKey(c) \/ Provision(c) \/ AssertFacts(c)
             \/ Check(c) \/ Record(c) \/ Commit(c) \/ Abort(c)
      PROVE  Inv'
  BY <1>2, LookUpInv, LockFirstKeyInv, ProvisionInv, AssertFactsInv, CheckInv, RecordInv,
     CommitInv, AbortInv
<1>3. ASSUME NEW p \in Policy, NEW fact \in Fact, ReplaceFacts(p, fact)
      PROVE  Inv'
  BY <1>3, ReplaceFactsInv
<1>4. ASSUME NEW pair \in Creatable, CreateThread(pair[1], pair[2])
      PROVE  Inv'
  BY <1>4, CreateThreadInv, CreatableAssumption
<1>5. CASE UNCHANGED vars
  BY <1>5 DEF vars, rows, Inv, TypeOK, KeysAgree, StillTrue, Provisionable, LocksExclude,
              AnswersStand
<1> QED BY <1>1, <1>2, <1>3, <1>4, <1>5 DEF Next

LEMMA InvAlways == Spec => []Inv
BY InitInv, NextInv, PTL DEF Spec

(* Every row, transaction and answer has its type.                         *)
THEOREM SubmissionTypeCorrect == Spec => []TypeOK
<1>1. Inv => TypeOK
  BY DEF Inv
<1> QED BY <1>1, InvAlways, PTL

(* A client that was told which Instance its Command started, or that its  *)
(* identity was used for another content, was told the truth for good.     *)
THEOREM AnswersAreKept == Spec => []AnswersStand
<1>1. Inv => AnswersStand
  BY DEF Inv
<1> QED BY <1>1, InvAlways, PTL

(* However Commands are repeated, and however their transactions meet, one *)
(* Command identity and one Workflow have at most one Instance.            *)
THEOREM CommandsStartOnce == Spec => []StartedOnce
<1>1. Inv => StartedOnce
  BY DEF Inv, KeysAgree, StartedOnce
<1> QED BY <1>1, InvAlways, PTL

-----------------------------------------------------------------------------
(* The serial execution that a step stands for: a commit is where the      *)
(* Command is executed, the end of any other transaction that answers is   *)
(* where it is repeated or refused, and everything else is invisible.      *)
LEMMA ToldByEnd ==
  ASSUME NEW c \in Client, NEW outcome, NEW instance, Ends(c, outcome, instance)
  PROVE  Ledger!Told(c, tx[c].request, outcome, instance)
BY DEF Ends, Ledger!Told

LEMMA LookUpServes ==
  ASSUME Inv, NEW c \in Client, LookUp(c)
  PROVE  [Ledger!Next]_Ledger!ledger
<1> DEFINE r == tx[c].request
           n == receipts[r.id]
<1>1. r \in Request /\ r.id \in Command
  BY OpenIsTransaction, RequestAssumption DEF Inv, Transaction, LookUp
<1>2. CASE n = 0
  BY <1>2 DEF LookUp, rows, Ledger!ledger
<1>3. CASE n # 0
  <2>1. n \in DOMAIN started /\ started[n].id = r.id
    BY <1>1, <1>3 DEF Inv, KeysAgree
  <2>2. \/ started[n] = r /\ Ends(c, "started", n)
        \/ started[n] # r /\ Ends(c, "conflict", 0)
    BY <1>3 DEF LookUp, SameContent
  <2>3. \/ started[n] = r /\ Ledger!Told(c, r, "started", n)
        \/ started[n] # r /\ Ledger!Told(c, r, "conflict", 0)
    BY <2>2, ToldByEnd
  <2>4. UNCHANGED <<started, threads, facts>>
    BY DEF LookUp, rows
  <2>5. Ledger!Repeat(c, r)
    BY <2>1, <2>3, <2>4 DEF Ledger!Repeat
  <2> QED BY <1>1, <2>5 DEF Ledger!Next
<1> QED BY <1>2, <1>3

(* A transaction that is refused found a reason that is still there.       *)
LEMMA RefusalServes ==
  ASSUME Inv, NEW c \in Client, tx[c].stage # "idle",
         Ends(c, "refused", 0), UNCHANGED rows,
         LET r == tx[c].request IN
           ~Provisionable(r) \/ threads[r.thread] = None \/ workflows[r.workflow] # 0
  PROVE  Ledger!Next
<1> DEFINE r == tx[c].request
<1>1. r \in Request /\ r.workflow \in Workflow
  BY OpenIsTransaction, RequestAssumption DEF Inv, Transaction
<1>2. workflows[r.workflow] # 0 => ~Ledger!NotStarted(r)
  BY <1>1 DEF Inv, KeysAgree, Ledger!NotStarted
<1>3. Ledger!Provisionable(r) <=> Provisionable(r)
  BY DEF Ledger!Provisionable, Provisionable
<1>4. Ledger!Refuse(c, r)
  BY <1>2, <1>3, ToldByEnd DEF Ledger!Refuse, rows
<1> QED BY <1>1, <1>4 DEF Ledger!Next

LEMMA CommitServes ==
  ASSUME Inv, NEW c \in Client, Commit(c)
  PROVE  Ledger!Next
<1> DEFINE r == tx[c].request
<1>1. tx[c] \in Transaction /\ tx[c].stage = "recorded" /\ StillTrue(tx[c])
  BY OpenIsTransaction DEF Inv, Commit
<1>2. r \in Request /\ r.id \in Command /\ r.workflow \in Workflow /\ r.policy \in Policy
  BY <1>1, RequestAssumption DEF Transaction
<1>3. \A n \in DOMAIN started : started[n].id # r.id /\ started[n].workflow # r.workflow
  <2>1. receipts[r.id] = 0 /\ workflows[r.workflow] = 0
    BY <1>1 DEF StillTrue, AfterLookup
  <2>2. \A n \in DOMAIN started : n # 0
    BY DEF Inv, TypeOK
  <2> QED BY <2>1, <2>2 DEF Inv, KeysAgree
<1>4. started' = Append(started, r) /\ Ledger!Told(c, r, "started", Len(started) + 1)
  BY ToldByEnd DEF Commit
<1>5. CASE tx[c].provision
  <2>1. Ledger!Provisionable(r) /\ threads' = [threads EXCEPT ![r.thread] = r.channel]
    BY <1>1, <1>5 DEF StillTrue, AfterThread, Commit, Provisionable, Ledger!Provisionable
  <2>2. facts' = [facts EXCEPT ![r.policy] = Replaced(facts[r.policy], r.fact)]
    BY <1>1, <1>5 DEF StillTrue, AfterFacts, Commit
  <2>3. facts' = Ledger!Changed(r.policy, r.fact)
    <3> HIDE DEF r
    <3> QED BY <1>2, <2>2 DEF Inv, TypeOK, Replaced, Ledger!Changed
  <2>4. Ledger!Start(c, r)
    <3> HIDE DEF r
    <3> QED BY <1>3, <1>4, <2>1, <2>3 DEF Ledger!Start, Ledger!NotStarted
  <2> QED BY <1>2, <2>4 DEF Ledger!Next
<1>6. CASE ~tx[c].provision
  <2>1. threads[r.thread] # None /\ UNCHANGED <<threads, facts>>
    BY <1>1, <1>6 DEF StillTrue, Commit
  <2>2. Ledger!Start(c, r)
    <3> HIDE DEF r
    <3> QED BY <1>3, <1>4, <2>1 DEF Ledger!Start, Ledger!NotStarted
  <2> QED BY <1>2, <2>2 DEF Ledger!Next
<1> QED BY <1>5, <1>6

LEMMA StepServes == Inv /\ [Next]_vars => [Ledger!Next]_Ledger!ledger
<1> SUFFICES ASSUME Inv, [Next]_vars PROVE [Ledger!Next]_Ledger!ledger
  OBVIOUS
<1>1. ASSUME NEW c \in Client, NEW r \in Request, NEW provision \in BOOLEAN,
             Submit(c, r, provision)
      PROVE  Ledger!Next
  <2>1. Ledger!Ask(c)
    BY <1>1 DEF Submit, rows, Ledger!Ask, NoAnswer, Ledger!NoAnswer
  <2> QED BY <2>1 DEF Ledger!Next
<1>2. ASSUME NEW c \in Client, Provision(c) \/ Check(c) \/ Record(c)
      PROVE  [Ledger!Next]_Ledger!ledger
  <2>1. tx[c].stage # "idle"
    BY <1>2 DEF Provision, Check, Record
  <2>2. CASE UNCHANGED <<rows, answer>>
    BY <2>2 DEF rows, Ledger!ledger
  <2>3. CASE Ends(c, "refused", 0) /\ ~UNCHANGED <<rows, answer>>
    <3>1. LET r == tx[c].request IN
            ~Provisionable(r) \/ threads[r.thread] = None \/ workflows[r.workflow] # 0
      BY <1>2, <2>3 DEF Provision, Check, Record, Recordable
    <3>2. UNCHANGED rows
      BY <1>2 DEF Provision, Check, Record
    <3> QED BY <2>1, <2>3, <3>1, <3>2, RefusalServes
  <2> QED BY <1>2, <2>2, <2>3 DEF Provision, Check, Record
<1>3. ASSUME NEW c \in Client, LockFirstKey(c) \/ AssertFacts(c) \/ Abort(c)
      PROVE  UNCHANGED Ledger!ledger
  BY <1>3 DEF LockFirstKey, AssertFacts, Abort, rows, Ledger!ledger
<1>4. ASSUME NEW p \in Policy, NEW fact \in Fact, ReplaceFacts(p, fact)
      PROVE  Ledger!Next
  <2>1. facts' = Ledger!Changed(p, fact)
    BY <1>4 DEF ReplaceFacts, Replaced, Ledger!Changed, Inv, TypeOK
  <2>2. Ledger!Replace
    BY <1>4, <2>1 DEF ReplaceFacts, Ledger!Replace
  <2> QED BY <2>2 DEF Ledger!Next
<1>5. ASSUME NEW pair \in Creatable, CreateThread(pair[1], pair[2])
      PROVE  Ledger!Next
  <2>1. pair[1] \in Thread /\ pair[2] \in Channel
    BY CreatableAssumption
  <2>2. Ledger!Create
    BY <1>5, <2>1 DEF CreateThread, Ledger!Create
  <2> QED BY <2>2 DEF Ledger!Next
<1>6. CASE UNCHANGED vars
  BY <1>6 DEF vars, rows, Ledger!ledger
<1> QED BY <1>1, <1>2, <1>3, <1>4, <1>5, <1>6, LookUpServes, CommitServes DEF Next

(* The transactions of any number of clients, with every lock, lost        *)
(* connection and lost answer, behave like submissions that are executed   *)
(* one at a time: the dispatcher, the provisioning of Threads and the      *)
(* replacement of facts are serialisable, and so are their answers.        *)
THEOREM SubmissionIsSerial == Spec => ImplementsLedger
<1>1. Init => Ledger!Init
  BY DEF Init, Ledger!Init, NoFacts, NoAnswer, Ledger!NoAnswer
<1> QED BY <1>1, InvAlways, StepServes, PTL DEF Spec, ImplementsLedger, Ledger!Spec

-----------------------------------------------------------------------------
(* However many connections there are and whatever their handlers do, if   *)
(* no two of them but provisionings meet against the order of locks, no    *)
(* circle of waiting transactions closes without a provisioning in it.     *)
(*                                                                         *)
(* A connection that waits holds a beginning of its plan, and nobody else  *)
(* holds a row of it; so whenever one waits for another that waits too,    *)
(* OrderAssumption makes the other's height smaller.  In a circle somebody *)
(* has the smallest height.                                                *)

Job == Plan \cup {Idle}

HoldsPrefix(b) ==
  /\ job[b] \in Job
  /\ asked[b] \in 0..Len(job[b].rows)
  /\ locks[b] = Prefix(job[b], asked[b])

HeldOnce == \A b, c \in Backend : b # c => locks[b] \cap locks[c] = {}

LockInv ==
  /\ job \in [Backend -> Job]
  /\ asked \in [Backend -> Nat]
  /\ DOMAIN locks = Backend
  /\ \A b \in Backend : HoldsPrefix(b)
  /\ HeldOnce

HeightOf(b) == Height(job[b], asked[b])

-----------------------------------------------------------------------------
(* Every nonempty set of natural numbers has a least member.               *)
LEMMA LeastNumber ==
  ASSUME NEW S \in SUBSET Nat, S # {}
  PROVE  \E m \in S : \A n \in S : m <= n
<1> DEFINE R == {p \in Nat \X Nat : p[1] < p[2]}
<1>1. IsWellFoundedOn(R, Nat)
  BY NatLessThanWellFounded DEF OpToRel
<1>2. \A n, m \in Nat : n < m => <<n, m>> \in R
  OBVIOUS
<1> HIDE DEF R
<1>3. PICK m \in S : \A n \in S : ~(<<n, m>> \in R)
  BY <1>1, WFMin
<1>4. \A n \in S : ~(n < m)
  BY <1>2, <1>3
<1> QED
  BY <1>3, <1>4

(* A plan is a finite sequence of rows, Idle the empty one.                *)
LEMMA JobsAreSequences ==
  ASSUME NEW t \in Job
  PROVE  /\ t.rows \in Seq(Lockable) /\ t.skips \in BOOLEAN
         /\ Len(t.rows) \in Nat
         /\ t \notin Plan => Len(t.rows) = 0
<1>1. CASE t \in Plan
  <2>1. t.rows \in Seq(Lockable) /\ t.skips \in BOOLEAN
    BY <1>1, PlanAssumption
  <2> QED
    BY <1>1, <2>1
<1>2. CASE t = Idle
  BY <1>2 DEF Idle
<1> QED
  BY <1>1, <1>2 DEF Job

(* A connection without a transaction locks nothing.                       *)
LEMMA IdleIsEmpty == Len(Idle.rows) = 0
BY DEF Idle

(* Having locked one row more adds that row.                               *)
LEMMA PrefixGrows ==
  ASSUME NEW t, NEW n \in Nat
  PROVE  /\ Prefix(t, 0) = {}
         /\ Prefix(t, n + 1) = Prefix(t, n) \cup {t.rows[n + 1]}
<1>1. 1..(n + 1) = (1..n) \cup {n + 1} /\ 1..0 = {}
  OBVIOUS
<1> QED
  BY <1>1 DEF Prefix

-----------------------------------------------------------------------------
LEMMA LockInitInv == LockInit => LockInv
<1> SUFFICES ASSUME LockInit PROVE LockInv
  OBVIOUS
<1>1. Idle \in Job
  BY DEF Job
<1>2. Prefix(Idle, 0) = {} /\ 0 \in 0..Len(Idle.rows)
  BY PrefixGrows, IdleIsEmpty
<1>3. \A b \in Backend : HoldsPrefix(b)
  BY <1>1, <1>2 DEF LockInit, HoldsPrefix
<1> QED
  BY <1>1, <1>3 DEF LockInit, LockInv, HeldOnce

LEMMA BeginInv ==
  ASSUME LockInv, NEW b \in Backend, BeginWork(b)
  PROVE  LockInv'
<1>1. PICK t \in Plan : job' = [job EXCEPT ![b] = t]
  BY DEF BeginWork
<1>2. job' \in [Backend -> Job]
  BY <1>1 DEF LockInv, Job
<1>3. ASSUME NEW c \in Backend PROVE HoldsPrefix(c)'
  <2>1. CASE c # b
    BY <1>1, <2>1 DEF LockInv, HoldsPrefix, BeginWork
  <2>2. CASE c = b
    <3>1. asked[b] = 0 /\ locks[b] = {}
      <4>1. job[b] = Idle /\ asked[b] \in 0..Len(job[b].rows) /\ locks[b] = Prefix(job[b], asked[b])
        BY DEF LockInv, HoldsPrefix, BeginWork
      <4>2. asked[b] = 0
        BY <4>1, IdleIsEmpty
      <4> QED
        BY <4>1, <4>2, PrefixGrows
    <3>2. job'[b] = t /\ asked'[b] = 0 /\ locks'[b] = {}
      BY <1>1, <3>1 DEF LockInv, BeginWork
    <3>3. Len(t.rows) \in Nat /\ t \in Job /\ Prefix(t, 0) = {}
      BY JobsAreSequences, PrefixGrows DEF Job
    <3> QED
      BY <2>2, <3>2, <3>3 DEF HoldsPrefix
  <2> QED
    BY <2>1, <2>2
<1> QED
  BY <1>2, <1>3 DEF LockInv, BeginWork, HeldOnce

LEMMA LockRowInv ==
  ASSUME LockInv, NEW b \in Backend, LockRow(b)
  PROVE  LockInv'
<1> DEFINE n == asked[b]
<1>1. /\ job[b] \in Job /\ n \in Nat /\ n < Len(job[b].rows) /\ Len(job[b].rows) \in Nat
      /\ locks[b] = Prefix(job[b], n)
  BY JobsAreSequences DEF LockInv, HoldsPrefix, LockRow
<1>2. /\ job' = job /\ asked' = [asked EXCEPT ![b] = n + 1]
      /\ locks' = [locks EXCEPT ![b] = @ \cup {Wanted(b)}]
  BY DEF LockRow
<1>3. ASSUME NEW c \in Backend PROVE HoldsPrefix(c)'
  <2>1. CASE c # b
    BY <1>2, <2>1 DEF LockInv, HoldsPrefix
  <2>2. CASE c = b
    <3>1. asked'[b] = n + 1 /\ n + 1 \in 0..Len(job[b].rows)
      BY <1>1, <1>2 DEF LockInv
    <3>2. locks'[b] = Prefix(job[b], n + 1)
      BY <1>1, <1>2, PrefixGrows DEF LockInv, Wanted
    <3> QED
      BY <1>1, <1>2, <2>2, <3>1, <3>2 DEF HoldsPrefix
  <2> QED
    BY <2>1, <2>2
<1>4. HeldOnce'
  BY <1>2 DEF LockInv, HeldOnce, LockRow
<1> QED
  BY <1>1, <1>2, <1>3, <1>4 DEF LockInv

LEMMA EndInv ==
  ASSUME LockInv, NEW b \in Backend, EndWork(b)
  PROVE  LockInv'
<1>1. Idle \in Job
  BY DEF Job
<1>2. ASSUME NEW c \in Backend PROVE HoldsPrefix(c)'
  <2>1. CASE c # b
    BY <2>1 DEF LockInv, HoldsPrefix, EndWork
  <2>2. CASE c = b
    BY <1>1, <2>2, JobsAreSequences, PrefixGrows DEF LockInv, HoldsPrefix, EndWork
  <2> QED
    BY <2>1, <2>2
<1>3. HeldOnce'
  BY DEF LockInv, HeldOnce, EndWork
<1> QED
  BY <1>1, <1>2, <1>3 DEF LockInv, EndWork

-----------------------------------------------------------------------------
(* Who waits for a connection that waits too stands above it in the order  *)
(* of locks, unless one of the two is provisioning.                        *)
LEMMA WaitingDescends ==
  ASSUME LockInv, NEW b \in Backend, NEW c \in Backend, NEW d \in Backend,
         WaitsFor(b, c), WaitsFor(c, d),
         job[b].op # "provision", job[c].op # "provision"
  PROVE  HeightOf(c) < HeightOf(b)
<1>1. /\ job[b] \in Job /\ asked[b] \in 0..Len(job[b].rows) /\ locks[b] = Prefix(job[b], asked[b])
      /\ job[c] \in Job /\ asked[c] \in 0..Len(job[c].rows) /\ locks[c] = Prefix(job[c], asked[c])
  BY DEF LockInv, HoldsPrefix
<1>2. Waits(job[b], asked[b]) /\ Waits(job[c], asked[c])
  BY DEF WaitsFor
<1>3. job[b] \in Orderly /\ job[c] \in Orderly
  BY <1>1, <1>2, JobsAreSequences DEF Waits, Orderly
<1>4. b # c
  BY DEF WaitsFor
<1>5. MayWaitFor(job[b], asked[b], job[c], asked[c])
  BY <1>1, <1>2, <1>4 DEF MayWaitFor, WaitsFor, Wanted, LockInv, HeldOnce
<1> QED
  BY <1>1, <1>2, <1>3, <1>5, OrderAssumption DEF HeightOf

(* Whoever waits has a height, a natural number.                           *)
LEMMA WaitingHasHeight ==
  ASSUME LockInv, NEW b \in Backend, Waits(job[b], asked[b])
  PROVE  HeightOf(b) \in Nat
<1>1. /\ job[b] \in Job /\ asked[b] \in Nat
      /\ asked[b] < Len(job[b].rows) /\ Len(job[b].rows) \in Nat /\ job[b].rows \in Seq(Lockable)
  BY JobsAreSequences DEF LockInv, HoldsPrefix, Waits
<1>2. job[b].rows[asked[b] + 1] \in Lockable
  BY <1>1
<1>3. Level(job[b].rows[asked[b] + 1]) \in 0..99
  BY <1>2, PlanAssumption
<1> QED
  BY <1>3 DEF HeightOf, Height

(* In a circle without provisionings the one with the smallest height      *)
(* would wait for one with a smaller height.                               *)
LEMMA InvGivesNoCircle ==
  ASSUME LockInv
  PROVE  CirclesNeedProvisioning
<1> SUFFICES ASSUME NEW D \in (SUBSET Backend) \ {{}}, Circle(D),
                    \A b \in D : job[b].op # "provision"
             PROVE  FALSE
  BY DEF CirclesNeedProvisioning
<1>1. \A b \in D : \E c \in D : WaitsFor(b, c)
  BY DEF Circle
<1>2. \A b \in D : HeightOf(b) \in Nat
  BY <1>1, WaitingHasHeight DEF WaitsFor
<1> DEFINE Heights == {HeightOf(b) : b \in D}
<1>3. Heights \in SUBSET Nat /\ Heights # {}
  BY <1>2
<1>4. PICK m \in Heights : \A n \in Heights : m <= n
  BY <1>3, LeastNumber
<1>5. PICK b \in D : HeightOf(b) = m
  BY <1>4
<1>6. PICK c \in D : WaitsFor(b, c)
  BY <1>1
<1>7. PICK d \in D : WaitsFor(c, d)
  BY <1>1
<1>8. HeightOf(c) < HeightOf(b)
  BY <1>6, <1>7, WaitingDescends
<1>9. HeightOf(b) <= HeightOf(c)
  BY <1>4, <1>5
<1> QED
  BY <1>2, <1>8, <1>9

-----------------------------------------------------------------------------
(* At all times a connection holds the rows its handler has got to, and    *)
(* nobody else holds one of them.                                          *)
THEOREM LocksAreExclusive == LockSpec => []LockInv
<1>1. LockInit => LockInv
  BY LockInitInv
<1>2. LockInv /\ [LockNext]_lockVars => LockInv'
  <2> SUFFICES ASSUME LockInv, [LockNext]_lockVars PROVE LockInv'
    OBVIOUS
  <2>1. CASE UNCHANGED lockVars
    BY <2>1 DEF lockVars, LockInv, HoldsPrefix, HeldOnce
  <2>2. CASE LockNext
    BY <2>2, BeginInv, LockRowInv, EndInv DEF LockNext
  <2> QED
    BY <2>1, <2>2
<1> QED
  BY <1>1, <1>2, PTL DEF LockSpec

(* However many connections there are, their transactions wait for each    *)
(* other in a circle only with a provisioning of verification authority    *)
(* among them (lock_authority and the other handlers keep one order).      *)
THEOREM LocksFormNoCircle == LockSpec => []CirclesNeedProvisioning
<1>1. LockInv => CirclesNeedProvisioning
  BY InvGivesNoCircle
<1> QED
  BY <1>1, LocksAreExclusive, PTL
=============================================================================
