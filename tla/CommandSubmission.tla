-------------------------- MODULE CommandSubmission --------------------------
(***************************************************************************)
(* The Command dispatcher and the entry point that uses most of it: the    *)
(* submission that provisions a Thread and the renewal facts and starts a  *)
(* Workflow, in one transaction of its caller.                             *)
(*                                                                         *)
(* Transactions of several clients interleave statement by statement under *)
(* READ COMMITTED.  A statement sees what is committed and what its own    *)
(* transaction wrote; locks are held until the transaction ends, and what  *)
(* it wrote becomes visible when it commits.  A transaction may be lost at *)
(* any statement, and the answer to a commit too.                          *)
(***************************************************************************)
EXTENDS Integers, Sequences

CONSTANTS
  Client, Command, Workflow, Thread, Channel, Policy, Fact,
  Request,       \* contents of the submissions
  Creatable,     \* Threads created on their own, with their Channel References
  LockKey,       \* [Thread \cup Channel -> the number of its advisory lock]
  MaxRevision,   \* bound: replacements of facts outside submissions stop here
  None

ASSUME RequestAssumption ==
  Request \subseteq [id : Command, workflow : Workflow, thread : Thread,
                     channel : Channel, policy : Policy, fact : Fact]
ASSUME CreatableAssumption == Creatable \subseteq Thread \X Channel
ASSUME NoneAssumption == None \notin Channel /\ None \notin Fact
ASSUME LockAssumption ==
  /\ LockKey \in [Thread \cup Channel -> Nat]
  /\ \A x, y \in Thread \cup Channel : LockKey[x] = LockKey[y] => x = y

VARIABLES
  receipts,    \* [Command -> the Instance its receipt names, or 0]
  workflows,   \* [Workflow -> its Instance, or 0]
  started,     \* the Commands executed; the n-th to commit started Instance n
  threads,     \* [Thread -> its Channel Reference]
  facts,       \* [Policy -> the row of its authoritative facts]
  tx,          \* [Client -> its transaction]
  answer       \* [Client -> what its last submission was answered]

rows == <<receipts, workflows, started, threads, facts>>
vars == <<rows, tx, answer>>

NoTransaction == [stage |-> "idle"]
NoFacts == [value |-> None, revision |-> 0]

AfterLookup == {"fresh", "keyed", "placed", "asserted", "checked", "recorded"}
AfterThread == {"placed", "asserted", "checked", "recorded"}
AfterFacts == {"asserted", "checked", "recorded"}
Stage == {"asked"} \cup AfterLookup

(* The two advisory locks of a Thread are taken in the order of their      *)
(* numbers.                                                                *)
FirstKey(r) == IF LockKey[r.thread] < LockKey[r.channel] THEN r.thread ELSE r.channel

Keys(t) ==
  CASE t.stage = "keyed" -> {FirstKey(t.request)}
    [] t.stage \in AfterThread /\ t.provision -> {t.request.thread, t.request.channel}
    [] OTHER -> {}

(* What a transaction holds until it ends: advisory locks of a Command, a  *)
(* Thread and a Channel Reference, a row lock on the facts of a Policy,    *)
(* and the key of a Workflow it inserted.                                  *)
Locks(t) ==
  (IF t.stage \in AfterLookup THEN {<<"command", t.request.id>>} ELSE {})
    \cup {<<"thread", k>> : k \in Keys(t)}
    \cup (IF t.stage \in AfterFacts /\ t.provision THEN {<<"policy", t.request.policy>>} ELSE {})
    \cup (IF t.stage = "recorded" THEN {<<"workflow", t.request.workflow>>} ELSE {})

Free(c, lock) == \A d \in Client \ {c} : lock \notin Locks(tx[d])

Moved(c, stage) == tx' = [tx EXCEPT ![c].stage = stage]
Ended(c) == tx' = [tx EXCEPT ![c] = NoTransaction]

NoAnswer == [outcome |-> "none"]

(* The transaction ends with an answer, which may not get to the caller.   *)
Ends(c, outcome, instance) ==
  /\ Ended(c)
  /\ \E heard \in BOOLEAN :
       answer' = IF heard
                 THEN [answer EXCEPT ![c] = [request |-> tx[c].request, outcome |-> outcome,
                                             instance |-> instance]]
                 ELSE answer

-----------------------------------------------------------------------------
(* provision_and_start_renewal, or start_renewal_outreach alone.           *)
Submit(c, r, provision) ==
  /\ tx[c] = NoTransaction
  /\ tx' = [tx EXCEPT ![c] = [stage |-> "asked", request |-> r, provision |-> provision,
                              facts |-> NoFacts]]
  /\ answer' = [answer EXCEPT ![c] = NoAnswer]
  /\ UNCHANGED rows

\* Mutant: the digest of the content is not compared.
Mutant_SameContent(r, n) == TRUE

SameContent(r, n) == started[n] = r

(* lock_command, and what the receipt it finds is answered with.           *)
LookUp(c) ==
  LET r == tx[c].request
      n == receipts[r.id]
  IN
  /\ tx[c].stage = "asked"
  /\ Free(c, <<"command", r.id>>)
  /\ IF n = 0 THEN Moved(c, IF tx[c].provision THEN "fresh" ELSE "asserted")
                   /\ UNCHANGED answer
     ELSE IF SameContent(r, n) THEN Ends(c, "started", n)
     ELSE Ends(c, "conflict", 0)
  /\ UNCHANGED rows

(* provision.                                                              *)
LockFirstKey(c) ==
  /\ tx[c].stage = "fresh"
  /\ Free(c, <<"thread", FirstKey(tx[c].request)>>)
  /\ Moved(c, "keyed")
  /\ UNCHANGED <<rows, answer>>

Provisionable(r) ==
  \/ threads[r.thread] = r.channel
  \/ threads[r.thread] = None /\ \A t \in Thread : threads[t] # r.channel

Provision(c) ==
  LET r == tx[c].request IN
  /\ tx[c].stage = "keyed"
  /\ Free(c, <<"thread", r.thread>>) /\ Free(c, <<"thread", r.channel>>)
  /\ IF Provisionable(r) THEN Moved(c, "placed") /\ UNCHANGED answer
     ELSE Ends(c, "refused", 0)
  /\ UNCHANGED rows

(* replace_on: the row is locked whether or not it changes.                *)
Replaced(row, fact) ==
  IF row.value = fact THEN row ELSE [value |-> fact, revision |-> row.revision + 1]

\* Mutant: the facts are read without a lock and written back.
Mutant_FactsFree(c, p) == TRUE

FactsFree(c, p) == Free(c, <<"policy", p>>)

AssertFacts(c) ==
  LET r == tx[c].request IN
  /\ tx[c].stage = "placed"
  /\ FactsFree(c, r.policy)
  /\ tx' = [tx EXCEPT ![c] = [@ EXCEPT !.stage = "asserted",
                                       !.facts = Replaced(facts[r.policy], r.fact)]]
  /\ UNCHANGED <<rows, answer>>

(* _handle_start: the Thread exists, and the Workflow does not.            *)
Check(c) ==
  LET r == tx[c].request IN
  /\ tx[c].stage = "asserted"
  /\ IF (tx[c].provision \/ threads[r.thread] # None) /\ workflows[r.workflow] = 0
     THEN Moved(c, "checked") /\ UNCHANGED answer
     ELSE Ends(c, "refused", 0)
  /\ UNCHANGED rows

(* record_workflow: the unique key makes the insert wait for one that is   *)
(* in flight, and fail when that one was committed.                        *)
Recordable(r) == workflows[r.workflow] = 0

Record(c) ==
  LET r == tx[c].request IN
  /\ tx[c].stage = "checked"
  /\ Free(c, <<"workflow", r.workflow>>)
  /\ IF Recordable(r) THEN Moved(c, "recorded") /\ UNCHANGED answer
     ELSE Ends(c, "refused", 0)
  /\ UNCHANGED rows

(* insert_command and the commit.                                          *)
Commit(c) ==
  LET r == tx[c].request
      n == Len(started) + 1
  IN
  /\ tx[c].stage = "recorded"
  /\ receipts' = [receipts EXCEPT ![r.id] = n]
  /\ workflows' = [workflows EXCEPT ![r.workflow] = n]
  /\ started' = Append(started, r)
  /\ IF tx[c].provision
     THEN /\ threads' = [threads EXCEPT ![r.thread] = r.channel]
          /\ facts' = [facts EXCEPT ![r.policy] = tx[c].facts]
     ELSE UNCHANGED <<threads, facts>>
  /\ Ends(c, "started", n)

(* The client or its connection is lost: everything is rolled back.        *)
Abort(c) ==
  /\ tx[c] # NoTransaction
  /\ Ended(c)
  /\ UNCHANGED <<rows, answer>>

(* replace_renewal_facts, a transaction of its own.                        *)
ReplaceFacts(p, fact) ==
  /\ facts[p].revision < MaxRevision
  /\ \A d \in Client : <<"policy", p>> \notin Locks(tx[d])
  /\ facts' = [facts EXCEPT ![p] = Replaced(@, fact)]
  /\ UNCHANGED <<receipts, workflows, started, threads, tx, answer>>

(* ThreadStore.create takes none of the keys of provision: its insert      *)
(* waits for one in flight of the same Thread or Channel Reference, and    *)
(* fails when one was committed.                                           *)
Inserting(c, t, ch) ==
  /\ tx[c].stage \in AfterThread /\ tx[c].provision
  /\ tx[c].request.thread = t \/ tx[c].request.channel = ch

CreateThread(t, ch) ==
  /\ threads[t] = None /\ \A u \in Thread : threads[u] # ch
  /\ \A c \in Client : ~Inserting(c, t, ch)
  /\ threads' = [threads EXCEPT ![t] = ch]
  /\ UNCHANGED <<receipts, workflows, started, facts, tx, answer>>

Init ==
  /\ receipts = [i \in Command |-> 0] /\ workflows = [w \in Workflow |-> 0]
  /\ started = <<>>
  /\ threads = [t \in Thread |-> None] /\ facts = [p \in Policy |-> NoFacts]
  /\ tx = [c \in Client |-> NoTransaction] /\ answer = [c \in Client |-> NoAnswer]

Next ==
  \/ \E c \in Client :
       \/ \E r \in Request, provision \in BOOLEAN : Submit(c, r, provision)
       \/ LookUp(c) \/ LockFirstKey(c) \/ Provision(c) \/ AssertFacts(c)
       \/ Check(c) \/ Record(c) \/ Commit(c) \/ Abort(c)
  \/ \E p \in Policy, fact \in Fact : ReplaceFacts(p, fact)
  \/ \E pair \in Creatable : CreateThread(pair[1], pair[2])

Spec == Init /\ [][Next]_vars

-----------------------------------------------------------------------------
Transaction ==
  [stage : Stage, request : Request, provision : BOOLEAN,
   facts : [value : Fact \cup {None}, revision : Nat]]

(* A Policy has no facts, or facts of a counted revision.                  *)
FactsRow == {NoFacts} \cup [value : Fact, revision : Nat \ {0}]

TypeOK ==
  /\ receipts \in [Command -> Nat] /\ workflows \in [Workflow -> Nat]
  /\ started \in Seq(Request)
  /\ threads \in [Thread -> Channel \cup {None}]
  /\ facts \in [Policy -> FactsRow]
  /\ tx \in [Client -> Transaction \cup {NoTransaction}]
  /\ answer \in [Client -> {NoAnswer} \cup
                   [request : Request, outcome : {"started", "conflict", "refused"},
                    instance : Nat]]

(* What a caller was once told stays true: the Instance it was given is    *)
(* the one its Command started, for this content and no other, and a       *)
(* conflict was one.  (A refusal is no promise.)                           *)
AnswersStand ==
  \A c \in Client :
    LET told == answer[c]
        Recorded == receipts[told.request.id]
    IN /\ told.outcome = "started" =>
            Recorded # 0 /\ Recorded = told.instance /\ started[Recorded] = told.request
       /\ told.outcome = "conflict" => Recorded # 0 /\ started[Recorded] # told.request

(* No two Instances come from one Command or serve one Workflow.           *)
StartedOnce ==
  \A m, n \in DOMAIN started :
    started[m].id = started[n].id \/ started[m].workflow = started[n].workflow => m = n
=============================================================================
