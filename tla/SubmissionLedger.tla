--------------------------- MODULE SubmissionLedger ---------------------------
(***************************************************************************)
(* What the submission of a renewal promises: every answer is that of one  *)
(* serial execution.  A Command is executed once, with everything it       *)
(* provisions or with nothing; its exact repetition is told the same       *)
(* Instance, another content under its identity is a conflict, and what    *)
(* cannot be started is refused and leaves no trace.                       *)
(***************************************************************************)
EXTENDS Integers, Sequences

CONSTANTS Client, Thread, Channel, Policy, Fact, Request, None

VARIABLES
  started,     \* the Commands executed; the n-th started Instance n
  threads,     \* [Thread -> its Channel Reference]
  facts,       \* [Policy -> the authoritative facts and their revision]
  answer       \* [Client -> what its last submission was answered]

ledger == <<started, threads, facts, answer>>

NoAnswer == [outcome |-> "none"]

Init ==
  /\ started = <<>> /\ threads = [t \in Thread |-> None]
  /\ facts = [p \in Policy |-> [value |-> None, revision |-> 0]]
  /\ answer = [c \in Client |-> NoAnswer]

(* The answer may be lost.                                                 *)
Told(c, r, outcome, instance) ==
  answer' \in {answer, [answer EXCEPT ![c] = [request |-> r, outcome |-> outcome,
                                              instance |-> instance]]}

Changed(p, fact) ==
  IF facts[p].value = fact THEN facts
  ELSE [facts EXCEPT ![p] = [value |-> fact, revision |-> facts[p].revision + 1]]

Provisionable(r) ==
  \/ threads[r.thread] = r.channel
  \/ threads[r.thread] = None /\ \A t \in Thread : threads[t] # r.channel

NotStarted(r) == \A n \in DOMAIN started : started[n].workflow # r.workflow

Start(c, r) ==
  /\ \A n \in DOMAIN started : started[n].id # r.id
  /\ NotStarted(r)
  /\ started' = Append(started, r)
  /\ \/ /\ Provisionable(r)
        /\ threads' = [threads EXCEPT ![r.thread] = r.channel]
        /\ facts' = Changed(r.policy, r.fact)
     \/ /\ threads[r.thread] # None
        /\ UNCHANGED <<threads, facts>>
  /\ Told(c, r, "started", Len(started) + 1)

Repeat(c, r) ==
  /\ \E n \in DOMAIN started :
       /\ started[n].id = r.id
       /\ IF started[n] = r THEN Told(c, r, "started", n) ELSE Told(c, r, "conflict", 0)
  /\ UNCHANGED <<started, threads, facts>>

Refuse(c, r) ==
  /\ ~NotStarted(r) \/ ~Provisionable(r) \/ threads[r.thread] = None
  /\ Told(c, r, "refused", 0)
  /\ UNCHANGED <<started, threads, facts>>

Replace ==
  /\ \E p \in Policy, fact \in Fact : facts' = Changed(p, fact)
  /\ UNCHANGED <<started, threads, answer>>

Create ==
  /\ \E t \in Thread, ch \in Channel :
       /\ threads[t] = None /\ \A u \in Thread : threads[u] # ch
       /\ threads' = [threads EXCEPT ![t] = ch]
  /\ UNCHANGED <<started, facts, answer>>

(* The client submits again.                                               *)
Ask(c) ==
  /\ answer' = [answer EXCEPT ![c] = NoAnswer]
  /\ UNCHANGED <<started, threads, facts>>

Next ==
  \/ Replace \/ Create
  \/ \E c \in Client : \/ Ask(c)
                       \/ \E r \in Request : Start(c, r) \/ Repeat(c, r) \/ Refuse(c, r)

Spec == Init /\ [][Next]_ledger
=============================================================================
