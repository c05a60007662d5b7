------------------------------ MODULE LockOrder ------------------------------
(***************************************************************************)
(* Database transactions that lock rows one after another and keep them    *)
(* until they end.  PostgreSQL makes a transaction wait for the one that   *)
(* holds the row it asks for, and when such waits close a circle it breaks *)
(* one of the transactions off: nothing in the code takes that error.      *)
(*                                                                         *)
(* A Plan is the rows that the statements of a handler lock, in their      *)
(* order.  Rows of which only existence matters to the other side (FOR KEY *)
(* SHARE of a foreign key) are locked here like the others.  Between two   *)
(* rows that can only add circles; two transactions that share one row and *)
(* both ask for more of it are not represented.                            *)
(***************************************************************************)
EXTENDS Integers, Sequences

CONSTANTS
  Backend,       \* connections to the database
  Lockable,      \* rows of its tables
  Plan,          \* records [op, rows, skips]
  Level(_)       \* the place of a row in the order of locks

(* The rows a transaction holds once it has locked n of them.              *)
Prefix(t, n) == {t.rows[i] : i \in 1..n}

(* It waits for the next row, unless that is the first of a statement with *)
(* SKIP LOCKED.                                                            *)
Waits(t, n) == n < Len(t.rows) /\ ~(t.skips /\ n = 0)

(* t, which holds n rows, may have to wait for u, which holds m.           *)
MayWaitFor(t, n, u, m) ==
  /\ Waits(t, n) /\ t.rows[n + 1] \in Prefix(u, m)
  /\ Prefix(t, n) \cap Prefix(u, m) = {}

(* Who holds nothing yet is waited for by nobody.                          *)
Height(t, n) == IF n = 0 THEN 100 ELSE Level(t.rows[n + 1])

Orderly == {t \in Plan : t.op # "provision"}

ASSUME PlanAssumption ==
  /\ \A t \in Plan : t.rows \in Seq(Lockable) /\ t.skips \in BOOLEAN
  /\ \A row \in Lockable : Level(row) \in 0..99

(* Rows are locked down the order, save where the rows held already keep   *)
(* out everyone who could want it otherwise.                               *)
ASSUME OrderAssumption ==
  \A t, u \in Orderly : \A n \in 0..Len(t.rows), m \in 0..Len(u.rows) :
    MayWaitFor(t, n, u, m) /\ Waits(u, m) => Height(u, m) < Height(t, n)

VARIABLES
  job,      \* the transaction of each connection, or Idle
  asked,    \* how many rows it has locked
  locks     \* and which

lockVars == <<job, asked, locks>>

Idle == [op |-> "idle", rows |-> <<>>, skips |-> FALSE]

-----------------------------------------------------------------------------
\* Mutant: the handlers lock the last row first.
Mutant_Wanted(b) == job[b].rows[Len(job[b].rows) - asked[b]]

Wanted(b) == job[b].rows[asked[b] + 1]

WaitsFor(b, c) == b # c /\ Waits(job[b], asked[b]) /\ Wanted(b) \in locks[c]

BeginWork(b) ==
  /\ job[b] = Idle
  /\ \E t \in Plan : job' = [job EXCEPT ![b] = t]
  /\ UNCHANGED <<asked, locks>>

LockRow(b) ==
  /\ asked[b] < Len(job[b].rows)
  /\ \A c \in Backend \ {b} : Wanted(b) \notin locks[c]
  /\ asked' = [asked EXCEPT ![b] = @ + 1]
  /\ locks' = [locks EXCEPT ![b] = @ \cup {Wanted(b)}]
  /\ UNCHANGED job

(* Commit, an early answer, an error, a lost connection, or the choice of  *)
(* PostgreSQL: whatever the transaction holds is free at once.             *)
EndWork(b) ==
  /\ job[b] # Idle
  /\ job' = [job EXCEPT ![b] = Idle]
  /\ asked' = [asked EXCEPT ![b] = 0]
  /\ locks' = [locks EXCEPT ![b] = {}]

LockInit ==
  /\ job = [b \in Backend |-> Idle]
  /\ asked = [b \in Backend |-> 0]
  /\ locks = [b \in Backend |-> {}]

LockNext == \E b \in Backend : BeginWork(b) \/ LockRow(b) \/ EndWork(b)

LockSpec == LockInit /\ [][LockNext]_lockVars

-----------------------------------------------------------------------------
(* Transactions that wait for one another in a circle are broken off by    *)
(* the database one after another, with an error that no handler expects.  *)
(* No set of handlers can meet like this without a provisioning of         *)
(* verification authority among them: its statement on the Parties locks   *)
(* a person and an organization in whatever order it finds them.  Circles  *)
(* through that one are possible, and no claim is made about them.         *)
Circle(D) == \A b \in D : \E c \in D : WaitsFor(b, c)

CirclesNeedProvisioning ==
  \A D \in (SUBSET Backend) \ {{}} :
    Circle(D) => \E b \in D : job[b].op = "provision"
=============================================================================
