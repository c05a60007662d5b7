-------------------------- MODULE DefinitionsProofs --------------------------
(***************************************************************************)
(* Definitions, for every number of processes and every set of manifests:  *)
(* what a registration was told stays true, and Instances run what was     *)
(* registered.  And the verdict of the depth-first search that looks for   *)
(* circles among dependencies, for any number of slots and any order.  And *)
(* the External Effect of every Definition of the prototype of reuse.      *)
(***************************************************************************)
EXTENDS Definitions, DependencyCheck, DefinitionReuse, SequenceTheorems, TLAPS

CallerType ==
  [definition : DOMAIN Manifest \cup {Absent},
   step : {"idle", "insert", "select", "commit", "done"},
   answer : {"none", "registered", "conflict", "lost", "invalid"}]

TypeOK ==
  /\ table \in [Identity -> RowType \cup {Absent}]
  /\ caller \in [Process -> CallerType]
  /\ instance # Absent =>
       /\ instance.identity \in Identity
       /\ instance = [identity |-> instance.identity, rows |-> instance.rows]

(* A process that has written its row and not yet committed it is the      *)
(* writer of that row; one that found a row reads a committed one.         *)
Told(row, c) ==
  /\ c.step # "done" => c.answer = "none"
  /\ c.step = "commit" => row # Absent /\ row.digest = c.definition
  /\ c.step = "select" => Committed(row)
  /\ c.answer = "registered" => Committed(row) /\ row.digest = c.definition
  /\ c.answer = "conflict" => Committed(row) /\ row.digest # c.definition

CallerInv ==
  \A p \in Process : caller[p].definition # Absent =>
    /\ Told(table[Claimed(p)], caller[p])
    /\ caller[p].step = "commit" => table[Claimed(p)].writer = p

(* A process that wants nothing does nothing.                              *)
IdleInv ==
  \A p \in Process : caller[p].definition = Absent =>
    caller[p].step \in {"idle", "done"} /\ caller[p].answer # "lost"

(* It also runs what was validated, however its row changes afterwards.    *)
InstanceInv ==
  instance # Absent =>
    LET row == table[instance.identity] IN Committed(row) /\ Valid(Manifest[row.digest])

Inv == TypeOK /\ CallerInv /\ IdleInv /\ InstanceInv /\ RunsWhatWasRegistered

-----------------------------------------------------------------------------
(* Rows and callers.                                                       *)

LEMMA WantedIsIdentity ==
  ASSUME TypeOK, NEW p \in Process, caller[p].definition # Absent
  PROVE  /\ caller[p].definition \in DOMAIN Manifest /\ Claimed(p) \in Identity
         /\ table[Claimed(p)] \in RowType \cup {Absent}
BY DEF TypeOK, CallerType, Claimed, Identity

LEMMA DoingRow ==
  ASSUME TypeOK, NEW p \in Process,
         NEW step \in {"idle", "insert", "select", "commit", "done"},
         NEW answer \in {"none", "registered", "conflict", "lost", "invalid"},
         Doing(p, step, answer)
  PROVE  /\ caller' \in [Process -> CallerType]
         /\ caller'[p].definition = caller[p].definition
         /\ caller'[p].step = step /\ caller'[p].answer = answer
         /\ \A q \in Process : q # p => caller'[q] = caller[q]
<1> DEFINE old == caller[p]
           new == [old EXCEPT !.step = step, !.answer = answer]
<1>1. old \in CallerType /\ caller \in [Process -> CallerType]
  BY DEF TypeOK
<1>2. caller' = [caller EXCEPT ![p] = new]
  BY <1>1 DEF Doing
<1> HIDE DEF old
<1>3. /\ new \in CallerType /\ new.definition = old.definition
      /\ new.step = step /\ new.answer = answer
  BY <1>1 DEF CallerType
<1> HIDE DEF new
<1> QED BY <1>1, <1>2, <1>3 DEF old

(* What one process does leaves alone what others have committed or write. *)
OwnStep(p) ==
  /\ table' \in [Identity -> RowType \cup {Absent}] /\ caller' \in [Process -> CallerType]
  /\ UNCHANGED instance
  /\ \A q \in Process : q # p => caller'[q] = caller[q]
  /\ \A i \in Identity : table'[i] = table[i] \/ table[i] = Absent \/ table[i].writer = p

ToldAfter(p) ==
  IF caller'[p].definition = Absent
  THEN caller'[p].step \in {"idle", "done"} /\ caller'[p].answer # "lost"
  ELSE LET i == Manifest[caller'[p].definition].identity
       IN  Told(table'[i], caller'[p]) /\ (caller'[p].step = "commit" => table'[i].writer = p)

LEMMA OwnStepInv ==
  ASSUME Inv, NEW p \in Process, OwnStep(p), ToldAfter(p)
  PROVE  Inv'
<1>1. TypeOK'
  BY DEF Inv, TypeOK, OwnStep
<1>2. \A i \in Identity : Committed(table[i]) => table'[i] = table[i]
  BY AbsentAssumption DEF OwnStep, Committed
<1>3. ASSUME NEW q \in Process, q # p, caller'[q].definition # Absent
      PROVE  /\ Told(table[Claimed(q)], caller[q])' /\ Claimed(q)' = Claimed(q)
             /\ caller'[q].step = "commit" => table'[Claimed(q)].writer = q
  <2>1. caller'[q] = caller[q] /\ Claimed(q)' = Claimed(q)
    BY <1>3 DEF OwnStep, Claimed
  <2>2. /\ Told(table[Claimed(q)], caller[q]) /\ Claimed(q) \in Identity
        /\ caller[q].step = "commit" => table[Claimed(q)].writer = q
    BY <1>3, <2>1, WantedIsIdentity DEF Inv, CallerInv
  <2>3. caller[q].step = "commit" => table'[Claimed(q)] = table[Claimed(q)]
    BY <1>3, <2>2 DEF OwnStep, Told
  <2> QED BY <1>2, <2>1, <2>2, <2>3 DEF Told
<1>4. CallerInv'
  <2> SUFFICES ASSUME NEW q \in Process, caller'[q].definition # Absent
               PROVE  /\ Told(table[Claimed(q)], caller[q])'
                      /\ caller'[q].step = "commit" => table'[Claimed(q)'].writer = q
    BY DEF CallerInv
  <2>1. CASE q = p
    BY <2>1 DEF ToldAfter, Claimed
  <2>2. CASE q # p
    BY <1>3, <2>2
  <2> QED BY <2>1, <2>2
<1>5. IdleInv'
  BY DEF IdleInv, Inv, OwnStep, ToldAfter
<1>6. InstanceInv'
  BY <1>2 DEF Inv, InstanceInv, TypeOK, OwnStep
<1>7. RunsWhatWasRegistered'
  <2>1. instance # Absent => table'[instance.identity] = table[instance.identity]
    BY <1>2 DEF Inv, InstanceInv, TypeOK
  <2>2. UNCHANGED instance
    BY DEF OwnStep
  <2> QED BY <2>1, <2>2 DEF Inv, RunsWhatWasRegistered
<1> QED BY <1>1, <1>4, <1>5, <1>6, <1>7 DEF Inv

LEMMA RowsAreRows ==
  ASSUME NEW d \in DOMAIN Manifest, NEW w \in Process \cup {Absent}
  PROVE  /\ Row(d, w) \in RowType /\ Row(d, w).digest = d /\ Row(d, w).writer = w
         /\ [Row(d, w) EXCEPT !.closed = FALSE] \in RowType
BY DEF Row, RowType

LEMMA InitInv == RegistryInit => Inv
BY DEF RegistryInit, Inv, TypeOK, CallerType, CallerInv, IdleInv, InstanceInv, RunsWhatWasRegistered

-----------------------------------------------------------------------------
(* register_definition.                                                    *)

LEMMA RegisterInv ==
  ASSUME Inv, NEW p \in Process, Register(p)
  PROVE  Inv'
<1>1. PICK d \in DOMAIN Manifest :
        caller' = [caller EXCEPT ![p] =
           IF Valid(Manifest[d]) THEN [definition |-> d, step |-> "insert", answer |-> "none"]
           ELSE [definition |-> Absent, step |-> "done", answer |-> "invalid"]]
  BY DEF Register
<1>2. UNCHANGED <<table, instance>>
  BY DEF Register
<1>3. /\ caller \in [Process -> CallerType] /\ table \in [Identity -> RowType \cup {Absent}]
      /\ d # Absent
  BY AbsentAssumption DEF Inv, TypeOK
<1>4. /\ [definition |-> d, step |-> "insert", answer |-> "none"] \in CallerType
      /\ [definition |-> Absent, step |-> "done", answer |-> "invalid"] \in CallerType
  BY DEF CallerType
<1>5. OwnStep(p)
  BY <1>1, <1>2, <1>3, <1>4 DEF OwnStep
<1>6. \/ caller'[p] = [definition |-> d, step |-> "insert", answer |-> "none"]
      \/ caller'[p] = [definition |-> Absent, step |-> "done", answer |-> "invalid"]
  BY <1>1, <1>3
<1>7. ToldAfter(p)
  BY <1>3, <1>6 DEF ToldAfter, Told
<1> QED BY <1>5, <1>7, OwnStepInv

(* Under way, a process wants something.                                   *)
LEMMA UnderWay ==
  ASSUME Inv, NEW p \in Process,
         caller[p].step \notin {"idle", "done"} \/ caller[p].answer = "lost"
  PROVE  /\ caller[p].definition \in DOMAIN Manifest /\ caller[p].definition # Absent
         /\ Claimed(p) = Manifest[caller[p].definition].identity /\ Claimed(p) \in Identity
         /\ table[Claimed(p)] \in RowType \cup {Absent}
         /\ Told(table[Claimed(p)], caller[p])
         /\ caller[p].step = "commit" => table[Claimed(p)].writer = p
<1>1. caller[p].definition # Absent
  BY DEF Inv, IdleInv
<1> QED BY <1>1, WantedIsIdentity DEF Inv, CallerInv, Claimed

LEMMA InsertInv ==
  ASSUME Inv, NEW p \in Process, Insert(p)
  PROVE  Inv'
<1> DEFINE i == Claimed(p)
           row == Row(caller[p].definition, p)
<1>1. /\ caller[p].definition \in DOMAIN Manifest /\ caller[p].definition # Absent
      /\ i = Manifest[caller[p].definition].identity /\ i \in Identity
      /\ table \in [Identity -> RowType \cup {Absent}]
  BY UnderWay DEF Insert, Inv, TypeOK
<1>2. UNCHANGED instance
  BY DEF Insert
<1>3. CASE /\ table[i] = Absent /\ table' = [table EXCEPT ![i] = row]
           /\ Doing(p, "commit", "none")
  <2>1. row \in RowType /\ row.digest = caller[p].definition /\ row.writer = p
    BY <1>1, RowsAreRows
  <2> HIDE DEF i, row
  <2>2. /\ caller' \in [Process -> CallerType]
        /\ caller'[p].definition = caller[p].definition
        /\ caller'[p].step = "commit" /\ caller'[p].answer = "none"
        /\ \A q \in Process : q # p => caller'[q] = caller[q]
    BY <1>3, DoingRow DEF Inv
  <2>3. /\ table' \in [Identity -> RowType \cup {Absent}] /\ table'[i] = row
        /\ \A j \in Identity : j # i => table'[j] = table[j]
    BY <1>1, <1>3, <2>1
  <2>4. OwnStep(p)
    BY <1>2, <1>3, <2>2, <2>3 DEF OwnStep
  <2>5. row # Absent
    BY AbsentAssumption, <2>1
  <2>6. ToldAfter(p)
    BY <1>1, <2>1, <2>2, <2>3, <2>5 DEF ToldAfter, Told
  <2> QED BY <2>4, <2>6, OwnStepInv
<1>4. CASE Committed(table[i]) /\ UNCHANGED table /\ Doing(p, "select", "none")
  <2> HIDE DEF i, row
  <2>2. /\ caller' \in [Process -> CallerType]
        /\ caller'[p].definition = caller[p].definition
        /\ caller'[p].step = "select" /\ caller'[p].answer = "none"
        /\ \A q \in Process : q # p => caller'[q] = caller[q]
    BY <1>4, DoingRow DEF Inv
  <2>3. OwnStep(p)
    BY <1>1, <1>2, <1>4, <2>2 DEF OwnStep
  <2>4. ToldAfter(p)
    BY <1>1, <1>4, <2>2 DEF ToldAfter, Told
  <2> QED BY <2>3, <2>4, OwnStepInv
<1> QED BY <1>3, <1>4 DEF Insert, Insertable

LEMMA SelectInv ==
  ASSUME Inv, NEW p \in Process, Select(p)
  PROVE  Inv'
<1> DEFINE i == Claimed(p)
           answer == IF table[i].digest = caller[p].definition THEN "registered" ELSE "conflict"
<1>1. /\ caller[p].definition \in DOMAIN Manifest /\ caller[p].definition # Absent
      /\ i = Manifest[caller[p].definition].identity /\ i \in Identity
      /\ table \in [Identity -> RowType \cup {Absent}] /\ Committed(table[i])
  BY UnderWay DEF Select, Inv, TypeOK, Told
<1>2. /\ Doing(p, "done", answer) /\ UNCHANGED <<table, instance>>
      /\ answer \in {"registered", "conflict"}
      /\ answer = "registered" <=> table[i].digest = caller[p].definition
  BY DEF Select
<1> HIDE DEF i, answer
<1>3. /\ caller' \in [Process -> CallerType]
      /\ caller'[p].definition = caller[p].definition
      /\ caller'[p].step = "done" /\ caller'[p].answer = answer
      /\ \A q \in Process : q # p => caller'[q] = caller[q]
  BY <1>2, DoingRow DEF Inv
<1>4. OwnStep(p)
  BY <1>1, <1>2, <1>3 DEF OwnStep
<1>5. ToldAfter(p)
  BY <1>1, <1>2, <1>3 DEF ToldAfter, Told
<1> QED BY <1>4, <1>5, OwnStepInv

LEMMA CommitInv ==
  ASSUME Inv, NEW p \in Process, CommitRegistration(p)
  PROVE  Inv'
<1> DEFINE i == Claimed(p)
           old == table[i]
           row == [old EXCEPT !.writer = Absent]
<1>1. /\ caller[p].definition \in DOMAIN Manifest /\ caller[p].definition # Absent
      /\ i = Manifest[caller[p].definition].identity /\ i \in Identity
      /\ table \in [Identity -> RowType \cup {Absent}]
      /\ old \in RowType /\ old.digest = caller[p].definition /\ old.writer = p
      /\ UNCHANGED instance
  BY UnderWay DEF CommitRegistration, Inv, TypeOK, Told
<1>2. \/ table' = [table EXCEPT ![i] = row]
         /\ \E answer \in {"registered", "lost"} : Doing(p, "done", answer)
      \/ table' = [table EXCEPT ![i] = Absent] /\ Doing(p, "done", "lost")
  BY <1>1 DEF CommitRegistration
<1> HIDE DEF i, old
<1>3. row \in RowType /\ row.digest = old.digest /\ row.writer = Absent
  BY <1>1 DEF RowType
<1> HIDE DEF row
<1>4. row # Absent
  BY AbsentAssumption, <1>3
<1>5. PICK answer \in {"registered", "lost"} :
        /\ Doing(p, "done", answer)
        /\ answer = "registered" => table' = [table EXCEPT ![i] = row]
  BY <1>2
<1>6. /\ caller' \in [Process -> CallerType]
      /\ caller'[p].definition = caller[p].definition
      /\ caller'[p].step = "done" /\ caller'[p].answer = answer
      /\ \A q \in Process : q # p => caller'[q] = caller[q]
  BY <1>5, DoingRow DEF Inv
<1>7. /\ table' \in [Identity -> RowType \cup {Absent}]
      /\ \A j \in Identity : j # i => table'[j] = table[j]
      /\ answer = "registered" => table'[i] = row
  BY <1>1, <1>2, <1>3, <1>5
<1>8. OwnStep(p)
  BY <1>1, <1>6, <1>7 DEF OwnStep, old
<1>9. ToldAfter(p)
  BY <1>1, <1>3, <1>4, <1>6, <1>7 DEF ToldAfter, Told, Committed
<1> QED BY <1>8, <1>9, OwnStepInv

LEMMA AgainInv ==
  ASSUME Inv, NEW p \in Process, Again(p)
  PROVE  Inv'
<1>1. /\ caller[p].definition # Absent /\ Doing(p, "insert", "none")
      /\ UNCHANGED <<table, instance>> /\ table \in [Identity -> RowType \cup {Absent}]
  BY UnderWay DEF Again, Inv, TypeOK
<1>2. /\ caller' \in [Process -> CallerType]
      /\ caller'[p].definition = caller[p].definition
      /\ caller'[p].step = "insert" /\ caller'[p].answer = "none"
      /\ \A q \in Process : q # p => caller'[q] = caller[q]
  BY <1>1, DoingRow DEF Inv
<1>3. OwnStep(p)
  BY <1>1, <1>2 DEF OwnStep
<1>4. ToldAfter(p)
  BY <1>1, <1>2 DEF ToldAfter, Told
<1> QED BY <1>3, <1>4, OwnStepInv

-----------------------------------------------------------------------------
(* What else happens to rows.                                              *)

LEMMA OtherReleaseInv ==
  ASSUME Inv, NEW i \in Identity, OtherRelease(i)
  PROVE  Inv'
<1>1. PICK d \in DOMAIN Manifest :
        table' = [table EXCEPT ![i] = [Row(d, Absent) EXCEPT !.closed = FALSE]]
  BY DEF OtherRelease
<1>2. /\ \A j \in Identity : table[j] = Absent
      /\ UNCHANGED <<caller, instance>> /\ table \in [Identity -> RowType \cup {Absent}]
  BY DEF OtherRelease, Inv, TypeOK
<1>3. table' \in [Identity -> RowType \cup {Absent}]
  BY <1>1, <1>2, RowsAreRows
<1>4. instance = Absent
  BY <1>2 DEF Inv, InstanceInv, TypeOK, Committed
<1>5. TypeOK'
  BY <1>2, <1>3 DEF Inv, TypeOK
<1>6. CallerInv'
  <2> SUFFICES ASSUME NEW q \in Process, caller[q].definition # Absent
               PROVE  /\ Told(table'[Claimed(q)], caller[q])
                      /\ caller[q].step = "commit" => table'[Claimed(q)].writer = q
    BY <1>2 DEF CallerInv, Claimed
  <2>1. table[Claimed(q)] = Absent /\ Told(table[Claimed(q)], caller[q])
    BY <1>2, WantedIsIdentity DEF Inv, CallerInv
  <2> QED BY <2>1 DEF Told, Committed
<1>7. IdleInv' /\ InstanceInv' /\ RunsWhatWasRegistered'
  BY <1>2, <1>4 DEF Inv, IdleInv, InstanceInv, RunsWhatWasRegistered
<1> QED BY <1>5, <1>6, <1>7 DEF Inv

LEMMA ChangedInPlaceInv ==
  ASSUME Inv, NEW i \in Identity, ChangedInPlace(i)
  PROVE  Inv'
<1> DEFINE old == table[i]
           row == [old EXCEPT !.content = Altered]
<1>1. /\ table \in [Identity -> RowType \cup {Absent}] /\ old \in RowType /\ old # Absent
      /\ UNCHANGED <<caller, instance>>
  BY DEF ChangedInPlace, Committed, Inv, TypeOK
<1>2. table' = [table EXCEPT ![i] = row]
  BY <1>1 DEF ChangedInPlace
<1> HIDE DEF old
<1>3. /\ row \in RowType /\ row.digest = old.digest /\ row.writer = old.writer
      /\ row.closed = old.closed
  BY <1>1 DEF RowType
<1> HIDE DEF row
<1>4. row # Absent
  BY AbsentAssumption, <1>3
<1>5. /\ table' \in [Identity -> RowType \cup {Absent}] /\ table'[i] = row
      /\ \A j \in Identity : j # i => table'[j] = table[j]
  BY <1>1, <1>2, <1>3
<1>6. \A j \in Identity :
        /\ table[j] # Absent => table'[j] # Absent /\ table'[j].digest = table[j].digest
             /\ table'[j].writer = table[j].writer /\ table'[j].closed = table[j].closed
        /\ Committed(table[j]) => Committed(table'[j])
  BY <1>1, <1>3, <1>4, <1>5 DEF Committed, old
<1>7. TypeOK'
  BY <1>1, <1>5 DEF Inv, TypeOK
<1>8. CallerInv'
  <2> SUFFICES ASSUME NEW q \in Process, caller[q].definition # Absent
               PROVE  /\ Told(table'[Claimed(q)], caller[q])
                      /\ caller[q].step = "commit" => table'[Claimed(q)].writer = q
    BY <1>1 DEF CallerInv, Claimed
  <2>1. /\ Claimed(q) \in Identity /\ Told(table[Claimed(q)], caller[q])
        /\ caller[q].step = "commit" => table[Claimed(q)].writer = q
    BY WantedIsIdentity DEF Inv, CallerInv
  <2> QED BY <1>6, <2>1 DEF Told, Committed
<1>9. IdleInv'
  BY <1>1 DEF Inv, IdleInv
<1>10. InstanceInv'
  <2> SUFFICES ASSUME instance # Absent
               PROVE  LET after == table'[instance.identity] IN
                      Committed(after) /\ Valid(Manifest[after.digest])
    BY <1>1 DEF InstanceInv
  <2> DEFINE owned == instance.identity
  <2>1. owned \in Identity /\ Committed(table[owned]) /\ Valid(Manifest[table[owned].digest])
    BY DEF Inv, TypeOK, InstanceInv
  <2> HIDE DEF owned
  <2>2. table[owned] # Absent
    BY <2>1 DEF Committed
  <2>3. Committed(table'[owned]) /\ table'[owned].digest = table[owned].digest
    BY <1>6, <2>1, <2>2
  <2> QED BY <2>1, <2>3 DEF owned
<1>11. RunsWhatWasRegistered'
  <2>1. instance # Absent =>
          /\ table'[instance.identity].digest = table[instance.identity].digest
          /\ table'[instance.identity].closed = table[instance.identity].closed
    BY <1>6 DEF Inv, InstanceInv, TypeOK, Committed
  <2> QED BY <1>1, <2>1 DEF Inv, RunsWhatWasRegistered
<1> QED BY <1>7, <1>8, <1>9, <1>10, <1>11 DEF Inv

-----------------------------------------------------------------------------
(* Instances.                                                              *)

(* The Instance changes, and nothing about registration.                   *)
LEMMA RowsInv ==
  ASSUME Inv, UNCHANGED <<table, caller>>,
         NEW i \in Identity, NEW rows, Committed(table[i]), table[i].closed,
         Valid(Manifest[table[i].digest]),
         instance' = [identity |-> i, rows |-> rows],
         \A o \in rows : \E r \in Manifest[table[i].digest].routes :
           [o EXCEPT !.done = FALSE] \in Materialized(r, r.contract)
  PROVE  Inv'
<1>1. instance'.identity = i /\ instance'.rows = rows
  OBVIOUS
<1>2. TypeOK'
  BY <1>1 DEF Inv, TypeOK
<1>3. CallerInv' /\ IdleInv'
  BY DEF Inv, CallerInv, IdleInv, Claimed
<1>4. InstanceInv'
  BY <1>1 DEF InstanceInv
<1>5. RunsWhatWasRegistered'
  BY <1>1 DEF RunsWhatWasRegistered
<1> QED BY <1>2, <1>3, <1>4, <1>5 DEF Inv

(* What is materialized is not done, and being done is all that changes.   *)
LEMMA MaterializedIsOpen ==
  ASSUME NEW r, NEW payload, NEW o \in Materialized(r, payload)
  PROVE  [o EXCEPT !.done = FALSE] = o
BY DEF Materialized

LEMMA DoneIsAllThatChanges ==
  ASSUME NEW o PROVE [[o EXCEPT !.done = TRUE] EXCEPT !.done = FALSE] = [o EXCEPT !.done = FALSE]
OBVIOUS

LEMMA SettledRows ==
  ASSUME NEW o \in instance.rows, NEW x \in Settled(o)
  PROVE  \E y \in instance.rows : [x EXCEPT !.done = FALSE] = [y EXCEPT !.done = FALSE]
BY DoneIsAllThatChanges DEF Settled

LEMMA StartInv ==
  ASSUME Inv, NEW i \in Identity, StartInstance(i)
  PROVE  Inv'
<1>1. PICK r \in Manifest[table[i].content].routes :
        instance' = [identity |-> i, rows |-> Materialized(r, r.contract)]
  BY DEF StartInstance, Fits
<1>2. /\ Committed(table[i]) /\ table[i].closed /\ table[i].content = table[i].digest
      /\ Valid(Manifest[table[i].digest]) /\ UNCHANGED <<table, caller>>
  BY DEF StartInstance, Verified, Decodes
<1>3. \A o \in Materialized(r, r.contract) : \E q \in Manifest[table[i].digest].routes :
        [o EXCEPT !.done = FALSE] \in Materialized(q, q.contract)
  BY <1>1, <1>2, MaterializedIsOpen
<1> QED BY <1>1, <1>2, <1>3, RowsInv

LEMMA RunInv ==
  ASSUME Inv, instance # Absent, NEW o \in instance.rows, Settle(o) \/ Activate(o)
  PROVE  Inv'
<1> DEFINE i == instance.identity
<1>1. /\ UNCHANGED <<table, caller>> /\ i \in Identity /\ Committed(table[i])
      /\ instance = [identity |-> i, rows |-> instance.rows]
      /\ table[i].closed /\ Valid(Manifest[table[i].digest])
      /\ \A x \in instance.rows : \E r \in Manifest[table[i].digest].routes :
           [x EXCEPT !.done = FALSE] \in Materialized(r, r.contract)
  BY DEF Settle, Activate, Inv, TypeOK, InstanceInv, RunsWhatWasRegistered
<1> HIDE DEF i
<1>2. \A x \in Settled(o) : \E r \in Manifest[table[i].digest].routes :
        [x EXCEPT !.done = FALSE] \in Materialized(r, r.contract)
  BY <1>1, SettledRows
<1>3. CASE Settle(o)
  <2>1. instance' = [identity |-> i, rows |-> Settled(o)]
    BY <1>1, <1>3 DEF Settle
  <2> QED BY <1>1, <1>2, <2>1, RowsInv
<1>4. CASE Activate(o)
  <2>1. PICK r \in Manifest[table[i].content].routes :
          instance' = [instance EXCEPT !.rows = Settled(o) \cup Materialized(r, r.contract)]
    BY <1>4 DEF Activate, Fits, i
  <2>2. table[i].content = table[i].digest
    BY <1>4 DEF Activate, Verified, i
  <2> DEFINE rows == Settled(o) \cup Materialized(r, r.contract)
  <2>3. instance' = [identity |-> i, rows |-> rows]
    <3>1. instance' = [instance EXCEPT !.rows = rows]
      BY <2>1
    <3> HIDE DEF rows
    <3> QED BY <1>1, <3>1
  <2>4. \A x \in rows : \E q \in Manifest[table[i].digest].routes :
          [x EXCEPT !.done = FALSE] \in Materialized(q, q.contract)
    BY <1>2, <2>1, <2>2, MaterializedIsOpen
  <2> HIDE DEF rows
  <2> QED BY <1>1, <2>3, <2>4, RowsInv
<1> QED BY <1>3, <1>4

LEMMA NextInv ==
  ASSUME Inv, [RegistryNext]_registry
  PROVE  Inv'
<1>1. CASE \E p \in Process : Register(p) \/ Insert(p) \/ Select(p) \/ CommitRegistration(p) \/ Again(p)
  BY <1>1, RegisterInv, InsertInv, SelectInv, CommitInv, AgainInv
<1>2. CASE \E i \in Identity : OtherRelease(i) \/ ChangedInPlace(i) \/ StartInstance(i)
  BY <1>2, OtherReleaseInv, ChangedInPlaceInv, StartInv
<1>3. CASE /\ instance # Absent
           /\ \E o \in instance.rows : Settle(o) \/ Activate(o)
  BY <1>3, RunInv
<1>4. CASE UNCHANGED registry
  <2>1. UNCHANGED <<table, caller, instance>>
    BY <1>4 DEF registry
  <2> QED BY <2>1 DEF Inv, TypeOK, CallerInv, IdleInv, InstanceInv, RunsWhatWasRegistered, Claimed
<1> QED BY <1>1, <1>2, <1>3, <1>4 DEF RegistryNext

LEMMA InvAlways == RegistrySpec => []Inv
<1>1. Inv /\ [RegistryNext]_registry => Inv'
  BY NextInv
<1> QED BY <1>1, InitInv, PTL DEF RegistrySpec

-----------------------------------------------------------------------------
(* Whoever was told that its Definition is registered, or that another is, *)
(* was told the truth for ever, for any number of processes and manifests. *)
THEOREM AnswersStayTrue == RegistrySpec => []AnswersAreTrue
<1>1. Inv => AnswersAreTrue
  BY DEF Inv, CallerInv, Told, AnswersAreTrue
<1> QED BY <1>1, InvAlways, PTL

(* An Instance runs only Routes of the manifest that was registered under  *)
(* its identity, whatever changes in the row between two of its Steps.     *)
THEOREM InstancesRunWhatWasRegistered == RegistrySpec => []RunsWhatWasRegistered
<1>1. Inv => RunsWhatWasRegistered
  BY DEF Inv
<1> QED BY <1>1, InvAlways, PTL

(* What can be claimed next.                                               *)
LEMMA MaterializedRow ==
  ASSUME NEW r, NEW o, [o EXCEPT !.done = FALSE] \in Materialized(r, r.contract)
  PROVE  \E out \in r.outputs :
           /\ o.route = r.key /\ o.slot = out.slot
           /\ o.depends = {<<r.key, s>> : s \in out.depends}
<1> DEFINE x == [o EXCEPT !.done = FALSE]
<1>1. PICK out \in r.outputs :
        x = [route |-> r.key, slot |-> out.slot, kind |-> out.kind, template |-> out.template,
             input |-> Inputs(r.contract, out), depends |-> {<<r.key, s>> : s \in out.depends},
             done |-> FALSE]
  BY DEF Materialized
<1>2. x.route = o.route /\ x.slot = o.slot /\ x.depends = o.depends
  OBVIOUS
<1> HIDE DEF x
<1>3. x.route = r.key /\ x.slot = out.slot /\ x.depends = {<<r.key, s>> : s \in out.depends}
  BY <1>1
<1> QED BY <1>2, <1>3

(* What the rows of a valid Definition that are not done wait for does not *)
(* come back to them.                                                      *)
LEMMA ValidNeverJams ==
  ASSUME NEW d, Valid(d), NEW rows,
         \A o \in rows : \E r \in d.routes :
           [o EXCEPT !.done = FALSE] \in Materialized(r, r.contract),
         NEW o \in rows, ~o.done
  PROVE  \E x \in rows :
           ~x.done /\ \A q \in rows : <<q.route, q.slot>> \in x.depends => q.done
<1>1. PICK r \in d.routes : [o EXCEPT !.done = FALSE] \in Materialized(r, r.contract)
  OBVIOUS
<1>2. /\ \A a, b \in d.routes : a.key = b.key => a = b
      /\ \A a, b \in r.outputs : a.slot = b.slot => a = b
      /\ Acyclic(DependsOn(r))
  BY DEF Valid, KeysUnique, Unique, SlotsUnique
<1> DEFINE Undone(s) == \E x \in rows : x.route = r.key /\ x.slot = s /\ ~x.done
           S == {s \in Slots(r) : Undone(s)}
<1>3. o.slot \in S
  BY <1>1, MaterializedRow DEF Slots
<1>4. S \in (SUBSET DOMAIN DependsOn(r)) \ {{}}
  BY <1>3 DEF DependsOn
<1>5. PICK s \in S : DependsOn(r)[s] \cap S = {}
  BY <1>2, <1>4 DEF Acyclic
<1>6. PICK x \in rows : x.route = r.key /\ x.slot = s /\ ~x.done
  BY <1>5
<1>7. PICK out \in r.outputs : out.slot = s /\ x.depends = {<<r.key, t>> : t \in out.depends}
  <2>1. PICK other \in d.routes : [x EXCEPT !.done = FALSE] \in Materialized(other, other.contract)
    OBVIOUS
  <2>2. PICK out \in other.outputs :
          /\ x.route = other.key /\ x.slot = out.slot
          /\ x.depends = {<<other.key, t>> : t \in out.depends}
    BY <2>1, MaterializedRow
  <2>3. other = r
    BY <1>2, <1>6, <2>2
  <2> QED BY <1>6, <2>2, <2>3
<1>8. DependsOn(r)[s] = out.depends
  <2>1. \A a \in r.outputs : a.slot = s <=> a = out
    BY <1>2, <1>7
  <2>2. (CHOOSE a \in r.outputs : a.slot = s) = out
    BY <1>7, <2>1
  <2> QED BY <1>5, <2>2 DEF DependsOn
<1>9. ASSUME NEW q \in rows, <<q.route, q.slot>> \in x.depends, ~q.done PROVE FALSE
  <2>1. q.route = r.key /\ q.slot \in out.depends
    BY <1>7, <1>9
  <2>2. q.slot \in Slots(r)
    <3>1. OutputValid(d, r, out)
      BY DEF Valid
    <3> QED BY <2>1, <3>1 DEF OutputValid
  <2>3. q.slot \in S
    BY <1>9, <2>1, <2>2
  <2> QED BY <1>5, <1>8, <2>1, <2>3
<1> QED BY <1>6, <1>9

(* As long as an Instance has something to do, something of it can be done *)
(* next: the dependencies that validate_definition lets through never make *)
(* its Steps and Waits wait for each other, whichever Routes it takes.     *)
SomethingIsReady ==
  instance # Absent /\ (\E o \in instance.rows : ~o.done) =>
    \E o \in instance.rows : Ready(o)

(* An Instance never jams, for every set of manifests that may be tried.   *)
THEOREM InstancesNeverJam == RegistrySpec => []SomethingIsReady
<1>1. ASSUME Inv PROVE SomethingIsReady
  <2> SUFFICES ASSUME instance # Absent, NEW o \in instance.rows, ~o.done
               PROVE  \E x \in instance.rows : Ready(x)
    BY DEF SomethingIsReady
  <2> DEFINE d == Manifest[table[instance.identity].digest]
  <2>1. Valid(d) /\ \A x \in instance.rows : \E r \in d.routes :
          [x EXCEPT !.done = FALSE] \in Materialized(r, r.contract)
    BY <1>1 DEF Inv, InstanceInv, RunsWhatWasRegistered
  <2>2. PICK rows : rows = instance.rows
    OBVIOUS
  <2> HIDE DEF d
  <2>3. /\ Valid(d) /\ o \in rows /\ ~o.done
        /\ \A x \in rows : \E r \in d.routes :
             [x EXCEPT !.done = FALSE] \in Materialized(r, r.contract)
    BY <2>1, <2>2, Zenon
  <2>4. \E x \in rows :
          ~x.done /\ \A q \in rows : <<q.route, q.slot>> \in x.depends => q.done
    BY <2>3, ValidNeverJams, Zenon
  <2> QED BY <2>2, <2>4 DEF Ready
<1> QED BY <1>1, InvAlways, PTL

-----------------------------------------------------------------------------
(* The search for circles: validate_definition.                            *)

SearchTypeOK ==
  /\ graph \in [Slot -> SUBSET Slot] /\ left \in [Slot -> SUBSET Slot]
  /\ roots \subseteq Slot /\ visited \subseteq Slot /\ path \in Seq(Slot)
  /\ verdict \in {"none", "acyclic", "cyclic"}

(* The calls that have not returned: each visits a dependency of the one   *)
(* before, and has its own dependencies still to visit, or behind it.      *)
PathIsChain ==
  /\ \A i, j \in 1..Len(path) : path[i] = path[j] => i = j
  /\ \A i \in 1..(Len(path) - 1) : path[i + 1] \in graph[path[i]]

PathIsOpen ==
  \A i \in 1..Len(path) :
    /\ path[i] \notin visited
    /\ left[path[i]] \subseteq graph[path[i]]
    /\ i = Len(path) => graph[path[i]] \subseteq left[path[i]] \cup visited
    /\ i < Len(path) => graph[path[i]] \subseteq left[path[i]] \cup visited \cup {path[i + 1]}

(* What was visited depends on nothing else, and has no cycle.             *)
VisitedIsClosed == \A s \in visited : graph[s] \subseteq visited

VisitedIsAcyclic ==
  \A S \in (SUBSET visited) \ {{}} : \E s \in S : graph[s] \cap S = {}

Search ==
  /\ PathIsChain /\ PathIsOpen /\ VisitedIsClosed /\ VisitedIsAcyclic
  /\ Slot \subseteq roots \cup visited \cup Visiting

IInv == SearchTypeOK /\ (verdict = "none" => Search) /\ VerdictIsRight

-----------------------------------------------------------------------------
(* A call that returns leaves a larger set without a cycle.                *)
LEMMA ReturnKeepsAcyclic ==
  ASSUME NEW D \in [Slot -> SUBSET Slot], NEW V \in SUBSET Slot, NEW t \in Slot, t \notin V,
         \A s \in V : D[s] \subseteq V, D[t] \subseteq V,
         \A S \in (SUBSET V) \ {{}} : \E s \in S : D[s] \cap S = {}
  PROVE  \A S \in (SUBSET (V \cup {t})) \ {{}} : \E s \in S : D[s] \cap S = {}
<1> SUFFICES ASSUME NEW S \in SUBSET (V \cup {t}), S # {}
             PROVE  \E s \in S : D[s] \cap S = {}
  OBVIOUS
<1>1. CASE S \subseteq V
  BY <1>1
<1>2. CASE S = {t}
  BY <1>2
<1>3. CASE t \in S /\ S # {t}
  <2>1. (S \ {t}) \in (SUBSET V) \ {{}}
    BY <1>3
  <2>2. PICK s \in S \ {t} : D[s] \cap (S \ {t}) = {}
    BY <2>1
  <2>3. t \notin D[s]
    BY <2>1, <2>2
  <2> QED
    BY <2>2, <2>3
<1> QED
  BY <1>1, <1>2, <1>3

(* A dependency on a call that has not returned closes a cycle.            *)
LEMMA ChainClosesCycle ==
  ASSUME SearchTypeOK, PathIsChain, path # <<>>,
         NEW k \in 1..Len(path), path[k] \in graph[Top]
  PROVE  ~GraphAcyclic
<1> DEFINE C == {path[i] : i \in k..Len(path)}
<1>1. Len(path) \in Nat /\ \A i \in 1..Len(path) : path[i] \in Slot
  BY DEF SearchTypeOK
<1>2. C \in (SUBSET Slot) \ {{}}
  BY <1>1
<1>3. \A s \in C : graph[s] \cap C # {}
  <2> SUFFICES ASSUME NEW i \in k..Len(path) PROVE graph[path[i]] \cap C # {}
    OBVIOUS
  <2>1. CASE i = Len(path)
    <3>1. path[k] \in C
      BY <1>1
    <3> QED
      BY <2>1, <3>1 DEF Top
  <2>2. CASE i < Len(path)
    <3>1. i + 1 \in k..Len(path) /\ i \in 1..(Len(path) - 1)
      BY <1>1, <2>2
    <3>2. path[i + 1] \in graph[path[i]] /\ path[i + 1] \in C
      BY <3>1 DEF PathIsChain
    <3> QED
      BY <3>2
  <2> QED
    BY <1>1, <2>1, <2>2
<1> HIDE DEF C
<1> QED
  BY <1>2, <1>3 DEF GraphAcyclic

-----------------------------------------------------------------------------
(* The head of visit keeps the search going: s is a root when no call is   *)
(* open, and otherwise a dependency of the last call.                      *)
LEMMA VisitKeepsSearch ==
  ASSUME SearchTypeOK, Search, NEW s \in Slot, s \notin Visiting,
         NEW rest \in [Slot -> SUBSET Slot], Visit(s, rest), verdict' = "none",
         UNCHANGED <<graph, visited>>, roots \subseteq roots' \cup {s}, roots' \subseteq Slot,
         \/ path = <<>> /\ rest = left
         \/ path # <<>> /\ s \in left[Top] /\ rest = [left EXCEPT ![Top] = @ \ {s}]
  PROVE  SearchTypeOK' /\ Search'
<1> DEFINE n == Len(path)
<1>1. n \in Nat /\ \A i \in 1..n : path[i] \in Slot
  BY DEF SearchTypeOK
<1>2. /\ path # <<>> => n # 0 /\ Top = path[n] /\ n \in 1..n /\ Top \in Slot
      /\ path = <<>> => n = 0
  BY <1>1 DEF SearchTypeOK, Top
<1>3. \A i \in 1..n : path[i] # s
  BY DEF Visiting
<1>4. \A i \in 1..n : i # n => path[i] # path[n]
  BY <1>1, <1>2 DEF Search, PathIsChain
<1>5. \A i \in 1..n :
        /\ rest[path[i]] \subseteq graph[path[i]]
        /\ i < n => rest[path[i]] = left[path[i]]
        /\ i = n => graph[path[i]] \subseteq rest[path[i]] \cup visited \cup {s}
  <2> SUFFICES ASSUME NEW i \in 1..n
      PROVE  /\ rest[path[i]] \subseteq graph[path[i]]
             /\ i < n => rest[path[i]] = left[path[i]]
             /\ i = n => graph[path[i]] \subseteq rest[path[i]] \cup visited \cup {s}
    OBVIOUS
  <2>1. path # <<>> /\ rest = [left EXCEPT ![Top] = @ \ {s}]
    BY <1>1, <1>2
  <2>2. path[i] \in Slot /\ left[path[i]] \subseteq graph[path[i]]
        /\ (i = n => graph[path[i]] \subseteq left[path[i]] \cup visited)
    BY <1>1 DEF Search, PathIsOpen
  <2>3. CASE i = n
    <3>1. rest[path[i]] = left[path[i]] \ {s}
      BY <2>1, <2>2, <2>3, <1>2 DEF SearchTypeOK
    <3> QED
      BY <2>2, <2>3, <3>1, <1>1
  <2>4. CASE i # n
    <3>1. path[i] # Top
      BY <2>1, <2>4, <1>2, <1>4
    <3>2. rest[path[i]] = left[path[i]]
      BY <2>1, <2>2, <3>1 DEF SearchTypeOK
    <3> QED
      BY <2>2, <2>4, <3>2
  <2> QED
    BY <2>3, <2>4
<1>6. CASE s \in visited
  <2>1. left' = rest /\ path' = path
    BY <1>6 DEF Visit
  <2>2. SearchTypeOK'
    BY <2>1 DEF SearchTypeOK
  <2>3. PathIsChain' /\ VisitedIsClosed' /\ VisitedIsAcyclic'
    BY <2>1 DEF Search, PathIsChain, VisitedIsClosed, VisitedIsAcyclic
  <2>4. PathIsOpen'
    <3> SUFFICES ASSUME NEW i \in 1..n
        PROVE  /\ path[i] \notin visited
               /\ rest[path[i]] \subseteq graph[path[i]]
               /\ i = n => graph[path[i]] \subseteq rest[path[i]] \cup visited
               /\ i < n => graph[path[i]] \subseteq rest[path[i]] \cup visited \cup {path[i + 1]}
      BY <2>1 DEF PathIsOpen
    <3> QED
      BY <1>5, <1>6 DEF Search, PathIsOpen
  <2>5. Slot \subseteq roots' \cup visited' \cup Visiting'
    BY <2>1, <1>6 DEF Search, Visiting
  <2> QED
    BY <2>2, <2>3, <2>4, <2>5 DEF Search
<1>7. CASE s \notin visited
  <2>1. path' = Append(path, s) /\ left' = [rest EXCEPT ![s] = graph[s]]
    BY <1>7 DEF Visit
  <2>2. SearchTypeOK'
    BY <2>1 DEF SearchTypeOK
  <2>3. /\ Len(path') = n + 1 /\ path'[n + 1] = s
        /\ \A i \in 1..n : path'[i] = path[i]
        /\ 1..Len(path') = (1..n) \cup {n + 1}
    BY <2>1, <1>1 DEF SearchTypeOK
  <2>4. left'[s] = graph[s] /\ \A i \in 1..n : left'[path[i]] = rest[path[i]]
    BY <2>1, <1>1, <1>3
  <2>5. n # 0 => s \in graph[path[n]]
    BY <1>1, <1>2 DEF Search, PathIsOpen
  <2>6. PathIsChain'
    <3>1. \A i, j \in 1..Len(path') : path'[i] = path'[j] => i = j
      BY <2>3, <1>3 DEF Search, PathIsChain
    <3>2. ASSUME NEW i \in 1..(Len(path') - 1) PROVE path'[i + 1] \in graph[path'[i]]
      <4>1. CASE i = n
        BY <4>1, <2>3, <2>5, <1>1
      <4>2. CASE i # n
        <5>1. i \in 1..(n - 1) /\ i \in 1..n /\ i + 1 \in 1..n
          BY <4>2, <2>3, <1>1
        <5> QED
          BY <5>1, <2>3 DEF Search, PathIsChain
      <4> QED
        BY <4>1, <4>2
    <3> QED
      BY <3>1, <3>2 DEF PathIsChain
  <2>7. PathIsOpen'
    <3> SUFFICES ASSUME NEW i \in 1..Len(path')
        PROVE  /\ path'[i] \notin visited
               /\ left'[path'[i]] \subseteq graph[path'[i]]
               /\ i = n + 1 => graph[path'[i]] \subseteq left'[path'[i]] \cup visited
               /\ i < n + 1 => graph[path'[i]] \subseteq left'[path'[i]] \cup visited \cup {path'[i + 1]}
      BY <2>3 DEF PathIsOpen
    <3>1. CASE i = n + 1
      BY <3>1, <2>3, <2>4, <1>7, <1>1
    <3>2. CASE i \in 1..n
      <4>1. path'[i] = path[i] /\ left'[path[i]] = rest[path[i]] /\ path[i] \notin visited
        BY <3>2, <2>3, <2>4 DEF Search, PathIsOpen
      <4>2. CASE i = n
        BY <4>1, <4>2, <3>2, <2>3, <1>5, <1>1
      <4>3. CASE i # n
        <5>1. i < n /\ i + 1 \in 1..n /\ path'[i + 1] = path[i + 1]
          BY <4>3, <3>2, <2>3, <1>1
        <5>2. graph[path[i]] \subseteq left[path[i]] \cup visited \cup {path[i + 1]}
          BY <5>1, <3>2 DEF Search, PathIsOpen
        <5>3. left[path[i]] = rest[path[i]] /\ rest[path[i]] \subseteq graph[path[i]]
          BY <5>1, <3>2, <1>5
        <5> QED
          BY <4>1, <5>1, <5>2, <5>3, <1>1
      <4> QED
        BY <4>2, <4>3
    <3> QED
      BY <3>1, <3>2, <2>3
  <2>8. VisitedIsClosed' /\ VisitedIsAcyclic'
    BY DEF Search, VisitedIsClosed, VisitedIsAcyclic
  <2>9. Slot \subseteq roots' \cup visited' \cup Visiting'
    <3>1. Visiting \cup {s} \subseteq Visiting'
      BY <2>3, <1>1 DEF Visiting
    <3> QED
      BY <3>1 DEF Search
  <2> QED
    BY <2>2, <2>6, <2>7, <2>8, <2>9 DEF Search
<1> QED
  BY <1>6, <1>7

-----------------------------------------------------------------------------
LEMMA InitInvariant == SearchInit => IInv
<1> SUFFICES ASSUME SearchInit PROVE IInv
  OBVIOUS
<1>1. SearchTypeOK /\ Len(path) = 0 /\ visited = {}
  BY DEF SearchInit, SearchTypeOK
<1>2. PathIsChain /\ PathIsOpen /\ VisitedIsClosed
  BY <1>1 DEF PathIsChain, PathIsOpen, VisitedIsClosed
<1>3. VisitedIsAcyclic
  BY <1>1 DEF VisitedIsAcyclic
<1> QED
  BY <1>1, <1>2, <1>3 DEF SearchInit, IInv, Search, VerdictIsRight

LEMMA NextRootKeepsInvariant == IInv /\ NextRoot => IInv'
<1> SUFFICES ASSUME IInv, NextRoot PROVE IInv'
  OBVIOUS
<1>1. PICK s \in roots : roots' = roots \ {s} /\ Visit(s, left)
  BY DEF NextRoot
<1>2. Visiting = {} /\ SearchTypeOK /\ Search /\ s \in Slot /\ verdict = "none" /\ path = <<>>
  BY DEF IInv, NextRoot, Visiting, SearchTypeOK
<1>3. verdict' = "none" /\ UNCHANGED <<graph, visited>>
  BY <1>1, <1>2 DEF Visit, NextRoot
<1>4. left \in [Slot -> SUBSET Slot] /\ roots \subseteq roots' \cup {s} /\ roots' \subseteq Slot
  BY <1>1, <1>2 DEF SearchTypeOK
<1>5. SearchTypeOK' /\ Search'
  <2>1. s \notin Visiting
    BY <1>2
  <2> QED
    BY <1>1, <1>2, <1>3, <1>4, <2>1, VisitKeepsSearch
<1> QED
  BY <1>3, <1>5 DEF IInv, VerdictIsRight

LEMMA DescendKeepsInvariant == IInv /\ Descend => IInv'
<1> SUFFICES ASSUME IInv, Descend PROVE IInv'
  OBVIOUS
<1>1. PICK s \in left[Top] : Visit(s, [left EXCEPT ![Top] = @ \ {s}])
  BY DEF Descend
<1> DEFINE rest == [left EXCEPT ![Top] = @ \ {s}]
<1>2. /\ SearchTypeOK /\ Search /\ verdict = "none" /\ path # <<>>
      /\ UNCHANGED <<graph, roots, visited>>
  BY DEF IInv, Descend
<1>3. Len(path) \in 1..Len(path) /\ Top \in Slot /\ s \in Slot /\ s \in graph[Top]
  <2>1. Len(path) \in 1..Len(path)
    BY <1>2 DEF SearchTypeOK
  <2>2. Top \in Slot
    BY <1>2, <2>1 DEF SearchTypeOK, Top
  <2>3. left[Top] \subseteq graph[Top] /\ graph[Top] \subseteq Slot
    BY <1>2, <2>1, <2>2 DEF Search, PathIsOpen, Top, SearchTypeOK
  <2> QED
    BY <1>1, <2>1, <2>2, <2>3
<1>4. rest \in [Slot -> SUBSET Slot]
  BY <1>2, <1>3 DEF SearchTypeOK
<1>5. CASE s \in Visiting
  <2>1. verdict' = "cyclic" /\ left' = rest /\ path' = path
    BY <1>1, <1>5 DEF Visit
  <2>2. PICK k \in 1..Len(path) : path[k] = s
    BY <1>5 DEF Visiting
  <2>3. path[k] \in graph[Top] /\ PathIsChain
    BY <1>2, <1>3, <2>2 DEF Search
  <2>4. ~GraphAcyclic
    BY <1>2, <2>3, ChainClosesCycle
  <2>5. ~GraphAcyclic'
    BY <1>2, <2>4 DEF GraphAcyclic
  <2>6. SearchTypeOK'
    BY <1>2, <1>4, <2>1 DEF SearchTypeOK
  <2> QED
    BY <2>1, <2>5, <2>6 DEF IInv, VerdictIsRight
<1>6. CASE s \notin Visiting
  <2>1. verdict' = "none"
    BY <1>1, <1>2, <1>6 DEF Visit
  <2>2. Visit(s, rest) /\ roots \subseteq roots' \cup {s} /\ roots' \subseteq Slot
    BY <1>1, <1>2 DEF SearchTypeOK
  <2>3. SearchTypeOK' /\ Search'
    <3> HIDE DEF rest
    <3>1. rest = [left EXCEPT ![Top] = @ \ {s}]
      BY DEF rest
    <3> QED
      BY <1>1, <1>2, <1>3, <1>4, <1>6, <2>1, <2>2, <3>1, VisitKeepsSearch
  <2> QED
    BY <2>1, <2>3 DEF IInv, VerdictIsRight
<1> QED
  BY <1>5, <1>6

LEMMA ReturnKeepsInvariant == IInv /\ Return => IInv'
<1> SUFFICES ASSUME IInv, Return PROVE IInv'
  OBVIOUS
<1> DEFINE n == Len(path)
<1>1. /\ SearchTypeOK /\ Search /\ verdict = "none" /\ path # <<>> /\ left[Top] = {}
      /\ visited' = visited \cup {Top} /\ path' = SubSeq(path, 1, n - 1)
      /\ UNCHANGED <<graph, roots, left, verdict>>
  BY DEF IInv, Return
<1>2. /\ n \in Nat /\ n \in 1..n /\ Top = path[n] /\ Top \in Slot
      /\ \A i \in 1..n : path[i] \in Slot
  BY <1>1 DEF SearchTypeOK, Top
<1>3. /\ Len(path') = n - 1 /\ path' \in Seq(Slot)
      /\ \A i \in 1..(n - 1) : path'[i] = path[i] /\ i \in 1..n
  <2>1. n - 1 \in Int /\ 1 \in Int /\ \A i \in 1..(n - 1) : path[i] \in Slot /\ i \in 1..n
    BY <1>2
  <2>2. /\ SubSeq(path, 1, n - 1) \in Seq(Slot)
        /\ Len(SubSeq(path, 1, n - 1)) = IF 1 <= n - 1 THEN (n - 1) - 1 + 1 ELSE 0
        /\ \A i \in 1..((n - 1) - 1 + 1) : SubSeq(path, 1, n - 1)[i] = path[1 + i - 1]
    <3> HIDE DEF n
    <3> QED
      BY <2>1, SubSeqProperties
  <2> HIDE DEF n
  <2>3. Len(path') = n - 1 /\ (n - 1) - 1 + 1 = n - 1
    BY <1>1, <1>2, <2>2
  <2>4. \A i \in 1..(n - 1) : 1 + i - 1 = i /\ i \in 1..n
    BY <1>2
  <2>5. path' \in Seq(Slot) /\ \A i \in 1..(n - 1) : path'[i] = path[i]
    BY <1>1, <2>2, <2>3, <2>4
  <2> QED
    BY <2>3, <2>4, <2>5
<1>4. Top \notin visited /\ graph[Top] \subseteq visited
  BY <1>1, <1>2 DEF Search, PathIsOpen
<1>5. SearchTypeOK'
  BY <1>1, <1>2, <1>3 DEF SearchTypeOK
<1>6. PathIsChain'
  <2>1. \A i, j \in 1..(n - 1) : path[i] = path[j] => i = j
    BY <1>1, <1>3 DEF Search, PathIsChain
  <2>2. \A i \in 1..(n - 2) : i \in 1..(n - 1) /\ i + 1 \in 1..(n - 1)
    BY <1>2
  <2>3. \A i \in 1..(n - 2) : path[i + 1] \in graph[path[i]]
    BY <1>1, <2>2 DEF Search, PathIsChain
  <2> QED
    BY <1>1, <1>2, <1>3, <2>1, <2>2, <2>3 DEF PathIsChain
<1>7. PathIsOpen'
  <2> SUFFICES ASSUME NEW i \in 1..(n - 1)
      PROVE  /\ path[i] \notin visited \cup {Top}
             /\ left[path[i]] \subseteq graph[path[i]]
             /\ i = n - 1 => graph[path[i]] \subseteq left[path[i]] \cup visited \cup {Top}
             /\ i < n - 1 => graph[path[i]] \subseteq
                               left[path[i]] \cup visited \cup {Top} \cup {path'[i + 1]}
    BY <1>1, <1>3 DEF PathIsOpen
  <2>1. i \in 1..n /\ i < n /\ path[i] # path[n]
    BY <1>1, <1>2 DEF Search, PathIsChain
  <2>2. /\ path[i] \notin visited /\ left[path[i]] \subseteq graph[path[i]]
        /\ graph[path[i]] \subseteq left[path[i]] \cup visited \cup {path[i + 1]}
    BY <1>1, <2>1 DEF Search, PathIsOpen
  <2>3. i = n - 1 => path[i + 1] = Top
    BY <1>2
  <2>4. i < n - 1 => path'[i + 1] = path[i + 1]
    <3>1. i < n - 1 => i + 1 \in 1..(n - 1)
      BY <1>2
    <3> QED
      BY <1>3, <3>1
  <2> QED
    BY <1>2, <2>1, <2>2, <2>3, <2>4
<1>8. VisitedIsClosed'
  BY <1>1, <1>4 DEF Search, VisitedIsClosed
<1>9. VisitedIsAcyclic'
  <2>1. /\ graph \in [Slot -> SUBSET Slot] /\ visited \in SUBSET Slot
        /\ \A s \in visited : graph[s] \subseteq visited
        /\ \A S \in (SUBSET visited) \ {{}} : \E s \in S : graph[s] \cap S = {}
    BY <1>1 DEF SearchTypeOK, Search, VisitedIsClosed, VisitedIsAcyclic
  <2>2. \A S \in (SUBSET (visited \cup {Top})) \ {{}} : \E s \in S : graph[s] \cap S = {}
    BY <1>2, <1>4, <2>1, ReturnKeepsAcyclic
  <2> QED
    BY <1>1, <2>2 DEF VisitedIsAcyclic
<1>10. Slot \subseteq roots' \cup visited' \cup Visiting'
  <2>1. Visiting \subseteq Visiting' \cup {Top}
    <3> SUFFICES ASSUME NEW i \in 1..n PROVE path[i] \in Visiting' \cup {Top}
      BY DEF Visiting
    <3>1. i # n => i \in 1..(n - 1)
      BY <1>2
    <3> QED
      BY <1>2, <1>3, <3>1 DEF Visiting
  <2> QED
    BY <1>1, <2>1 DEF Search
<1> QED
  BY <1>1, <1>5, <1>6, <1>7, <1>8, <1>9, <1>10 DEF IInv, Search, VerdictIsRight

LEMMA AcceptKeepsInvariant == IInv /\ Accept => IInv'
<1> SUFFICES ASSUME IInv, Accept PROVE IInv'
  OBVIOUS
<1>1. /\ SearchTypeOK /\ Search /\ path = <<>> /\ roots = {} /\ verdict' = "acyclic"
      /\ UNCHANGED <<graph, roots, path, left, visited>>
  BY DEF IInv, Accept
<1>2. visited = Slot
  <2>1. Visiting = {}
    BY <1>1 DEF Visiting
  <2> QED
    BY <1>1, <2>1 DEF Search, SearchTypeOK
<1>3. GraphAcyclic'
  BY <1>1, <1>2 DEF Search, VisitedIsAcyclic, GraphAcyclic
<1>4. SearchTypeOK'
  BY <1>1 DEF SearchTypeOK
<1> QED
  BY <1>1, <1>3, <1>4 DEF IInv, VerdictIsRight

(* validate_definition accepts a batch exactly when no set of its slots    *)
(* waits only for its own members, for any number of slots and in whatever *)
(* order Python goes through its sets.                                     *)
THEOREM SearchIsRight == SearchSpec => []VerdictIsRight
<1>1. SearchInit => IInv
  BY InitInvariant
<1>2. IInv /\ [SearchNext]_search => IInv'
  <2> SUFFICES ASSUME IInv, [SearchNext]_search PROVE IInv'
    OBVIOUS
  <2>1. CASE UNCHANGED search
    BY <2>1 DEF search, IInv, SearchTypeOK, Search, PathIsChain, PathIsOpen, VisitedIsClosed,
      VisitedIsAcyclic, Visiting, VerdictIsRight, GraphAcyclic
  <2> QED
    BY <2>1, NextRootKeepsInvariant, DescendKeepsInvariant, ReturnKeepsInvariant,
      AcceptKeepsInvariant DEF SearchNext
<1>3. IInv => VerdictIsRight
  BY DEF IInv
<1> QED
  BY <1>1, <1>2, <1>3, PTL DEF SearchSpec

-----------------------------------------------------------------------------
(* The prototype of deterministic reuse: what its three Definitions have   *)
(* in common.  A key is past when the External Effect has been reached.    *)
Effects == {"send", "issue", "contain"}
Past == Effects \cup {"settle", "recover", "closure", "archive"}
Waits == {"approve", "verify", "scope", "findings", "containment", "closure"}

Keys ==
  {"gather", "draft", "approve", "send", "validate", "verify", "calculate", "issue", "settle",
   "normalize", "analyze", "scope", "collect", "findings", "plan", "containment", "contain",
   "recover", "closure", "archive"}

KeyOf(d, key) == \E t \in d.templates : t.key = key

GoesTo(d, r, key) ==
  /\ r.outputs = <<key>> /\ KeyOf(d, key)
  /\ key \in Past \ Effects <=> r.source \in Past

Sound(d) ==
  /\ \A t \in d.templates :
       /\ t.effect <=> t.key \in Effects
       /\ t.kind = IF t.key \in Waits THEN "wait" ELSE "step"
       /\ t.key \notin Past \cup Waits =>
            \E r \in d.routes : r.source = t.key /\ r.activation = "succeeded"
  /\ \A r \in d.routes : \E key \in Keys : GoesTo(d, r, key)
  /\ \E r \in d.routes : r.source = "__start__"

Outcomes == {"leased", "abandoned", "uncertain", "succeeded"}

OccurrenceShape ==
  [key : Keys, kind : {"step", "wait"}, attempts : Seq(Outcomes),
   dispatch : {"none", "uncertain", "confirmed"},
   state : {"pending", "unsatisfied", "satisfied", "succeeded"}]

(* One occurrence: only an External Effect is dispatched, after an Attempt *)
(* that succeeded or whose outcome is uncertain, and it is confirmed when  *)
(* the occurrence is over.                                                 *)
OccurrenceInv(row) ==
  /\ KeyOf(scenario, row.key)
  /\ row.kind = IF row.key \in Waits THEN "wait" ELSE "step"
  /\ row.dispatch # "none" =>
       /\ row.key \in Effects
       /\ \E k \in 1..Len(row.attempts) : row.attempts[k] \in {"succeeded", "uncertain"}
  /\ row.key \in Effects /\ ~IsActive(row) => row.dispatch = "confirmed"

(* The External Effect occurs once, when the last occurrence is past it.   *)
EffectOnce(rows) ==
  IF rows[Len(rows)].key \in Past
  THEN \E i \in 1..Len(rows) : \A j \in 1..Len(rows) : rows[j].key \in Effects <=> j = i
  ELSE \A j \in 1..Len(rows) : rows[j].key \notin Effects

HistoryInv(rows) ==
  /\ rows \in Seq(OccurrenceShape) /\ Len(rows) > 0
  /\ \A i \in 1..Len(rows) : OccurrenceInv(rows[i])
  /\ \A i \in 1..(Len(rows) - 1) : ~IsActive(rows[i])
  /\ EffectOnce(rows)

IsRun(s) ==
  s = [open |-> s.open, occurrences |-> s.occurrences, events |-> s.events,
       deliveries |-> s.deliveries, traces |-> s.traces]

StateInv(s) ==
  LET last == s.occurrences[Len(s.occurrences)] IN
  /\ IsRun(s) /\ s.open \in BOOLEAN
  /\ HistoryInv(s.occurrences)
  /\ s.open <=> IsActive(last)
  /\ ~s.open => last.key \in Past

ReuseInv == Sound(scenario) /\ StateInv(run)

LEMMA TemplateShapes ==
  ASSUME NEW name, NEW signal
  PROVE  /\ StepOf(name).key = name /\ ~StepOf(name).effect
         /\ StepOf(name).kind = "step"
         /\ EffectOf(name).key = name /\ EffectOf(name).effect
         /\ EffectOf(name).kind = "step"
         /\ WaitFor(name, signal).key = name /\ ~WaitFor(name, signal).effect
         /\ WaitFor(name, signal).kind = "wait"
BY DEF StepOf, EffectOf, WaitFor

LEMMA RouteShapes ==
  ASSUME NEW source, NEW activation, NEW output
  PROVE  LET r == Leads(source, activation, output) IN
         /\ r.source = source /\ r.activation = activation
         /\ r.outputs = <<output>> /\ r.outputs[1] = output
BY DEF Leads

LEMMA RenewalIsSound == Sound(Renewal)
<1> DEFINE d == Renewal
           K == {"gather", "draft", "approve", "send"}
<1> USE TemplateShapes, RouteShapes DEF Effects, Past, Waits
<1>1. \A t \in d.templates :
        (t.effect <=> t.key \in Effects) /\ t.kind = IF t.key \in Waits THEN "wait" ELSE "step"
  BY DEF Renewal
<1>2. \A key \in K : KeyOf(d, key)
  BY DEF Renewal, KeyOf
<1>3. \A r \in d.routes :
        /\ r.outputs = <<r.outputs[1]>> /\ r.outputs[1] \in K
        /\ r.outputs[1] \in Past \ Effects <=> r.source \in Past
  BY DEF Renewal
<1>4. \A t \in d.templates : t.key \in K
  BY DEF Renewal
<1>5. \A key \in K : key \notin Past \cup Waits =>
        \E r \in d.routes : r.source = key /\ r.activation = "succeeded"
  BY DEF Renewal
<1>6. \E r \in d.routes : r.source = "__start__"
  BY DEF Renewal
<1>7. \A r \in d.routes : \E key \in Keys : GoesTo(d, r, key)
  <2> HIDE DEF d
  <2> SUFFICES ASSUME NEW r \in d.routes PROVE \E key \in Keys : GoesTo(d, r, key)
    OBVIOUS
  <2>1. r.outputs[1] \in Keys
    BY <1>3 DEF Keys
  <2>2. GoesTo(d, r, r.outputs[1])
    BY <1>2, <1>3 DEF GoesTo
  <2> QED BY <2>1, <2>2
<1> QED BY <1>1, <1>4, <1>5, <1>6, <1>7 DEF Sound

LEMMA RefundIsSound == Sound(Refund)
<1> DEFINE d == Refund
           K == {"validate", "verify", "calculate", "issue", "settle"}
<1> USE TemplateShapes, RouteShapes DEF Effects, Past, Waits
<1>1. \A t \in d.templates :
        (t.effect <=> t.key \in Effects) /\ t.kind = IF t.key \in Waits THEN "wait" ELSE "step"
  BY DEF Refund
<1>2. \A key \in K : KeyOf(d, key)
  BY DEF Refund, KeyOf
<1>3. \A r \in d.routes :
        /\ r.outputs = <<r.outputs[1]>> /\ r.outputs[1] \in K
        /\ r.outputs[1] \in Past \ Effects <=> r.source \in Past
  BY DEF Refund
<1>4. \A t \in d.templates : t.key \in K
  BY DEF Refund
<1>5. \A key \in K : key \notin Past \cup Waits =>
        \E r \in d.routes : r.source = key /\ r.activation = "succeeded"
  BY DEF Refund
<1>6. \E r \in d.routes : r.source = "__start__"
  BY DEF Refund
<1>7. \A r \in d.routes : \E key \in Keys : GoesTo(d, r, key)
  <2> HIDE DEF d
  <2> SUFFICES ASSUME NEW r \in d.routes PROVE \E key \in Keys : GoesTo(d, r, key)
    OBVIOUS
  <2>1. r.outputs[1] \in Keys
    BY <1>3 DEF Keys
  <2>2. GoesTo(d, r, r.outputs[1])
    BY <1>2, <1>3 DEF GoesTo
  <2> QED BY <2>1, <2>2
<1> QED BY <1>1, <1>4, <1>5, <1>6, <1>7 DEF Sound

LEMMA IncidentIsSound == Sound(Incident)
<1> DEFINE d == Incident
           K == {"normalize", "analyze", "scope", "collect", "findings", "plan",
               "containment", "contain", "recover", "closure", "archive"}
<1> USE TemplateShapes, RouteShapes DEF Effects, Past, Waits
<1>0. /\ \A t \in d.templates :
           \/ \E key \in K \ (Effects \cup Waits) : t = StepOf(key)
           \/ \E key \in K \cap Waits, signal \in {"confirmed", "approved"} : t = WaitFor(key, signal)
           \/ t = EffectOf("contain")
      /\ \A key \in K \ (Effects \cup Waits) : StepOf(key) \in d.templates
      /\ \A key \in (K \cap Waits) \ {"containment"} : WaitFor(key, "confirmed") \in d.templates
      /\ WaitFor("containment", "approved") \in d.templates
      /\ EffectOf("contain") \in d.templates
  BY ONLY DEF Incident, Effects, Waits
<1>1. \A t \in d.templates :
        (t.effect <=> t.key \in Effects) /\ t.kind = IF t.key \in Waits THEN "wait" ELSE "step"
  <2> HIDE DEF d
  <2> QED BY <1>0
<1>2. \A key \in K : KeyOf(d, key)
  <2> HIDE DEF d
  <2> QED BY <1>0 DEF KeyOf
<1>3. \A r \in d.routes :
        /\ r.outputs = <<r.outputs[1]>> /\ r.outputs[1] \in K
        /\ r.outputs[1] \in Past \ Effects <=> r.source \in Past
  BY SMTT(60) DEF Incident
<1>4. \A t \in d.templates : t.key \in K
  BY SMTT(60) DEF Incident
<1>5. \A key \in K : key \notin Past \cup Waits =>
        \E r \in d.routes : r.source = key /\ r.activation = "succeeded"
  BY SMTT(60) DEF Incident
<1>6. \E r \in d.routes : r.source = "__start__"
  BY SMTT(60) DEF Incident
<1>7. \A r \in d.routes : \E key \in Keys : GoesTo(d, r, key)
  <2> HIDE DEF d
  <2> SUFFICES ASSUME NEW r \in d.routes PROVE \E key \in Keys : GoesTo(d, r, key)
    OBVIOUS
  <2>1. r.outputs[1] \in Keys
    BY <1>3 DEF Keys
  <2>2. GoesTo(d, r, r.outputs[1])
    BY <1>2, <1>3 DEF GoesTo
  <2> QED BY <2>1, <2>2
<1> QED BY <1>1, <1>4, <1>5, <1>6, <1>7 DEF Sound

LEMMA TemplateIsThere ==
  ASSUME Sound(scenario), NEW key, KeyOf(scenario, key)
  PROVE  Template(key) \in scenario.templates /\ Template(key).key = key
BY DEF Template, TemplateOf, KeyOf

LEMMA EmittedKeeps ==
  ASSUME NEW s, IsRun(s), NEW source, NEW activation
  PROVE  LET told == Emitted(s, source, activation) IN
         IsRun(told) /\ told.open = s.open /\ told.occurrences = s.occurrences
BY DEF IsRun, Emitted

LEMMA ActiveIsLast ==
  ASSUME NEW s, StateInv(s)
  PROVE  ActiveIndex(s) = IF s.open THEN Len(s.occurrences) ELSE 0
BY DEF StateInv, HistoryInv, ActiveIndex, SelectLastInSeq, Max

(* What a Route adds, behind occurrences that are all over.                *)
LEMMA MaterializeAdds ==
  ASSUME Sound(scenario), NEW s, IsRun(s), NEW r \in scenario.routes, NEW key \in Keys,
         GoesTo(scenario, r, key)
  PROVE  LET new == Materialize(s, r, scenario) IN
         /\ IsRun(new) /\ new.open = s.open
         /\ \E row \in OccurrenceShape :
              /\ new.occurrences = s.occurrences \o <<row>>
              /\ row.key = key /\ OccurrenceInv(row) /\ IsActive(row)
<1> DEFINE T == Template(key)
           row == Occurrence(scenario, key)
           new == Materialize(s, r, scenario)
<1>0. row = [key |-> key, kind |-> T.kind, attempts |-> <<>>, dispatch |-> "none",
             state |-> IF T.kind = "step" THEN "pending" ELSE "unsatisfied"]
  BY DEF Occurrence, Template
<1>1. KeyOf(scenario, key) /\ r.outputs = <<key>>
  BY DEF GoesTo
<1>2. T.kind = IF key \in Waits THEN "wait" ELSE "step"
  BY <1>1, TemplateIsThere DEF Sound
<1> HIDE DEF T, row
<1>3. row \in OccurrenceShape
  <2>1. <<>> \in Seq(Outcomes)
    OBVIOUS
  <2> QED BY <1>0, <1>2, <2>1 DEF OccurrenceShape
<1>4. OccurrenceInv(row) /\ IsActive(row) /\ row.key = key
  BY <1>0, <1>1, <1>2 DEF OccurrenceInv, IsActive
<1>5. [k \in DOMAIN r.outputs |-> Occurrence(scenario, r.outputs[k])] = <<row>>
  BY <1>1 DEF row
<1>6. new = [[s EXCEPT !.occurrences = s.occurrences \o <<row>>] EXCEPT
               !.traces = Append(s.traces, "route_applied")]
  BY <1>5 DEF Materialize, Traced, IsRun
<1>7. IsRun(new) /\ new.open = s.open /\ new.occurrences = s.occurrences \o <<row>>
  <2> HIDE DEF new
  <2> QED BY <1>6 DEF IsRun
<1> QED BY <1>3, <1>4, <1>7

LEMMA AppendKeeps ==
  ASSUME NEW rows, HistoryInv(rows), ~IsActive(rows[Len(rows)]),
         NEW row \in OccurrenceShape, OccurrenceInv(row),
         row.key \in Past \ Effects <=> rows[Len(rows)].key \in Past
  PROVE  HistoryInv(rows \o <<row>>)
<1> DEFINE new == rows \o <<row>>
<1>1. rows \in Seq(OccurrenceShape) /\ Len(rows) \in Nat \ {0}
  BY DEF HistoryInv
<1>2. /\ new \in Seq(OccurrenceShape) /\ Len(new) = Len(rows) + 1 /\ new[Len(rows) + 1] = row
      /\ \A i \in 1..Len(rows) : new[i] = rows[i]
  BY <1>1
<1> HIDE DEF new
<1>3. \A i \in 1..Len(new) : OccurrenceInv(new[i])
  BY <1>1, <1>2 DEF HistoryInv
<1>4. \A i \in 1..(Len(new) - 1) : ~IsActive(new[i])
  BY <1>1, <1>2 DEF HistoryInv
<1>5. EffectOnce(new)
  <2>1. CASE rows[Len(rows)].key \in Past
    <3>1. PICK i \in 1..Len(rows) : \A j \in 1..Len(rows) : rows[j].key \in Effects <=> j = i
      BY <2>1 DEF HistoryInv, EffectOnce
    <3>2. \A j \in 1..Len(new) : new[j].key \in Effects <=> j = i
      BY <1>1, <1>2, <2>1, <3>1
    <3>3. new[Len(new)].key \in Past /\ i \in 1..Len(new)
      BY <1>1, <1>2, <2>1
    <3> QED BY <3>2, <3>3 DEF EffectOnce
  <2>2. CASE rows[Len(rows)].key \notin Past
    <3>1. \A j \in 1..Len(rows) : rows[j].key \notin Effects
      BY <2>2 DEF HistoryInv, EffectOnce
    <3>2. CASE row.key \in Effects
      <4>1. \A j \in 1..Len(new) : new[j].key \in Effects <=> j = Len(new)
        BY <1>1, <1>2, <3>1, <3>2
      <4> QED BY <1>1, <1>2, <3>2, <4>1 DEF EffectOnce, Past
    <3>3. CASE row.key \notin Effects
      <4>1. \A j \in 1..Len(new) : new[j].key \notin Effects
        BY <1>1, <1>2, <3>1, <3>3
      <4>2. new[Len(new)].key \notin Past
        BY <1>1, <1>2, <2>2, <3>3
      <4> QED BY <4>1, <4>2 DEF EffectOnce
    <3> QED BY <3>2, <3>3
  <2> QED BY <2>1, <2>2
<1> QED BY <1>1, <1>2, <1>3, <1>4, <1>5 DEF HistoryInv, new

LEMMA ReplaceKeeps ==
  ASSUME NEW rows, HistoryInv(rows), NEW row \in OccurrenceShape, OccurrenceInv(row),
         row.key = rows[Len(rows)].key
  PROVE  LET new == [rows EXCEPT ![Len(rows)] = row] IN
         HistoryInv(new) /\ Len(new) = Len(rows) /\ new[Len(rows)] = row
<1> DEFINE new == [rows EXCEPT ![Len(rows)] = row]
<1>1. rows \in Seq(OccurrenceShape) /\ Len(rows) \in Nat \ {0}
  BY DEF HistoryInv
<1>2. /\ new \in Seq(OccurrenceShape) /\ Len(new) = Len(rows) /\ new[Len(rows)] = row
      /\ \A i \in 1..(Len(rows) - 1) : new[i] = rows[i]
  BY <1>1
<1> HIDE DEF new
<1>3. \A i \in 1..Len(new) : OccurrenceInv(new[i]) /\ new[i].key = rows[i].key
  BY <1>1, <1>2 DEF HistoryInv
<1>4. \A i \in 1..(Len(new) - 1) : ~IsActive(new[i])
  BY <1>1, <1>2 DEF HistoryInv
<1>5. EffectOnce(new)
  <2>1. \A j \in 1..Len(rows) : new[j].key = rows[j].key
    BY <1>2, <1>3
  <2>2. CASE rows[Len(rows)].key \in Past
    <3>1. PICK i \in 1..Len(rows) : \A j \in 1..Len(rows) : rows[j].key \in Effects <=> j = i
      BY <2>2 DEF HistoryInv, EffectOnce
    <3>2. \A j \in 1..Len(new) : new[j].key \in Effects <=> j = i
      BY <1>2, <2>1, <3>1
    <3>3. new[Len(new)].key \in Past /\ i \in 1..Len(new)
      BY <1>2, <2>2
    <3> QED BY <3>2, <3>3 DEF EffectOnce
  <2>3. CASE rows[Len(rows)].key \notin Past
    <3>1. \A j \in 1..Len(rows) : rows[j].key \notin Effects
      BY <2>3 DEF HistoryInv, EffectOnce
    <3>2. \A j \in 1..Len(new) : new[j].key \notin Effects
      BY <1>2, <2>1, <3>1
    <3>3. new[Len(new)].key \notin Past
      BY <1>2, <2>3
    <3> QED BY <3>2, <3>3 DEF EffectOnce
  <2> QED BY <2>2, <2>3
<1> QED BY <1>1, <1>2, <1>3, <1>4, <1>5 DEF HistoryInv, new

(* _apply_activation, for an occurrence that is over.                      *)
LEMMA ActivatedKeeps ==
  ASSUME Sound(scenario), NEW s, IsRun(s), s.open = TRUE, HistoryInv(s.occurrences),
         NEW source, source = s.occurrences[Len(s.occurrences)].key,
         ~IsActive(s.occurrences[Len(s.occurrences)]),
         NEW activation, RouteFor(source, activation) # {} \/ source \in Past
  PROVE  StateInv(Activated(s, source, activation))
<1> DEFINE told == Emitted(s, source, activation)
           routes == RouteFor(source, activation)
           new == Activated(s, source, activation)
<1>1. IsRun(told) /\ told.open = s.open /\ told.occurrences = s.occurrences
  BY EmittedKeeps
<1>2. CASE routes # {}
  <2> DEFINE r == CHOOSE x \in routes : TRUE
  <2>1. r \in scenario.routes /\ r.source = source
    BY <1>2 DEF RouteFor
  <2>2. new = Materialize(told, r, scenario)
    BY <1>2 DEF Activated
  <2> HIDE DEF r, told, new
  <2>3. PICK key \in Keys : GoesTo(scenario, r, key)
    BY <2>1 DEF Sound
  <2>4. /\ IsRun(new) /\ new.open = told.open
        /\ \E row \in OccurrenceShape :
              /\ new.occurrences = told.occurrences \o <<row>>
              /\ row.key = key /\ OccurrenceInv(row) /\ IsActive(row)
    BY <1>1, <2>1, <2>2, <2>3, MaterializeAdds
  <2>5. PICK row \in OccurrenceShape :
              /\ new.occurrences = s.occurrences \o <<row>>
              /\ row.key = key /\ OccurrenceInv(row) /\ IsActive(row)
    BY <1>1, <2>4
  <2>6. row.key \in Past \ Effects <=> source \in Past
    BY <2>1, <2>3, <2>5 DEF GoesTo
  <2>7. HistoryInv(new.occurrences)
    BY <2>5, <2>6, AppendKeeps
  <2>8. new.occurrences[Len(new.occurrences)] = row
    BY <2>5 DEF HistoryInv
  <2> DEFINE last == new.occurrences[Len(new.occurrences)]
  <2>9. IsRun(new) /\ new.open = TRUE /\ IsActive(last)
    BY <1>1, <2>4, <2>5, <2>8
  <2> HIDE DEF last
  <2>10. StateInv(new)
    BY <2>7, <2>9 DEF StateInv, last
  <2> QED BY <2>10 DEF new
<1>3. CASE routes = {}
  <2> DEFINE closed == Emitted(told, "__completion__", "completed")
  <2>1. new = [[closed EXCEPT !.open = FALSE] EXCEPT
                 !.traces = Append(closed.traces, "instance_closed")]
    <3>1. IsRun(closed)
      BY <1>1, EmittedKeeps
    <3> HIDE DEF told
    <3>2. new = Traced([closed EXCEPT !.open = FALSE], "instance_closed")
      BY <1>3 DEF Activated, told
    <3> HIDE DEF closed, new
    <3> QED BY <3>1, <3>2 DEF Traced, IsRun
  <2> HIDE DEF told
  <2>2. IsRun(closed) /\ closed.occurrences = s.occurrences
    BY <1>1, EmittedKeeps
  <2> HIDE DEF closed, new
  <2>3. IsRun(new) /\ new.open = FALSE /\ new.occurrences = s.occurrences
    BY <2>1, <2>2 DEF IsRun
  <2>4. source \in Past
    BY <1>3
  <2> DEFINE last == new.occurrences[Len(new.occurrences)]
  <2>5. ~IsActive(last) /\ last.key \in Past
    BY <2>3, <2>4
  <2> HIDE DEF last
  <2>6. StateInv(new)
    BY <2>3, <2>5 DEF StateInv, last
  <2> QED BY <2>6 DEF new
<1> QED BY <1>2, <1>3

(* A run whose last occurrence is replaced, and the event traced.          *)
LEMMA ReplacedRun ==
  ASSUME NEW s, StateInv(s), NEW row \in OccurrenceShape, OccurrenceInv(row), NEW event,
         row.key = s.occurrences[Len(s.occurrences)].key
  PROVE  LET new == Traced(WithOccurrence(s, Len(s.occurrences), row), event)
             rows == new.occurrences IN
         /\ IsRun(new) /\ new.open = s.open
         /\ HistoryInv(rows) /\ rows[Len(rows)] = row
<1> DEFINE new == Traced(WithOccurrence(s, Len(s.occurrences), row), event)
           rows == [s.occurrences EXCEPT ![Len(s.occurrences)] = row]
<1>1. IsRun(s) /\ HistoryInv(s.occurrences)
  BY DEF StateInv
<1>2. HistoryInv(rows) /\ Len(rows) = Len(s.occurrences) /\ rows[Len(rows)] = row
  BY <1>1, ReplaceKeeps
<1>3. new = [[s EXCEPT !.occurrences = rows] EXCEPT !.traces = Append(s.traces, event)]
  BY <1>1 DEF Traced, WithOccurrence, IsRun
<1> HIDE DEF rows, new
<1>4. IsRun(new) /\ new.open = s.open /\ new.occurrences = rows
  BY <1>1, <1>3 DEF IsRun
<1> QED BY <1>2, <1>4 DEF new

LEMMA StillActive ==
  ASSUME NEW s, StateInv(s), s.open = TRUE, NEW row \in OccurrenceShape, OccurrenceInv(row), NEW event,
         row.key = s.occurrences[Len(s.occurrences)].key, IsActive(row)
  PROVE  StateInv(Traced(WithOccurrence(s, Len(s.occurrences), row), event))
<1> DEFINE new == Traced(WithOccurrence(s, Len(s.occurrences), row), event)
<1>1. /\ IsRun(new) /\ new.open = TRUE
      /\ HistoryInv(new.occurrences) /\ new.occurrences[Len(new.occurrences)] = row
  BY ReplacedRun
<1> HIDE DEF new
<1>2. StateInv(new)
  BY <1>1 DEF StateInv
<1> QED BY <1>2 DEF new

LEMMA MovesOn ==
  ASSUME Sound(scenario), NEW s, StateInv(s), s.open = TRUE, NEW row \in OccurrenceShape, OccurrenceInv(row),
         NEW event, row.key = s.occurrences[Len(s.occurrences)].key, ~IsActive(row),
         NEW activation, RouteFor(row.key, activation) # {} \/ row.key \in Past
  PROVE  StateInv(Activated(
                  Traced(WithOccurrence(s, Len(s.occurrences), row), event),
                  row.key, activation))
<1> DEFINE new == Traced(WithOccurrence(s, Len(s.occurrences), row), event)
<1>1. /\ IsRun(new) /\ new.open = TRUE
      /\ HistoryInv(new.occurrences) /\ new.occurrences[Len(new.occurrences)] = row
  BY ReplacedRun
<1> HIDE DEF new
<1>2. StateInv(Activated(new, row.key, activation))
  BY <1>1, ActivatedKeeps
<1> QED BY <1>2 DEF new

(* The occurrence every command works on.                                  *)
LEMMA CurrentIsLast ==
  ASSUME ReuseInv, active # 0
  PROVE  /\ run.open = TRUE /\ active = Len(run.occurrences)
         /\ current = run.occurrences[Len(run.occurrences)]
         /\ current \in OccurrenceShape /\ OccurrenceInv(current)
         /\ IsActive(current)
<1>1. StateInv(run)
  BY DEF ReuseInv
<1>2. run.open \in BOOLEAN /\ active = IF run.open THEN Len(run.occurrences) ELSE 0
  BY <1>1, ActiveIsLast DEF active, StateInv
<1>3. run.open = TRUE /\ active = Len(run.occurrences)
  BY <1>2
<1>4. current = run.occurrences[Len(run.occurrences)]
  BY <1>3 DEF current
<1>5. run.occurrences \in Seq(OccurrenceShape) /\ Len(run.occurrences) \in 1..Len(run.occurrences)
  BY <1>1 DEF StateInv, HistoryInv
<1>6. current \in OccurrenceShape /\ OccurrenceInv(current)
  BY <1>1, <1>4, <1>5 DEF StateInv, HistoryInv
<1>7. IsActive(current)
  BY <1>1, <1>3, <1>4 DEF StateInv
<1> QED BY <1>3, <1>4, <1>6, <1>7

(* Its last Attempt settled: evidence of an earlier one stays.             *)
LEMMA SettledShape ==
  ASSUME ReuseInv, Leased, NEW outcome \in Outcomes
  PROVE  LET c == current
             row == LastAttempt(outcome) IN
         /\ row \in OccurrenceShape /\ row = [c EXCEPT !.attempts = row.attempts]
         /\ Len(row.attempts) \in 1..Len(row.attempts)
         /\ row.attempts[Len(row.attempts)] = outcome
         /\ (\E k \in 1..Len(c.attempts) : c.attempts[k] \in {"succeeded", "uncertain"}) =>
              \E k \in 1..Len(row.attempts) : row.attempts[k] \in {"succeeded", "uncertain"}
<1> DEFINE c == current
           a == [c.attempts EXCEPT ![Len(c.attempts)] = outcome]
<1>1. /\ c \in OccurrenceShape /\ c.attempts \in Seq(Outcomes) /\ Len(c.attempts) \in Nat \ {0}
      /\ c.attempts[Len(c.attempts)] = "leased"
  <2>1. c \in OccurrenceShape /\ c.attempts # <<>> /\ c.attempts[Len(c.attempts)] = "leased"
    BY CurrentIsLast DEF Leased, Last
  <2>2. c.attempts \in Seq(Outcomes)
    BY <2>1 DEF OccurrenceShape
  <2> QED BY <2>1, <2>2
<1>2. /\ a \in Seq(Outcomes) /\ Len(a) = Len(c.attempts) /\ a[Len(a)] = outcome
      /\ \A k \in 1..Len(a) : k # Len(a) => a[k] = c.attempts[k]
  BY <1>1
<1>3. LastAttempt(outcome) = [c EXCEPT !.attempts = a]
  BY <1>1 DEF LastAttempt, OccurrenceShape
<1> HIDE DEF c, a
<1>4. [c EXCEPT !.attempts = a] \in OccurrenceShape /\ [c EXCEPT !.attempts = a].attempts = a
  BY <1>1, <1>2 DEF OccurrenceShape
<1>5. (\E k \in 1..Len(c.attempts) : c.attempts[k] \in {"succeeded", "uncertain"}) =>
        \E k \in 1..Len(a) : a[k] \in {"succeeded", "uncertain"}
  <2> SUFFICES ASSUME NEW k \in 1..Len(c.attempts), c.attempts[k] \in {"succeeded", "uncertain"}
               PROVE  \E x \in 1..Len(a) : a[x] \in {"succeeded", "uncertain"}
    OBVIOUS
  <2>1. k # Len(c.attempts)
    BY <1>1
  <2>2. k \in 1..Len(a) /\ a[k] = c.attempts[k]
    BY <1>2, <2>1
  <2> QED BY <2>2
<1> QED BY <1>1, <1>2, <1>3, <1>4, <1>5 DEF c

LEMMA LeaseKeeps ==
  ASSUME ReuseInv, Lease
  PROVE  StateInv(run')
<1> DEFINE c == current
           a == Append(c.attempts, "leased")
           row == [c EXCEPT !.attempts = a]
<1>1. /\ StateInv(run) /\ run.open = TRUE
      /\ active = Len(run.occurrences)
      /\ c = run.occurrences[Len(run.occurrences)]
      /\ c \in OccurrenceShape /\ OccurrenceInv(c) /\ IsActive(c)
  BY CurrentIsLast DEF Lease, ReuseInv
<1>2. run' = Traced(WithOccurrence(run, Len(run.occurrences), row),
                              "attempt_leased")
  BY <1>1 DEF Lease, OccurrenceShape
<1> HIDE DEF c
<1>3. c.attempts \in Seq(Outcomes)
  BY <1>1 DEF OccurrenceShape
<1>4. /\ a \in Seq(Outcomes) /\ Len(a) = Len(c.attempts) + 1
      /\ \A k \in 1..Len(c.attempts) : a[k] = c.attempts[k]
  BY <1>3 DEF Outcomes
<1> HIDE DEF a
<1>5. /\ row \in OccurrenceShape /\ row.attempts = a /\ row.key = c.key /\ row.kind = c.kind
      /\ row.dispatch = c.dispatch /\ row.state = c.state
  BY <1>1, <1>4 DEF OccurrenceShape
<1> HIDE DEF row
<1>6. (\E k \in 1..Len(c.attempts) : c.attempts[k] \in {"succeeded", "uncertain"}) =>
        \E k \in 1..Len(a) : a[k] \in {"succeeded", "uncertain"}
  <2> SUFFICES ASSUME NEW k \in 1..Len(c.attempts), c.attempts[k] \in {"succeeded", "uncertain"}
               PROVE  \E x \in 1..Len(a) : a[x] \in {"succeeded", "uncertain"}
    OBVIOUS
  <2>1. k \in 1..Len(a) /\ a[k] = c.attempts[k]
    BY <1>3, <1>4
  <2> QED BY <2>1
<1>7. OccurrenceInv(row) /\ IsActive(row)
  BY <1>1, <1>5, <1>6 DEF OccurrenceInv, IsActive
<1> QED BY <1>1, <1>2, <1>5, <1>7, StillActive

LEMMA AcceptResultKeeps ==
  ASSUME ReuseInv, AcceptResult
  PROVE  StateInv(run')
<1> DEFINE c == current
           settled == LastAttempt("succeeded")
           row == [settled EXCEPT !.state = "succeeded",
                                  !.dispatch = IF Template(c.key).effect
                                               THEN "confirmed" ELSE "none"]
<1>1. /\ StateInv(run) /\ Sound(scenario) /\ run.open = TRUE
      /\ active = Len(run.occurrences)
      /\ c = run.occurrences[Len(run.occurrences)] /\ c.kind = "step"
      /\ c \in OccurrenceShape /\ OccurrenceInv(c) /\ IsActive(c)
  BY CurrentIsLast DEF AcceptResult, Leased, ReuseInv
<1>2. /\ settled \in OccurrenceShape /\ settled = [c EXCEPT !.attempts = settled.attempts]
      /\ Len(settled.attempts) \in 1..Len(settled.attempts)
      /\ settled.attempts[Len(settled.attempts)] = "succeeded"
  BY SettledShape DEF AcceptResult, Outcomes
<1>3. run' = Activated(
               Traced(WithOccurrence(run, Len(run.occurrences), row),
                                "attempt_result_accepted"), c.key, "succeeded")
  BY <1>1 DEF AcceptResult
<1>4. /\ KeyOf(scenario, c.key) /\ c.key \notin Waits
      /\ Template(c.key) \in scenario.templates /\ Template(c.key).key = c.key
  BY <1>1, TemplateIsThere DEF OccurrenceInv
<1>5. Template(c.key).effect <=> c.key \in Effects
  BY <1>1, <1>4 DEF Sound
<1>6. RouteFor(c.key, "succeeded") # {} \/ c.key \in Past
  BY <1>1, <1>4 DEF Sound, RouteFor
<1> HIDE DEF c, settled
<1>7. /\ row \in OccurrenceShape /\ row.attempts = settled.attempts /\ row.key = c.key /\ row.kind = c.kind
      /\ row.dispatch = (IF c.key \in Effects THEN "confirmed" ELSE "none")
      /\ row.state = "succeeded"
  BY <1>1, <1>2, <1>5 DEF OccurrenceShape
<1> HIDE DEF row
<1>8. OccurrenceInv(row) /\ ~IsActive(row)
  BY <1>1, <1>2, <1>7 DEF OccurrenceInv, IsActive
<1> QED BY <1>1, <1>3, <1>6, <1>7, <1>8, MovesOn

LEMMA SignalAcceptedKeeps ==
  ASSUME ReuseInv, NEW type, SignalAccepted(type)
  PROVE  StateInv(run')
<1> DEFINE c == current
           row == [c EXCEPT !.state = "satisfied"]
<1>1. /\ StateInv(run) /\ Sound(scenario) /\ run.open = TRUE
      /\ active = Len(run.occurrences)
      /\ c = run.occurrences[Len(run.occurrences)] /\ c.kind = "wait"
      /\ c \in OccurrenceShape /\ OccurrenceInv(c) /\ IsActive(c)
  BY CurrentIsLast DEF SignalAccepted, Waiting, ReuseInv
<1>2. /\ run' = Activated(
                  Traced(WithOccurrence(run, Len(run.occurrences), row),
                                   "signal_accepted"), c.key, type)
      /\ RouteFor(c.key, type) # {}
  BY <1>1 DEF SignalAccepted
<1> HIDE DEF c
<1>3. /\ row \in OccurrenceShape /\ row.attempts = c.attempts /\ row.key = c.key /\ row.kind = c.kind
      /\ row.dispatch = c.dispatch /\ row.state = "satisfied"
  BY <1>1 DEF OccurrenceShape
<1> HIDE DEF row
<1>4. c.key \notin Effects
  BY <1>1 DEF OccurrenceInv, Waits, Effects
<1>5. OccurrenceInv(row) /\ ~IsActive(row)
  BY <1>1, <1>3, <1>4 DEF OccurrenceInv, IsActive
<1> QED BY <1>1, <1>2, <1>3, <1>5, MovesOn

LEMMA LoseStepLeaseKeeps ==
  ASSUME ReuseInv, LoseStepLease
  PROVE  StateInv(run')
<1> DEFINE c == current
           row == LastAttempt("abandoned")
<1>1. /\ StateInv(run) /\ run.open = TRUE
      /\ active = Len(run.occurrences)
      /\ c = run.occurrences[Len(run.occurrences)]
      /\ c \in OccurrenceShape /\ OccurrenceInv(c) /\ IsActive(c)
  BY CurrentIsLast DEF LoseStepLease, Leased, ReuseInv
<1>2. /\ row \in OccurrenceShape /\ row = [c EXCEPT !.attempts = row.attempts]
      /\ (\E k \in 1..Len(c.attempts) : c.attempts[k] \in {"succeeded", "uncertain"}) =>
           \E k \in 1..Len(row.attempts) : row.attempts[k] \in {"succeeded", "uncertain"}
  BY SettledShape DEF LoseStepLease, Outcomes
<1>3. run' = Traced(WithOccurrence(run, Len(run.occurrences), row),
                              "attempt_abandoned")
  BY <1>1 DEF LoseStepLease
<1> HIDE DEF c, row
<1>4. row.key = c.key /\ row.kind = c.kind /\ row.dispatch = c.dispatch /\ row.state = c.state
  BY <1>1, <1>2 DEF OccurrenceShape
<1>5. OccurrenceInv(row) /\ IsActive(row)
  BY <1>1, <1>2, <1>4 DEF OccurrenceInv, IsActive
<1> QED BY <1>1, <1>2, <1>3, <1>4, <1>5, StillActive

LEMMA MakeEffectUncertainKeeps ==
  ASSUME ReuseInv, MakeEffectUncertain
  PROVE  StateInv(run')
<1> DEFINE c == current
           settled == LastAttempt("uncertain")
           row == [settled EXCEPT !.dispatch = "uncertain"]
<1>1. /\ StateInv(run) /\ Sound(scenario) /\ run.open = TRUE
      /\ active = Len(run.occurrences)
      /\ c = run.occurrences[Len(run.occurrences)]
      /\ c \in OccurrenceShape /\ OccurrenceInv(c) /\ IsActive(c)
  BY CurrentIsLast DEF MakeEffectUncertain, Leased, ReuseInv
<1>2. /\ settled \in OccurrenceShape /\ settled = [c EXCEPT !.attempts = settled.attempts]
      /\ Len(settled.attempts) \in 1..Len(settled.attempts)
      /\ settled.attempts[Len(settled.attempts)] = "uncertain"
  BY SettledShape DEF MakeEffectUncertain, Outcomes
<1>3. run' = Traced(WithOccurrence(run, Len(run.occurrences), row),
                              "attempt_result_accepted")
  BY <1>1 DEF MakeEffectUncertain
<1>4. c.key \in Effects
  <2>1. Template(c.key) \in scenario.templates /\ Template(c.key).key = c.key
    BY <1>1, TemplateIsThere DEF OccurrenceInv
  <2> QED BY <1>1, <2>1 DEF Sound, MakeEffectUncertain
<1> HIDE DEF c, settled
<1>5. /\ row \in OccurrenceShape /\ row.attempts = settled.attempts /\ row.key = c.key /\ row.kind = c.kind
      /\ row.dispatch = "uncertain" /\ row.state = c.state
  BY <1>1, <1>2 DEF OccurrenceShape
<1> HIDE DEF row
<1>6. OccurrenceInv(row) /\ IsActive(row)
  BY <1>1, <1>2, <1>4, <1>5 DEF OccurrenceInv, IsActive
<1> QED BY <1>1, <1>3, <1>5, <1>6, StillActive

LEMMA ConfirmUncertainEffectKeeps ==
  ASSUME ReuseInv, ConfirmUncertainEffect
  PROVE  StateInv(run')
<1> DEFINE c == current
           row == [c EXCEPT !.state = "succeeded", !.dispatch = "confirmed"]
<1>1. /\ StateInv(run) /\ Sound(scenario) /\ run.open = TRUE
      /\ active = Len(run.occurrences)
      /\ c = run.occurrences[Len(run.occurrences)]
      /\ c \in OccurrenceShape /\ OccurrenceInv(c)
      /\ c.dispatch = "uncertain"
  BY CurrentIsLast DEF ConfirmUncertainEffect, ReuseInv
<1>2. run' = Activated(
               Traced(WithOccurrence(run, Len(run.occurrences), row),
                                "deferred_step_resolved"), c.key, "succeeded")
  BY <1>1 DEF ConfirmUncertainEffect
<1> HIDE DEF c
<1>3. /\ row \in OccurrenceShape /\ row.attempts = c.attempts /\ row.key = c.key /\ row.kind = c.kind
      /\ row.dispatch = "confirmed" /\ row.state = "succeeded"
  BY <1>1 DEF OccurrenceShape
<1> HIDE DEF row
<1>4. c.key \in Past
  BY <1>1 DEF OccurrenceInv, Past
<1>5. OccurrenceInv(row) /\ ~IsActive(row)
  BY <1>1, <1>3 DEF OccurrenceInv, IsActive
<1> QED BY <1>1, <1>2, <1>3, <1>4, <1>5, MovesOn

(* What only a Delivery changes.                                           *)
LEMMA DeliveriesApart ==
  ASSUME StateInv(run), NEW rows, run' = [run EXCEPT !.deliveries = rows]
  PROVE  StateInv(run')
<1>1. IsRun(run') /\ run'.open = run.open /\ run'.occurrences = run.occurrences
  BY DEF StateInv, IsRun
<1> QED BY <1>1 DEF StateInv

LEMMA RunStarts ==
  ASSUME NEW d, scenario = d, Sound(d), run = Started(d)
  PROVE  StateInv(run)
<1> DEFINE s == [open |-> TRUE, occurrences |-> <<>>, events |-> <<>>, deliveries |-> <<>>,
                 traces |-> <<>>]
           r == CHOOSE x \in d.routes : x.source = "__start__"
<1>1. r \in d.routes /\ r.source = "__start__"
  BY DEF Sound
<1>0. r \in scenario.routes /\ Sound(scenario)
  BY <1>1
<1>2. IsRun(s) /\ s.open = TRUE /\ s.occurrences = <<>>
  BY DEF IsRun
<1>3. run = Materialize(s, r, scenario)
  BY DEF Started
<1> HIDE DEF s, r
<1>4. PICK key \in Keys : GoesTo(scenario, r, key)
  BY <1>1 DEF Sound
<1>5. LET new == Materialize(s, r, scenario) IN
      /\ IsRun(new) /\ new.open = s.open
      /\ \E row \in OccurrenceShape :
           /\ new.occurrences = s.occurrences \o <<row>>
           /\ row.key = key /\ OccurrenceInv(row) /\ IsActive(row)
  <2>1. IsRun(s)
    BY <1>2
  <2> QED BY ONLY <1>0, <2>1, <1>4, key \in Keys, MaterializeAdds
<1>6. PICK row \in OccurrenceShape : /\ run.occurrences = <<>> \o <<row>>
                         /\ row.key = key /\ OccurrenceInv(row) /\ IsActive(row)
  BY <1>2, <1>3, <1>5
<1>7. /\ run.occurrences \in Seq(OccurrenceShape) /\ Len(run.occurrences) = 1
      /\ run.occurrences[1] = row
  BY <1>6
<1>8. row.key \notin Past \ Effects
  BY <1>1, <1>4, <1>6 DEF GoesTo, Past, Effects
<1>9. EffectOnce(run.occurrences)
  BY <1>7, <1>8 DEF EffectOnce, Past
<1>10. HistoryInv(run.occurrences)
  BY <1>6, <1>7, <1>9 DEF HistoryInv
<1>11. IsRun(run) /\ run.open = TRUE /\ IsActive(run.occurrences[Len(run.occurrences)])
  BY <1>2, <1>3, <1>5, <1>6, <1>7
<1> QED BY <1>10, <1>11 DEF StateInv

LEMMA ReuseStarts == ReuseInit => ReuseInv
<1> SUFFICES ASSUME ReuseInit PROVE ReuseInv
  OBVIOUS
<1>1. PICK s \in {Renewal, Refund, Incident} :
        scenario = s /\ run = Started(s)
  BY DEF ReuseInit
<1>2. Sound(s)
  BY RenewalIsSound, RefundIsSound, IncidentIsSound
<1>3. StateInv(run)
  BY <1>1, <1>2, RunStarts
<1> QED BY <1>1, <1>2, <1>3 DEF ReuseInv

LEMMA ReuseStep == ReuseInv /\ [ReuseNext]_(prototype) => ReuseInv'
<1> SUFFICES ASSUME ReuseInv, [ReuseNext]_(prototype) PROVE ReuseInv'
  OBVIOUS
<1>1. scenario' = scenario
  BY DEF ReuseNext, prototype
<1>2. StateInv(run')
  <2>1. StateInv(run)
    BY DEF ReuseInv
  <2>2. CASE Lease
    BY <2>2, LeaseKeeps
  <2>3. CASE AcceptResult
    BY <2>3, AcceptResultKeeps
  <2>4. ASSUME NEW type, SignalAccepted(type) PROVE StateInv(run')
    BY <2>4, SignalAcceptedKeeps
  <2>5. CASE Advance
    BY <2>2, <2>3, <2>4, <2>5 DEF Advance
  <2>6. CASE RequestRevision \/ CompetingSignal
    BY <2>4, <2>6 DEF RequestRevision, CompetingSignal
  <2>7. CASE LoseStepLease
    BY <2>7, LoseStepLeaseKeeps
  <2>8. CASE MakeEffectUncertain
    BY <2>8, MakeEffectUncertainKeeps
  <2>9. CASE ConfirmUncertainEffect
    BY <2>9, ConfirmUncertainEffectKeeps
  <2>10. ASSUME NEW i, NEW state, NEW attempts, Delivery(i, state, attempts)
         PROVE  StateInv(run')
    BY <2>1, <2>10, DeliveriesApart DEF Delivery
  <2>11. CASE ClaimDelivery
    BY <2>10, <2>11 DEF ClaimDelivery
  <2>12. CASE Deliver
    BY <2>1, <2>12, DeliveriesApart DEF Deliver
  <2>13. CASE LoseDeliveryLease
    BY <2>10, <2>13 DEF LoseDeliveryLease
  <2>14. CASE UNCHANGED prototype
    BY <2>1, <2>14 DEF prototype
  <2> QED BY <2>5, <2>6, <2>7, <2>8, <2>9, <2>11, <2>12, <2>13, <2>14 DEF ReuseNext
<1>3. Sound(scenario)'
  BY <1>1 DEF ReuseInv
<1>4. StateInv(run)'
  BY <1>1, <1>2 DEF StateInv, HistoryInv, OccurrenceInv
<1> QED BY <1>3, <1>4 DEF ReuseInv

LEMMA ClosedOnce == ReuseInv => EffectConfirmedOnce
<1> SUFFICES ASSUME ReuseInv, ~run.open PROVE
               \E i \in DOMAIN run.occurrences :
                 /\ \A j \in DOMAIN run.occurrences :
                      run.occurrences[j].dispatch # "none" <=> j = i
                 /\ run.occurrences[i].dispatch = "confirmed"
                 /\ \E k \in DOMAIN run.occurrences[i].attempts :
                      run.occurrences[i].attempts[k] \in {"succeeded", "uncertain"}
  BY DEF EffectConfirmedOnce
<1> DEFINE rows == run.occurrences
<1>1. /\ HistoryInv(rows) /\ rows[Len(rows)].key \in Past
      /\ ~IsActive(rows[Len(rows)])
  BY DEF ReuseInv, StateInv
<1> HIDE DEF rows
<1>2. rows \in Seq(OccurrenceShape) /\ Len(rows) \in Nat \ {0} /\ DOMAIN rows = 1..Len(rows)
  BY <1>1 DEF HistoryInv
<1>3. PICK i \in 1..Len(rows) : \A j \in 1..Len(rows) : rows[j].key \in Effects <=> j = i
  BY <1>1 DEF HistoryInv, EffectOnce
<1>4. \A j \in 1..Len(rows) : OccurrenceInv(rows[j]) /\ ~IsActive(rows[j])
  <2> TAKE j \in 1..Len(rows)
  <2> QED BY <1>1, <1>2 DEF HistoryInv
<1>5. rows[i].dispatch = "confirmed"
  BY <1>3, <1>4 DEF OccurrenceInv
<1>6. \A j \in 1..Len(rows) : rows[j].dispatch # "none" <=> j = i
  BY <1>3, <1>4, <1>5 DEF OccurrenceInv
<1>7. \E k \in 1..Len(rows[i].attempts) : rows[i].attempts[k] \in {"succeeded", "uncertain"}
  BY <1>4, <1>5 DEF OccurrenceInv
<1>8. DOMAIN rows[i].attempts = 1..Len(rows[i].attempts)
  BY <1>2 DEF OccurrenceShape
<1> QED BY <1>2, <1>5, <1>6, <1>7, <1>8 DEF rows

(* Whichever of the three applications runs, and for any bounds on         *)
(* occurrences and faults, a Definition that closed has confirmed its      *)
(* External Effect exactly once, by a result or by evidence.               *)
THEOREM EffectsAreConfirmedOnce == ReuseSpec => []EffectConfirmedOnce
<1>1. ReuseInit => ReuseInv
  BY ReuseStarts
<1>2. ReuseInv /\ [ReuseNext]_(prototype) => ReuseInv'
  BY ReuseStep
<1>3. ReuseInv => EffectConfirmedOnce
  BY ClosedOnce
<1> QED BY <1>1, <1>2, <1>3, PTL DEF ReuseSpec

=============================================================================
