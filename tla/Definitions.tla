---------------------------- MODULE Definitions ----------------------------
(***************************************************************************)
(* The registration of Workflow Definitions by several processes at once,  *)
(* and the Instances that run what was registered.                         *)
(*                                                                         *)
(* A manifest is known by its digest.  A row may also hold what this       *)
(* release did not write: a manifest of another release, or one that was   *)
(* changed in place.                                                       *)
(***************************************************************************)
EXTENDS Manifests

CONSTANTS
  Process,     \* processes that register Definitions
  Manifest,    \* the Definitions they try to register, by digest
  Altered,     \* the digest of what a change in place leaves
  Absent

(* A row; its writer is known until it commits.                            *)
RowType ==
  [content : DOMAIN Manifest \cup {Altered}, digest : DOMAIN Manifest, closed : BOOLEAN,
   writer : Process \cup {Absent}]

ASSUME AbsentAssumption == Absent \notin Process \cup DOMAIN Manifest \cup RowType

VARIABLES
  table,       \* workflow_definitions: [identity -> row or None]
  caller,      \* what each process is doing
  instance     \* one Instance, or None

registry == <<table, caller, instance>>

Identity == {Manifest[d].identity : d \in DOMAIN Manifest}

-----------------------------------------------------------------------------
(* register_definition, one transaction of three statements.               *)
Row(digest, writer) ==
  [content |-> digest, digest |-> digest, closed |-> TRUE, writer |-> writer]

Committed(row) == row # Absent /\ row.writer = Absent

Doing(p, step, answer) == caller' = [caller EXCEPT ![p].step = step, ![p].answer = answer]

Claimed(p) == Manifest[caller[p].definition].identity

(* Different identities share nothing: everybody wants the same (bound).    *)
Register(p) ==
  /\ caller[p].step = "idle"
  /\ \E d \in DOMAIN Manifest :
       /\ \A q \in Process : caller[q].definition # Absent => Claimed(q) = Manifest[d].identity
       /\ caller' = [caller EXCEPT ![p] =
           IF Valid(Manifest[d]) THEN [definition |-> d, step |-> "insert", answer |-> "none"]
           ELSE [definition |-> Absent, step |-> "done", answer |-> "invalid"]]
  /\ UNCHANGED <<table, instance>>

\* Mutant: the last writer wins.
Mutant_Insertable(row) == row = Absent \/ Committed(row)

Insertable(row) == row = Absent

(* ON CONFLICT DO NOTHING waits for a writer that has not committed.       *)
Insert(p) ==
  LET i == Claimed(p) IN
    /\ caller[p].step = "insert"
    /\ table[i] = Absent \/ Committed(table[i])
    /\ IF Insertable(table[i])
       THEN /\ table' = [table EXCEPT ![i] = Row(caller[p].definition, p)]
            /\ Doing(p, "commit", "none")
       ELSE UNCHANGED table /\ Doing(p, "select", "none")
    /\ UNCHANGED instance

(* DefinitionCatalog.register compares the digests.                        *)
Select(p) ==
  /\ caller[p].step = "select"
  /\ Doing(p, "done", IF table[Claimed(p)].digest = caller[p].definition THEN "registered"
                      ELSE "conflict")
  /\ UNCHANGED <<table, instance>>

(* The connection may be lost before the commit, or its answer after it.   *)
CommitRegistration(p) ==
  /\ caller[p].step = "commit"
  /\ \/ /\ table' = [table EXCEPT ![Claimed(p)].writer = Absent]
        /\ \E answer \in {"registered", "lost"} : Doing(p, "done", answer)
     \/ table' = [table EXCEPT ![Claimed(p)] = Absent] /\ Doing(p, "done", "lost")
  /\ UNCHANGED instance

(* A process that got no answer starts again.                              *)
Again(p) ==
  /\ caller[p].step = "done" /\ caller[p].answer = "lost"
  /\ Doing(p, "insert", "none")
  /\ UNCHANGED <<table, instance>>

(* What else may happen to a row, to one at most (bound): another release  *)
(* registers fields this one does not know, or the manifest is changed in  *)
(* place.                                                                  *)
AllIntact ==
  \A i \in Identity : table[i] # Absent => table[i].closed /\ table[i].content = table[i].digest

OtherRelease(i) ==
  /\ table = [j \in Identity |-> Absent]
  /\ \E d \in DOMAIN Manifest : Manifest[d].identity = i /\ Valid(Manifest[d])
         /\ table' = [table EXCEPT ![i] = [Row(d, Absent) EXCEPT !.closed = FALSE]]
  /\ UNCHANGED <<caller, instance>>

ChangedInPlace(i) ==
  /\ Committed(table[i]) /\ AllIntact
  /\ table[i].content # Altered
  /\ table' = [table EXCEPT ![i].content = Altered]
  /\ UNCHANGED <<caller, instance>>

-----------------------------------------------------------------------------
(* definition_from_manifest refuses fields it does not know.               *)
Decodes(row) == row.closed

\* Mutant: the digest of the manifest is not computed again.
Mutant_Verified(row) == Decodes(row) /\ Valid(Manifest[row.content])

(* verified_definition.                                                    *)
Verified(row) == row.content = row.digest /\ Decodes(row) /\ Valid(Manifest[row.content])

(* validate_payload; a payload is the value types of its fields.           *)
Fits(payload, contract) == payload = contract

Inputs(payload, o) == [n \in DOMAIN o.bindings |-> payload[o.bindings[n]]]

(* materialize_route: a dependency is the identity of a Step of the batch. *)
StepSlots(r) == {o.slot : o \in {o \in r.outputs : o.kind = "step"}}

Materializable(r) == \A o \in r.outputs : o.kind = "step" => o.depends \subseteq StepSlots(r)

Materialized(r, payload) ==
  {[route |-> r.key, slot |-> o.slot, kind |-> o.kind, template |-> o.template,
    input |-> Inputs(payload, o), depends |-> {<<r.key, s>> : s \in o.depends}, done |-> FALSE] :
   o \in r.outputs}

Payloads(contract) ==
  {contract} \cup {[n \in DOMAIN contract \ {m} |-> contract[n]] : m \in DOMAIN contract}

(* KernelControl.start.                                                    *)
StartInstance(i) ==
  /\ instance = Absent /\ Committed(table[i]) /\ Verified(table[i])
  /\ LET d == Manifest[table[i].content] IN
       \E r \in d.routes :
         /\ r.key = "start"
         /\ \E input \in Payloads(d.inputs), payload \in Payloads(r.contract) :
              /\ Fits(input, d.inputs) /\ Fits(payload, r.contract)
              /\ Materializable(r)
              /\ instance' = [identity |-> i, rows |-> Materialized(r, payload)]
  /\ UNCHANGED <<table, caller>>

Ready(o) ==
  ~o.done /\ \A q \in instance.rows : <<q.route, q.slot>> \in o.depends => q.done

StepRoute(r, o) == o.kind = "step" /\ r.activation = "step" /\ r.source = o.template

SignalRoute(r, o) == o.kind = "wait" /\ r.activation = "signal"

Settled(o) == (instance.rows \ {o}) \cup {[o EXCEPT !.done = TRUE]}

(* A Step succeeds, and its policy selects no Route.                       *)
Settle(o) ==
  /\ Ready(o) /\ o.kind = "step"
  /\ instance' = [instance EXCEPT !.rows = Settled(o)]
  /\ UNCHANGED <<table, caller>>

(* A Step that succeeds, or a Signal for a Wait, takes a Route of the      *)
(* Definition as it is found now.  A Route is taken once (bound).          *)
Activate(o) ==
  LET row == table[instance.identity] IN
    /\ Ready(o) /\ Verified(row)
    /\ \E r \in Manifest[row.content].routes :
         /\ StepRoute(r, o) \/ SignalRoute(r, o)
         /\ \A q \in instance.rows : q.route # r.key
         /\ Materializable(r)
         /\ \E payload \in Payloads(r.contract) :
              /\ Fits(payload, r.contract)
              /\ instance' = [instance EXCEPT !.rows = Settled(o) \cup Materialized(r, payload)]
    /\ UNCHANGED <<table, caller>>

RegistryInit ==
  /\ table = [i \in Identity |-> Absent]
  /\ caller = [p \in Process |-> [definition |-> Absent, step |-> "idle", answer |-> "none"]]
  /\ instance = Absent

RegistryNext ==
  \/ \E p \in Process : Register(p) \/ Insert(p) \/ Select(p) \/ CommitRegistration(p) \/ Again(p)
  \/ \E i \in Identity : OtherRelease(i) \/ ChangedInPlace(i) \/ StartInstance(i)
  \/ /\ instance # Absent
     /\ \E o \in instance.rows : Settle(o) \/ Activate(o)

RegistrySpec == RegistryInit /\ [][RegistryNext]_registry

-----------------------------------------------------------------------------
(* Whoever was told that its Definition is registered finds its content    *)
(* under that identity for ever, and whoever was told of a conflict finds  *)
(* another, whatever connections were lost or writers waited for: the same *)
(* identity never gets different content by registration.                  *)
AnswersAreTrue ==
  \A p \in {p \in Process : caller[p].definition # Absent} :
    LET row == table[Claimed(p)] IN
      /\ caller[p].answer = "registered" => Committed(row) /\ row.digest = caller[p].definition
      /\ caller[p].answer = "conflict" => Committed(row) /\ row.digest # caller[p].definition

(* An Instance runs only what this release has validated and somebody has  *)
(* registered under its identity: nothing of a manifest that was changed   *)
(* in place, before it started or between two of its Steps, and nothing of *)
(* one whose fields this release does not know.                            *)
RunsWhatWasRegistered ==
  instance # Absent =>
    LET row == table[instance.identity] IN
      /\ row.closed
      /\ \A o \in instance.rows :
           \E r \in Manifest[row.digest].routes :
             [o EXCEPT !.done = FALSE] \in Materialized(r, r.contract)

(* "Registration validates the complete canonical manifest before the      *)
(* Definition becomes selectable, including unique keys, known references, *)
(* ... acyclic AND-only dependencies" (CONTEXT.md): every Route of a       *)
(* registered Definition can be materialized.                              *)
RegisteredCanBeMaterialized ==
  \A i \in Identity :
    Committed(table[i]) /\ table[i].closed /\ table[i].content = table[i].digest =>
      \A r \in Manifest[table[i].content].routes : Materializable(r)

=============================================================================
