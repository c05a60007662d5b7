-------------------------- MODULE DependencyCheck --------------------------
(***************************************************************************)
(* The depth-first search with which validate_definition refuses a batch   *)
(* whose dependencies are cyclic.  Dependencies are held in sets, and the  *)
(* order in which Python goes through a set is arbitrary: the search may   *)
(* take any order.                                                         *)
(***************************************************************************)
EXTENDS Integers, Sequences

CONSTANT Slot

VARIABLES
  graph,   \* the dependencies of each slot
  roots,     \* slots the outer loop has not come to
  path,      \* the calls of visit that have not returned
  left,      \* what each of these calls has still to visit
  visited,
  verdict    \* "none", "acyclic" or "cyclic"

search == <<graph, roots, path, left, visited, verdict>>

Top == path[Len(path)]

Visiting == {path[i] : i \in 1..Len(path)}

\* Mutant: a slot that is being visited counts as visited.
Mutant_Visit(s, rest) ==
  IF s \in Visiting \/ s \in visited THEN left' = rest /\ UNCHANGED <<path, verdict>>
  ELSE path' = Append(path, s) /\ left' = [rest EXCEPT ![s] = graph[s]] /\ UNCHANGED verdict

(* The head of visit; rest is what the calls have left besides.            *)
Visit(s, rest) ==
  IF s \in Visiting THEN verdict' = "cyclic" /\ left' = rest /\ UNCHANGED path
  ELSE IF s \in visited THEN left' = rest /\ UNCHANGED <<path, verdict>>
  ELSE path' = Append(path, s) /\ left' = [rest EXCEPT ![s] = graph[s]] /\ UNCHANGED verdict

NextRoot ==
  /\ verdict = "none" /\ path = <<>>
  /\ \E s \in roots : roots' = roots \ {s} /\ Visit(s, left)
  /\ UNCHANGED <<graph, visited>>

Descend ==
  /\ verdict = "none" /\ path # <<>>
  /\ \E s \in left[Top] : Visit(s, [left EXCEPT ![Top] = @ \ {s}])
  /\ UNCHANGED <<graph, roots, visited>>

Return ==
  /\ verdict = "none" /\ path # <<>> /\ left[Top] = {}
  /\ visited' = visited \cup {Top}
  /\ path' = SubSeq(path, 1, Len(path) - 1)
  /\ UNCHANGED <<graph, roots, left, verdict>>

Accept ==
  /\ verdict = "none" /\ path = <<>> /\ roots = {}
  /\ verdict' = "acyclic"
  /\ UNCHANGED <<graph, roots, path, left, visited>>

SearchInit ==
  /\ graph \in [Slot -> SUBSET Slot] /\ roots = Slot /\ path = <<>>
  /\ left = [s \in Slot |-> {}] /\ visited = {} /\ verdict = "none"

SearchNext == NextRoot \/ Descend \/ Return \/ Accept

SearchSpec == SearchInit /\ [][SearchNext]_search

-----------------------------------------------------------------------------
(* No set of slots waits only for its own members: what a batch needs to   *)
(* be run to its end.                                                      *)
GraphAcyclic == \A S \in (SUBSET Slot) \ {{}} : \E s \in S : graph[s] \cap S = {}

(* Whatever the order, a batch that is accepted is acyclic and one that is *)
(* refused is not.                                                         *)
VerdictIsRight ==
  /\ verdict = "acyclic" => GraphAcyclic
  /\ verdict = "cyclic" => ~GraphAcyclic

=============================================================================
