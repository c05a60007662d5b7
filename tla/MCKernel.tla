------------------------------ MODULE MCKernel ------------------------------
(* Instances of Kernel for TLC.                                            *)
EXTENDS KernelRefinement, TLC

CONSTANTS gather, draft,                  \* templates
          facts, letter, gate,            \* output slots
          begin, redraft, approve         \* Routes

(* "begin" opens with a gather Step, a draft Step that depends on it and a *)
(* Wait; "approve" follows a Signal with a Step and the next Wait;         *)
(* "redraft" follows a draft.                                              *)
MCLeaseSeconds == (gather :> 1) @@ (draft :> 2)
MCMaximumSeconds == (gather :> 1) @@ (draft :> 3)
MCDelays == (gather :> <<>>) @@ (draft :> <<1>>)
MCActivation == (begin :> "start") @@ (redraft :> "step") @@ (approve :> "signal")
MCSourceTemplate == (begin :> None) @@ (redraft :> draft) @@ (approve :> None)
MCStepSlots == (begin :> {facts, letter}) @@ (redraft :> {letter}) @@ (approve :> {facts})
MCWaitSlots == (begin :> {gate}) @@ (redraft :> {}) @@ (approve :> {gate})
MCSlotTemplate == [r \in Route |-> (facts :> gather) @@ (letter :> draft) @@ (gate :> draft)]
MCDependsOn ==
  [r \in Route |-> [x \in Slot |-> IF r = begin /\ x = letter THEN {facts} ELSE {}]]

Symmetry == Permutations(Step) \cup Permutations(Wait) \cup Permutations(Worker)
              \cup Permutations(Signal) \cup Permutations(Source)
              \cup Permutations(Instance)
=============================================================================
