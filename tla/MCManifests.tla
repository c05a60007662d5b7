---------------------------- MODULE MCManifests ----------------------------
(* The Definitions for TLC: what the repository ships, and variations of a *)
(* Definition of three outputs.                                            *)
EXTENDS Manifests, Sequences

given == Fields({"subject"}, {})
told == Fields({}, {"subject"})

(* Two Steps and a Wait that may depend on each other; a Step Route and a  *)
(* Signal Route follow.                                                    *)
Batch(first, second, gate) ==
  [identity |-> "eval.batch", inputs |-> given,
   steps |-> {Step("work", given, told, told, 1, 2, <<>>)}, waits |-> {Wait("gate", "eval.gate", given)},
   routes |-> {Route("start", "start", "none", given,
                     {Output("first", "step", "work", {"subject"}, first),
                      Output("second", "step", "work", {"subject"}, second),
                      Output("gate", "wait", "gate", {"subject"}, gate)}),
               Route("again", "step", "work", given, {Output("third", "step", "work", {"subject"}, {})}),
               Route("open", "signal", "none", given, {Output("last", "step", "work", {"subject"}, {})})}]

Plain == Batch({}, {"first"}, {})

Edited(r, s) == [Plain EXCEPT !.routes = (@ \ {r}) \cup {s}]
StartRoute == CHOOSE r \in Plain.routes : r.key = "start"
OpenRoute == CHOOSE r \in Plain.routes : r.key = "open"

First == {"first"}
Second == {"second"}
Both == {"first", "second"}

(* Every shape of dependencies between the two Steps, and of a Wait's.     *)
Shapes ==
  <<Plain, Batch({}, {}, {}), Batch(Second, {}, {}), Batch(First, {}, {}), Batch({}, Second, {}),
    Batch(Second, First, {}), Batch(Both, {}, {}), Batch({}, Both, {}), Batch(Both, Both, {}),
    Batch({}, {}, First), Batch({}, {"third"}, {})>>

(* One violation of each condition.                                        *)
Broken ==
  <<[Plain EXCEPT !.inputs = ("subject" :> "float")],
    [Plain EXCEPT !.steps = @ \cup {Step("work", given, given, given, 1, 2, <<>>)}],
    [Plain EXCEPT !.steps = {Step("work", given, told, told, 3, 2, <<>>)}],
    [Plain EXCEPT !.steps = {Step("work", given, told, told, 1, 2, <<0, -1>>)}],
    [Plain EXCEPT !.routes = @ \ {StartRoute}],
    Edited(OpenRoute, [OpenRoute EXCEPT !.activation = "start"]),
    Edited(OpenRoute, [OpenRoute EXCEPT !.source = "work"]),
    Edited(OpenRoute, [OpenRoute EXCEPT !.outputs = {}]),
    Edited(OpenRoute, [OpenRoute EXCEPT !.contract = told]),
    Edited(OpenRoute, [OpenRoute EXCEPT !.outputs = {Output("last", "step", "gate", {"subject"}, {})}]),
    Edited(OpenRoute, [OpenRoute EXCEPT !.outputs = {Output("last", "step", "work", {}, {})}]),
    Edited(OpenRoute, [OpenRoute EXCEPT !.outputs = @ \cup {Output("last", "wait", "gate", {"subject"}, {})}])>>

MCManifest == Shipped \o Shapes \o Broken
WithWaits == Shipped \o <<Plain, Batch({"gate"}, {}, {}), Batch(Second, {"gate"}, {})>>
=============================================================================
