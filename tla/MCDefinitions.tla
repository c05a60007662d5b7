--------------------------- MODULE MCDefinitions ---------------------------
(* Definitions for TLC: two processes register Definitions of which one    *)
(* has a Step that waits for a Wait.                                       *)
EXTENDS Definitions, MCManifests

CONSTANTS p, q

Symmetry == Permutations({p, q})
=============================================================================
