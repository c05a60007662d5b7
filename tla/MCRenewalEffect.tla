--------------------------- MODULE MCRenewalEffect ---------------------------
(* One Workflow.  The application allows three Attempts of each Step; its  *)
(* cases of interest already meet with two.                                *)
EXTENDS RenewalEffectRefinement
=============================================================================
