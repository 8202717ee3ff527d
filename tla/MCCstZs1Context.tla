-------------------------- MODULE MCCstZs1Context ---------------------------
(* Model-checking instance of CstZs1Context. *)
EXTENDS CstZs1Context

=============================================================================
