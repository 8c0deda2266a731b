------------------------ MODULE MCNodeClassLifecycle ------------------------
(***************************************************************************)
(* An instance of NodeClassLifecycle.                                      *)
(***************************************************************************)
EXTENDS NodeClassLifecycle

CONSTANT a
=============================================================================
