---------------------------- MODULE MCProviderID ----------------------------
(***************************************************************************)
(* An instance of ProviderID.                                              *)
(***************************************************************************)
EXTENDS ProviderID

CONSTANTS x, y, u, g, user

\* A group resized to two nodes, and a user's own group.
Grouped == [n \in Nodes |-> IF n = u THEN user ELSE g]
=============================================================================
