-------------------------- MODULE MCRefusalMemory --------------------------
(***************************************************************************)
(* An instance of RefusalMemory, with a chain of three sizes.              *)
(***************************************************************************)
EXTENDS RefusalMemory, TLC

CONSTANTS XS, S, M

\* XS < S < M; M stands for every flavor above two that can be rejected.
ChainSizing == [f \in {XS, S, M} |->
    CASE f = XS -> [cpu |-> 1, memory |-> 2]
      [] f = S  -> [cpu |-> 2, memory |-> 2]
      [] f = M  -> [cpu |-> 4, memory |-> 8]]

Symmetric == Permutations(Callers)
=============================================================================
