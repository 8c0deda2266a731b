-------------------------- MODULE MCLaunchFollowUp --------------------------
(***************************************************************************)
(* Instances of LaunchFollowUp.                                            *)
(***************************************************************************)
EXTENDS LaunchFollowUp, TLC

CONSTANTS Small, Large, a, b

Sizes == [f \in Flavors |->
    IF f = Small THEN [cpu |-> 1, memory |-> 2] ELSE [cpu |-> 4, memory |-> 8]]

Prices == [f \in Flavors |-> IF f = Small THEN 1 ELSE 4]

Symmetric == Permutations(Names)

AcceptsAll == [n \in Names |-> Flavors]

Acknowledged == [NoStatus EXCEPT !.reconciling = TRUE]
Rejected == [NoStatus EXCEPT !.quotaPhase = TRUE]
Refused == [NoStatus EXCEPT !.reconcileFailed = "Other"]
Up == [NoStatus EXCEPT !.ready = TRUE]

AllStatuses == {Acknowledged, Rejected, Refused, Up}
LateRejections == {Acknowledged, Rejected}
=============================================================================
