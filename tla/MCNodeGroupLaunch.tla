------------------------- MODULE MCNodeGroupLaunch -------------------------
(***************************************************************************)
(* Instances of NodeGroupLaunch.                                           *)
(***************************************************************************)
EXTENDS NodeGroupLaunch

\* Unknown is a flavor of the size and price of Large that the CRD lacks.
CONSTANTS Small, Large, Unknown, a

Sizes == [f \in Flavors |->
    IF f = Small THEN [cpu |-> 1, memory |-> 2] ELSE [cpu |-> 4, memory |-> 8]]

Prices == [f \in Flavors |-> IF f = Small THEN 1 ELSE 4]

AcceptsAll == [n \in Names |-> Flavors]

Acknowledged == [NoStatus EXCEPT !.reconciling = TRUE]
Rejected == [NoStatus EXCEPT !.reconcileFailed = "QuotaExceeded"]
Refused == [NoStatus EXCEPT !.reconcileFailed = "Other"]
Transient == [NoStatus EXCEPT !.reconcileFailed = "UpstreamError"]
Up == [NoStatus EXCEPT !.ready = TRUE]
\* Seen live: the machine is up, and a later reconcile is failing.
UpFailing == [ready |-> TRUE, reconciling |-> TRUE, quotaPhase |-> FALSE,
              reconcileFailed |-> "QuotaExceeded"]

AllStatuses == {Acknowledged, Rejected, Refused, Transient, Up, UpFailing}
FewStatuses == {Acknowledged, Rejected, Refused}
=============================================================================
