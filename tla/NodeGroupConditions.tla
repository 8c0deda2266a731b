------------------------ MODULE NodeGroupConditions ------------------------
(***************************************************************************)
(* The status of a NodeGroup as the provider reads it                      *)
(* (pkg/apis/nodegroup/v1/types.go).  The operator that writes it reports  *)
(* several conditions at once, so the predicates below are not exclusive:  *)
(* every caller has to order them, and the order is part of the modules    *)
(* that use them.                                                          *)
(*                                                                         *)
(* A condition counts only while its status is True; the other statuses    *)
(* and an absent condition read the same, so a Boolean (or "none") stands  *)
(* for them.  Messages and timestamps are left out.                        *)
(***************************************************************************)

\* Reasons of a ReconcileFailed=True condition.  "Other" is any reason the
\* provider does not know.
FailureReasons == {"QuotaExceeded", "UpstreamError", "Other"}

\* The reasons the operator retries on its own: an allow-list.
transientFailureReasons == {"UpstreamError"}

\* quotaPhase stands for status.phase = "QuotaExceeded", reconcileFailed for
\* the reason of the ReconcileFailed condition while it is True.
NodeGroupStatus ==
    [ready : BOOLEAN, reconciling : BOOLEAN, quotaPhase : BOOLEAN,
     reconcileFailed : FailureReasons \cup {"none"}]

\* A group the operator has not written to yet.
NoStatus == [ready |-> FALSE, reconciling |-> FALSE, quotaPhase |-> FALSE,
             reconcileFailed |-> "none"]

IsSynced(status) == status.ready

IsReconciling(status) == status.reconciling

IsQuotaExceeded(status) ==
    status.quotaPhase \/ status.reconcileFailed = "QuotaExceeded"

Refusal(status) ==
    status.reconcileFailed \in FailureReasons \ transientFailureReasons

IsRefused(status) == IsQuotaExceeded(status) \/ Refusal(status)

TransientFailure(status) == status.reconcileFailed \in transientFailureReasons

=============================================================================
