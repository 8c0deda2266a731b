--------------------------- MODULE LaunchFollowUp ---------------------------
(***************************************************************************)
(* The nodegroupstatus controller                                          *)
(* (pkg/controllers/nodegroupstatus/controller.go) beside the launches of  *)
(* NodeGroupLaunch.  A launch returns as soon as the operator acknowledges *)
(* the group; when the operator refuses the group after all, this          *)
(* controller deletes the NodeClaim, so that core plans again, and records *)
(* the refusal, so that the new plan avoids the flavor.                    *)
(*                                                                         *)
(* One worker reconciles one group at a time.  It acts on what it reads    *)
(* from the API server, a group and then a claim, and pins the deletion to *)
(* the claim it has read.  The overdue gauge and the events are left out.  *)
(***************************************************************************)
EXTENDS NodeGroupLaunch

VARIABLE followUp   \* local state of Controller.Reconcile

\* group and claim are what the worker has read uncached.
FollowUp == [pc : {"idle", "group", "claim", "delete", "record"},
             name : Names \cup {Nobody}, group : Group, claim : Claim]

NoFollowUp == [pc |-> "idle", name |-> Nobody, group |-> NoGroup,
               claim |-> NoClaim]

followVars == <<vars, followUp>>

FollowUpTypeOK == TypeOK /\ followUp \in FollowUp

\* The operator refused the group, and its machine is not up.
Failed(group) ==
    /\ Exists(group) /\ ~group.deleting
    /\ ~IsSynced(group.status) /\ IsRefused(group.status)

\* launchedNodeClaim: the claim whose launch is followed.
Followed(claim) ==
    /\ Wanted(claim)
    /\ claim.launched # NoFlavor
    /\ ~claim.registered

Done == followUp' = NoFollowUp

\* Mutant of Reconcile: a rejection the operator reports by the phase alone
\* is not a refusal.
ReconcileReasons(n) ==
    /\ followUp.pc = "idle"
    /\ Failed(cached[n]) /\ Refusal(cached[n].status)
    /\ Followed(claims[n])
    /\ followUp' = [NoFollowUp EXCEPT !.pc = "group", !.name = n]
    /\ UNCHANGED vars

\* Reconcile: the cached group looks refused.
Reconcile(n) ==
    /\ followUp.pc = "idle"
    /\ Failed(cached[n])
    /\ Followed(claims[n])
    /\ followUp' = [NoFollowUp EXCEPT !.pc = "group", !.name = n]
    /\ UNCHANGED vars

\* Mutant of ConfirmGroup: what the read says is not checked.
ConfirmAnyGroup(n) ==
    /\ followUp.pc = "group" /\ followUp.name = n
    /\ followUp' = [followUp EXCEPT !.pc = "claim", !.group = groups[n]]
    /\ UNCHANGED vars

\* failLaunch reads the group again, uncached, ...
ConfirmGroup(n) ==
    /\ followUp.pc = "group" /\ followUp.name = n
    /\ IF Failed(groups[n])
       THEN followUp' = [followUp EXCEPT !.pc = "claim", !.group = groups[n]]
       ELSE Done
    /\ UNCHANGED vars

\* ... then its claim.
ConfirmClaim(n) ==
    /\ followUp.pc = "claim" /\ followUp.name = n
    /\ IF Followed(claims[n])
       THEN followUp' = [followUp EXCEPT !.pc = "delete", !.claim = claims[n]]
       ELSE Done
    /\ UNCHANGED vars

\* Mutant of FailLaunch: no preconditions.
FailLaunchUnpinned(n) ==
    /\ followUp.pc = "delete" /\ followUp.name = n
    /\ DeleteClaim(n)
    /\ followUp' = [followUp EXCEPT !.pc = "record"]
    /\ UNCHANGED <<memory, calls>>

\* The preconditions hold: the claim is exactly the one that was read.  The
\* answer may be lost, and then nothing is recorded.
FailLaunch(n) ==
    /\ followUp.pc = "delete" /\ followUp.name = n
    /\ claims[n] = followUp.claim
    /\ DeleteClaim(n)
    /\ Done \/ followUp' = [followUp EXCEPT !.pc = "record"]
    /\ UNCHANGED <<memory, calls>>

\* Mutant of FailLaunchRefused: the refusal is recorded all the same.
FailLaunchRecorded(n) ==
    /\ followUp.pc = "delete" /\ followUp.name = n
    /\ followUp' = [followUp EXCEPT !.pc = "record"]
    /\ UNCHANGED vars

\* The claim has changed or is gone, or the call fails: nothing is recorded.
FailLaunchRefused(n) ==
    /\ followUp.pc = "delete" /\ followUp.name = n
    /\ Done
    /\ UNCHANGED vars

\* RecordLateRefusal, which takes no createMu.
RecordLateRefusal(n) ==
    /\ followUp.pc = "record" /\ followUp.name = n
    /\ IF IsQuotaExceeded(followUp.group.status)
       THEN QuotaRejected(followUp.group.flavor)
       ELSE FlavorRefused(followUp.group.flavor)
    /\ Done
    /\ UNCHANGED <<cluster, calls>>

FollowUpStep(n) ==
    \/ Reconcile(n) \/ ConfirmGroup(n) \/ ConfirmClaim(n)
    \/ FailLaunch(n) \/ FailLaunchRefused(n) \/ RecordLateRefusal(n)

LaunchNext ==
    \/ \E n \in Names :
          \/ Create(n) \/ LaunchStep(n) \/ FastFail(n) \/ LandDelayed(n)
          \/ Release(n) \/ Delete(n) \/ DeleteStep(n)
          \/ ClusterSteps(n) \/ Sync(n) \/ TearDown(n)
    \/ Tick /\ UNCHANGED <<cluster, calls>>

FollowUpNext ==
    \/ \E n \in Names : FollowUpStep(n)
    \/ LaunchNext /\ UNCHANGED followUp
    \/ RestartProcess /\ Done

FollowUpSpec ==
    Init /\ followUp = NoFollowUp /\ [][FollowUpNext]_followVars

\* The worker comes round to every group, its calls return, and the process
\* stays up long enough for a reconcile; the API server accepts a DELETE whose
\* preconditions hold in the end, and the watch delivers what the operator
\* has written.
FairFollowUp ==
    /\ FollowUpSpec
    /\ \A n \in Names :
          /\ SF_followVars(Reconcile(n))
          /\ SF_followVars(ConfirmGroup(n)) /\ SF_followVars(ConfirmClaim(n))
          /\ SF_followVars(FailLaunch(n))
          /\ WF_followVars(FailLaunchRefused(n) \/ RecordLateRefusal(n))
          /\ WF_followVars(Sync(n) /\ UNCHANGED followUp)

-----------------------------------------------------------------------------
(***************************************************************************)
(* Properties.                                                             *)
(***************************************************************************)

\* "A claim that registered ... since that read is left alone": the controller
\* never deletes the claim of a node that has joined, even when the operator
\* brings up a group after the controller has read its refusal.
SparesRegisteredClaims ==
    [][\A n \in Names :
          /\ followUp.pc = "delete" /\ followUp' # followUp
          /\ ~claims[n].deleting /\ claims[n].deleting'
          => ~claims[n].registered]_followVars

\* "A retry after a failed delete cannot count it twice": the launches and
\* this controller together record at most one refusal per claim.
RefusalsCountedOnce == OneRefusalPerClaim

\* A launch whose group the operator refuses does not wait out core's
\* registration timeout: its claim is deleted, or the group goes away first.
RefusedLaunchesFail == \A n \in Names :
    (Followed(claims[n]) /\ Failed(groups[n]))
        ~> (~Followed(claims[n]) \/ ~Failed(groups[n]))

=============================================================================
