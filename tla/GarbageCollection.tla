------------------------- MODULE GarbageCollection -------------------------
(***************************************************************************)
(* The garbagecollection controller                                        *)
(* (pkg/controllers/garbagecollection/controller.go).  Every two minutes   *)
(* one worker lists NodeGroups and NodeClaims from the informer cache,     *)
(* deletes the launched claims whose group has vanished before their node  *)
(* registered, and deletes the groups whose claim is gone.  Both decisions *)
(* rest on an absence, which a stale cache fakes, so both are confirmed    *)
(* with the API server; both DELETEs are by name, without preconditions.   *)
(*                                                                         *)
(* Launches and terminations, the subject of NodeGroupLaunch, are reduced  *)
(* here to the writes the collector can meet.  The ages that protect young *)
(* objects are left out: any object may be passed over as too young, as a  *)
(* group is that has lost the label of managed groups or a claim of        *)
(* another provider.  An empty NodeClaim label stands for the group's own  *)
(* name.  The gauges, events and log lines are left out.                   *)
(***************************************************************************)
EXTENDS Cluster, RefusalMemory

CONSTANTS
    Labels,     \* values of the label of a group that names its NodeClaim
    Tampered,   \* names of the groups whose label and owner users change
    Stuck,      \* names of the objects whose writes by the collector fail
    Collector   \* the collector, as a caller of Provider.Delete

ASSUME CollectorAssumption ==
    /\ Names \subseteq Labels
    /\ Tampered \subseteq Names /\ Stuck \subseteq Names
    /\ Collector \in Callers \ Names

VARIABLES
    label,          \* the NodeClaim label of the group of each name
    cachedLabel,    \* the same, in the informer's copy
    cachedClaims,   \* the informer's copy of the NodeClaim of each name
    launching,      \* UID of the claim a launch in flight is for, or 0
    sweep           \* local state of Controller.Reconcile

collector == <<label, cachedLabel, cachedClaims, launching, sweep>>
gcVars == <<cluster, memory, collector>>

(***************************************************************************)
(* listed and labels are the groups of the first list that are still       *)
(* candidates; vanished the UIDs of the listed claims left to do (0 for    *)
(* none), orphans the groups left to do; name the one being done; since    *)
(* the UIDs given when the sweep began, a history.                         *)
(***************************************************************************)
Phases == {"idle", "claims", "names", "reap", "reaping", "sweep", "owner",
           "confirmed", "sent", "accepted"}

Sweep == [pc : Phases, listed : [Names -> Group], labels : [Names -> Labels],
          vanished : [Names -> Nat], orphans : SUBSET Names,
          name : Names \cup {Collector}, since : [Names -> Nat]]

Nothing == [n \in Names |-> 0]

NoSweep == [pc |-> "idle", listed |-> [n \in Names |-> NoGroup],
            labels |-> [n \in Names |-> n], vanished |-> Nothing, orphans |-> {},
            name |-> Collector, since |-> Nothing]

CollectorTypeOK ==
    /\ ClusterTypeOK /\ MemoryTypeOK
    /\ label \in [Names -> Labels]
    /\ cachedLabel \in [Names -> Labels]
    /\ cachedClaims \in [Names -> Claim]
    /\ launching \in [Names -> Nat]
    /\ sweep \in Sweep
    /\ deleteMark[Collector] # NoMark <=> sweep.pc \in {"sent", "accepted"}
    /\ sweep.name # Collector <=>
          sweep.pc \in {"reaping", "owner", "confirmed", "sent", "accepted"}

CollectorInit ==
    /\ ClusterInit
    /\ MemoryInit
    /\ label = [n \in Names |-> n]
    /\ cachedLabel = label
    /\ cachedClaims = claims
    /\ launching = [n \in Names |-> 0]
    /\ sweep = NoSweep

-----------------------------------------------------------------------------
(***************************************************************************)
(* What happens around the collector.                                      *)
(***************************************************************************)

\* core calls Create, whose POST goes through.
Post(n) ==
    /\ Wanted(claims[n]) /\ claims[n].launched = NoFlavor
    /\ launching[n] = 0
    /\ \E f \in Flavors : CreateGroup(n, claims[n].uid, f)
    /\ launching' = [launching EXCEPT ![n] = claims[n].uid]
    /\ label' = [label EXCEPT ![n] = n]
    /\ UNCHANGED <<memory, cachedLabel, cachedClaims, sweep>>

\* Create returns, and core stores the launch; or the launch fails after the
\* POST, and core retries or gives the claim up.
CreateReturns(n) ==
    /\ launching[n] # 0
    /\ \/ \E f \in Flavors : StoreLaunch(n, launching[n], f)
       \/ UNCHANGED cluster
    /\ launching' = [launching EXCEPT ![n] = 0]
    /\ UNCHANGED <<memory, label, cachedLabel, cachedClaims, sweep>>

\* core terminates a deleted claim: CloudProvider.Delete answers NotFound for
\* a claim that has no provider ID or whose group is gone.
Terminate(n) ==
    /\ Exists(claims[n]) /\ claims[n].deleting /\ launching[n] = 0
    /\ IF claims[n].launched = NoFlavor \/ ~Exists(cached[n])
       THEN RemoveClaim(n)
       ELSE Reclaim(n)
    /\ UNCHANGED <<memory, collector>>

\* A user edits the label, or orphans the group.
Relabel(n) ==
    /\ n \in Tampered /\ Exists(groups[n])
    /\ \E l \in Labels \ {label[n]} : label' = [label EXCEPT ![n] = l]
    /\ UNCHANGED <<cluster, memory, cachedLabel, cachedClaims, launching, sweep>>

Disown(n) ==
    /\ n \in Tampered /\ Exists(groups[n]) /\ groups[n].owner # 0
    /\ groups' = [groups EXCEPT ![n].owner = 0]
    /\ UNCHANGED <<claims, cached, claimUIDs, groupUIDs, memory, collector>>

SyncGroup(n) ==
    /\ <<cached[n], cachedLabel[n]>> # <<groups[n], label[n]>>
    /\ cached' = [cached EXCEPT ![n] = groups[n]]
    /\ cachedLabel' = [cachedLabel EXCEPT ![n] = label[n]]
    /\ UNCHANGED <<claims, groups, claimUIDs, groupUIDs, memory, label,
                   cachedClaims, launching, sweep>>

SyncClaim(n) ==
    /\ cachedClaims[n] # claims[n]
    /\ cachedClaims' = [cachedClaims EXCEPT ![n] = claims[n]]
    /\ UNCHANGED <<cluster, memory, label, cachedLabel, launching, sweep>>

Surroundings(n) ==
    (ClusterStep(n) \/ FinalizeGroup(n)) /\ UNCHANGED <<memory, collector>>

\* A launch records a quota rejection.
Rejection ==
    /\ \E f \in Flavors : QuotaRejected(f)
    /\ UNCHANGED <<cluster, collector>>

-----------------------------------------------------------------------------
(***************************************************************************)
(* Controller.Reconcile: the lists.                                        *)
(***************************************************************************)

Phase(s) ==
    /\ sweep' = s
    /\ UNCHANGED <<label, cachedLabel, cachedClaims, launching>>

Read(s) == Phase(s) /\ UNCHANGED <<cluster, memory>>

ListGroups ==
    /\ sweep.pc = "idle"
    /\ Read([NoSweep EXCEPT !.pc = "claims", !.listed = cached,
                            !.labels = cachedLabel, !.since = claimUIDs])

\* The claims whose launch may have vanished, and the groups that no listed
\* claim stands for: neither the one the label names nor the owner.  A group
\* without an owner is refused.
ListClaims ==
    /\ sweep.pc = "claims"
    /\ LET listed == {n \in Names : Exists(cachedClaims[n])}
           waiting == {n \in listed : /\ ~cachedClaims[n].deleting
                                      /\ cachedClaims[n].launched # NoFlavor
                                      /\ ~cachedClaims[n].registered}
           unclaimed == {n \in Names : /\ Exists(sweep.listed[n])
                                       /\ ~sweep.listed[n].deleting
                                       /\ sweep.listed[n].owner # 0
                                       /\ {n, sweep.labels[n]} \cap listed = {}}
       IN  \E V \in SUBSET waiting, O \in SUBSET unclaimed :
              Read([sweep EXCEPT
                  !.pc = "names", !.orphans = O,
                  !.vanished = [n \in Names |->
                                   IF n \in V THEN cachedClaims[n].uid ELSE 0],
                  !.listed = [n \in Names |-> IF n \in O THEN @[n] ELSE NoGroup],
                  !.labels = [n \in Names |-> IF n \in O THEN @[n] ELSE n]])

\* A list fails: the sweep ends, ...
ListFails ==
    /\ sweep.pc = "claims"
    /\ Read(NoSweep)

\* reapVanishedNodeClaims lists every group again, managed or not ...
ListNames ==
    /\ sweep.pc = "names"
    /\ Read([sweep EXCEPT !.pc = "reap",
                          !.vanished = [n \in Names |->
                                          IF Exists(cached[n]) THEN 0 ELSE @[n]]])

\* ... or only its own part of it.
ListNamesFails ==
    /\ sweep.pc = "names"
    /\ Read([sweep EXCEPT !.pc = "sweep", !.vanished = Nothing])

-----------------------------------------------------------------------------
(***************************************************************************)
(* reapVanishedNodeClaims.                                                 *)
(***************************************************************************)

\* Claim n is dealt with; what failed is reported once all are.
NextClaim(n) == [sweep EXCEPT !.pc = "reap", !.vanished[n] = 0, !.name = Collector]

\* Mutant of ConfirmVanished: the absence from the cache is enough.
ConfirmVanishedCached(n) ==
    /\ sweep.pc = "reap" /\ sweep.vanished[n] # 0
    /\ Read([sweep EXCEPT !.pc = "reaping", !.name = n])

\* The group is looked for uncached.
ConfirmVanished(n) ==
    /\ sweep.pc = "reap" /\ sweep.vanished[n] # 0
    /\ IF Exists(groups[n]) THEN Read(NextClaim(n))
       ELSE Read([sweep EXCEPT !.pc = "reaping", !.name = n])

ConfirmVanishedFails(n) ==
    /\ sweep.pc = "reap" /\ sweep.vanished[n] # 0
    /\ Read(NextClaim(n))

\* The DELETE names the claim only.
ReapClaim(n) ==
    /\ sweep.pc = "reaping" /\ sweep.name = n
    /\ n \notin Stuck
    /\ claims' = [claims EXCEPT ![n].deleting = Exists(claims[n])]
    /\ Phase(NextClaim(n))
    /\ UNCHANGED <<groups, cached, claimUIDs, groupUIDs, memory>>

\* Mutant of ReapClaimFails: the first claim that cannot be deleted ends the
\* phase.
ReapClaimFailsReturns(n) ==
    /\ sweep.pc = "reaping" /\ sweep.name = n
    /\ Read([sweep EXCEPT !.pc = "sweep", !.vanished = Nothing, !.name = Collector])

ReapClaimFails(n) ==
    /\ sweep.pc = "reaping" /\ sweep.name = n
    /\ Read(NextClaim(n))

ReapEnds ==
    /\ sweep.pc = "reap" /\ sweep.vanished = Nothing
    /\ Read([sweep EXCEPT !.pc = "sweep"])

-----------------------------------------------------------------------------
(***************************************************************************)
(* The sweep of the groups.                                                *)
(***************************************************************************)

NextGroup(n) == [sweep EXCEPT !.pc = "sweep", !.orphans = @ \ {n}, !.name = Collector]

\* anyClaimAliveUncached reads the claim the label names, ...
ConfirmLabel(n) ==
    /\ sweep.pc = "sweep" /\ n \in sweep.orphans
    /\ LET l == sweep.labels[n]
       IN  IF l \in Names /\ Exists(claims[l]) THEN Read(NextGroup(n))
           ELSE Read([sweep EXCEPT !.pc = IF l = n THEN "confirmed" ELSE "owner",
                                   !.name = n])

\* Mutant of ConfirmOwner: the label is trusted.
ConfirmOwnerNot(n) ==
    /\ sweep.pc = "owner" /\ sweep.name = n
    /\ Read([sweep EXCEPT !.pc = "confirmed"])

\* ... then the owner's, unless that is the same.
ConfirmOwner(n) ==
    /\ sweep.pc = "owner" /\ sweep.name = n
    /\ IF Exists(claims[n]) THEN Read(NextGroup(n))
       ELSE Read([sweep EXCEPT !.pc = "confirmed"])

ConfirmFails(n) ==
    /\ \/ sweep.pc = "sweep" /\ n \in sweep.orphans
       \/ sweep.pc = "owner" /\ sweep.name = n
    /\ Read(NextGroup(n))

\* Provider.Delete: quotaRejectionMark, then the DELETE by name.
SendDeleteGroup(n) ==
    /\ sweep.pc = "confirmed" /\ sweep.name = n
    /\ SendDelete(Collector)
    /\ Phase([sweep EXCEPT !.pc = "sent"])
    /\ UNCHANGED cluster

DeleteGroupAccepted(n) ==
    /\ sweep.pc = "sent" /\ sweep.name = n
    /\ n \notin Stuck
    /\ Exists(groups[n])
    /\ DeleteGroup(n)
    /\ Phase([sweep EXCEPT !.pc = "accepted"])
    /\ UNCHANGED memory

\* NotFound: not this safety net's work.
DeleteGroupNotFound(n) ==
    /\ sweep.pc = "sent" /\ sweep.name = n
    /\ ~Exists(groups[n])
    /\ DeleteKeeps(Collector)
    /\ Phase(NextGroup(n))
    /\ UNCHANGED cluster

\* Mutant of DeleteGroupFails: the first group that cannot be deleted ends the
\* sweep.
DeleteGroupFailsReturns(n) ==
    /\ sweep.pc = "sent" /\ sweep.name = n
    /\ DeleteKeeps(Collector)
    /\ Phase(NoSweep)
    /\ UNCHANGED cluster

\* The call fails, or only its answer is lost.
DeleteGroupFails(n) ==
    /\ sweep.pc = "sent" /\ sweep.name = n
    /\ DeleteKeeps(Collector)
    /\ Phase(NextGroup(n))
    /\ (n \notin Stuck /\ DeleteGroup(n)) \/ UNCHANGED cluster

\* Mutant of DeleteGroupReturns: the backoff ends whatever came meanwhile.
DeleteGroupReturnsAll(n) ==
    /\ sweep.pc = "accepted" /\ sweep.name = n
    /\ clearQuotaRejections(quotaRejectionSeq)
    /\ deleteMark' = [deleteMark EXCEPT ![Collector] = NoMark]
    /\ Phase(NextGroup(n))
    /\ UNCHANGED <<cluster, now, launchMark>>

\* The listed group tells whether it may have held capacity.
DeleteGroupReturns(n) ==
    /\ sweep.pc = "accepted" /\ sweep.name = n
    /\ LET status == sweep.listed[n].status
       IN  IF IsSynced(status) \/ ~IsRefused(status)
           THEN DeleteClears(Collector) ELSE DeleteKeeps(Collector)
    /\ Phase(NextGroup(n))
    /\ UNCHANGED cluster

\* Until the next poll period.
SweepEnds ==
    /\ sweep.pc = "sweep" /\ sweep.orphans = {}
    /\ Read(NoSweep)

\* The process restarts: no controller runs before the cache is filled.
RestartCollector ==
    /\ Restart
    /\ cached' = groups /\ cachedLabel' = label /\ cachedClaims' = claims
    /\ launching' = [n \in Names |-> 0]
    /\ sweep' = NoSweep
    /\ UNCHANGED <<claims, groups, claimUIDs, groupUIDs, label>>

-----------------------------------------------------------------------------
(***************************************************************************)
(* The system.                                                             *)
(***************************************************************************)

Lists == ListGroups \/ ListClaims \/ ListFails \/ ListNames \/ ListNamesFails

Reaps(n) == ConfirmVanished(n) \/ ConfirmVanishedFails(n) \/ ReapClaim(n) \/ ReapClaimFails(n)

Sweeps(n) ==
    \/ ConfirmLabel(n) \/ ConfirmOwner(n) \/ ConfirmFails(n)
    \/ SendDeleteGroup(n) \/ DeleteGroupAccepted(n) \/ DeleteGroupNotFound(n)
    \/ DeleteGroupFails(n) \/ DeleteGroupReturns(n)

Collect == Lists \/ ReapEnds \/ SweepEnds \/ \E n \in Names : Reaps(n) \/ Sweeps(n)

Around(n) ==
    \/ Post(n) \/ CreateReturns(n) \/ Terminate(n)
    \/ Relabel(n) \/ Disown(n)
    \/ SyncGroup(n) \/ SyncClaim(n) \/ Surroundings(n)

CollectorNext ==
    \/ Collect
    \/ \E n \in Names : Around(n)
    \/ Rejection
    \/ RestartCollector

CollectorSpec == CollectorInit /\ [][CollectorNext]_gcVars

\* The worst of orders: a Stuck object comes before the others in the list of
\* either phase, so that these are dealt with once it has failed, or never.
StuckDone ==
    /\ sweep.pc = "reap" => \A s \in Stuck : sweep.vanished[s] = 0
    /\ sweep.pc = "sweep" => Stuck \cap sweep.orphans = {}

StuckFirst == \A n \in Names \ Stuck : Reaps(n) \/ Sweeps(n) => StuckDone

\* The process stays up in the end, lists and calls repeated every poll period
\* succeed now and then, objects come of age, and the watches deliver.  Nothing
\* is asked of the calls for a Stuck object, nor of a loop before it is past it.
Candidate(n) == sweep.vanished[n] # 0 \/ n \in sweep.orphans

FairSweeps ==
    /\ <>[][~RestartCollector]_gcVars
    /\ WF_gcVars(Collect)
    /\ \A n \in Names \ Stuck :
          /\ WF_gcVars(SyncGroup(n)) /\ WF_gcVars(SyncClaim(n))
          /\ SF_gcVars(ListClaims /\ Candidate(n)')
          /\ SF_gcVars(ListNames /\ Candidate(n))
          /\ SF_gcVars(StuckDone /\ ConfirmVanished(n)) /\ SF_gcVars(ReapClaim(n))
          /\ SF_gcVars(StuckDone /\ ConfirmLabel(n)) /\ SF_gcVars(ConfirmOwner(n))
          /\ SF_gcVars(DeleteGroupAccepted(n))

-----------------------------------------------------------------------------
(***************************************************************************)
(* Properties.                                                             *)
(***************************************************************************)

\* "never reap a group whose recorded owner still exists": no sweep deletes the
\* group of a claim that was alive when the sweep began, whatever the caches
\* miss and whatever users make of the label.
SparesOwnedGroups ==
    [][\A n \in Names :
          /\ sweep.pc = "sent" /\ sweep'.pc # "sent" /\ sweep.name = n
          /\ groups'[n] # groups[n]
          /\ Exists(claims[n]) /\ claims[n].uid <= sweep.since[n]
          => groups[n].owner # claims[n].uid]_gcVars

\* "Writing off a launch is destructive too": no sweep deletes a claim it has
\* listed while a group of that claim exists.
SparesLaunchedClaims ==
    [][\A n \in Names :
          /\ sweep.pc = "reaping" /\ sweep.name = n
          /\ ~claims[n].deleting /\ claims'[n].deleting
          /\ Exists(groups[n]) /\ claims[n].uid = sweep.vanished[n]
          => groups[n].owner # claims[n].uid]_gcVars

\* The collector's Provider.Delete uses the memory of refusals as
\* RefusalMemory says: a rejection recorded during its DELETE outlives it.
CollectorUsesRefusalMemory == MemorySpec

\* "One stuck object must not shield the others", and neither phase the other:
\* the group of a claim that is gone is deleted, ...
Orphan(n) ==
    /\ Exists(groups[n]) /\ ~groups[n].deleting
    /\ groups[n].owner # 0 /\ label[n] = n
    /\ ~Exists(claims[n])

OrphansReaped == \A n \in Names \ Stuck : Orphan(n) ~> ~Orphan(n)

\* ... and so is a launched claim whose group has vanished before its node
\* registered, instead of waiting out core's registration timeout.
Vanished(n) ==
    /\ Wanted(claims[n]) /\ claims[n].launched # NoFlavor
    /\ ~claims[n].registered
    /\ ~Exists(groups[n])

VanishedReaped == \A n \in Names \ Stuck : Vanished(n) ~> ~Vanished(n)

=============================================================================
