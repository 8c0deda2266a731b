---------------------------- MODULE DiskPromise ----------------------------
(***************************************************************************)
(* The catalogue of CapacityCatalogue at work: the controllers that feed   *)
(* it (pkg/controllers/instancetypecapacity and ephemeralstorage), and a   *)
(* launch that promises a disk from it (CloudProvider.GetInstanceTypes,    *)
(* Create, resolveInstanceType, buildNodeClaim and storage_snapshot.go)    *)
(* while the catalogue changes.                                            *)
(*                                                                         *)
(* One claim at a time, and the group of its name, which stays for as long *)
(* as the claim: what becomes of a launch that meets another group of the  *)
(* name, of quotas and of the lock is the subject of NodeGroupLaunch.      *)
(***************************************************************************)
EXTENDS CapacityCatalogue

CONSTANTS
    Nodes,          \* worker nodes
    NodeGroupOfNode,    \* the group a node's name puts it in
    Managed,        \* the groups of this provider
    FlavorOf,       \* spec.flavor of each group
    Reports,        \* what a kubelet may report, of its own node
    References,     \* the disks the reference node may report
    Requests,       \* the disks claims request
    NoFlavor

NodeGroups == DOMAIN FlavorOf

ASSUME DiskPromiseAssumption ==
    /\ FlavorOf \in [NodeGroups -> Flavors]
    /\ Managed \subseteq NodeGroups
    /\ NodeGroupOfNode \in [Nodes -> NodeGroups]
    /\ References \subseteq DiskProfile
    /\ Requests \subseteq Nat
    /\ \A report \in Reports :
          /\ \A r \in DOMAIN report.capacity : report.capacity[r] \in Nat
          /\ \A r \in DOMAIN report.allocatable : report.allocatable[r] \in Nat
    /\ NoFlavor \notin Flavors

VARIABLES
    heard,      \* history: the reports recorded since the process started
    host,       \* the reference node
    answer,     \* what the controller has read of it
    claim,      \* the NodeClaim
    group,      \* the NodeGroup of its name
    launch,     \* local state of CloudProvider.Create
    delayed     \* a POST whose answer was lost on the way

launching == <<claim, group, launch, delayed>>
promiseVars == <<catalogue, heard, host, answer, launching>>

\* The disk of a node that is terminating is of no importance.
Host == [phase : {"live"}, disk : References]
        \cup [phase : {"absent", "terminating"}, disk : {NoDisk}]

NoHost == [phase |-> "absent", disk |-> NoDisk]

NoAnswer == [phase |-> "none", disk |-> NoDisk]

\* limited: its NodePool limits ephemeral storage.  disk is what its status
\* says once it is launched.
Claim == [state : {"none", "planned", "launched", "deleting"}, request : Nat,
          limited : BOOLEAN, disk : DiskProfile]

NoClaim == [state |-> "none", request |-> 0, limited |-> FALSE, disk |-> NoDisk]

\* The annotations are absent from a group of an earlier release.  promised
\* is history: the disk of the type its launch resolved.
Group == [flavor : Flavors \cup {NoFlavor},
          annotations : {"absent", "snapshot", "malformed"},
          snapshot : DiskProfile, promised : DiskProfile]

NoGroup == [flavor |-> NoFlavor, annotations |-> "absent",
            snapshot |-> NoDisk, promised |-> NoDisk]

\* type is the disk of the instance type that was resolved.
Launch == [pc : {"idle", "posting", "polling"}, flavor : Flavors \cup {NoFlavor},
           type : DiskProfile]

Idle == [pc |-> "idle", flavor |-> NoFlavor, type |-> NoDisk]

Exists(g) == g.flavor # NoFlavor

EarlierRelease(f) == [NoGroup EXCEPT !.flavor = f]

\* A process starts, in a cluster where an earlier one may have left a claim
\* that is not launched and its group.
PromiseInit ==
    /\ CatalogueInit
    /\ heard = {}
    /\ host \in {NoHost} \cup [phase : {"live"}, disk : References]
    /\ answer = NoAnswer
    /\ \/ claim = NoClaim /\ group = NoGroup
       \/ /\ claim \in [state : {"planned"}, request : Requests, limited : BOOLEAN,
                        disk : {NoDisk}]
          /\ group \in {NoGroup} \cup {EarlierRelease(f) : f \in Flavors}
    /\ launch = Idle
    /\ delayed = NoGroup

-----------------------------------------------------------------------------
(***************************************************************************)
(* instancetypecapacity: Reconcile of a worker node.                       *)
(***************************************************************************)

\* Who reported what.  What becomes of disks is the subject of PromiseHolds
\* and ServedWithinBounds.
Heard(node, report) == heard' = heard \cup {<<node, WithoutDisk(report)>>}

\* Mutant of ReconcileNode: the labels alone say what the node is.
ReconcileNodeByLabel(node, groupLabel, flavorLabel, report) ==
    /\ groupLabel \in Managed
    /\ FlavorOf[groupLabel] = flavorLabel
    /\ RecordObservedCapacity(FlavorOf[groupLabel], report)
    /\ Heard(node, report)
    /\ UNCHANGED <<host, answer, launching>>

\* The kubelet writes the labels and the report; the group vouches for the
\* flavor and the node's name for the group.  Anything else is rejected.
ReconcileNode(node, groupLabel, flavorLabel, report) ==
    /\ groupLabel \in Managed
    /\ NodeGroupOfNode[node] = groupLabel
    /\ FlavorOf[groupLabel] = flavorLabel
    /\ RecordObservedCapacity(FlavorOf[groupLabel], report)
    /\ Heard(node, report)
    /\ UNCHANGED <<host, answer, launching>>

-----------------------------------------------------------------------------
(***************************************************************************)
(* ephemeralstorage: the controller of the reference node.                 *)
(***************************************************************************)

\* NewController, before provisioning starts; an embedded caller may have
\* recorded reports before.
EnableReference ==
    /\ launch.pc = "idle" /\ answer = NoAnswer
    /\ RequireEphemeralStorageReference
    /\ UNCHANGED <<heard, host, answer, launching>>

\* The node joins, reports another disk, is being deleted or leaves.
HostChanges(next) ==
    /\ ephemeralStorageRequired
    /\ next # host
    /\ next.phase = "terminating" => host.phase = "live"
    /\ host' = next
    /\ UNCHANGED <<catalogue, heard, answer, launching>>

\* Reconcile reads the node, uncached.  A read that fails is retried and
\* changes nothing.
ReadReference ==
    /\ ephemeralStorageRequired
    /\ answer = NoAnswer
    /\ answer' = host
    /\ UNCHANGED <<catalogue, heard, host, launching>>

\* Mutant of ApplyReference: a node that is gone is an error like any other.
ApplyReferenceFound ==
    /\ answer.phase # "none"
    /\ answer' = NoAnswer
    /\ IF answer.phase = "live" /\ ValidDisk(answer.disk)
       THEN SetEphemeralStorageReference(answer.disk)
       ELSE IF answer.phase = "absent" THEN UNCHANGED catalogue
       ELSE InvalidateEphemeralStorageReference
    /\ UNCHANGED <<heard, host, launching>>

ApplyReference ==
    /\ answer.phase # "none"
    /\ answer' = NoAnswer
    /\ IF answer.phase = "live" /\ ValidDisk(answer.disk)
       THEN SetEphemeralStorageReference(answer.disk)
       ELSE InvalidateEphemeralStorageReference
    /\ UNCHANGED <<heard, host, launching>>

-----------------------------------------------------------------------------
(***************************************************************************)
(* CloudProvider.                                                          *)
(***************************************************************************)

\* GetInstanceTypes: a limit on disks that are unknown takes every offering.
Offered(limited) == IF EphemeralStorageReady \/ ~limited THEN Served ELSE {}

\* core plans a claim on an offering it fits.
CreateClaim(request, limited) ==
    /\ claim.state = "none"
    /\ \E f \in Offered(limited) : request <= DiskOf(ProvisioningType(f)).allocatable
    /\ claim' = [NoClaim EXCEPT !.state = "planned", !.request = request, !.limited = limited]
    /\ UNCHANGED <<catalogue, heard, host, answer, group, launch, delayed>>

\* existingDiskLaunch finds no group, and resolveInstanceType picks among the
\* flavors that still fit: the reference may have changed since the plan.
Resolve(f) ==
    /\ claim.state = "planned" /\ launch.pc = "idle"
    /\ ~Exists(group)
    /\ f \in Offered(claim.limited)
    /\ claim.request <= DiskOf(ProvisioningType(f)).allocatable
    /\ launch' = [pc |-> "posting", flavor |-> f, type |-> DiskOf(ProvisioningType(f))]
    /\ UNCHANGED <<catalogue, heard, host, answer, claim, group, delayed>>

\* resolveNodeGroupInstanceType, of a flavor that may have left the catalogue.
ResolvedDisk(f) == DiskOf(IF f \in Served THEN InstanceType(f) ELSE Synthesize(f))

\* A group of this claim makes it an adoption, whatever the catalogue says; a
\* malformed snapshot is an error.
ResolveExisting ==
    /\ claim.state = "planned" /\ launch.pc = "idle"
    /\ Exists(group) /\ group.annotations # "malformed"
    /\ launch' = [pc |-> "polling", flavor |-> group.flavor,
                  type |-> ResolvedDisk(group.flavor)]
    /\ UNCHANGED <<catalogue, heard, host, answer, claim, group, delayed>>

\* No flavor fits, is available or is known well enough: core deletes the
\* claim and plans again.  So it does for the refusals of NodeGroupLaunch.
ResolveRefuses ==
    /\ claim.state = "planned" /\ launch.pc = "idle"
    /\ claim' = [claim EXCEPT !.state = "deleting"]
    /\ UNCHANGED <<catalogue, heard, host, answer, group, launch, delayed>>

\* Mutant of Posted: the annotations are read off the catalogue.
PostedCurrent ==
    [flavor |-> launch.flavor, annotations |-> "snapshot",
     snapshot |-> DiskOf(ProvisioningType(launch.flavor)), promised |-> launch.type]

\* diskSnapshotAnnotations: "capture the resolved instance type, not a second
\* provider lookup".
Posted ==
    [flavor |-> launch.flavor, annotations |-> "snapshot",
     snapshot |-> launch.type, promised |-> launch.type]

\* The POST creates the group, or meets one: a delayed POST of this claim.
Post ==
    /\ launch.pc = "posting"
    /\ group' = IF Exists(group) THEN group ELSE Posted
    /\ launch' = [launch EXCEPT !.pc = "polling"]
    /\ UNCHANGED <<catalogue, heard, host, answer, claim, delayed>>

\* The call fails, and may still land, or the group met is not in the cache.
PostFails(lost) ==
    /\ launch.pc = "posting"
    /\ lost => delayed = NoGroup
    /\ delayed' = IF lost THEN Posted ELSE delayed
    /\ launch' = Idle
    /\ UNCHANGED <<catalogue, heard, host, answer, claim, group>>

LandDelayed ==
    /\ delayed # NoGroup
    /\ delayed' = NoGroup
    /\ group' \in {group, IF Exists(group) THEN group ELSE delayed}
    /\ UNCHANGED <<catalogue, heard, host, answer, claim, launch>>

\* A user edits the annotations.
Tamper ==
    /\ Exists(group) /\ group.annotations # "malformed"
    /\ group' = [group EXCEPT !.annotations = "malformed"]
    /\ UNCHANGED <<catalogue, heard, host, answer, claim, launch, delayed>>

\* buildNodeClaim: the snapshot, over the type resolved by this attempt unless
\* the group met has another flavor.
DescribedDisk ==
    IF group.annotations = "snapshot" THEN group.snapshot
    ELSE IF group.flavor = launch.flavor THEN launch.type
    ELSE ResolvedDisk(group.flavor)

\* The group is accepted: core stores the claim.
Launched ==
    /\ launch.pc = "polling"
    /\ group.annotations # "malformed"
    /\ claim' = [claim EXCEPT !.state = "launched", !.disk = DescribedDisk]
    /\ launch' = Idle
    /\ UNCHANGED <<catalogue, heard, host, answer, group, delayed>>

\* The poll, the strict read of the snapshot or the store of the claim fails:
\* core retries.
LaunchFails ==
    /\ launch.pc = "polling"
    /\ launch' = Idle
    /\ UNCHANGED <<catalogue, heard, host, answer, claim, group, delayed>>

\* The claim is terminated and its group goes with it; the next claim has a
\* name of its own.
Terminate ==
    /\ claim.state \in {"planned", "launched", "deleting"}
    /\ launch.pc = "idle" /\ delayed = NoGroup
    /\ claim' = NoClaim
    /\ group' = NoGroup
    /\ UNCHANGED <<catalogue, heard, host, answer, launch, delayed>>

\* What was observed, the reference and the launch are lost.
RestartProcess ==
    /\ observed' = [f \in Flavors |-> Unobserved]
    /\ heard' = {}
    /\ ephemeralStorageRequired' = FALSE
    /\ ephemeralStorageReady' = FALSE
    /\ ephemeralStorageReference' = NoDisk
    /\ answer' = NoAnswer
    /\ launch' = Idle
    /\ UNCHANGED <<host, claim, group, delayed>>

-----------------------------------------------------------------------------
LaunchNext ==
    \/ \E request \in Requests, limited \in BOOLEAN : CreateClaim(request, limited)
    \/ \E f \in Served : Resolve(f)
    \/ ResolveExisting \/ ResolveRefuses
    \/ Post \/ (\E lost \in BOOLEAN : PostFails(lost)) \/ LandDelayed
    \/ Tamper \/ Launched \/ LaunchFails \/ Terminate

FeedNext ==
    \/ \E node \in Nodes, groupLabel \in NodeGroups, flavorLabel \in Flavors, report \in Reports :
          ReconcileNode(node, groupLabel, flavorLabel, report)
    \/ EnableReference
    \/ \E next \in Host : HostChanges(next)
    \/ ReadReference \/ ApplyReference

PromiseNext == LaunchNext \/ FeedNext \/ RestartProcess

PromiseSpec == PromiseInit /\ [][PromiseNext]_promiseVars

\* The watch and a refresh every minute bring the node back, and a read
\* succeeds in the end.
FairPromise ==
    /\ PromiseSpec
    /\ WF_promiseVars(ReadReference) /\ WF_promiseVars(ApplyReference)

-----------------------------------------------------------------------------
(***************************************************************************)
(* Properties.                                                             *)
(***************************************************************************)

\* "No node can raise a figure another one lowered" and "the minimum lasts for
\* the process lifetime", over nodes that "belong to a NodeGroup this provider
\* created": whatever is observed of a flavor is the least that nodes of its
\* managed groups have reported since the process started, figure by figure and
\* whatever the order; no other node has any part in it, whatever it labels
\* itself, and turning dynamic disks on forgets nothing else.
NodesOf(f) ==
    {node \in Nodes : /\ NodeGroupOfNode[node] \in Managed
                      /\ FlavorOf[NodeGroupOfNode[node]] = f}

IsLeast(x, S) == x \in S /\ \A y \in S : x <= y

ReportedOf(f, list, r) ==
    {h[2][list][r] : h \in {k \in heard : k[1] \in NodesOf(f) /\ r \in DOMAIN k[2][list]}}

FollowsSmallestNode ==
    \A f \in Flavors, list \in {"capacity", "allocatable"},
       r \in generalizableResources \ {Disk} :
          IF r \in DOMAIN observed[f][list]
          THEN IsLeast(observed[f][list][r], ReportedOf(f, list, r))
          ELSE ReportedOf(f, list, r) = {}

\* The disk a launched claim describes is the one its launch was resolved
\* with, and holds what its pods request, however the reference has changed
\* since the plan, through retries, lost answers, adoptions and restarts; an
\* unknown disk stays unknown, and is never counted against a limit.
PromiseHolds ==
    claim.state = "launched" /\ group.annotations = "snapshot" =>
        /\ claim.disk = group.promised
        /\ claim.request <= claim.disk.allocatable
        /\ claim.limited => claim.disk # NoDisk

\* New workers are planned with the disk of the reference node for as long as
\* it stands, and with none once it has gone: the reference is followed
\* whatever happens between its read and its use.
Standing == host.phase = "live" /\ ValidDisk(host.disk)

Followed ==
    IF Standing THEN ephemeralStorageReady /\ ephemeralStorageReference = host.disk
    ELSE ~EphemeralStorageReady

ReferenceFollowed ==
    \A h \in Host :
        <>[](ephemeralStorageRequired /\ host = h)
        => <>[](ephemeralStorageRequired => Followed)

=============================================================================
