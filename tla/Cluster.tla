------------------------------ MODULE Cluster ------------------------------
(***************************************************************************)
(* The Kubernetes API as the provider sees it: NodeClaims written by       *)
(* karpenter-core, NodeGroups created by the provider and reconciled by    *)
(* Clever Cloud's node-group operator, the provider's informer cache of    *)
(* NodeGroups, and the garbage collection of owned objects.                *)
(*                                                                         *)
(* None of this is code of the repository.  Every definition is what the   *)
(* code under src/ assumes of it: core reconciles a claim by calling the   *)
(* cloud provider, a NodeGroup carries the name of its claim and an owner  *)
(* reference to it, deleting an object with a finalizer only marks it, and *)
(* the cache lags behind the API server.                                   *)
(***************************************************************************)
EXTENDS Catalogue, NodeGroupConditions

CONSTANTS
    Names,          \* names a NodeClaim and its NodeGroup can have
    Statuses,       \* the statuses the operator writes
    Recovers,       \* may the operator bring up a group it has refused?
    NoFlavor,
    MaxClaims,      \* bound on the NodeClaims created under one name
    MaxGroups       \* bound on the NodeGroups created under one name

ASSUME ClusterAssumption ==
    /\ Statuses \subseteq NodeGroupStatus
    /\ Recovers \in BOOLEAN
    /\ NoFlavor \notin Flavors
    /\ MaxClaims \in Nat /\ MaxGroups \in Nat

VARIABLES
    claims,     \* the NodeClaim of each name
    groups,     \* the NodeGroup of each name
    cached,     \* the informer's copy of the NodeGroup of each name
    claimUIDs,  \* UIDs given to the NodeClaims of each name so far
    groupUIDs   \* UIDs given to the NodeGroups of each name so far

cluster == <<claims, groups, cached, claimUIDs, groupUIDs>>

(***************************************************************************)
(* UID 0 stands for an absent object.  launched is the flavor the claim's  *)
(* status describes once core has stored what Create returned; registered  *)
(* is core's condition, set when the node has joined.                      *)
(***************************************************************************)
Claim == [uid : Nat, launched : Flavors \cup {NoFlavor}, registered : BOOLEAN,
          deleting : BOOLEAN]

Group == [uid : Nat, owner : Nat, flavor : Flavors \cup {NoFlavor},
          status : NodeGroupStatus, deleting : BOOLEAN]

NoClaim == [uid |-> 0, launched |-> NoFlavor, registered |-> FALSE,
            deleting |-> FALSE]

NoGroup == [uid |-> 0, owner |-> 0, flavor |-> NoFlavor, status |-> NoStatus,
            deleting |-> FALSE]

Exists(object) == object.uid # 0

Wanted(claim) == Exists(claim) /\ ~claim.deleting

ClusterTypeOK ==
    /\ claims \in [Names -> Claim]
    /\ groups \in [Names -> Group]
    /\ cached \in [Names -> Group]
    /\ claimUIDs \in [Names -> Nat]
    /\ groupUIDs \in [Names -> Nat]

ClusterInit ==
    /\ claims = [n \in Names |-> NoClaim]
    /\ groups = [n \in Names |-> NoGroup]
    /\ cached = [n \in Names |-> NoGroup]
    /\ claimUIDs = [n \in Names |-> 0]
    /\ groupUIDs = [n \in Names |-> 0]

-----------------------------------------------------------------------------
(***************************************************************************)
(* karpenter-core and the users.                                           *)
(***************************************************************************)

\* A name can be used again once its previous claim is gone.
CreateClaim(n) ==
    /\ ~Exists(claims[n])
    /\ claimUIDs[n] < MaxClaims
    /\ claimUIDs' = [claimUIDs EXCEPT ![n] = @ + 1]
    /\ claims' = [claims EXCEPT ![n] = [NoClaim EXCEPT !.uid = claimUIDs'[n]]]
    /\ UNCHANGED <<groups, cached, groupUIDs>>

\* core's finalizer keeps a deleted claim until it is terminated.
DeleteClaim(n) ==
    /\ Wanted(claims[n])
    /\ claims' = [claims EXCEPT ![n].deleting = TRUE]
    /\ UNCHANGED <<groups, cached, claimUIDs, groupUIDs>>

RemoveClaim(n) ==
    /\ claims' = [claims EXCEPT ![n] = NoClaim]
    /\ UNCHANGED <<groups, cached, claimUIDs, groupUIDs>>

\* core stores what Create returned, unless the claim is gone.
StoreLaunch(n, uid, flavor) ==
    /\ claims' = IF claims[n].uid = uid
                 THEN [claims EXCEPT ![n].launched = flavor] ELSE claims
    /\ UNCHANGED <<groups, cached, claimUIDs, groupUIDs>>

\* The node of a group that is up joins, and core registers its claim.
Register(n) ==
    /\ Wanted(claims[n])
    /\ claims[n].launched # NoFlavor
    /\ ~claims[n].registered
    /\ Exists(groups[n]) /\ groups[n].status.ready
    /\ claims' = [claims EXCEPT ![n].registered = TRUE]
    /\ UNCHANGED <<groups, cached, claimUIDs, groupUIDs>>

-----------------------------------------------------------------------------
(***************************************************************************)
(* The API server and the operator.                                        *)
(***************************************************************************)

\* A POST accepted by the API server, for the claim with UID owner.
CreateGroup(n, owner, flavor) ==
    /\ ~Exists(groups[n])
    /\ groupUIDs[n] < MaxGroups
    /\ groupUIDs' = [groupUIDs EXCEPT ![n] = @ + 1]
    /\ groups' = [groups EXCEPT ![n] =
          [NoGroup EXCEPT !.uid = groupUIDs'[n], !.owner = owner, !.flavor = flavor]]
    /\ UNCHANGED <<claims, cached, claimUIDs>>

\* A DELETE by name.  The operator's finalizer holds the group.
DeleteGroup(n) ==
    /\ groups' = [groups EXCEPT ![n].deleting = Exists(groups[n])]
    /\ UNCHANGED <<claims, cached, claimUIDs, groupUIDs>>

\* The quota engine reclaims an accepted group, Kubernetes collects one whose
\* owner is gone, a user deletes one.
Reclaim(n) ==
    /\ Exists(groups[n]) /\ ~groups[n].deleting
    /\ DeleteGroup(n)

\* The machines are torn down and the finalizer released.
FinalizeGroup(n) ==
    /\ groups[n].deleting
    /\ groups' = [groups EXCEPT ![n] = NoGroup]
    /\ UNCHANGED <<claims, cached, claimUIDs, groupUIDs>>

\* The operator reports on a group.  Ready stays set through later failures;
\* a refusal of a group that never was Ready is for good, unless it Recovers.
OperatorWrites(n, status) ==
    /\ Exists(groups[n]) /\ ~groups[n].deleting
    /\ status # groups[n].status
    /\ IsSynced(groups[n].status) => IsSynced(status)
    /\ IsRefused(groups[n].status) => IsSynced(groups[n].status) \/ Recovers
    /\ groups' = [groups EXCEPT ![n].status = status]
    /\ UNCHANGED <<claims, cached, claimUIDs, groupUIDs>>

\* The watch catches up.
SyncCache(n) ==
    /\ cached[n] # groups[n]
    /\ cached' = [cached EXCEPT ![n] = groups[n]]
    /\ UNCHANGED <<claims, groups, claimUIDs, groupUIDs>>

ClusterStep(n) ==
    \/ CreateClaim(n) \/ DeleteClaim(n) \/ Register(n)
    \/ Reclaim(n)
    \/ \E status \in Statuses : OperatorWrites(n, status)

=============================================================================
