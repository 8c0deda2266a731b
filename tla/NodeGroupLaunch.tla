-------------------------- MODULE NodeGroupLaunch --------------------------
(***************************************************************************)
(* Launching and terminating machines: CloudProvider.Create and Delete     *)
(* (pkg/cloudprovider) over the NodeGroup provider's ResolveAndCreate,     *)
(* waitForAcceptance and Delete (pkg/providers/nodegroup), in the cluster  *)
(* of module Cluster, sharing the refusals of module RefusalMemory.        *)
(*                                                                         *)
(* A launch is a sequence of steps between which anything else may happen: *)
(*                                                                         *)
(*   waiting   for createMu                                                *)
(*   resolving what to launch, under the lock                              *)
(*   planned   a flavor is chosen, the quota backoff not yet checked       *)
(*   unmarked  the hold-out mark not yet taken                             *)
(*   posting   the POST is next                                            *)
(*   conflict  the POST met a group of the same name                       *)
(*   polling   for the operator's decision                                 *)
(*   freeing   the group of a refusal the poll saw                         *)
(*   freed     or left to the garbage collector                            *)
(*   accepted  the hold-out not yet released                               *)
(*                                                                         *)
(* Each step ends with the access to shared state that can change its      *)
(* outcome.  A claim is reconciled by one worker of core, which either     *)
(* launches or terminates it.                                              *)
(***************************************************************************)
EXTENDS Cluster, RefusalMemory, Functions

CONSTANTS
    Price,          \* price of each flavor, by which the catalogue is ranked
    Accepts,        \* the flavors that satisfy the claims of a name
    Admitted,       \* the flavors in the enum of the NodeGroup CRD
    Nobody          \* createMu is free

ASSUME LaunchAssumption ==
    /\ Names \subseteq Callers
    /\ Price \in [Flavors -> Nat]
    /\ Accepts \in [Names -> SUBSET Flavors]
    /\ Admitted \subseteq Flavors
    /\ Nobody \notin Names

VARIABLES
    createMu,   \* the launch that holds the creation lock
    launch,     \* local state of CloudProvider.Create for each name
    deletion,   \* local state of Provider.Delete for each name
    delayed,    \* the POST of each name whose answer was lost on the way
    vetted      \* history: the sequence numbers of the refusals a launch saw

calls == <<createMu, launch, deletion, delayed, vetted>>
vars == <<cluster, memory, calls>>

Steps == {"idle", "waiting", "resolving", "planned", "unmarked", "posting",
          "conflict", "polling", "freeing", "freed", "accepted"}

\* uid is the claim's; flavor the one planned, then the group's; observed the
\* UID of an adopted group (0 for a group this launch created); adopting is
\* launch.Existing # nil, whose poll reads the API server; quota tells which
\* refusal is being freed.
Launch == [pc : Steps, uid : Nat, flavor : Flavors \cup {NoFlavor},
           observed : Nat, adopting : BOOLEAN, seen : BOOLEAN, quota : BOOLEAN]

Idle == [pc |-> "idle", uid |-> 0, flavor |-> NoFlavor, observed |-> 0,
         adopting |-> FALSE, seen |-> FALSE, quota |-> FALSE]

\* clears: the caller's copy of the group says it may hold capacity.
Deletion == [step : {"none", "sent", "accepted"}, clears : BOOLEAN]

NoDeletion == [step |-> "none", clears |-> FALSE]

Locked(l) == l.pc \notin {"idle", "waiting"}

LaunchTypeOK ==
    /\ createMu \in Names \cup {Nobody}
    /\ launch \in [Names -> Launch]
    /\ deletion \in [Names -> Deletion]
    /\ delayed \in [Names -> Group]
    /\ vetted \in [Names -> [quota : Nat, holdOut : Nat]]

TypeOK == ClusterTypeOK /\ MemoryTypeOK /\ LaunchTypeOK

Init ==
    /\ ClusterInit
    /\ MemoryInit
    /\ createMu = Nobody
    /\ launch = [n \in Names |-> Idle]
    /\ deletion = [n \in Names |-> NoDeletion]
    /\ delayed = [n \in Names |-> NoGroup]
    /\ vetted = [n \in Names |-> [quota |-> 0, holdOut |-> 0]]

-----------------------------------------------------------------------------
(***************************************************************************)
(* How a launch moves, ends, and what core makes of its end.               *)
(***************************************************************************)

Goto(n, l) ==
    /\ launch' = [launch EXCEPT ![n] = l]
    /\ UNCHANGED <<createMu, deletion, delayed, vetted>>

\* ResolveAndCreate returns, which unlocks createMu.
Return(n) ==
    /\ createMu' = Nobody
    /\ launch' = [launch EXCEPT ![n] = Idle]
    /\ vetted' = [vetted EXCEPT ![n] = [quota |-> 0, holdOut |-> 0]]
    /\ UNCHANGED <<deletion, delayed>>

\* A plain error: core retries the claim.
ReturnError(n) == Return(n) /\ UNCHANGED cluster

\* An InsufficientCapacityError or NodeClassNotReadyError: core deletes the
\* claim and plans again.
ReturnInsufficientCapacity(n) ==
    /\ Return(n)
    /\ claims' = IF claims[n].uid = launch[n].uid
                 THEN [claims EXCEPT ![n].deleting = TRUE] ELSE claims
    /\ UNCHANGED <<groups, cached, claimUIDs, groupUIDs>>

\* Success: the claim describes the flavor of the group, unless that or its
\* disk snapshot cannot be read back and core retries.
ReturnLaunched(n) ==
    /\ Return(n)
    /\ \/ StoreLaunch(n, launch[n].uid, launch[n].flavor)
       \/ UNCHANGED cluster

-----------------------------------------------------------------------------
(***************************************************************************)
(* CloudProvider.Create up to the POST.                                    *)
(***************************************************************************)

OwnedByNodeClaim(group, uid) == group.owner = uid

Create(n) ==
    /\ Wanted(claims[n]) /\ claims[n].launched = NoFlavor
    /\ launch[n].pc = "idle" /\ deletion[n].step = "none"
    /\ Goto(n, [Idle EXCEPT !.pc = "waiting", !.uid = claims[n].uid])
    /\ UNCHANGED <<cluster, memory>>

\* createMu is acquired, then existingDiskLaunch reads the group uncached.
Lock(n) ==
    /\ launch[n].pc = "waiting"
    /\ createMu = Nobody
    /\ createMu' = n
    /\ vetted' = [vetted EXCEPT ![n] =
          [quota |-> quotaRejectionSeq, holdOut |-> holdOutSeq]]
    /\ launch' = [launch EXCEPT ![n] =
          [@ EXCEPT !.pc = "resolving",
                    !.adopting = Exists(groups[n]),
                    !.observed = groups[n].uid,
                    !.flavor = groups[n].flavor]]
    /\ OwnedByNodeClaim(groups[n], launch[n].uid) \/ ~Exists(groups[n])
    /\ UNCHANGED <<cluster, memory, deletion, delayed>>

\* The group of that name belongs to another claim, or the read failed: the
\* lock is released on return.
LockRefused(n) ==
    /\ launch[n].pc = "waiting"
    /\ createMu = Nobody
    /\ ReturnError(n)
    /\ UNCHANGED memory

\* checkNodeClaimWanted
StillWanted(n) == Wanted(claims[n]) /\ claims[n].uid = launch[n].uid

\* resolveInstanceType picks among these the cheapest.
Available(n) == {f \in Accepts[n] : ~Unavailable(f)}

Cheapest(S) == {f \in S : \A g \in S : Price[f] <= Price[g]}

\* resolveLaunch: the flavor of the group to adopt, else a new one.
resolveLaunch(n) ==
    /\ launch[n].pc = "resolving"
    /\ StillWanted(n)
    /\ \E f \in IF launch[n].adopting THEN {launch[n].flavor}
                ELSE Cheapest(Available(n)) :
          Goto(n, [launch[n] EXCEPT !.pc = "planned", !.flavor = f])
    /\ UNCHANGED <<cluster, memory>>

\* The claim is unwanted, or an API read failed.
ResolveFails(n) ==
    /\ launch[n].pc = "resolving"
    /\ ReturnError(n)
    /\ UNCHANGED memory

\* The NodeClass is gone, not Ready or terminating, or no flavor is left.
ResolveRefuses(n) ==
    /\ launch[n].pc = "resolving"
    /\ StillWanted(n)
    /\ ReturnInsufficientCapacity(n)
    /\ UNCHANGED memory

\* quotaFastFail, skipped for an adoption.  Every refusal of this module is
\* recorded under createMu, where the resolver has just seen it: this step is
\* one of LaunchFollowUp only, which records refusals without the lock.
FastFail(n) ==
    /\ launch[n].pc = "planned"
    /\ ~launch[n].adopting
    /\ QuotaUnavailable(launch[n].flavor)
    /\ ReturnInsufficientCapacity(n)
    /\ UNCHANGED memory

\* Mutant of PassQuota: nothing is checked after the resolver's own check.
PassQuotaUnchecked(n) ==
    /\ launch[n].pc = "planned"
    /\ launch' = [launch EXCEPT ![n].pc = "unmarked"]
    /\ vetted' = [vetted EXCEPT ![n].quota = quotaRejectionSeq]
    /\ UNCHANGED <<cluster, memory, createMu, deletion, delayed>>

PassQuota(n) ==
    /\ launch[n].pc = "planned"
    /\ launch[n].adopting \/ ~QuotaUnavailable(launch[n].flavor)
    /\ launch' = [launch EXCEPT ![n].pc = "unmarked"]
    /\ vetted' = [vetted EXCEPT ![n].quota = quotaRejectionSeq]
    /\ UNCHANGED <<cluster, memory, createMu, deletion, delayed>>

\* holdOutMark, just before the create call.
TakeMark(n) ==
    /\ launch[n].pc = "unmarked"
    /\ MarkLaunch(n)
    /\ Goto(n, [launch[n] EXCEPT !.pc = "posting"])
    /\ UNCHANGED cluster

-----------------------------------------------------------------------------
(***************************************************************************)
(* The POST.                                                               *)
(***************************************************************************)

\* An adoption sends none.
Adopt(n) ==
    /\ launch[n].pc = "posting"
    /\ launch[n].adopting
    /\ Goto(n, [launch[n] EXCEPT !.pc = "polling", !.seen = TRUE])
    /\ UNCHANGED <<cluster, memory>>

Posts(n) == launch[n].pc = "posting" /\ ~launch[n].adopting

\* refuseFlavorAtAdmission: the CRD's enum lacks the flavor.
PostRefused(n) ==
    /\ Posts(n)
    /\ launch[n].flavor \notin Admitted
    /\ LaunchRefused(n, launch[n].flavor)
    /\ ReturnInsufficientCapacity(n)

\* Mutant of PostCreates: createMu covers the POST only.
PostCreatesUnlocking(n) ==
    /\ Posts(n)
    /\ launch[n].flavor \in Admitted
    /\ CreateGroup(n, launch[n].uid, launch[n].flavor)
    /\ launch' = [launch EXCEPT ![n].pc = "polling"]
    /\ createMu' = Nobody
    /\ UNCHANGED <<memory, deletion, delayed, vetted>>

PostCreates(n) ==
    /\ Posts(n)
    /\ launch[n].flavor \in Admitted
    /\ CreateGroup(n, launch[n].uid, launch[n].flavor)
    /\ Goto(n, [launch[n] EXCEPT !.pc = "polling"])
    /\ UNCHANGED memory

PostConflicts(n) ==
    /\ Posts(n)
    /\ launch[n].flavor \in Admitted
    /\ Exists(groups[n])
    /\ Goto(n, [launch[n] EXCEPT !.pc = "conflict"])
    /\ UNCHANGED <<cluster, memory>>

\* The call fails, and the request may still reach the API server later.
PostFails(n, lost) ==
    /\ Posts(n)
    /\ createMu' = Nobody
    /\ launch' = [launch EXCEPT ![n] = Idle]
    /\ vetted' = [vetted EXCEPT ![n] = [quota |-> 0, holdOut |-> 0]]
    /\ delayed' = IF lost /\ launch[n].flavor \in Admitted
                  THEN [delayed EXCEPT ![n] = [NoGroup EXCEPT
                           !.owner = launch[n].uid, !.flavor = launch[n].flavor]]
                  ELSE delayed
    /\ LaunchEnds(n)
    /\ UNCHANGED <<cluster, deletion>>

\* Mutant of AdoptConflicting: the flavor stays the one requested.
AdoptAsRequested(n) ==
    /\ launch[n].pc = "conflict"
    /\ Exists(cached[n])
    /\ OwnedByNodeClaim(cached[n], launch[n].uid)
    /\ Goto(n, [launch[n] EXCEPT !.pc = "polling", !.observed = cached[n].uid,
                                 !.seen = TRUE])
    /\ UNCHANGED <<cluster, memory>>

\* The group that was met is read from the cache, and adopted if it is this
\* claim's.
AdoptConflicting(n) ==
    /\ launch[n].pc = "conflict"
    /\ Exists(cached[n])
    /\ OwnedByNodeClaim(cached[n], launch[n].uid)
    /\ Goto(n, [launch[n] EXCEPT !.pc = "polling", !.observed = cached[n].uid,
                                 !.flavor = cached[n].flavor, !.seen = TRUE])
    /\ UNCHANGED <<cluster, memory>>

ConflictFails(n) ==
    /\ launch[n].pc = "conflict"
    /\ ~Exists(cached[n]) \/ ~OwnedByNodeClaim(cached[n], launch[n].uid)
    /\ LaunchEnds(n)
    /\ ReturnError(n)

\* A delayed POST reaches the API server, or is dropped.
LandDelayed(n) ==
    /\ delayed[n] # NoGroup
    /\ delayed' = [delayed EXCEPT ![n] = NoGroup]
    /\ \/ CreateGroup(n, delayed[n].owner, delayed[n].flavor)
       \/ UNCHANGED cluster
    /\ UNCHANGED <<memory, createMu, launch, deletion, vetted>>

-----------------------------------------------------------------------------
(***************************************************************************)
(* waitForAcceptance.                                                      *)
(***************************************************************************)

\* The cache, or the API server for a group found by existingDiskLaunch.
Polled(n) == IF launch[n].adopting THEN groups[n] ELSE cached[n]

\* Mutant of Decision: a failure wins over Ready.
DecisionFailureFirst(l, group) ==
    IF ~Exists(group) THEN IF l.seen THEN "vanished" ELSE "none"
    ELSE IF l.observed \notin {0, group.uid} \/ group.deleting THEN "vanished"
    ELSE IF IsQuotaExceeded(group.status) THEN "quota"
    ELSE IF Refusal(group.status) THEN "refused"
    ELSE IF IsSynced(group.status) \/ IsReconciling(group.status) THEN "accepted"
    ELSE "none"

\* What a read of group tells the poll.  The order is the code's: a group
\* that is going away never counts, and Ready wins over any failure.
Decision(l, group) ==
    IF ~Exists(group) THEN IF l.seen THEN "vanished" ELSE "none"
    ELSE IF l.observed \notin {0, group.uid} \/ group.deleting THEN "vanished"
    ELSE IF IsSynced(group.status) THEN "accepted"
    ELSE IF IsQuotaExceeded(group.status) THEN "quota"
    ELSE IF Refusal(group.status) THEN "refused"
    ELSE IF IsReconciling(group.status) THEN "accepted"
    ELSE "none"

Polls(n, decision) ==
    launch[n].pc = "polling" /\ Decision(launch[n], Polled(n)) = decision

\* No decision yet, but from now on a missing group has vanished.
PollSees(n) ==
    /\ Polls(n, "none")
    /\ Exists(Polled(n)) /\ ~launch[n].seen
    /\ Goto(n, [launch[n] EXCEPT !.seen = TRUE])
    /\ UNCHANGED <<cluster, memory>>

PollAccepts(n) ==
    /\ Polls(n, "accepted")
    /\ Goto(n, [launch[n] EXCEPT !.pc = "accepted"])
    /\ UNCHANGED <<cluster, memory>>

\* Recorded as a quota rejection of the group's flavor.
PollVanishes(n) ==
    /\ Polls(n, "vanished")
    /\ LaunchVanished(n, launch[n].flavor)
    /\ ReturnInsufficientCapacity(n)

\* The rejection is recorded before the group is freed ...
PollRejected(n) ==
    /\ Polls(n, "quota")
    /\ QuotaRejected(Polled(n).flavor)
    /\ Goto(n, [launch[n] EXCEPT !.pc = "freeing", !.quota = TRUE])
    /\ UNCHANGED cluster

\* ... any other refusal after it, by ResolveAndCreate.
PollRefused(n) ==
    /\ Polls(n, "refused")
    /\ Goto(n, [launch[n] EXCEPT !.pc = "freeing", !.flavor = Polled(n).flavor])
    /\ UNCHANGED <<cluster, memory>>

\* The DELETE names the group only ...
Free(n) ==
    /\ launch[n].pc = "freeing"
    /\ DeleteGroup(n)
    /\ Goto(n, [launch[n] EXCEPT !.pc = "freed"])
    /\ UNCHANGED memory

\* ... and is best effort.
FreeFails(n) ==
    /\ launch[n].pc = "freeing"
    /\ Goto(n, [launch[n] EXCEPT !.pc = "freed"])
    /\ UNCHANGED <<cluster, memory>>

FreedRejected(n) ==
    /\ launch[n].pc = "freed" /\ launch[n].quota
    /\ LaunchEnds(n)
    /\ ReturnInsufficientCapacity(n)

FreedRefused(n) ==
    /\ launch[n].pc = "freed" /\ ~launch[n].quota
    /\ LaunchRefused(n, launch[n].flavor)
    /\ ReturnInsufficientCapacity(n)

\* clearFlavorRejection, with the mark taken before the POST.
Accept(n) ==
    /\ launch[n].pc = "accepted"
    /\ LaunchAccepted(n, launch[n].flavor)
    /\ ReturnLaunched(n)

\* Mutant of PollTimeout: a group that has been seen is waited for.
PollTimeoutUnseen(n) ==
    /\ launch[n].pc = "polling" /\ ~launch[n].seen
    /\ LaunchEnds(n)
    /\ ReturnLaunched(n)

\* quotaCheckTimeout: unacknowledged, the launch proceeds optimistically and
\* releases no hold-out.
PollTimeout(n) ==
    /\ launch[n].pc = "polling"
    /\ LaunchEnds(n)
    /\ ReturnLaunched(n)

\* The API server fails a read of the poll of an adopted group.
PollFails(n) ==
    /\ launch[n].pc = "polling"
    /\ launch[n].adopting
    /\ LaunchEnds(n)
    /\ ReturnError(n)

-----------------------------------------------------------------------------
(***************************************************************************)
(* CloudProvider.Delete, called by core until the group is gone.           *)
(***************************************************************************)

Terminating(n) ==
    /\ Exists(claims[n]) /\ claims[n].deleting
    /\ launch[n].pc = "idle"
    /\ deletion[n].step = "none"

\* Mutant of Release: a group that is gone is an error to retry.
ReleaseUnlaunched(n) ==
    /\ Terminating(n)
    /\ claims[n].launched = NoFlavor
    /\ RemoveClaim(n)
    /\ UNCHANGED <<memory, calls>>

\* A claim without a provider ID, or whose group is gone, is released.
Release(n) ==
    /\ Terminating(n)
    /\ claims[n].launched = NoFlavor \/ ~Exists(cached[n])
    /\ RemoveClaim(n)
    /\ UNCHANGED <<memory, calls>>

\* quotaRejectionMark, then the DELETE is sent.
Delete(n) ==
    /\ Terminating(n)
    /\ claims[n].launched # NoFlavor
    /\ Exists(cached[n]) /\ ~cached[n].deleting
    /\ deletion' = [deletion EXCEPT ![n] =
          [step |-> "sent",
           clears |-> IsSynced(cached[n].status) \/ ~IsRefused(cached[n].status)]]
    /\ SendDelete(n)
    /\ UNCHANGED <<cluster, createMu, launch, delayed, vetted>>

DeleteEnds(n) ==
    /\ deletion' = [deletion EXCEPT ![n] = NoDeletion]
    /\ UNCHANGED <<createMu, launch, delayed, vetted>>

DeleteAccepted(n) ==
    /\ deletion[n].step = "sent"
    /\ Exists(groups[n])
    /\ DeleteGroup(n)
    /\ deletion' = [deletion EXCEPT ![n].step = "accepted"]
    /\ UNCHANGED <<memory, createMu, launch, delayed, vetted>>

\* NotFound: core releases the claim.
DeleteNotFound(n) ==
    /\ deletion[n].step = "sent"
    /\ ~Exists(groups[n])
    /\ DeleteKeeps(n)
    /\ RemoveClaim(n)
    /\ DeleteEnds(n)

\* The call fails, or only its answer is lost.
DeleteFails(n) ==
    /\ deletion[n].step = "sent"
    /\ DeleteKeeps(n)
    /\ DeleteEnds(n)
    /\ DeleteGroup(n) \/ UNCHANGED cluster

\* Mutant of DeleteReturns: the mark is read when the answer comes.
DeleteReturnsLate(n) ==
    /\ deletion[n].step = "accepted"
    /\ IF deletion[n].clears THEN clearQuotaRejections(quotaRejectionSeq)
       ELSE UNCHANGED tables
    /\ deleteMark' = [deleteMark EXCEPT ![n] = NoMark]
    /\ DeleteEnds(n)
    /\ UNCHANGED <<cluster, now, launchMark>>

\* clearQuotaRejections, unless the group held no capacity.
DeleteReturns(n) ==
    /\ deletion[n].step = "accepted"
    /\ IF deletion[n].clears THEN DeleteClears(n) ELSE DeleteKeeps(n)
    /\ DeleteEnds(n)
    /\ UNCHANGED cluster

-----------------------------------------------------------------------------
(***************************************************************************)
(* The system.                                                             *)
(***************************************************************************)

\* What the provider does of its own once it is called.
LaunchStep(n) ==
    \/ Lock(n) \/ LockRefused(n)
    \/ resolveLaunch(n) \/ ResolveFails(n) \/ ResolveRefuses(n)
    \/ PassQuota(n) \/ TakeMark(n)
    \/ Adopt(n) \/ PostRefused(n) \/ PostCreates(n) \/ PostConflicts(n)
    \/ \E lost \in BOOLEAN : PostFails(n, lost)
    \/ AdoptConflicting(n) \/ ConflictFails(n)
    \/ PollSees(n) \/ PollAccepts(n) \/ PollVanishes(n)
    \/ PollRejected(n) \/ PollRefused(n) \/ PollTimeout(n) \/ PollFails(n)
    \/ Free(n) \/ FreeFails(n) \/ FreedRejected(n) \/ FreedRefused(n)
    \/ Accept(n)

DeleteStep(n) ==
    \/ DeleteAccepted(n) \/ DeleteNotFound(n) \/ DeleteFails(n)
    \/ DeleteReturns(n)

ClusterSteps(n) == ClusterStep(n) /\ UNCHANGED <<memory, calls>>

Sync(n) == SyncCache(n) /\ UNCHANGED <<memory, calls>>

\* A request is given up long before a group can be torn down.
TearDown(n) ==
    /\ delayed[n] = NoGroup
    /\ FinalizeGroup(n)
    /\ UNCHANGED <<memory, calls>>

\* The process restarts: only what the API server holds survives, and the
\* cache is filled before any controller runs.
RestartProcess ==
    /\ Restart
    /\ cached' = groups
    /\ createMu' = Nobody
    /\ launch' = [n \in Names |-> Idle]
    /\ deletion' = [n \in Names |-> NoDeletion]
    /\ vetted' = [n \in Names |-> [quota |-> 0, holdOut |-> 0]]
    /\ UNCHANGED <<claims, groups, claimUIDs, groupUIDs, delayed>>

Next ==
    \/ \E n \in Names :
          \/ Create(n) \/ LaunchStep(n) \/ LandDelayed(n)
          \/ Release(n) \/ Delete(n) \/ DeleteStep(n)
          \/ ClusterSteps(n) \/ Sync(n) \/ TearDown(n)
    \/ Tick /\ UNCHANGED <<cluster, calls>>
    \/ RestartProcess

Spec == Init /\ [][Next]_vars

\* Calls of the API return and the poll times out, so a launch that can move
\* does; Go's Mutex does not starve a waiter.
FairLaunches == \A n \in Names : SF_vars(LaunchStep(n))

\* core keeps calling Delete, the API server accepts a DELETE in the end, the
\* operator tears down what is deleted and the watch delivers it.
FairTermination == \A n \in Names :
    /\ WF_vars(Release(n)) /\ WF_vars(Delete(n))
    /\ WF_vars(DeleteStep(n)) /\ SF_vars(DeleteAccepted(n))
    /\ WF_vars(LandDelayed(n)) /\ WF_vars(TearDown(n)) /\ WF_vars(Sync(n))

FairLaunchSpec == Spec /\ FairLaunches

FairSpec == FairLaunchSpec /\ FairTermination

-----------------------------------------------------------------------------
(***************************************************************************)
(* Properties.                                                             *)
(***************************************************************************)

Marked == {"posting", "conflict", "polling", "freeing", "freed", "accepted"}

\* createMu is held through every step from the decision what to launch to
\* the operator's verdict, so no two launches are between them: "concurrent
\* creations make the upstream quota engine evaluate all in-flight groups
\* together".  A mark is alive exactly while its call is.
LocksAndMarks ==
    \A n \in Names :
        /\ Locked(launch[n]) <=> createMu = n
        /\ launchMark[n] # NoMark <=> launch[n].pc \in Marked
        /\ deleteMark[n] # NoMark <=> deletion[n].step # "none"
        /\ deletion[n].step # "none" => launch[n].pc = "idle"

\* "Only a decision taken under the lock sees what the launches ahead just
\* learned": the refusals that condemn the flavor of a POST are later than the
\* lock (hold-outs) and than the last check (quota rejections).
PostsAreVetted ==
    \A n \in Names : Posts(n) =>
        /\ \A h \in HoldingOut(launch[n].flavor) : h.seq > vetted[n].holdOut
        /\ \A r \in Covering(launch[n].flavor) : r.seq > vetted[n].quota

\* "The returned claim must describe the machine that exists, not the one
\* requested": ...
ClaimsDescribeGroups ==
    \A n \in Names :
        /\ claims[n].launched # NoFlavor
        /\ Exists(groups[n]) /\ groups[n].owner = claims[n].uid
        => claims[n].launched = groups[n].flavor

\* ... a claim is launched with the flavor of the group that backs it, created
\* or adopted, unless the group adopted is no longer the one that exists.
LaunchDescribesGroup ==
    [][\A n \in Names :
          /\ claims[n].launched # claims[n].launched'
          /\ claims[n].launched' # NoFlavor
          /\ Exists(groups[n]) /\ groups[n].owner = claims[n].uid
          /\ launch[n].observed \in {0, groups[n].uid}
          => claims[n].launched' = groups[n].flavor]_vars

\* "A Ready group is a booted VM": a poll never decides to free the group it
\* has read, however stale the read, once the machine of that group is up.
FreesNoMachine ==
    [][\A n \in Names :
          /\ launch[n].pc = "polling" /\ launch[n].pc' = "freeing"
          /\ groups[n].uid = Polled(n).uid
          => ~IsSynced(groups[n].status)]_vars

\* "waitForAcceptance polls the NodeGroup until the operator decides on it":
\* the verdict on a group this launch has created is read off that group.
VerdictIsOnCreatedGroup ==
    [][\A n \in Names :
          /\ launch[n].pc = "polling" /\ launch[n].pc' \in {"accepted", "freeing"}
          /\ launch[n].observed = 0 /\ groups[n].owner = launch[n].uid
          => Polled(n).uid = groups[n].uid]_vars

\* A refusal ends the claim it was met on, so none is counted twice: the
\* refusals of a process are at most as many as the claims.
OneRefusalPerClaim ==
    quotaRejectionSeq + holdOutSeq <= FoldFunction(+, 0, claimUIDs)

\* Launches and deletions use the memory of refusals as RefusalMemory says,
\* whose properties therefore hold of the system.
UsesRefusalMemory == MemorySpec

\* Every launch returns, whatever the operator does, and lets the next one in.
LaunchesReturn == \A n \in Names :
    launch[n].pc # "idle" ~> launch[n].pc = "idle"

\* A deleted claim is released: neither a group that is already going away nor
\* a DELETE that fails or finds nothing wedges its termination.
TerminationEnds == \A n \in Names :
    claims[n].deleting ~> ~claims[n].deleting

=============================================================================
