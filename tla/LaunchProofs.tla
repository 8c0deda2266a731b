---------------------------- MODULE LaunchProofs ----------------------------
(***************************************************************************)
(* Theorems about NodeGroupLaunch and LaunchFollowUp, for every set of     *)
(* names, every catalogue and every bound.                                 *)
(*                                                                         *)
(* LaunchFollowUp adds two steps to those of NodeGroupLaunch: quotaFastFail *)
(* fails a launch, and a refusal is recorded without createMu.  (Its       *)
(* deletion of a claim is one a user can make.)  The invariants below are  *)
(* shown to survive these as well, which makes them invariants of both     *)
(* specifications.                                                         *)
(***************************************************************************)
EXTENDS LaunchFollowUp, ClusterProofs, RefusalMemoryProofs, FiniteSetTheorems

LateRefusal(f) ==
    (QuotaRejected(f) \/ FlavorRefused(f)) /\ UNCHANGED <<cluster, calls>>

SystemNext ==
    \/ Next
    \/ \E n \in Names : FastFail(n)
    \/ \E f \in Flavors : LateRefusal(f)

-----------------------------------------------------------------------------
(***************************************************************************)
(* Type correctness.  The memory records flavors of the catalogue only, as *)
(* every group, and every launch that has chosen what to launch, has one.  *)
(***************************************************************************)

Chosen(l) == Locked(l) /\ (l.pc = "resolving" => l.adopting)

FlavorsKnown ==
    \A n \in Names :
        /\ Exists(groups[n]) => groups[n].flavor \in Flavors
        /\ Exists(cached[n]) => cached[n].flavor \in Flavors
        /\ delayed[n] # NoGroup => delayed[n].flavor \in Flavors
        /\ Chosen(launch[n]) => launch[n].flavor \in Flavors

TypeInv == TypeOK /\ FlavorsKnown

\* The steps of a launch, of a deletion and of what is around them that leave
\* the memory of refusals alone, ...
Silent(n) ==
    \/ Create(n) \/ Lock(n) \/ LockRefused(n)
    \/ resolveLaunch(n) \/ ResolveFails(n) \/ ResolveRefuses(n) \/ FastFail(n)
    \/ PassQuota(n) \/ Adopt(n) \/ PostCreates(n) \/ PostConflicts(n)
    \/ AdoptConflicting(n) \/ LandDelayed(n)
    \/ PollSees(n) \/ PollAccepts(n) \/ PollRefused(n)
    \/ Free(n) \/ FreeFails(n) \/ Release(n) \/ DeleteAccepted(n)
    \/ ClusterSteps(n) \/ Sync(n) \/ TearDown(n)

\* ... and those that use it.
Telling(n) ==
    \/ TakeMark(n) \/ PostRefused(n) \/ (\E lost \in BOOLEAN : PostFails(n, lost))
    \/ ConflictFails(n) \/ PollVanishes(n) \/ PollRejected(n)
    \/ PollTimeout(n) \/ PollFails(n) \/ FreedRejected(n) \/ FreedRefused(n)
    \/ Accept(n) \/ Delete(n) \/ DeleteNotFound(n) \/ DeleteFails(n)
    \/ DeleteReturns(n)

LEMMA SystemSteps ==
    SystemNext <=> \/ \E n \in Names : Silent(n) \/ Telling(n)
                   \/ Tick /\ UNCHANGED <<cluster, calls>>
                   \/ \E f \in Flavors : LateRefusal(f)
                   \/ RestartProcess
  BY DEF SystemNext, Next, LaunchStep, DeleteStep, Silent, Telling

LEMMA SilentKeepsMemory ==
    ASSUME NEW n \in Names, Silent(n) PROVE UNCHANGED memory
  BY DEF Silent, Create, Lock, LockRefused, resolveLaunch, ResolveFails,
         ResolveRefuses, FastFail, PassQuota, Adopt, PostCreates, PostConflicts,
         AdoptConflicting, LandDelayed, PollSees, PollAccepts, PollRefused, Free,
         FreeFails, Release, DeleteAccepted, ClusterSteps, Sync, TearDown

\* The group a decision was read from exists.
LEMMA DecisionIsOfGroup ==
    ASSUME NEW l, NEW g, Decision(l, g) \notin {"none", "vanished"}
    PROVE  Exists(g)
  BY DEF Decision

\* Every step uses the memory as RefusalMemory lets its callers, ...
RemembersNext ==
    \/ \E c \in Callers : CallerStep(c)
    \/ \E f \in Flavors : QuotaRejected(f) \/ FlavorRefused(f)
    \/ Tick

LEMMA TellingUsesMemory ==
    ASSUME TypeInv, NEW n \in Names, Telling(n)
    PROVE  RemembersNext
<1>c. n \in Callers
  BY LaunchAssumption
<1>f. Chosen(launch[n]) => launch[n].flavor \in Flavors
  BY DEF TypeInv, FlavorsKnown
<1>1. CASE TakeMark(n)
  BY <1>c, <1>1 DEF TakeMark, RemembersNext, CallerStep
<1>2. CASE PostRefused(n)
  BY <1>c, <1>f, <1>2 DEF PostRefused, Posts, Chosen, Locked, RemembersNext, CallerStep
<1>3. CASE (\E lost \in BOOLEAN : PostFails(n, lost)) \/ ConflictFails(n)
           \/ PollTimeout(n) \/ PollFails(n) \/ FreedRejected(n)
  BY <1>c, <1>3 DEF PostFails, ConflictFails, PollTimeout, PollFails, FreedRejected,
                    RemembersNext, CallerStep
<1>4. CASE PollVanishes(n)
  BY <1>c, <1>f, <1>4 DEF PollVanishes, Polls, Chosen, Locked, RemembersNext, CallerStep
<1>5. CASE PollRejected(n)
  <2>1. Exists(Polled(n))
    BY <1>5, DecisionIsOfGroup DEF PollRejected, Polls
  <2>2. Polled(n).flavor \in Flavors
    BY <2>1 DEF Polled, TypeInv, FlavorsKnown
  <2> QED BY <1>5, <2>2 DEF PollRejected, RemembersNext
<1>6. CASE FreedRefused(n)
  BY <1>c, <1>f, <1>6 DEF FreedRefused, Chosen, Locked, RemembersNext, CallerStep
<1>7. CASE Accept(n)
  BY <1>c, <1>f, <1>7 DEF Accept, Chosen, Locked, RemembersNext, CallerStep
<1>8. CASE Delete(n) \/ DeleteNotFound(n) \/ DeleteFails(n) \/ DeleteReturns(n)
  BY <1>c, <1>8 DEF Delete, DeleteNotFound, DeleteFails, DeleteReturns,
                    RemembersNext, CallerStep
<1> QED BY <1>1, <1>2, <1>3, <1>4, <1>5, <1>6, <1>7, <1>8 DEF Telling

LEMMA SystemUsesMemory ==
    ASSUME TypeInv, [SystemNext]_vars
    PROVE  /\ [MemoryNext]_memory
           /\ [RemembersNext]_memory \/ RestartProcess
<1>1. [RemembersNext]_memory \/ RestartProcess
  <2>1. ASSUME NEW n \in Names, Silent(n) \/ Telling(n) PROVE [RemembersNext]_memory
    BY <2>1, SilentKeepsMemory, TellingUsesMemory
  <2>2. CASE UNCHANGED vars
    BY <2>2 DEF vars
  <2>3. CASE \/ Tick /\ UNCHANGED <<cluster, calls>>
             \/ \E f \in Flavors : LateRefusal(f)
    BY <2>3 DEF LateRefusal, RemembersNext
  <2> QED BY <2>1, <2>2, <2>3, SystemSteps
<1>2. RemembersNext \/ RestartProcess => MemoryNext
  BY DEF RemembersNext, RestartProcess, MemoryNext
<1> QED BY <1>1, <1>2

\* What the launches and deletions write has its type.
LEMMA LaunchWritten ==
    /\ Idle \in Launch
    /\ \A uid \in Nat : [Idle EXCEPT !.pc = "waiting", !.uid = uid] \in Launch
    /\ \A l \in Launch, pc \in Steps :
          /\ [l EXCEPT !.pc = pc] \in Launch
          /\ [l EXCEPT !.pc = pc, !.seen = TRUE] \in Launch
          /\ [l EXCEPT !.pc = pc, !.quota = TRUE] \in Launch
    /\ \A l \in Launch : [l EXCEPT !.seen = TRUE] \in Launch
    /\ \A l \in Launch, pc \in Steps, f \in Flavors \cup {NoFlavor} :
          [l EXCEPT !.pc = pc, !.flavor = f] \in Launch
    /\ \A l \in Launch, pc \in Steps, f \in Flavors \cup {NoFlavor}, uid \in Nat :
          /\ [l EXCEPT !.pc = pc, !.observed = uid, !.flavor = f, !.seen = TRUE] \in Launch
          /\ [l EXCEPT !.pc = pc, !.adopting = TRUE, !.observed = uid, !.flavor = f] \in Launch
          /\ [l EXCEPT !.pc = pc, !.adopting = FALSE, !.observed = uid, !.flavor = f] \in Launch
<1>1. /\ Idle \in Launch
      /\ \A uid \in Nat : [Idle EXCEPT !.pc = "waiting", !.uid = uid] \in Launch
  BY DEF Launch, Idle, Steps
<1>2. \A l \in Launch, pc \in Steps :
          /\ [l EXCEPT !.pc = pc] \in Launch
          /\ [l EXCEPT !.pc = pc, !.seen = TRUE] \in Launch
          /\ [l EXCEPT !.pc = pc, !.quota = TRUE] \in Launch
  BY DEF Launch
<1>3. \A l \in Launch : [l EXCEPT !.seen = TRUE] \in Launch
  BY DEF Launch
<1>4. \A l \in Launch, pc \in Steps, f \in Flavors \cup {NoFlavor} :
          [l EXCEPT !.pc = pc, !.flavor = f] \in Launch
  BY DEF Launch
<1>5. \A l \in Launch, pc \in Steps, f \in Flavors \cup {NoFlavor}, uid \in Nat :
          [l EXCEPT !.pc = pc, !.observed = uid, !.flavor = f, !.seen = TRUE] \in Launch
  BY DEF Launch
<1>6. \A l \in Launch, pc \in Steps, f \in Flavors \cup {NoFlavor}, uid \in Nat :
          /\ [l EXCEPT !.pc = pc, !.adopting = TRUE, !.observed = uid, !.flavor = f] \in Launch
          /\ [l EXCEPT !.pc = pc, !.adopting = FALSE, !.observed = uid, !.flavor = f] \in Launch
  <2> TAKE l \in Launch, pc \in Steps, f \in Flavors \cup {NoFlavor}, uid \in Nat
  <2>1. [l EXCEPT !.pc = pc, !.adopting = TRUE, !.observed = uid, !.flavor = f] \in Launch
    BY DEF Launch
  <2>2. [l EXCEPT !.pc = pc, !.adopting = FALSE, !.observed = uid, !.flavor = f] \in Launch
    BY DEF Launch
  <2> QED BY <2>1, <2>2
<1> QED BY <1>1, <1>2, <1>3, <1>4, <1>5, <1>6

LEMMA GotoTyped ==
    ASSUME LaunchTypeOK, NEW n \in Names, NEW l \in Launch, Goto(n, l)
    PROVE  LaunchTypeOK'
  BY DEF LaunchTypeOK, Goto

LEMMA GotoStep ==
    ASSUME LaunchTypeOK, NEW n \in Names, NEW pc \in Steps,
           \/ Goto(n, [launch[n] EXCEPT !.pc = pc])
           \/ Goto(n, [launch[n] EXCEPT !.pc = pc, !.seen = TRUE])
           \/ Goto(n, [launch[n] EXCEPT !.pc = pc, !.quota = TRUE])
    PROVE  /\ launch'[n].pc = pc
           /\ launch'[n].uid = launch[n].uid /\ launch'[n].flavor = launch[n].flavor
           /\ launch'[n].observed = launch[n].observed
           /\ launch'[n].adopting = launch[n].adopting
<1>t. launch \in [Names -> Launch] /\ launch[n] \in Launch
  BY DEF LaunchTypeOK
<1>1. CASE Goto(n, [launch[n] EXCEPT !.pc = pc])
  BY <1>t, <1>1 DEF Goto, Launch
<1>2. CASE Goto(n, [launch[n] EXCEPT !.pc = pc, !.seen = TRUE])
  BY <1>t, <1>2 DEF Goto, Launch
<1>3. CASE Goto(n, [launch[n] EXCEPT !.pc = pc, !.quota = TRUE])
  BY <1>t, <1>3 DEF Goto, Launch
<1> QED BY <1>1, <1>2, <1>3

LEMMA ReturnTyped ==
    ASSUME LaunchTypeOK, NEW n \in Names, Return(n)
    PROVE  LaunchTypeOK'
  BY LaunchWritten DEF LaunchTypeOK, Return

LEMMA LaunchTypeStep ==
    ASSUME TypeInv, NEW n \in Names, Silent(n) \/ Telling(n)
    PROVE  LaunchTypeOK'
<1> DEFINE l == launch[n]
<1>t. /\ LaunchTypeOK
      /\ l \in Launch /\ l.uid \in Nat /\ l.flavor \in Flavors \cup {NoFlavor}
      /\ claims[n].uid \in Nat
      /\ groups[n] \in Group /\ groups[n].uid \in Nat
      /\ groups[n].flavor \in Flavors \cup {NoFlavor}
      /\ cached[n] \in Group /\ cached[n].uid \in Nat
      /\ cached[n].flavor \in Flavors \cup {NoFlavor}
      /\ quotaRejectionSeq \in Nat /\ holdOutSeq \in Nat
  BY DEF TypeInv, TypeOK, ClusterTypeOK, MemoryTypeOK, LaunchTypeOK, Claim, Group, Launch
<1>1. CASE Create(n)
  BY <1>t, <1>1, LaunchWritten, GotoTyped DEF Create
<1>2. CASE Lock(n)
  <2> DEFINE new(b) == [l EXCEPT !.pc = "resolving", !.adopting = b,
                                 !.observed = groups[n].uid, !.flavor = groups[n].flavor]
  <2>1. new(TRUE) \in Launch /\ new(FALSE) \in Launch
    BY <1>t, LaunchWritten DEF Steps
  <2>2. PICK b \in BOOLEAN : b = Exists(groups[n])
    BY DEF Exists
  <2>3. launch' = [launch EXCEPT ![n] = new(b)]
    BY <1>2, <2>2 DEF Lock
  <2> HIDE DEF new
  <2>4. new(b) \in Launch
    BY <2>1, Zenon
  <2> QED BY <1>t, <1>2, <2>3, <2>4 DEF Lock, LaunchTypeOK
<1>3. ASSUME Return(n) PROVE LaunchTypeOK'
  BY <1>t, <1>3, ReturnTyped
<1>4. CASE \/ LockRefused(n) \/ ResolveFails(n) \/ ResolveRefuses(n) \/ FastFail(n)
           \/ PostRefused(n) \/ ConflictFails(n) \/ PollVanishes(n)
           \/ PollTimeout(n) \/ PollFails(n) \/ FreedRejected(n) \/ FreedRefused(n)
           \/ Accept(n)
  BY <1>3, <1>4 DEF LockRefused, ResolveFails, ResolveRefuses, FastFail, PostRefused,
     ConflictFails, PollVanishes, PollTimeout, PollFails, FreedRejected, FreedRefused,
     Accept, ReturnError, ReturnInsufficientCapacity, ReturnLaunched
<1>5. CASE resolveLaunch(n)
  <2>1. PICK f : /\ f \in IF l.adopting THEN {l.flavor} ELSE Cheapest(Available(n))
                 /\ Goto(n, [l EXCEPT !.pc = "planned", !.flavor = f])
    BY <1>5 DEF resolveLaunch
  <2>2. f \in Flavors \cup {NoFlavor}
    BY <1>t, <2>1, LaunchAssumption DEF Cheapest, Available
  <2>3. [l EXCEPT !.pc = "planned", !.flavor = f] \in Launch
    BY <1>t, <2>2, LaunchWritten DEF Steps
  <2> QED BY <1>t, <2>1, <2>3, GotoTyped
<1>6. CASE PassQuota(n)
  <2>1. [l EXCEPT !.pc = "unmarked"] \in Launch
    BY <1>t, LaunchWritten DEF Steps
  <2> QED BY <1>t, <1>6, <2>1 DEF PassQuota, LaunchTypeOK
<1>7. ASSUME NEW pc \in Steps,
             \/ Goto(n, [l EXCEPT !.pc = pc])
             \/ Goto(n, [l EXCEPT !.pc = pc, !.seen = TRUE])
             \/ Goto(n, [l EXCEPT !.pc = pc, !.quota = TRUE])
      PROVE  LaunchTypeOK'
  BY <1>t, <1>7, LaunchWritten, GotoTyped
<1>8. CASE \/ TakeMark(n) \/ Adopt(n) \/ PostCreates(n) \/ PostConflicts(n)
           \/ PollAccepts(n) \/ PollRejected(n) \/ Free(n) \/ FreeFails(n)
  BY <1>7, <1>8 DEF TakeMark, Adopt, PostCreates, PostConflicts, PollAccepts,
                    PollRejected, Free, FreeFails, Steps
<1>9. CASE PollSees(n)
  BY <1>t, <1>9, LaunchWritten, GotoTyped DEF PollSees
<1>10. CASE PollRefused(n)
  <2>1. Polled(n).flavor \in Flavors \cup {NoFlavor}
    BY <1>t DEF Polled
  <2>2. [l EXCEPT !.pc = "freeing", !.flavor = Polled(n).flavor] \in Launch
    BY <1>t, <2>1, LaunchWritten DEF Steps
  <2> QED BY <1>t, <1>10, <2>2, GotoTyped DEF PollRefused
<1>11. CASE AdoptConflicting(n)
  <2>1. [l EXCEPT !.pc = "polling", !.observed = cached[n].uid,
                  !.flavor = cached[n].flavor, !.seen = TRUE] \in Launch
    BY <1>t, LaunchWritten DEF Steps
  <2> QED BY <1>t, <1>11, <2>1, GotoTyped DEF AdoptConflicting
<1>12. ASSUME NEW lost \in BOOLEAN, PostFails(n, lost) PROVE LaunchTypeOK'
  <2>1. [NoGroup EXCEPT !.owner = l.uid, !.flavor = l.flavor] \in Group
    BY <1>t, GroupWritten
  <2>2. delayed' \in [Names -> Group]
    BY <1>t, <1>12, <2>1 DEF PostFails, LaunchTypeOK
  <2> QED BY <1>t, <1>12, <2>2, LaunchWritten DEF PostFails, LaunchTypeOK
<1>13. CASE LandDelayed(n)
  BY <1>t, <1>13, GroupWritten DEF LandDelayed, LaunchTypeOK
<1>14. CASE Release(n) \/ ClusterSteps(n) \/ Sync(n) \/ TearDown(n)
  BY <1>t, <1>14 DEF Release, ClusterSteps, Sync, TearDown, calls, LaunchTypeOK
<1>15. CASE Delete(n) \/ DeleteNotFound(n) \/ DeleteFails(n) \/ DeleteReturns(n)
            \/ DeleteAccepted(n)
  <2>1. deletion \in [Names -> Deletion]
    BY <1>t DEF LaunchTypeOK
  <2>2. deletion' \in [Names -> Deletion]
    <3>1. CASE Delete(n)
      <4> DEFINE b == IsSynced(cached[n].status) \/ ~IsRefused(cached[n].status)
      <4>1. b \in BOOLEAN
        OBVIOUS
      <4>2. deletion' = [deletion EXCEPT ![n] = [step |-> "sent", clears |-> b]]
        BY <3>1 DEF Delete
      <4> HIDE DEF b
      <4> QED BY <2>1, <4>1, <4>2 DEF Deletion
    <3>2. CASE DeleteAccepted(n)
      BY <2>1, <3>2 DEF DeleteAccepted, Deletion
    <3>3. CASE DeleteNotFound(n) \/ DeleteFails(n) \/ DeleteReturns(n)
      <4>1. deletion' = [deletion EXCEPT ![n] = NoDeletion]
        BY <3>3 DEF DeleteNotFound, DeleteFails, DeleteReturns, DeleteEnds
      <4> QED BY <2>1, <4>1 DEF Deletion, NoDeletion
    <3> QED BY <1>15, <3>1, <3>2, <3>3
  <2> QED BY <1>t, <1>15, <2>2 DEF Delete, DeleteNotFound, DeleteFails, DeleteReturns,
                                   DeleteAccepted, DeleteEnds, LaunchTypeOK
<1> QED BY <1>1, <1>2, <1>4, <1>5, <1>6, <1>8, <1>9, <1>10, <1>11, <1>12, <1>13,
           <1>14, <1>15 DEF Silent, Telling

LEMMA ClusterTypeAfter ==
    ASSUME TypeInv, NEW n \in Names, Silent(n) \/ Telling(n)
    PROVE  ClusterTypeOK'
<1>t. /\ ClusterTypeOK
      /\ claims[n] \in Claim
      /\ launch[n].uid \in Nat /\ launch[n].flavor \in Flavors \cup {NoFlavor}
      /\ delayed[n].owner \in Nat /\ delayed[n] \in Group
  BY DEF TypeInv, TypeOK, LaunchTypeOK, ClusterTypeOK, Launch, Group
<1>0. ASSUME UNCHANGED cluster PROVE ClusterTypeOK'
  BY <1>t, <1>0 DEF ClusterTypeOK, cluster
<1>1. CASE \/ Create(n) \/ Lock(n) \/ LockRefused(n) \/ resolveLaunch(n) \/ ResolveFails(n)
           \/ PassQuota(n) \/ TakeMark(n) \/ Adopt(n) \/ PostConflicts(n)
           \/ (\E lost \in BOOLEAN : PostFails(n, lost))
           \/ AdoptConflicting(n) \/ ConflictFails(n)
           \/ PollSees(n) \/ PollAccepts(n) \/ PollRejected(n) \/ PollRefused(n)
           \/ PollFails(n) \/ FreeFails(n) \/ Delete(n) \/ DeleteReturns(n)
  BY <1>0, <1>1 DEF Create, Lock, LockRefused, resolveLaunch, ResolveFails, PassQuota,
     TakeMark, Adopt, PostConflicts, PostFails, AdoptConflicting, ConflictFails, PollSees,
     PollAccepts, PollRejected, PollRefused, PollFails, FreeFails, Delete, DeleteReturns,
     ReturnError, cluster
<1>2. ASSUME ReturnInsufficientCapacity(n) PROVE ClusterTypeOK'
  BY <1>t, <1>2, ClaimWritten, ClusterWritten DEF ReturnInsufficientCapacity, ClusterTypeOK
<1>3. CASE \/ ResolveRefuses(n) \/ FastFail(n) \/ PostRefused(n) \/ PollVanishes(n)
           \/ FreedRejected(n) \/ FreedRefused(n)
  BY <1>2, <1>3 DEF ResolveRefuses, FastFail, PostRefused, PollVanishes, FreedRejected,
                    FreedRefused
<1>4. CASE PollTimeout(n) \/ Accept(n)
  BY <1>t, <1>0, <1>4, ClusterTypeStep DEF PollTimeout, Accept, ReturnLaunched
<1>5. CASE PostCreates(n)
  BY <1>t, <1>5, ClusterTypeStep, LaunchAssumption DEF PostCreates
<1>6. CASE LandDelayed(n)
  <2>1. delayed[n].flavor \in Flavors
    BY <1>6 DEF LandDelayed, TypeInv, FlavorsKnown
  <2> QED BY <1>t, <1>0, <1>6, <2>1, ClusterTypeStep DEF LandDelayed
<1>7. CASE Free(n) \/ DeleteAccepted(n) \/ DeleteFails(n) \/ Release(n) \/ DeleteNotFound(n)
           \/ ClusterSteps(n) \/ Sync(n) \/ TearDown(n)
  BY <1>t, <1>0, <1>7, ClusterTypeStep DEF Free, DeleteAccepted, DeleteFails, Release,
     DeleteNotFound, ClusterSteps, Sync, TearDown
<1> QED BY <1>1, <1>3, <1>4, <1>5, <1>6, <1>7 DEF Silent, Telling

\* A launch or deletion, and what is around it, only touches what is its own,
\* createMu and the tables of the memory.
OfName(n) == <<claims[n], claimUIDs[n], groups[n], groupUIDs[n], cached[n],
               launch[n], deletion[n], delayed[n], vetted[n]>>

LEMMA OwnNameOnly ==
    ASSUME TypeInv, NEW n \in Names, NEW m \in Names, m # n, Silent(n) \/ Telling(n)
    PROVE  UNCHANGED OfName(m)
<1>t. /\ ClusterTypeOK
      /\ claims \in [Names -> Claim]
      /\ launch \in [Names -> Launch] /\ deletion \in [Names -> Deletion]
      /\ delayed \in [Names -> Group]
      /\ vetted \in [Names -> [quota : Nat, holdOut : Nat]]
  BY DEF TypeInv, TypeOK, ClusterTypeOK, LaunchTypeOK
<1>1. UNCHANGED <<claims[m], claimUIDs[m], groups[m], groupUIDs[m], cached[m]>>
  <2>0. CASE UNCHANGED cluster
    BY <2>0 DEF cluster
  <2>1. CASE \/ ClusterStep(n) \/ RemoveClaim(n) \/ DeleteGroup(n) \/ FinalizeGroup(n)
             \/ SyncCache(n)
             \/ \E uid, f : StoreLaunch(n, uid, f)
             \/ \E owner, f : CreateGroup(n, owner, f)
    BY <1>t, <2>1, OtherNamesKept
  <2>2. CASE ReturnInsufficientCapacity(n)
    BY <1>t, <2>2 DEF ReturnInsufficientCapacity
  <2> QED BY <2>0, <2>1, <2>2 DEF Silent, Telling, Create, Lock, LockRefused, resolveLaunch,
         ResolveFails, ResolveRefuses, FastFail, PassQuota, Adopt, PostCreates, PostConflicts,
         AdoptConflicting, LandDelayed, PollSees, PollAccepts, PollRefused, Free, FreeFails,
         Release, DeleteAccepted, ClusterSteps, Sync, TearDown, TakeMark, PostRefused, PostFails,
         ConflictFails, PollVanishes, PollRejected, PollTimeout, PollFails, FreedRejected,
         FreedRefused, Accept, Delete, DeleteNotFound, DeleteFails, DeleteReturns,
         ReturnLaunched, ReturnError
<1>2. UNCHANGED <<launch[m], deletion[m], delayed[m], vetted[m]>>
  <2>1. CASE (\E l : Goto(n, l)) \/ Return(n) \/ DeleteEnds(n) \/ UNCHANGED calls
    BY <1>t, <2>1 DEF Goto, Return, DeleteEnds, calls
  <2>2. CASE \/ Lock(n) \/ PassQuota(n) \/ (\E lost \in BOOLEAN : PostFails(n, lost))
             \/ LandDelayed(n) \/ Delete(n) \/ DeleteAccepted(n)
    BY <1>t, <2>2 DEF Lock, PassQuota, PostFails, LandDelayed, Delete, DeleteAccepted
  <2> QED BY <2>1, <2>2 DEF Silent, Telling, Create, LockRefused, resolveLaunch,
         ResolveFails, ResolveRefuses, FastFail, Adopt, PostCreates, PostConflicts,
         AdoptConflicting, PollSees, PollAccepts, PollRefused, Free, FreeFails,
         Release, ClusterSteps, Sync, TearDown, TakeMark, PostRefused,
         ConflictFails, PollVanishes, PollRejected, PollTimeout, PollFails, FreedRejected,
         FreedRefused, Accept, DeleteNotFound, DeleteFails, DeleteReturns,
         ReturnLaunched, ReturnError, ReturnInsufficientCapacity
<1> QED BY <1>1, <1>2 DEF OfName

\* What becomes of the group of n, and of its copy, ...
LEMMA OwnGroupAfter ==
    ASSUME TypeInv, NEW n \in Names, Silent(n) \/ Telling(n)
    PROVE  /\ \/ Kept(groups[n], groups'[n]) /\ UNCHANGED groupUIDs
              \/ TearDown(n) /\ groups'[n] = NoGroup /\ UNCHANGED groupUIDs
              \/ /\ \/ PostCreates(n) /\ CreateGroup(n, launch[n].uid, launch[n].flavor)
                    \/ LandDelayed(n) /\ CreateGroup(n, delayed[n].owner, delayed[n].flavor)
                 /\ ~Exists(groups[n])
                 /\ groups'[n].uid = groupUIDs[n] + 1
                 /\ groupUIDs'[n] = groupUIDs[n] + 1
           /\ cached'[n] = cached[n] \/ (Sync(n) /\ cached'[n] = groups[n])
<1>t. ClusterTypeOK
  BY DEF TypeInv, TypeOK
<1>0. ASSUME UNCHANGED <<groups, cached, groupUIDs>>
      PROVE  Kept(groups[n], groups'[n]) /\ UNCHANGED <<groupUIDs, cached>>
  BY <1>0 DEF Kept
<1>1. CASE \/ Create(n) \/ Lock(n) \/ LockRefused(n) \/ resolveLaunch(n) \/ ResolveFails(n)
           \/ PassQuota(n) \/ TakeMark(n) \/ Adopt(n) \/ PostConflicts(n)
           \/ (\E lost \in BOOLEAN : PostFails(n, lost))
           \/ AdoptConflicting(n) \/ ConflictFails(n)
           \/ PollSees(n) \/ PollAccepts(n) \/ PollRejected(n) \/ PollRefused(n)
           \/ PollFails(n) \/ FreeFails(n) \/ Delete(n) \/ DeleteReturns(n)
           \/ ResolveRefuses(n) \/ FastFail(n) \/ PostRefused(n) \/ PollVanishes(n)
           \/ FreedRejected(n) \/ FreedRefused(n) \/ PollTimeout(n) \/ Accept(n)
           \/ Release(n) \/ DeleteNotFound(n)
  <2>1. UNCHANGED <<groups, cached, groupUIDs>>
    BY <1>1 DEF Create, Lock, LockRefused, resolveLaunch, ResolveFails, PassQuota,
       TakeMark, Adopt, PostConflicts, PostFails, AdoptConflicting, ConflictFails, PollSees,
       PollAccepts, PollRejected, PollRefused, PollFails, FreeFails, Delete, DeleteReturns,
       ResolveRefuses, FastFail, PostRefused, PollVanishes, FreedRejected, FreedRefused,
       PollTimeout, Accept, Release, DeleteNotFound, RemoveClaim, ReturnLaunched, StoreLaunch,
       ReturnInsufficientCapacity, ReturnError, cluster
  <2> QED BY <1>0, <2>1
<1>2. CASE Free(n) \/ DeleteAccepted(n) \/ DeleteFails(n) \/ ClusterSteps(n)
  <2>1. UNCHANGED cluster \/ DeleteGroup(n) \/ ClusterStep(n)
    BY <1>2 DEF Free, DeleteAccepted, DeleteFails, ClusterSteps
  <2> QED BY <1>t, <1>0, <2>1, GroupsAfter DEF cluster
<1>3. CASE Sync(n)
  BY <1>t, <1>3 DEF Sync, SyncCache, ClusterTypeOK, Kept
<1>4. CASE TearDown(n)
  BY <1>t, <1>4, GroupsAfter DEF TearDown, FinalizeGroup
<1>5. CASE PostCreates(n)
  <2>1. CreateGroup(n, launch[n].uid, launch[n].flavor)
    BY <1>5 DEF PostCreates
  <2>2. UNCHANGED cached
    BY <2>1 DEF CreateGroup
  <2> QED BY <1>t, <1>5, <2>1, <2>2, GroupsAfter
<1>6. CASE LandDelayed(n)
  <2>1. CASE UNCHANGED cluster
    BY <1>0, <2>1 DEF cluster
  <2>2. CASE CreateGroup(n, delayed[n].owner, delayed[n].flavor)
    <3>1. UNCHANGED cached
      BY <2>2 DEF CreateGroup
    <3> QED BY <1>t, <1>6, <2>2, <3>1, GroupsAfter
  <2> QED BY <1>6, <2>1, <2>2 DEF LandDelayed
<1> QED BY <1>1, <1>2, <1>3, <1>4, <1>5, <1>6 DEF Silent, Telling

\* ... and so the flavors stay known.
LEMMA FlavorsKnownAfter ==
    ASSUME TypeInv, NEW n \in Names, Silent(n) \/ Telling(n)
    PROVE  FlavorsKnown'
<1>t. /\ ClusterTypeOK
      /\ launch \in [Names -> Launch] /\ launch[n] \in Launch
      /\ delayed \in [Names -> Group]
      /\ groups[n] \in Group /\ cached[n] \in Group
  BY DEF TypeInv, TypeOK, ClusterTypeOK, LaunchTypeOK
<1>k. /\ Exists(groups[n]) => groups[n].flavor \in Flavors
      /\ Exists(cached[n]) => cached[n].flavor \in Flavors
      /\ delayed[n] # NoGroup => delayed[n].flavor \in Flavors
      /\ Chosen(launch[n]) => launch[n].flavor \in Flavors
  BY DEF TypeInv, FlavorsKnown
<1>1. Exists(groups'[n]) => groups'[n].flavor \in Flavors
  <2>1. CASE Kept(groups[n], groups'[n])
    BY <1>k, <2>1 DEF Kept, Exists
  <2>2. CASE groups'[n] = NoGroup
    BY <2>2 DEF NoGroup, Exists
  <2>3. CASE PostCreates(n) /\ CreateGroup(n, launch[n].uid, launch[n].flavor)
    BY <1>t, <2>3, GroupsAfter, LaunchAssumption DEF PostCreates
  <2>4. CASE LandDelayed(n) /\ CreateGroup(n, delayed[n].owner, delayed[n].flavor)
    BY <1>t, <1>k, <2>4, GroupsAfter DEF LandDelayed
  <2> QED BY <2>1, <2>2, <2>3, <2>4, OwnGroupAfter
<1>2. Exists(cached'[n]) => cached'[n].flavor \in Flavors
  BY <1>k, OwnGroupAfter
<1>3. delayed'[n] # NoGroup => delayed'[n].flavor \in Flavors
  <2>1. CASE delayed'[n] = delayed[n]
    BY <1>k, <2>1
  <2>2. ASSUME NEW lost \in BOOLEAN, PostFails(n, lost), delayed'[n] # delayed[n]
        PROVE  delayed'[n].flavor \in Flavors
    <3> DEFINE late == [NoGroup EXCEPT !.owner = launch[n].uid, !.flavor = launch[n].flavor]
    <3>1. launch[n].flavor \in Admitted /\ delayed' = [delayed EXCEPT ![n] = late]
      BY <2>2 DEF PostFails
    <3>2. late.flavor = launch[n].flavor
      BY DEF NoGroup
    <3> HIDE DEF late
    <3> QED BY <1>t, <3>1, <3>2, LaunchAssumption
  <2>3. CASE LandDelayed(n)
    BY <1>t, <2>3 DEF LandDelayed
  <2>4. CASE (\E l : Goto(n, l)) \/ Return(n) \/ DeleteEnds(n) \/ UNCHANGED calls
             \/ Lock(n) \/ PassQuota(n) \/ Delete(n) \/ DeleteAccepted(n)
    BY <2>1, <2>4 DEF Goto, Return, DeleteEnds, calls, Lock, PassQuota, Delete, DeleteAccepted
  <2> QED BY <2>1, <2>2, <2>3, <2>4 DEF Silent, Telling, Create, LockRefused, resolveLaunch,
         ResolveFails, ResolveRefuses, FastFail, Adopt, PostCreates, PostConflicts,
         AdoptConflicting, PollSees, PollAccepts, PollRefused, Free, FreeFails,
         Release, ClusterSteps, Sync, TearDown, TakeMark, PostRefused,
         ConflictFails, PollVanishes, PollRejected, PollTimeout, PollFails, FreedRejected,
         FreedRefused, Accept, DeleteNotFound, DeleteFails, DeleteReturns,
         ReturnLaunched, ReturnError, ReturnInsufficientCapacity
<1>4. Chosen(launch'[n]) => launch'[n].flavor \in Flavors
  <2>0. CASE launch'[n] = launch[n]
    BY <1>k, <2>0
  <2>1. CASE launch'[n] = Idle
    BY <2>1 DEF Chosen, Locked, Idle
  <2>2. CASE Create(n)
    <3>1. launch'[n].pc = "waiting"
      BY <1>t, <2>2 DEF Create, Goto, Idle
    <3> QED BY <3>1 DEF Chosen, Locked
  <2>3. CASE Lock(n)
    <3>1. /\ launch'[n].adopting <=> Exists(groups[n])
          /\ launch'[n].pc = "resolving"
          /\ launch'[n].flavor = groups[n].flavor
      BY <1>t, <2>3 DEF Lock, Launch
    <3> QED BY <1>k, <3>1 DEF Chosen
  <2>4. CASE resolveLaunch(n)
    <3>1. PICK f : /\ f \in IF launch[n].adopting THEN {launch[n].flavor} ELSE Cheapest(Available(n))
                   /\ Goto(n, [launch[n] EXCEPT !.pc = "planned", !.flavor = f])
      BY <2>4 DEF resolveLaunch
    <3>2. f \in Flavors
      <4>1. launch[n].adopting => launch[n].flavor \in Flavors
        BY <1>k, <2>4 DEF resolveLaunch, Chosen, Locked
      <4> QED BY <3>1, <4>1, LaunchAssumption DEF Cheapest, Available
    <3>3. launch'[n].flavor = f
      BY <1>t, <3>1 DEF Goto, Launch
    <3> QED BY <3>2, <3>3
  <2>5. ASSUME launch'[n].flavor = launch[n].flavor, Chosen(launch[n])
        PROVE  Chosen(launch'[n]) => launch'[n].flavor \in Flavors
    BY <1>k, <2>5
  <2>6. CASE \/ PassQuota(n) \/ TakeMark(n) \/ Adopt(n) \/ PostCreates(n) \/ PostConflicts(n)
             \/ PollSees(n) \/ PollAccepts(n) \/ PollRejected(n) \/ Free(n) \/ FreeFails(n)
    <3>1. Chosen(launch[n])
      BY <2>6 DEF PassQuota, TakeMark, Adopt, Posts, PostCreates, PostConflicts, PollSees,
         PollAccepts, PollRejected, Polls, Free, FreeFails, Chosen, Locked
    <3>2. launch'[n].flavor = launch[n].flavor
      BY <1>t, <2>6 DEF PassQuota, TakeMark, Adopt, PostCreates, PostConflicts, PollSees,
         PollAccepts, PollRejected, Free, FreeFails, Goto, Launch
    <3> QED BY <2>5, <3>1, <3>2
  <2>7. CASE AdoptConflicting(n)
    BY <1>t, <1>k, <2>7 DEF AdoptConflicting, Goto, Launch
  <2>8. CASE PollRefused(n)
    <3>1. Exists(Polled(n))
      BY <2>8, DecisionIsOfGroup DEF PollRefused, Polls
    <3>2. Polled(n).flavor \in Flavors
      BY <1>k, <3>1 DEF Polled
    <3> QED BY <1>t, <2>8, <3>2 DEF PollRefused, Goto, Launch
  <2>9. CASE Return(n) \/ \E lost \in BOOLEAN : PostFails(n, lost)
    BY <1>t, <2>1, <2>9 DEF Return, PostFails
  <2>10. CASE DeleteEnds(n) \/ UNCHANGED calls \/ LandDelayed(n) \/ Delete(n)
              \/ DeleteAccepted(n)
    BY <2>0, <2>10 DEF DeleteEnds, calls, LandDelayed, Delete, DeleteAccepted
  <2> QED BY <2>2, <2>3, <2>4, <2>6, <2>7, <2>8, <2>9, <2>10 DEF Silent, Telling, LockRefused,
         ResolveFails, ResolveRefuses, FastFail, Release, ClusterSteps, Sync, TearDown,
         PostRefused, ConflictFails, PollVanishes, PollTimeout, PollFails, FreedRejected,
         FreedRefused, Accept, DeleteNotFound, DeleteFails, DeleteReturns,
         ReturnLaunched, ReturnError, ReturnInsufficientCapacity
<1>5. ASSUME NEW m \in Names, m # n
      PROVE  /\ Exists(groups'[m]) => groups'[m].flavor \in Flavors
             /\ Exists(cached'[m]) => cached'[m].flavor \in Flavors
             /\ delayed'[m] # NoGroup => delayed'[m].flavor \in Flavors
             /\ Chosen(launch'[m]) => launch'[m].flavor \in Flavors
  BY <1>5, OwnNameOnly DEF OfName, TypeInv, FlavorsKnown
<1> QED BY <1>1, <1>2, <1>3, <1>4, <1>5 DEF FlavorsKnown

LEMMA TypeInvInit == Init => TypeInv
<1> SUFFICES ASSUME Init PROVE TypeInv
  OBVIOUS
<1>1. ClusterTypeOK
  BY ClaimWritten, GroupWritten DEF Init, ClusterInit, ClusterTypeOK
<1>2. MemoryTypeOK
  BY MemoryTypeInit DEF Init
<1>3. LaunchTypeOK
  BY LaunchWritten, GroupWritten DEF Init, LaunchTypeOK, NoDeletion, Deletion
<1>4. FlavorsKnown
  BY DEF Init, ClusterInit, FlavorsKnown, NoGroup, Exists, Idle, Chosen, Locked
<1> QED BY <1>1, <1>2, <1>3, <1>4 DEF TypeInv, TypeOK

LEMMA TypeInvStep == TypeInv /\ [SystemNext]_vars => TypeInv'
<1> SUFFICES ASSUME TypeInv, [SystemNext]_vars PROVE TypeInv'
  OBVIOUS
<1>t. ClusterTypeOK /\ LaunchTypeOK /\ MemoryTypeOK /\ FlavorsKnown
  BY DEF TypeInv, TypeOK
<1>m. MemoryTypeOK'
  BY <1>t, SystemUsesMemory, MemoryTypeStep
<1>1. ASSUME NEW n \in Names, Silent(n) \/ Telling(n) PROVE TypeInv'
  BY <1>1, <1>m, ClusterTypeAfter, LaunchTypeStep, FlavorsKnownAfter DEF TypeInv, TypeOK
<1>2. ASSUME UNCHANGED <<cluster, calls>> PROVE TypeInv'
  <2>1. UNCHANGED <<claims, groups, cached, claimUIDs, groupUIDs,
                    createMu, launch, deletion, delayed, vetted>>
    BY <1>2 DEF cluster, calls
  <2>2. ClusterTypeOK' /\ LaunchTypeOK'
    BY <1>t, <2>1 DEF ClusterTypeOK, LaunchTypeOK
  <2>3. FlavorsKnown'
    BY <1>t, <2>1 DEF FlavorsKnown
  <2> QED BY <1>m, <2>2, <2>3 DEF TypeInv, TypeOK
<1>3. CASE RestartProcess
  <2>1. ClusterTypeOK'
    BY <1>t, <1>3 DEF RestartProcess, ClusterTypeOK
  <2>2. LaunchTypeOK'
    BY <1>t, <1>3, LaunchWritten DEF RestartProcess, LaunchTypeOK, NoDeletion, Deletion
  <2>3. FlavorsKnown'
    BY <1>t, <1>3 DEF RestartProcess, FlavorsKnown, Chosen, Locked, Idle
  <2> QED BY <1>m, <2>1, <2>2, <2>3 DEF TypeInv, TypeOK
<1>4. ASSUME NEW f \in Flavors, LateRefusal(f) PROVE TypeInv'
  BY <1>2, <1>4 DEF LateRefusal
<1>5. CASE UNCHANGED vars
  BY <1>2, <1>5 DEF vars
<1> QED BY <1>1, <1>2, <1>3, <1>4, <1>5, SystemSteps

\* Next is part of SystemNext, and so is what LaunchFollowUp lets happen to the
\* variables of NodeGroupLaunch.
LEMMA NextIsSystemNext == [Next]_vars => [SystemNext]_vars
  BY DEF SystemNext

\* The state of the cluster, the memory, the launches and the deletions is what
\* the code and the API can hold.
THEOREM LaunchTypeCorrect == Spec => []TypeOK
<1>1. TypeInv => TypeOK
  BY DEF TypeInv
<1> QED BY <1>1, TypeInvInit, TypeInvStep, NextIsSystemNext, PTL DEF Spec

-----------------------------------------------------------------------------
(***************************************************************************)
(* What holds whenever the controller of module LaunchFollowUp is beside   *)
(* the launches.  The group it has read is one of the catalogue, and the   *)
(* claim it is about to delete is one whose launch is followed.            *)
(***************************************************************************)

FollowUpKnows ==
    /\ followUp.pc \in {"claim", "delete", "record"} => followUp.group.flavor \in Flavors
    /\ followUp.pc = "delete" => Followed(followUp.claim)

FollowUpInv == TypeInv /\ followUp \in FollowUp /\ FollowUpKnows

LEMMA FollowUpSystemStep ==
    ASSUME FollowUpInv, [FollowUpNext]_followVars
    PROVE  [SystemNext]_vars
<1>1. CASE UNCHANGED followVars
  BY <1>1 DEF followVars
<1>2. ASSUME NEW n \in Names, FollowUpStep(n) PROVE [SystemNext]_vars
  <2>1. CASE FailLaunch(n)
    <3>1. ClusterSteps(n)
      BY <2>1 DEF FailLaunch, ClusterSteps, ClusterStep
    <3> QED BY <3>1 DEF SystemNext, Next
  <2>2. CASE RecordLateRefusal(n)
    <3>1. followUp.group.flavor \in Flavors
      BY <2>2 DEF RecordLateRefusal, FollowUpInv, FollowUpKnows
    <3>2. LateRefusal(followUp.group.flavor)
      BY <2>2 DEF RecordLateRefusal, LateRefusal
    <3> QED BY <3>1, <3>2 DEF SystemNext
  <2>3. CASE Reconcile(n) \/ ConfirmGroup(n) \/ ConfirmClaim(n) \/ FailLaunchRefused(n)
    BY <2>3 DEF Reconcile, ConfirmGroup, ConfirmClaim, FailLaunchRefused
  <2> QED BY <1>2, <2>1, <2>2, <2>3 DEF FollowUpStep
<1>3. CASE LaunchNext \/ RestartProcess
  BY <1>3 DEF LaunchNext, SystemNext, Next
<1> QED BY <1>1, <1>2, <1>3 DEF FollowUpNext

LEMMA FollowUpInvInit == Init /\ followUp = NoFollowUp => FollowUpInv
<1> SUFFICES ASSUME Init, followUp = NoFollowUp PROVE FollowUpInv
  OBVIOUS
<1>1. followUp \in FollowUp
  BY GroupWritten, ClaimWritten DEF NoFollowUp, FollowUp
<1> QED BY <1>1, TypeInvInit DEF FollowUpInv, FollowUpKnows, NoFollowUp

LEMMA FollowUpInvStep == FollowUpInv /\ [FollowUpNext]_followVars => FollowUpInv'
<1> SUFFICES ASSUME FollowUpInv, [FollowUpNext]_followVars PROVE FollowUpInv'
  OBVIOUS
<1>t. TypeInv'
  BY FollowUpSystemStep, TypeInvStep DEF FollowUpInv
<1>k. /\ followUp \in FollowUp /\ FollowUpKnows
      /\ claims \in [Names -> Claim] /\ groups \in [Names -> Group]
  BY DEF FollowUpInv, TypeInv, TypeOK, ClusterTypeOK
<1>0. CASE UNCHANGED followUp
  BY <1>t, <1>k, <1>0 DEF FollowUpInv, FollowUpKnows
<1>1. CASE Done
  <2>1. followUp' \in FollowUp
    BY <1>1, GroupWritten, ClaimWritten DEF Done, NoFollowUp, FollowUp
  <2> QED BY <1>t, <1>1, <2>1 DEF Done, NoFollowUp, FollowUpInv, FollowUpKnows
<1>2. ASSUME NEW n \in Names, Reconcile(n) PROVE FollowUpInv'
  <2>1. followUp' \in FollowUp
    BY <1>2, GroupWritten, ClaimWritten DEF Reconcile, NoFollowUp, FollowUp
  <2>2. followUp'.pc = "group"
    BY <1>2 DEF Reconcile, NoFollowUp
  <2> QED BY <1>t, <2>1, <2>2 DEF FollowUpInv, FollowUpKnows
<1>3. ASSUME NEW n \in Names, ConfirmGroup(n), ~Done PROVE FollowUpInv'
  <2>1. Failed(groups[n]) /\ followUp' = [followUp EXCEPT !.pc = "claim", !.group = groups[n]]
    BY <1>3 DEF ConfirmGroup
  <2>2. followUp' \in FollowUp /\ followUp'.pc = "claim" /\ followUp'.group = groups[n]
    BY <1>k, <2>1 DEF FollowUp
  <2>3. groups[n].flavor \in Flavors
    BY <2>1 DEF Failed, FollowUpInv, TypeInv, FlavorsKnown
  <2> QED BY <1>t, <2>2, <2>3 DEF FollowUpInv, FollowUpKnows
<1>4. ASSUME NEW n \in Names, ConfirmClaim(n), ~Done PROVE FollowUpInv'
  <2>1. /\ Followed(claims[n]) /\ followUp.pc = "claim"
        /\ followUp' = [followUp EXCEPT !.pc = "delete", !.claim = claims[n]]
    BY <1>4 DEF ConfirmClaim
  <2>2. /\ followUp' \in FollowUp /\ followUp'.pc = "delete"
        /\ followUp'.claim = claims[n] /\ followUp'.group = followUp.group
    BY <1>k, <2>1 DEF FollowUp
  <2> QED BY <1>t, <1>k, <2>1, <2>2 DEF FollowUpInv, FollowUpKnows
<1>5. ASSUME NEW n \in Names, FailLaunch(n), ~Done PROVE FollowUpInv'
  <2>1. followUp.pc = "delete" /\ followUp' = [followUp EXCEPT !.pc = "record"]
    BY <1>5 DEF FailLaunch
  <2>2. /\ followUp' \in FollowUp /\ followUp'.pc = "record"
        /\ followUp'.group = followUp.group
    BY <1>k, <2>1 DEF FollowUp
  <2> QED BY <1>t, <1>k, <2>1, <2>2 DEF FollowUpInv, FollowUpKnows
<1>6. ASSUME NEW n \in Names, FailLaunchRefused(n) \/ RecordLateRefusal(n) PROVE Done
  BY <1>6 DEF FailLaunchRefused, RecordLateRefusal
<1> QED BY <1>0, <1>1, <1>2, <1>3, <1>4, <1>5, <1>6 DEF FollowUpNext, FollowUpStep, followVars

\* The state stays typed beside the controller, and so does what it has read.
THEOREM FollowUpTypeCorrect == FollowUpSpec => []FollowUpTypeOK
<1>1. FollowUpInv => FollowUpTypeOK
  BY DEF FollowUpInv, FollowUpTypeOK, TypeInv
<1> QED BY <1>1, FollowUpInvInit, FollowUpInvStep, PTL DEF FollowUpSpec

-----------------------------------------------------------------------------
(***************************************************************************)
(* The memory of refusals.  Launches, deletions and the controller use it  *)
(* as RefusalMemory lets its callers, so what RefusalMemoryProofs shows of *)
(* it holds here: the order of the sequence numbers, the larger flavors    *)
(* waiting for the smaller, and both tables being ledgers.                 *)
(***************************************************************************)

\* Launches and deletions forget a refusal only for what they know to answer it.
THEOREM LaunchesUseMemory == Spec => UsesRefusalMemory
<1>1. Init => MemoryInit
  BY DEF Init
<1>2. TypeInv /\ [Next]_vars => [MemoryNext]_memory
  BY NextIsSystemNext, SystemUsesMemory
<1> QED BY <1>1, <1>2, TypeInvInit, TypeInvStep, NextIsSystemNext, PTL
        DEF Spec, UsesRefusalMemory, MemorySpec

\* So do they and the controller, which records refusals without createMu.
THEOREM FollowUpUsesMemory == FollowUpSpec => UsesRefusalMemory
<1>1. Init => MemoryInit
  BY DEF Init
<1>2. FollowUpInv /\ [FollowUpNext]_followVars => [MemoryNext]_memory
  BY FollowUpSystemStep, SystemUsesMemory DEF FollowUpInv
<1> QED BY <1>1, <1>2, FollowUpInvInit, FollowUpInvStep, PTL
        DEF FollowUpSpec, UsesRefusalMemory, MemorySpec

\* So a late refusal recorded while a DELETE or a create call is on its way
\* survives its answer, and larger flavors wait for smaller ones, in the whole
\* provider.
THEOREM FollowUpRemembers ==
    FollowUpSpec => QuotaRejectionsLedger /\ HoldOutsLedger /\ []LargerFlavorsWait
  BY FollowUpUsesMemory, QuotaRejectionsImplementLedger, HoldOutsImplementLedger,
     LargerFlavorsAlwaysWait DEF UsesRefusalMemory

\* "A claim that registered ... since that read is left alone": the deletion is
\* pinned to the claim that was read, which was not registered.
THEOREM RegisteredClaimsSpared == FollowUpSpec => SparesRegisteredClaims
<1> DEFINE Spares(n) ==
      /\ followUp.pc = "delete" /\ followUp' # followUp
      /\ ~claims[n].deleting /\ claims[n].deleting'
      => ~claims[n].registered
<1>1. ASSUME FollowUpInv, [FollowUpNext]_followVars
      PROVE  [\A n \in Names : Spares(n)]_followVars
  <2> SUFFICES ASSUME NEW n \in Names, followUp.pc = "delete", followUp' # followUp,
                      ~claims[n].deleting, claims[n].deleting'
               PROVE  ~claims[n].registered
    OBVIOUS
  <2>1. followUp.pc = "delete" => Followed(followUp.claim)
    BY <1>1 DEF FollowUpInv, FollowUpKnows
  <2>2. claims \in [Names -> Claim]
    BY <1>1 DEF FollowUpInv, TypeInv, TypeOK, ClusterTypeOK
  <2>3. ASSUME NEW m \in Names, FollowUpStep(m) PROVE ~claims[n].registered
    <3>1. FailLaunch(m)
      BY <2>3 DEF FollowUpStep, Reconcile, ConfirmGroup, ConfirmClaim, FailLaunchRefused,
                  RecordLateRefusal, vars, cluster
    <3>2. m = n
      BY <2>2, <3>1 DEF FailLaunch, DeleteClaim
    <3> QED BY <2>1, <3>1, <3>2 DEF FailLaunch, Followed
  <2>4. ~RestartProcess
    BY DEF RestartProcess
  <2> QED BY <1>1, <2>3, <2>4 DEF FollowUpNext, followVars
<1> QED BY <1>1, FollowUpInvInit, FollowUpInvStep, PTL DEF FollowUpSpec, SparesRegisteredClaims

-----------------------------------------------------------------------------
(***************************************************************************)
(* createMu and the marks.  With the types, inductive.                     *)
(***************************************************************************)

LEMMA MarksWritten ==
    ASSUME MemoryTypeOK, NEW n \in Names
    PROVE  /\ LaunchEnds(n) => /\ launchMark' = [launchMark EXCEPT ![n] = NoMark]
                               /\ UNCHANGED deleteMark
           /\ \A f : LaunchRefused(n, f) \/ LaunchVanished(n, f) \/ LaunchAccepted(n, f)
                => /\ launchMark' = [launchMark EXCEPT ![n] = NoMark]
                   /\ UNCHANGED deleteMark
           /\ MarkLaunch(n) => /\ launchMark' = [launchMark EXCEPT ![n] = holdOutSeq]
                               /\ UNCHANGED deleteMark
           /\ SendDelete(n) => /\ deleteMark' = [deleteMark EXCEPT ![n] = quotaRejectionSeq]
                               /\ UNCHANGED launchMark
           /\ DeleteClears(n) \/ DeleteKeeps(n)
                => /\ deleteMark' = [deleteMark EXCEPT ![n] = NoMark]
                   /\ UNCHANGED launchMark
           /\ \A f : QuotaRejected(f) \/ FlavorRefused(f)
                => UNCHANGED <<launchMark, deleteMark>>
  BY DEF LaunchEnds, LaunchRefused, LaunchVanished, LaunchAccepted, MarkLaunch, SendDelete,
         DeleteClears, DeleteKeeps, QuotaRejected, FlavorRefused

\* One name's share of LocksAndMarks.
LockAndMark(m) ==
    /\ Locked(launch[m]) <=> createMu = m
    /\ launchMark[m] # NoMark <=> launch[m].pc \in Marked
    /\ deleteMark[m] # NoMark <=> deletion[m].step # "none"
    /\ deletion[m].step # "none" => launch[m].pc = "idle"

\* The steps of n set its own marks, and take or leave createMu for it.
LEMMA OwnLockAndMark ==
    ASSUME TypeInv, LocksAndMarks, NEW n \in Names, Silent(n) \/ Telling(n)
    PROVE  /\ LockAndMark(n)'
           /\ \A m \in Names \ {n} :
                 /\ createMu' = m <=> createMu = m
                 /\ launchMark'[m] = launchMark[m]
                 /\ deleteMark'[m] = deleteMark[m]
<1> DEFINE Others == \A m \in Names \ {n} : /\ createMu' = m <=> createMu = m
                                            /\ launchMark'[m] = launchMark[m]
                                            /\ deleteMark'[m] = deleteMark[m]
<1>t. /\ MemoryTypeOK
      /\ n \in Callers /\ Names \subseteq Callers
      /\ launchMark \in [Callers -> Nat \cup {NoMark}]
      /\ deleteMark \in [Callers -> Nat \cup {NoMark}]
      /\ quotaRejectionSeq \in Nat /\ holdOutSeq \in Nat
      /\ quotaRejectionSeq # NoMark /\ holdOutSeq # NoMark
      /\ launch \in [Names -> Launch] /\ launch[n] \in Launch
      /\ deletion \in [Names -> Deletion] /\ deletion[n] \in Deletion
      /\ Nobody \notin Names
  BY LaunchAssumption DEF TypeInv, TypeOK, MemoryTypeOK, LaunchTypeOK, NoMark
<1>k. LockAndMark(n)
  BY DEF LocksAndMarks, LockAndMark
<1>1. ASSUME UNCHANGED <<createMu, deletion, launchMark, deleteMark>>,
             Locked(launch[n]) <=> Locked(launch'[n]),
             launch[n].pc \in Marked <=> launch'[n].pc \in Marked,
             launch[n].pc = "idle" <=> launch'[n].pc = "idle"
      PROVE  LockAndMark(n)' /\ Others
  BY <1>k, <1>1 DEF LockAndMark
<1>2. CASE \/ resolveLaunch(n) \/ PassQuota(n) \/ Adopt(n) \/ PostCreates(n)
           \/ PostConflicts(n) \/ AdoptConflicting(n) \/ PollAccepts(n) \/ PollRejected(n)
           \/ PollRefused(n) \/ Free(n) \/ FreeFails(n)
  <2>1. UNCHANGED <<createMu, deletion, launchMark, deleteMark>>
    BY <1>t, <1>2, MarksWritten DEF resolveLaunch, PassQuota, Adopt, PostCreates,
       PostConflicts, AdoptConflicting, PollAccepts, PollRejected, PollRefused, Free,
       FreeFails, Goto, memory
  <2>2. CASE resolveLaunch(n) \/ PassQuota(n)
    <3>1. launch[n].pc \in {"resolving", "planned"}
      BY <2>2 DEF resolveLaunch, PassQuota
    <3>2. CASE resolveLaunch(n)
      <4>1. launch'[n].pc = "planned"
        BY <1>t, <3>2 DEF resolveLaunch, Goto, Launch
      <4> QED BY <1>1, <2>1, <3>1, <4>1 DEF Locked, Marked
    <3>3. CASE PassQuota(n)
      <4>1. launch'[n].pc = "unmarked"
        BY <1>t, <3>3 DEF PassQuota, Launch
      <4> QED BY <1>1, <2>1, <3>1, <4>1 DEF Locked, Marked
    <3> QED BY <2>2, <3>2, <3>3
  <2>3. CASE \/ Adopt(n) \/ PostCreates(n)
             \/ PostConflicts(n) \/ AdoptConflicting(n) \/ PollAccepts(n) \/ PollRejected(n)
             \/ PollRefused(n) \/ Free(n) \/ FreeFails(n)
    <3>1. launch[n].pc \in Marked
      BY <2>3 DEF Adopt, PostCreates, Posts,
       PostConflicts, AdoptConflicting, PollAccepts, PollRejected, PollRefused, Free,
       FreeFails, Polls, Marked
    <3>2. launch'[n].pc \in Marked
      <4>1. CASE AdoptConflicting(n)
        BY <1>t, <4>1 DEF AdoptConflicting, Goto, Launch, Marked
      <4>2. CASE PollRefused(n)
        BY <1>t, <4>2 DEF PollRefused, Goto, Launch, Marked
      <4>3. CASE \/ Adopt(n) \/ PostCreates(n) \/ PostConflicts(n) \/ PollAccepts(n)
                 \/ PollRejected(n) \/ Free(n) \/ FreeFails(n)
        <5>1. PICK pc \in Marked \cap Steps :
                 \/ Goto(n, [launch[n] EXCEPT !.pc = pc])
                 \/ Goto(n, [launch[n] EXCEPT !.pc = pc, !.seen = TRUE])
                 \/ Goto(n, [launch[n] EXCEPT !.pc = pc, !.quota = TRUE])
          BY <4>3 DEF Adopt, PostCreates, PostConflicts, PollAccepts, PollRejected, Free,
             FreeFails, Marked, Steps
        <5> QED BY <5>1, GotoStep DEF TypeInv, TypeOK
      <4> QED BY <2>3, <4>1, <4>2, <4>3
    <3> QED BY <1>1, <2>1, <3>1, <3>2 DEF Locked, Marked
  <2> QED BY <1>2, <2>2, <2>3
<1>3. CASE PollSees(n)
  <2>1. launch'[n].pc = launch[n].pc
    BY <1>t, <1>3 DEF PollSees, Goto, Launch
  <2> QED BY <1>1, <1>3, <2>1 DEF PollSees, Goto, memory, Locked
<1>4. CASE \/ LandDelayed(n) \/ Release(n) \/ ClusterSteps(n) \/ Sync(n) \/ TearDown(n)
  BY <1>1, <1>4 DEF LandDelayed, Release, ClusterSteps, Sync, TearDown, memory, calls
<1>5. CASE Create(n)
  <2>1. launch[n].pc = "idle" /\ launch'[n].pc = "waiting" /\ deletion[n].step = "none"
    BY <1>t, <1>5 DEF Create, Goto, Idle
  <2>2. UNCHANGED <<createMu, deletion, launchMark, deleteMark>>
    BY <1>5 DEF Create, Goto, memory
  <2> QED BY <1>k, <2>1, <2>2 DEF LockAndMark, Locked, Marked
<1>6. CASE Lock(n)
  <2>1. launch[n].pc = "waiting" /\ launch'[n].pc = "resolving"
    BY <1>t, <1>6 DEF Lock, Launch
  <2>2. /\ createMu = Nobody /\ createMu' = n
        /\ UNCHANGED <<deletion, launchMark, deleteMark>>
    BY <1>6 DEF Lock, memory
  <2> QED BY <1>t, <1>k, <2>1, <2>2 DEF LockAndMark, Locked, Marked
<1>7. ASSUME Return(n), UNCHANGED deleteMark, createMu \in {n, Nobody},
             launch[n].pc # "idle",
             \/ launch[n].pc \notin Marked /\ UNCHANGED launchMark
             \/ launchMark' = [launchMark EXCEPT ![n] = NoMark]
      PROVE  LockAndMark(n)' /\ Others
  <2>1. /\ createMu' = Nobody /\ UNCHANGED deletion /\ launch'[n].pc = "idle"
    BY <1>t, <1>7 DEF Return, Idle
  <2>2. launchMark'[n] = NoMark
    BY <1>t, <1>k, <1>7 DEF LockAndMark
  <2>3. Others
    BY <1>t, <1>7, <2>1
  <2> QED BY <1>t, <1>k, <1>7, <2>1, <2>2, <2>3 DEF LockAndMark, Locked, Marked
<1>8. CASE LockRefused(n) \/ ResolveFails(n) \/ ResolveRefuses(n) \/ FastFail(n)
  <2>1. Return(n) /\ UNCHANGED <<launchMark, deleteMark>>
    BY <1>8 DEF LockRefused, ResolveFails, ResolveRefuses, FastFail, ReturnError,
                ReturnInsufficientCapacity, memory
  <2>2. /\ launch[n].pc \in {"waiting", "resolving", "planned"}
        /\ launch[n].pc = "waiting" => createMu = Nobody
    BY <1>8 DEF LockRefused, ResolveFails, ResolveRefuses, FastFail
  <2>3. createMu \in {n, Nobody}
    BY <1>k, <2>2 DEF LockAndMark, Locked
  <2> QED BY <1>7, <2>1, <2>2, <2>3 DEF Marked
<1>9. CASE \/ PostRefused(n) \/ ConflictFails(n) \/ PollVanishes(n) \/ PollTimeout(n)
           \/ PollFails(n) \/ FreedRejected(n) \/ FreedRefused(n) \/ Accept(n)
  <2>1. Return(n)
    BY <1>9 DEF PostRefused, ConflictFails, PollVanishes, PollTimeout, PollFails,
       FreedRejected, FreedRefused, Accept, ReturnError, ReturnInsufficientCapacity,
       ReturnLaunched
  <2>2. launchMark' = [launchMark EXCEPT ![n] = NoMark] /\ UNCHANGED deleteMark
    BY <1>t, <1>9, MarksWritten DEF PostRefused, ConflictFails, PollVanishes, PollTimeout,
       PollFails, FreedRejected, FreedRefused, Accept
  <2>3. launch[n].pc \in Marked
    BY <1>9 DEF PostRefused, ConflictFails, PollVanishes, PollTimeout, PollFails,
       FreedRejected, FreedRefused, Accept, Posts, Polls, Marked
  <2>4. createMu = n /\ launch[n].pc # "idle"
    BY <1>k, <2>3 DEF LockAndMark, Locked, Marked
  <2> QED BY <1>7, <2>1, <2>2, <2>4
<1>10. ASSUME NEW lost \in BOOLEAN, PostFails(n, lost) PROVE LockAndMark(n)' /\ Others
  <2>1. /\ createMu' = Nobody /\ UNCHANGED deletion /\ launch'[n].pc = "idle"
        /\ launch[n].pc = "posting"
    BY <1>t, <1>10 DEF PostFails, Posts, Idle
  <2>2. launchMark' = [launchMark EXCEPT ![n] = NoMark] /\ UNCHANGED deleteMark
    BY <1>t, <1>10, MarksWritten DEF PostFails
  <2>3. createMu = n
    BY <1>k, <2>1 DEF LockAndMark, Locked
  <2>4. Others
    BY <1>t, <2>1, <2>2, <2>3
  <2> QED BY <1>t, <1>k, <2>1, <2>2, <2>3, <2>4 DEF LockAndMark, Locked, Marked
<1>11. CASE TakeMark(n)
  <2>1. /\ launch[n].pc = "unmarked" /\ launch'[n].pc = "posting"
        /\ UNCHANGED <<createMu, deletion>>
    BY <1>t, <1>11 DEF TakeMark, Goto, Launch
  <2>2. launchMark' = [launchMark EXCEPT ![n] = holdOutSeq] /\ UNCHANGED deleteMark
    BY <1>t, <1>11, MarksWritten DEF TakeMark
  <2> QED BY <1>t, <1>k, <2>1, <2>2 DEF LockAndMark, Locked, Marked
<1>12. CASE Delete(n)
  <2>1. /\ launch[n].pc = "idle" /\ deletion'[n].step = "sent"
        /\ UNCHANGED <<createMu, launch>>
    BY <1>t, <1>12 DEF Delete, Terminating
  <2>2. deleteMark' = [deleteMark EXCEPT ![n] = quotaRejectionSeq] /\ UNCHANGED launchMark
    BY <1>t, <1>12, MarksWritten DEF Delete
  <2> QED BY <1>t, <1>k, <2>1, <2>2 DEF LockAndMark
<1>13. CASE DeleteAccepted(n)
  <2>1. deletion[n].step = "sent" /\ deletion'[n].step = "accepted"
    BY <1>t, <1>13 DEF DeleteAccepted, Deletion
  <2>2. UNCHANGED <<createMu, launch, launchMark, deleteMark>>
    BY <1>13 DEF DeleteAccepted, memory
  <2> QED BY <1>k, <2>1, <2>2 DEF LockAndMark
<1>14. CASE DeleteNotFound(n) \/ DeleteFails(n) \/ DeleteReturns(n)
  <2>1. /\ deletion[n].step # "none" /\ deletion'[n].step = "none"
        /\ UNCHANGED <<createMu, launch>>
    BY <1>t, <1>14 DEF DeleteNotFound, DeleteFails, DeleteReturns, DeleteEnds, NoDeletion
  <2>2. deleteMark' = [deleteMark EXCEPT ![n] = NoMark] /\ UNCHANGED launchMark
    BY <1>t, <1>14, MarksWritten DEF DeleteNotFound, DeleteFails, DeleteReturns
  <2> QED BY <1>t, <1>k, <2>1, <2>2 DEF LockAndMark
<1> QED BY <1>2, <1>3, <1>4, <1>5, <1>6, <1>8, <1>9, <1>10, <1>11, <1>12, <1>13, <1>14
           DEF Silent, Telling


LEMMA LocksAndMarksInit == Init => LocksAndMarks
<1> SUFFICES ASSUME Init PROVE LocksAndMarks
  OBVIOUS
<1>1. \A n \in Names : n \in Callers /\ n # Nobody
  BY LaunchAssumption
<1> QED BY <1>1 DEF Init, MemoryInit, LocksAndMarks, Idle, NoDeletion, Locked, Marked

LEMMA LocksAndMarksStep == TypeInv /\ LocksAndMarks /\ [SystemNext]_vars => LocksAndMarks'
<1> SUFFICES ASSUME TypeInv, LocksAndMarks, [SystemNext]_vars PROVE LocksAndMarks'
  OBVIOUS
<1>k. \A m \in Names : LockAndMark(m)
  BY DEF LocksAndMarks, LockAndMark
<1>1. ASSUME NEW n \in Names, Silent(n) \/ Telling(n) PROVE LocksAndMarks'
  <2>1. LockAndMark(n)'
    BY <1>1, OwnLockAndMark
  <2>2. ASSUME NEW m \in Names \ {n} PROVE LockAndMark(m)'
    <3>1. UNCHANGED OfName(m)
      BY <1>1, <2>2, OwnNameOnly
    <3>2. /\ createMu' = m <=> createMu = m
          /\ launchMark'[m] = launchMark[m]
          /\ deleteMark'[m] = deleteMark[m]
      BY <1>1, <2>2, OwnLockAndMark
    <3>3. LockAndMark(m) /\ launch'[m] = launch[m] /\ deletion'[m] = deletion[m]
      BY <1>k, <3>1 DEF OfName
    <3> QED BY <3>2, <3>3 DEF LockAndMark
  <2>3. \A m \in Names : LockAndMark(m)'
    BY <2>1, <2>2
  <2> QED BY <2>3 DEF LocksAndMarks, LockAndMark
<1>2. ASSUME UNCHANGED <<calls, launchMark, deleteMark>> PROVE LocksAndMarks'
  BY <1>2 DEF LocksAndMarks, calls
<1>3. CASE \/ Tick /\ UNCHANGED <<cluster, calls>>
           \/ \E f \in Flavors : LateRefusal(f)
  BY <1>2, <1>3 DEF Tick, LateRefusal, QuotaRejected, FlavorRefused
<1>4. CASE RestartProcess
  <2>1. \A m \in Names : m \in Callers /\ m # Nobody
    BY LaunchAssumption
  <2> QED BY <1>4, <2>1 DEF RestartProcess, Restart, LocksAndMarks, Idle, NoDeletion, Locked,
                            Marked
<1>5. CASE UNCHANGED vars
  BY <1>2, <1>5 DEF vars, memory
<1> QED BY <1>1, <1>3, <1>4, <1>5, SystemSteps

\* createMu is held through every step from the decision what to launch to the
\* operator's verdict, and a mark is alive exactly while its call is, ...
THEOREM LocksAndMarksHold == Spec => []LocksAndMarks
  BY TypeInvInit, TypeInvStep, LocksAndMarksInit, LocksAndMarksStep, NextIsSystemNext, PTL
     DEF Spec

\* ... whatever the controller does beside the launches.
THEOREM FollowUpLocksAndMarks == FollowUpSpec => []LocksAndMarks
<1>1. FollowUpInv => TypeInv
  BY DEF FollowUpInv
<1> QED BY <1>1, FollowUpInvInit, FollowUpInvStep, FollowUpSystemStep, LocksAndMarksInit,
           LocksAndMarksStep, PTL DEF FollowUpSpec

-----------------------------------------------------------------------------
(***************************************************************************)
(* What a launch has seen of the refusals when it posts.  As long as the   *)
(* process runs a table only gains refusals with higher sequence numbers,  *)
(* so what condemns the flavor chosen is later than the check it passed.   *)
(***************************************************************************)

LEMMA MemoryGrows ==
    ASSUME MemoryTypeOK, [RemembersNext]_memory
    PROVE  /\ quotaRejectionSeq' >= quotaRejectionSeq /\ holdOutSeq' >= holdOutSeq
           /\ \A f : \A h \in HoldingOut(f)' : h \in HoldingOut(f) \/ h.seq > holdOutSeq
           /\ \A f : \A r \in Covering(f)' : r \in Covering(f) \/ r.seq > quotaRejectionSeq
<1>t. /\ now \in Nat /\ quotaRejectionSeq \in Nat /\ holdOutSeq \in Nat
      /\ \A h \in rejectedFlavors : h.at \in Nat
      /\ \A r \in quotaRejections : r.at \in Nat
  BY DEF MemoryTypeOK, Entry
<1> DEFINE Grows ==
      /\ now' \in Nat /\ now' >= now
      /\ quotaRejectionSeq' >= quotaRejectionSeq /\ holdOutSeq' >= holdOutSeq
      /\ \A h \in rejectedFlavors' : h \in rejectedFlavors \/ h.seq > holdOutSeq
      /\ \A r \in quotaRejections' : r \in quotaRejections \/ r.seq > quotaRejectionSeq
<1>1. Grows
  <2>0. CASE UNCHANGED memory
    BY <1>t, <2>0 DEF memory, tables
  <2>1. CASE \/ Tick
             \/ \E c \in Callers : SendDelete(c) \/ DeleteClears(c) \/ DeleteKeeps(c)
                                   \/ MarkLaunch(c) \/ LaunchEnds(c)
                                   \/ \E f \in Flavors : LaunchAccepted(c, f)
    BY <1>t, <2>1 DEF Tick, SendDelete, DeleteClears, DeleteKeeps, MarkLaunch, LaunchEnds,
       LaunchAccepted, clearQuotaRejections, clearFlavorRejection, tables
  <2>2. ASSUME NEW f \in Flavors, UNCHANGED now, recordQuotaRejection(f)
        PROVE  Grows
    BY <1>t, <2>2 DEF recordQuotaRejection, Put
  <2>3. ASSUME NEW f \in Flavors, UNCHANGED now, recordFlavorRejection(f)
        PROVE  Grows
    BY <1>t, <2>3 DEF recordFlavorRejection, Put
  <2> QED BY <2>0, <2>1, <2>2, <2>3 DEF RemembersNext, CallerStep, LaunchRefused,
             LaunchVanished, QuotaRejected, FlavorRefused
<1>2. ASSUME NEW f, NEW h \in HoldingOut(f)' PROVE h \in HoldingOut(f) \/ h.seq > holdOutSeq
  BY <1>t, <1>1, <1>2, BackoffAssumption DEF HoldingOut
<1>3. ASSUME NEW f, NEW r \in Covering(f)'
      PROVE  r \in Covering(f) \/ r.seq > quotaRejectionSeq
  BY <1>t, <1>1, <1>3, BackoffAssumption DEF Covering, CoveredUntil
<1> QED BY <1>1, <1>2, <1>3


VettedOf(m) ==
    /\ vetted[m].quota <= quotaRejectionSeq
    /\ vetted[m].holdOut <= holdOutSeq
    /\ launch[m].pc \in {"planned", "unmarked", "posting"} /\ ~launch[m].adopting
          => \A h \in HoldingOut(launch[m].flavor) : h.seq > vetted[m].holdOut
    /\ launch[m].pc \in {"unmarked", "posting"} /\ ~launch[m].adopting
          => \A r \in Covering(launch[m].flavor) : r.seq > vetted[m].quota

RefusalsVetted == \A m \in Names : VettedOf(m)

\* Another refusal is a later one, and an entry forgotten no longer condemns.
LEMMA StaysVetted ==
    ASSUME TypeInv, [RemembersNext]_memory, NEW m \in Names, VettedOf(m),
           vetted'[m] = vetted[m],
           launch'[m].pc \in {"planned", "unmarked", "posting"}
             => /\ launch'[m].pc = launch[m].pc
                /\ launch'[m].flavor = launch[m].flavor
                /\ launch'[m].adopting = launch[m].adopting
    PROVE  VettedOf(m)'
<1>t. /\ MemoryTypeOK
      /\ quotaRejectionSeq \in Nat /\ holdOutSeq \in Nat
      /\ vetted[m].quota \in Nat /\ vetted[m].holdOut \in Nat
      /\ \A h \in rejectedFlavors : h.seq \in Nat
      /\ \A r \in quotaRejections : r.seq \in Nat
  BY DEF TypeInv, TypeOK, MemoryTypeOK, LaunchTypeOK, Entry
<1>s. MemoryTypeOK'
  <2>1. RemembersNext => MemoryNext
    BY DEF RemembersNext, MemoryNext
  <2> QED BY <1>t, <2>1, MemoryTypeStep
<1>1. /\ quotaRejectionSeq' \in Nat /\ holdOutSeq' \in Nat
      /\ \A f : \A h \in HoldingOut(f) : h.seq \in Nat
      /\ \A f : \A r \in Covering(f) : r.seq \in Nat
      /\ \A f : \A h \in HoldingOut(f)' : h.seq \in Nat
      /\ \A f : \A r \in Covering(f)' : r.seq \in Nat
  BY <1>t, <1>s DEF MemoryTypeOK, HoldingOut, Covering, Entry
<1>2. /\ quotaRejectionSeq' >= quotaRejectionSeq /\ holdOutSeq' >= holdOutSeq
      /\ \A f : \A h \in HoldingOut(f)' : h \in HoldingOut(f) \/ h.seq > holdOutSeq
      /\ \A f : \A r \in Covering(f)' : r \in Covering(f) \/ r.seq > quotaRejectionSeq
  BY <1>t, MemoryGrows
<1>f. PICK f : f = launch'[m].flavor
  OBVIOUS
<1>3. ASSUME launch'[m].pc \in {"planned", "unmarked", "posting"}, ~launch'[m].adopting,
             NEW h \in HoldingOut(f)'
      PROVE  h.seq > vetted'[m].holdOut
  <2>1. f = launch[m].flavor
    BY <1>f, <1>3
  <2>2. h \in HoldingOut(f) => h.seq > vetted[m].holdOut
    BY <1>3, <2>1 DEF VettedOf
  <2>3. vetted[m].holdOut <= holdOutSeq
    BY DEF VettedOf
  <2> QED BY <1>t, <1>1, <1>2, <1>3, <2>2, <2>3
<1>4. ASSUME launch'[m].pc \in {"unmarked", "posting"}, ~launch'[m].adopting,
             NEW r \in Covering(f)'
      PROVE  r.seq > vetted'[m].quota
  <2>1. f = launch[m].flavor
    BY <1>f, <1>4
  <2>2. r \in Covering(f) => r.seq > vetted[m].quota
    BY <1>4, <2>1 DEF VettedOf
  <2>3. vetted[m].quota <= quotaRejectionSeq
    BY DEF VettedOf
  <2> QED BY <1>t, <1>1, <1>2, <1>4, <2>2, <2>3
<1>5. /\ vetted'[m].quota <= quotaRejectionSeq'
      /\ vetted'[m].holdOut <= holdOutSeq'
  BY <1>t, <1>1, <1>2 DEF VettedOf
<1> QED BY <1>f, <1>3, <1>4, <1>5 DEF VettedOf

LEMMA OwnVetted ==
    ASSUME TypeInv, RefusalsVetted, NEW n \in Names, Silent(n) \/ Telling(n)
    PROVE  VettedOf(n)'
<1>t. /\ quotaRejectionSeq \in Nat /\ holdOutSeq \in Nat
      /\ launch \in [Names -> Launch] /\ launch[n] \in Launch
      /\ vetted \in [Names -> [quota : Nat, holdOut : Nat]]
      /\ vetted[n] \in [quota : Nat, holdOut : Nat]
  BY DEF TypeInv, TypeOK, MemoryTypeOK, LaunchTypeOK
<1>k. VettedOf(n)
  BY DEF RefusalsVetted
<1>m. [RemembersNext]_memory
  BY SilentKeepsMemory, TellingUsesMemory
<1>s. quotaRejectionSeq' \in Nat /\ holdOutSeq' \in Nat
  <2>1. RemembersNext => MemoryNext
    BY DEF RemembersNext, MemoryNext
  <2> QED BY <1>m, <2>1, MemoryTypeStep DEF TypeInv, TypeOK, MemoryTypeOK
<1>1. ASSUME vetted'[n] = vetted[n],
             launch'[n].pc \notin {"planned", "unmarked", "posting"} \/ launch'[n] = launch[n]
      PROVE  VettedOf(n)'
  BY <1>k, <1>m, <1>1, StaysVetted
<1>2. ASSUME vetted'[n] = [quota |-> 0, holdOut |-> 0], launch'[n].pc = "idle"
      PROVE  VettedOf(n)'
  BY <1>s, <1>2 DEF VettedOf
<1>3. ASSUME Return(n) \/ \E lost \in BOOLEAN : PostFails(n, lost) PROVE VettedOf(n)'
  BY <1>t, <1>2, <1>3 DEF Return, PostFails, Idle
<1>4. CASE Lock(n)
  <2>1. launch'[n].pc = "resolving"
    BY <1>t, <1>4 DEF Lock, Launch
  <2>2. vetted'[n] = [quota |-> quotaRejectionSeq, holdOut |-> holdOutSeq]
    BY <1>t, <1>4 DEF Lock
  <2>3. UNCHANGED <<quotaRejectionSeq, holdOutSeq>>
    BY <1>4 DEF Lock, memory, tables
  <2> QED BY <1>t, <2>1, <2>2, <2>3 DEF VettedOf
<1>5. CASE resolveLaunch(n)
  <2>1. PICK f : /\ f \in IF launch[n].adopting THEN {launch[n].flavor} ELSE Cheapest(Available(n))
                 /\ Goto(n, [launch[n] EXCEPT !.pc = "planned", !.flavor = f])
    BY <1>5 DEF resolveLaunch
  <2>2. /\ launch'[n].pc = "planned" /\ launch'[n].flavor = f
        /\ launch'[n].adopting = launch[n].adopting
        /\ vetted'[n] = vetted[n]
    BY <1>t, <2>1 DEF Goto, Launch
  <2>3. /\ now' = now /\ rejectedFlavors' = rejectedFlavors
        /\ UNCHANGED <<quotaRejectionSeq, holdOutSeq>>
    BY <1>5 DEF resolveLaunch, memory, tables
  <2>4. ~launch[n].adopting => HoldingOut(f) = {}
    BY <2>1 DEF Cheapest, Available, Unavailable
  <2>5. ~launch[n].adopting => HoldingOut(f)' = {}
    BY <2>3, <2>4 DEF HoldingOut
  <2> QED BY <1>k, <2>2, <2>3, <2>5 DEF VettedOf
<1>6. CASE PassQuota(n)
  <2>1. /\ launch[n].pc = "planned" /\ launch'[n].pc = "unmarked"
        /\ launch'[n].flavor = launch[n].flavor /\ launch'[n].adopting = launch[n].adopting
        /\ vetted'[n].quota = quotaRejectionSeq /\ vetted'[n].holdOut = vetted[n].holdOut
    BY <1>t, <1>6 DEF PassQuota, Launch
  <2>2. UNCHANGED <<now, quotaRejections, quotaRejectionSeq, rejectedFlavors, holdOutSeq>>
    BY <1>6 DEF PassQuota, memory, tables
  <2>3. /\ HoldingOut(launch[n].flavor)' = HoldingOut(launch[n].flavor')
        /\ Covering(launch[n].flavor)' = Covering(launch[n].flavor')
    BY <2>2 DEF HoldingOut, Covering
  <2>4. ~launch[n].adopting => Covering(launch[n].flavor) = {}
    BY <1>6 DEF PassQuota, QuotaUnavailable
  <2> QED BY <1>t, <1>k, <2>1, <2>2, <2>3, <2>4 DEF VettedOf
<1>7. CASE TakeMark(n)
  <2>1. /\ launch[n].pc = "unmarked" /\ launch'[n].pc = "posting"
        /\ launch'[n].flavor = launch[n].flavor /\ launch'[n].adopting = launch[n].adopting
        /\ vetted'[n] = vetted[n]
    BY <1>t, <1>7 DEF TakeMark, Goto, Launch
  <2>2. UNCHANGED <<now, quotaRejections, quotaRejectionSeq, rejectedFlavors, holdOutSeq>>
    BY <1>7 DEF TakeMark, MarkLaunch, tables
  <2>3. /\ HoldingOut(launch[n].flavor)' = HoldingOut(launch[n].flavor')
        /\ Covering(launch[n].flavor)' = Covering(launch[n].flavor')
    BY <2>2 DEF HoldingOut, Covering
  <2> QED BY <1>k, <2>1, <2>2, <2>3 DEF VettedOf
<1>8. CASE \/ Adopt(n) \/ PostCreates(n) \/ PostConflicts(n) \/ AdoptConflicting(n)
           \/ PollSees(n) \/ PollAccepts(n) \/ PollRejected(n) \/ PollRefused(n)
           \/ Free(n) \/ FreeFails(n) \/ Create(n)
  <2>1. vetted'[n] = vetted[n]
    BY <1>8 DEF Adopt, PostCreates, PostConflicts, AdoptConflicting, PollSees, PollAccepts,
       PollRejected, PollRefused, Free, FreeFails, Create, Goto
  <2>2. launch'[n].pc \notin {"planned", "unmarked", "posting"}
    <3>1. CASE AdoptConflicting(n)
      BY <1>t, <3>1 DEF AdoptConflicting, Goto, Launch
    <3>2. CASE PollRefused(n)
      BY <1>t, <3>2 DEF PollRefused, Goto, Launch
    <3>3. CASE PollSees(n)
      BY <1>t, <3>3 DEF PollSees, Polls, Goto, Launch
    <3>4. CASE Create(n)
      BY <1>t, <3>4 DEF Create, Goto, Idle
    <3>5. CASE \/ Adopt(n) \/ PostCreates(n) \/ PostConflicts(n) \/ PollAccepts(n)
               \/ PollRejected(n) \/ Free(n) \/ FreeFails(n)
      <4>1. PICK pc \in {"conflict", "polling", "freeing", "freed", "accepted"} :
               \/ Goto(n, [launch[n] EXCEPT !.pc = pc])
               \/ Goto(n, [launch[n] EXCEPT !.pc = pc, !.seen = TRUE])
               \/ Goto(n, [launch[n] EXCEPT !.pc = pc, !.quota = TRUE])
        BY <3>5 DEF Adopt, PostCreates, PostConflicts, PollAccepts, PollRejected, Free,
           FreeFails
      <4>2. launch'[n].pc = pc
        BY <4>1, GotoStep DEF TypeInv, TypeOK, Steps
      <4> QED BY <4>2
    <3> QED BY <1>8, <3>1, <3>2, <3>3, <3>4, <3>5
  <2> QED BY <1>1, <2>1, <2>2
<1>9. ASSUME UNCHANGED <<launch, vetted>> PROVE VettedOf(n)'
  BY <1>1, <1>9
<1>10. CASE DeleteEnds(n) \/ UNCHANGED calls \/ LandDelayed(n) \/ Delete(n) \/ DeleteAccepted(n)
  BY <1>9, <1>10 DEF DeleteEnds, calls, LandDelayed, Delete, DeleteAccepted
<1> QED BY <1>3, <1>4, <1>5, <1>6, <1>7, <1>8, <1>10 DEF Silent, Telling, LockRefused,
       ResolveFails, ResolveRefuses, FastFail, Release, ClusterSteps, Sync, TearDown,
       PostRefused, ConflictFails, PollVanishes, PollTimeout, PollFails, FreedRejected,
       FreedRefused, Accept, DeleteNotFound, DeleteFails, DeleteReturns,
       ReturnLaunched, ReturnError, ReturnInsufficientCapacity


LEMMA RefusalsVettedInit == Init => RefusalsVetted
  BY DEF Init, MemoryInit, RefusalsVetted, VettedOf, Idle

LEMMA RefusalsVettedStep ==
    TypeInv /\ RefusalsVetted /\ [SystemNext]_vars => RefusalsVetted'
<1> SUFFICES ASSUME TypeInv, RefusalsVetted, [SystemNext]_vars PROVE RefusalsVetted'
  OBVIOUS
<1>k. \A m \in Names : VettedOf(m)
  BY DEF RefusalsVetted
<1>1. CASE RestartProcess
  <2>1. /\ quotaRejectionSeq' = 0 /\ holdOutSeq' = 0
        /\ \A m \in Names : /\ launch'[m].pc = "idle"
                            /\ vetted'[m] = [quota |-> 0, holdOut |-> 0]
    BY <1>1 DEF RestartProcess, Restart, Idle
  <2> QED BY <2>1 DEF RefusalsVetted, VettedOf
<1>2. ASSUME NEW n \in Names, Silent(n) \/ Telling(n) PROVE RefusalsVetted'
  <2>1. VettedOf(n)'
    BY <1>2, OwnVetted
  <2>2. ASSUME NEW m \in Names, m # n PROVE VettedOf(m)'
    <3>1. UNCHANGED OfName(m)
      BY <1>2, <2>2, OwnNameOnly
    <3>2. [RemembersNext]_memory
      BY <1>2, SilentKeepsMemory, TellingUsesMemory
    <3>3. launch'[m] = launch[m] /\ vetted'[m] = vetted[m]
      BY <3>1 DEF OfName
    <3> QED BY <1>k, <3>2, <3>3, StaysVetted
  <2> QED BY <2>1, <2>2 DEF RefusalsVetted
<1>3. ASSUME UNCHANGED calls, ~RestartProcess PROVE RefusalsVetted'
  <2>1. [RemembersNext]_memory
    BY <1>3, SystemUsesMemory
  <2>2. UNCHANGED <<launch, vetted>>
    BY <1>3 DEF calls
  <2>3. \A m \in Names : VettedOf(m)'
    BY <1>k, <2>1, <2>2, StaysVetted
  <2> QED BY <2>3 DEF RefusalsVetted
<1> QED BY <1>1, <1>2, <1>3, SystemSteps DEF LateRefusal, vars

LEMMA VettedPosts == RefusalsVetted => PostsAreVetted
  BY DEF RefusalsVetted, VettedOf, PostsAreVetted, Posts

\* "Only a decision taken under the lock sees what the launches ahead just
\* learned": the refusals that condemn the flavor of a POST are later than the
\* lock (hold-outs) and than the last check (quota rejections), ...
THEOREM PostsAlwaysVetted == Spec => []PostsAreVetted
  BY TypeInvInit, TypeInvStep, RefusalsVettedInit, RefusalsVettedStep, VettedPosts,
     NextIsSystemNext, PTL DEF Spec

\* ... also beside a controller that records refusals without the lock.
THEOREM FollowUpPostsVetted == FollowUpSpec => []PostsAreVetted
<1>1. FollowUpInv => TypeInv
  BY DEF FollowUpInv
<1> QED BY <1>1, FollowUpInvInit, FollowUpInvStep, FollowUpSystemStep, RefusalsVettedInit,
           RefusalsVettedStep, VettedPosts, PTL DEF FollowUpSpec

-----------------------------------------------------------------------------
(***************************************************************************)
(* What a launch knows of the group that backs its claim.  UIDs tell       *)
(* groups of one name apart: a copy with the UID of the group that exists  *)
(* describes it.                                                           *)
(***************************************************************************)

Same(group, uid) == Exists(group) /\ uid = group.uid

CopyKnown(m) ==
    /\ groups[m].uid <= groupUIDs[m] /\ cached[m].uid <= groupUIDs[m]
    /\ Same(groups[m], cached[m].uid) => cached[m].flavor = groups[m].flavor

\* The flavor of a launch is that of the group it has observed, and of the one
\* it has created unless that has been replaced by another claim's.  No lost
\* POST comes between a group and its poll.
LaunchKnown(m) ==
    /\ launch[m].observed <= groupUIDs[m]
    /\ launch[m].adopting => launch[m].observed # 0
    /\ launch[m].pc \in {"resolving", "planned", "unmarked", "posting"}
          => (launch[m].adopting <=> launch[m].observed # 0)
    /\ Locked(launch[m]) /\ Same(groups[m], launch[m].observed)
          => launch[m].flavor = groups[m].flavor
    /\ launch[m].pc \in {"polling", "accepted"} /\ launch[m].observed = 0
          => /\ Exists(groups[m]) /\ groups[m].owner = launch[m].uid
                   => groups[m].flavor = launch[m].flavor
             /\ ~Exists(groups[m]) => delayed[m] = NoGroup

GroupsKnown == \A m \in Names : CopyKnown(m) /\ LaunchKnown(m)

LEMMA GroupUIDsTyped ==
    ASSUME TypeInv, NEW m \in Names
    PROVE  /\ groups[m].uid \in Nat /\ cached[m].uid \in Nat /\ groupUIDs[m] \in Nat
           /\ launch[m].observed \in Nat
  BY DEF TypeInv, TypeOK, ClusterTypeOK, LaunchTypeOK, Group, Launch

LEMMA CopyKnownAfter ==
    ASSUME TypeInv, NEW n \in Names, CopyKnown(n), Silent(n) \/ Telling(n)
    PROVE  CopyKnown(n)' /\ groupUIDs'[n] >= groupUIDs[n]
<1>t. /\ groups[n].uid \in Nat /\ cached[n].uid \in Nat /\ groupUIDs[n] \in Nat
  BY GroupUIDsTyped
<1>1. CASE Kept(groups[n], groups'[n]) /\ UNCHANGED groupUIDs
  BY <1>t, <1>1, OwnGroupAfter DEF Kept, CopyKnown, Same, Exists
<1>2. CASE TearDown(n) /\ groups'[n] = NoGroup /\ UNCHANGED groupUIDs
  <2>1. groups'[n].uid = 0
    BY <1>2 DEF NoGroup
  <2>2. cached'[n] = cached[n] \/ cached'[n] = groups[n]
    BY OwnGroupAfter
  <2> QED BY <1>t, <1>2, <2>1, <2>2 DEF CopyKnown, Same, Exists
<1>3. CASE /\ PostCreates(n) \/ LandDelayed(n)
           /\ groups'[n].uid = groupUIDs[n] + 1 /\ groupUIDs'[n] = groupUIDs[n] + 1
  <2>1. cached'[n] = cached[n] \/ cached'[n] = groups[n]
    BY OwnGroupAfter
  <2> QED BY <1>t, <1>3, <2>1 DEF CopyKnown, Same
<1> QED BY <1>1, <1>2, <1>3, OwnGroupAfter

\* A launch that keeps what it knows stays right about the group ...
LEMMA LaunchStaysKnown ==
    ASSUME TypeInv, NEW n \in Names, CopyKnown(n), LaunchKnown(n), Silent(n) \/ Telling(n),
           launch'[n] = launch[n],
           ~PostCreates(n)
    PROVE  LaunchKnown(n)'
<1>t. /\ groups[n].uid \in Nat /\ groupUIDs[n] \in Nat /\ launch[n].observed \in Nat
      /\ LaunchTypeOK
  BY GroupUIDsTyped DEF TypeInv, TypeOK
<1>1. delayed'[n] = delayed[n] \/ delayed'[n] = NoGroup
  <2>1. ASSUME NEW lost \in BOOLEAN, PostFails(n, lost) PROVE FALSE
    <3>1. launch[n].pc = "posting" /\ launch'[n].pc = "idle"
      BY <1>t, <2>1 DEF PostFails, Posts, Idle, LaunchTypeOK
    <3> QED BY <3>1
  <2>2. CASE LandDelayed(n)
    BY <1>t, <2>2 DEF LandDelayed, LaunchTypeOK
  <2>3. CASE (\E l : Goto(n, l)) \/ Return(n) \/ DeleteEnds(n) \/ UNCHANGED calls
             \/ Lock(n) \/ PassQuota(n) \/ Delete(n) \/ DeleteAccepted(n)
    BY <2>3 DEF Goto, Return, DeleteEnds, calls, Lock, PassQuota, Delete, DeleteAccepted
  <2> QED BY <2>1, <2>2, <2>3 DEF Silent, Telling, Create, LockRefused, resolveLaunch,
         ResolveFails, ResolveRefuses, FastFail, Adopt, PostCreates, PostConflicts,
         AdoptConflicting, PollSees, PollAccepts, PollRefused, Free, FreeFails,
         Release, ClusterSteps, Sync, TearDown, TakeMark, PostRefused,
         ConflictFails, PollVanishes, PollRejected, PollTimeout, PollFails, FreedRejected,
         FreedRefused, Accept, DeleteNotFound, DeleteFails, DeleteReturns,
         ReturnLaunched, ReturnError, ReturnInsufficientCapacity
<1>2. CASE Kept(groups[n], groups'[n]) /\ UNCHANGED groupUIDs
  BY <1>t, <1>1, <1>2 DEF Kept, LaunchKnown, Same, Exists
<1>3. CASE TearDown(n) /\ groups'[n] = NoGroup /\ UNCHANGED groupUIDs
  <2>1. /\ groups'[n].uid = 0 /\ delayed'[n] = NoGroup
    BY <1>3 DEF NoGroup, TearDown, calls
  <2> QED BY <1>3, <2>1 DEF LaunchKnown, Same, Exists
<1>4. CASE /\ LandDelayed(n) /\ ~Exists(groups[n])
           /\ groups'[n].uid = groupUIDs[n] + 1 /\ groupUIDs'[n] = groupUIDs[n] + 1
  <2>1. delayed[n] # NoGroup
    BY <1>4 DEF LandDelayed
  <2>2. launch[n].observed <= groupUIDs[n]
    BY DEF LaunchKnown
  <2>3. groups'[n].uid # launch[n].observed /\ launch[n].observed <= groupUIDs'[n]
    BY <1>t, <1>4, <2>2
  <2>4. ~(launch[n].pc \in {"polling", "accepted"} /\ launch[n].observed = 0)
    BY <1>4, <2>1 DEF LaunchKnown
  <2> QED BY <2>3, <2>4 DEF LaunchKnown, Same
<1> QED BY <1>2, <1>3, <1>4, OwnGroupAfter


\* ... and so does one that moves.
LEMMA LaunchKnownAfter ==
    ASSUME TypeInv, NEW n \in Names, CopyKnown(n), LaunchKnown(n), Silent(n) \/ Telling(n)
    PROVE  LaunchKnown(n)'
<1> DEFINE l == launch[n]  next == launch'[n]
<1>t. /\ groups[n].uid \in Nat /\ cached[n].uid \in Nat /\ groupUIDs[n] \in Nat
      /\ l.observed \in Nat /\ groupUIDs'[n] >= groupUIDs[n] /\ groupUIDs'[n] \in Nat
      /\ LaunchTypeOK /\ launch \in [Names -> Launch] /\ l \in Launch
      /\ ClusterTypeOK
  BY GroupUIDsTyped, CopyKnownAfter, ClusterTypeAfter DEF TypeInv, TypeOK, LaunchTypeOK, ClusterTypeOK
<1>i. /\ l.observed <= groupUIDs[n]
      /\ l.adopting => l.observed # 0
      /\ l.pc \in {"resolving", "planned", "unmarked", "posting"}
            => (l.adopting <=> l.observed # 0)
      /\ Locked(l) /\ Same(groups[n], l.observed) => l.flavor = groups[n].flavor
      /\ Same(groups[n], cached[n].uid) => cached[n].flavor = groups[n].flavor
      /\ cached[n].uid <= groupUIDs[n] /\ groups[n].uid <= groupUIDs[n]
  BY DEF LaunchKnown, CopyKnown
<1>0. CASE launch'[n] = launch[n] /\ ~PostCreates(n)
  BY <1>0, LaunchStaysKnown
<1>1. ASSUME next.pc \in {"idle", "waiting"}, next.observed = 0, ~next.adopting
      PROVE  LaunchKnown(n)'
  BY <1>t, <1>1 DEF LaunchKnown, Locked
<1>2. CASE Return(n) \/ (\E lost \in BOOLEAN : PostFails(n, lost))
  BY <1>t, <1>1, <1>2 DEF Return, PostFails, Idle
<1>3. CASE Create(n)
  <2>1. next.pc = "waiting" /\ next.observed = 0 /\ ~next.adopting
    BY <1>t, <1>3 DEF Create, Goto, Idle
  <2> QED BY <1>1, <2>1
<1>4. CASE Lock(n)
  <2>1. /\ next.pc = "resolving" /\ next.observed = groups[n].uid
        /\ next.flavor = groups[n].flavor
        /\ next.adopting <=> Exists(groups[n])
    BY <1>t, <1>4 DEF Lock, Launch
  <2>2. UNCHANGED groups
    BY <1>4 DEF Lock, cluster
  <2> QED BY <1>t, <1>i, <2>1, <2>2 DEF LaunchKnown, Exists
<1>5. CASE resolveLaunch(n)
  <2>1. /\ l.pc = "resolving" /\ next.pc = "planned"
        /\ next.observed = l.observed /\ next.adopting = l.adopting
        /\ l.adopting => next.flavor = l.flavor
    BY <1>t, <1>5 DEF resolveLaunch, Goto, Launch
  <2>2. UNCHANGED groups
    BY <1>5 DEF resolveLaunch, cluster
  <2> QED BY <1>t, <1>i, <2>1, <2>2 DEF LaunchKnown, Locked, Same, Exists
<1>6. ASSUME Locked(l), next.pc \notin {"resolving", "planned", "polling", "accepted"},
             next.observed = l.observed, next.flavor = l.flavor, next.adopting = l.adopting,
             next.pc \in {"unmarked", "posting"} => l.pc \in {"planned", "unmarked"},
             Kept(groups[n], groups'[n])
      PROVE  LaunchKnown(n)'
  BY <1>t, <1>i, <1>6 DEF LaunchKnown, Kept, Same, Exists
<1>7. CASE \/ PassQuota(n) \/ TakeMark(n) \/ PostConflicts(n) \/ PollRejected(n)
           \/ Free(n) \/ FreeFails(n)
  <2>1. Locked(l) /\ l.pc \in {"planned", "unmarked", "posting", "polling", "freeing"}
    BY <1>7 DEF PassQuota, TakeMark, PostConflicts, Posts, PollRejected, Polls, Free,
                FreeFails, Locked
  <2>2. Kept(groups[n], groups'[n])
    <3>1. UNCHANGED groups \/ DeleteGroup(n)
      BY <1>7 DEF PassQuota, TakeMark, PostConflicts, PollRejected, Free, FreeFails, cluster
    <3> QED BY <1>t, <3>1, GroupsAfter DEF Kept
  <2>3. /\ next.pc \notin {"resolving", "planned", "polling", "accepted"}
        /\ next.observed = l.observed /\ next.flavor = l.flavor /\ next.adopting = l.adopting
        /\ next.pc \in {"unmarked", "posting"} => l.pc \in {"planned", "unmarked"}
    <3>1. CASE PassQuota(n)
      BY <1>t, <3>1 DEF PassQuota, Launch
    <3>2. CASE TakeMark(n)
      <4>1. l.pc = "unmarked" /\ Goto(n, [launch[n] EXCEPT !.pc = "posting"])
        BY <3>2 DEF TakeMark
      <4> QED BY <1>t, <4>1, GotoStep DEF Steps
    <3>3. CASE PostConflicts(n) \/ PollRejected(n) \/ Free(n) \/ FreeFails(n)
      <4>1. PICK pc \in {"conflict", "freeing", "freed"} :
               \/ Goto(n, [launch[n] EXCEPT !.pc = pc])
               \/ Goto(n, [launch[n] EXCEPT !.pc = pc, !.quota = TRUE])
        BY <3>3 DEF PostConflicts, PollRejected, Free, FreeFails
      <4>2. /\ next.pc = pc
            /\ next.observed = l.observed /\ next.flavor = l.flavor /\ next.adopting = l.adopting
        BY <1>t, <4>1, GotoStep DEF Steps
      <4> QED BY <4>1, <4>2
    <3> QED BY <1>7, <3>1, <3>2, <3>3
  <2> QED BY <1>6, <2>1, <2>2, <2>3

<1>8. CASE Adopt(n)
  <2>1. /\ l.pc = "posting" /\ l.adopting
        /\ Goto(n, [launch[n] EXCEPT !.pc = "polling", !.seen = TRUE])
        /\ UNCHANGED groups
    BY <1>8 DEF Adopt, cluster
  <2>2. /\ next.pc = "polling" /\ next.observed = l.observed
        /\ next.flavor = l.flavor /\ next.adopting = l.adopting
    BY <1>t, <2>1, GotoStep DEF Steps
  <2> QED BY <1>t, <1>i, <2>1, <2>2 DEF LaunchKnown, Locked, Same, Exists
<1>9. CASE AdoptConflicting(n)
  <2>1. /\ l.pc = "conflict" /\ Exists(cached[n]) /\ UNCHANGED groups
        /\ next.pc = "polling" /\ next.observed = cached[n].uid
        /\ next.flavor = cached[n].flavor /\ next.adopting = l.adopting
    BY <1>t, <1>9 DEF AdoptConflicting, Goto, Launch, cluster
  <2> QED BY <1>t, <1>i, <2>1 DEF LaunchKnown, Same, Exists
<1>10. CASE PollSees(n)
  <2>1. /\ l.pc = "polling" /\ next.pc = "polling" /\ next.observed = l.observed
        /\ next.flavor = l.flavor /\ next.adopting = l.adopting /\ next.uid = l.uid
    BY <1>t, <1>10 DEF PollSees, Polls, Goto, Launch
  <2>2. UNCHANGED <<groups, delayed>>
    BY <1>10 DEF PollSees, Goto, cluster
  <2> QED BY <1>t, <2>1, <2>2 DEF LaunchKnown, Locked
<1>11. CASE PollAccepts(n)
  <2>1. /\ l.pc = "polling" /\ Goto(n, [launch[n] EXCEPT !.pc = "accepted"])
        /\ UNCHANGED <<groups, delayed>>
    BY <1>11 DEF PollAccepts, Polls, Goto, cluster
  <2>2. /\ next.pc = "accepted" /\ next.observed = l.observed
        /\ next.flavor = l.flavor /\ next.adopting = l.adopting /\ next.uid = l.uid
    BY <1>t, <2>1, GotoStep DEF Steps
  <2> QED BY <1>t, <2>1, <2>2 DEF LaunchKnown, Locked
<1>12. CASE PollRefused(n)
  <2>1. /\ l.pc = "polling" /\ UNCHANGED groups
        /\ next.pc = "freeing" /\ next.observed = l.observed
        /\ next.flavor = Polled(n).flavor /\ next.adopting = l.adopting
    BY <1>t, <1>12 DEF PollRefused, Polls, Goto, Launch, cluster
  <2>2. Exists(Polled(n)) /\ l.observed \in {0, Polled(n).uid}
    BY <1>12 DEF PollRefused, Polls, Decision
  <2>3. Same(groups[n], l.observed) => Polled(n).flavor = groups[n].flavor
    BY <1>t, <1>i, <2>2 DEF Polled, Same, Exists
  <2> QED BY <1>t, <1>i, <2>1, <2>3 DEF LaunchKnown, Same, Exists
<1>13. CASE PostCreates(n)
  <2>1. l.pc = "posting" /\ ~l.adopting /\ Goto(n, [launch[n] EXCEPT !.pc = "polling"])
    BY <1>13 DEF PostCreates, Posts
  <2>2. /\ next.pc = "polling" /\ next.observed = 0 /\ next.uid = l.uid
        /\ next.flavor = l.flavor /\ ~next.adopting
    BY <1>t, <1>i, <2>1, GotoStep DEF Steps
  <2>3. CreateGroup(n, l.uid, l.flavor)
    BY <1>13 DEF PostCreates
  <2>4. groups'[n].flavor = l.flavor /\ groups'[n].uid = groupUIDs[n] + 1
    BY <1>t, <2>3, GroupsAfter
  <2> QED BY <1>t, <1>i, <2>2, <2>4 DEF LaunchKnown, Locked, Same, Exists
<1>14. CASE \/ LandDelayed(n) \/ Release(n) \/ ClusterSteps(n) \/ Sync(n) \/ TearDown(n)
            \/ Delete(n) \/ DeleteAccepted(n) \/ DeleteNotFound(n) \/ DeleteFails(n)
            \/ DeleteReturns(n)
  <2>1. UNCHANGED launch
    BY <1>14 DEF LandDelayed, Release, ClusterSteps, Sync, TearDown, calls, Delete,
       DeleteAccepted, DeleteNotFound, DeleteFails, DeleteReturns, DeleteEnds
  <2>2. ~PostCreates(n)
    <3>1. ASSUME PostCreates(n) PROVE FALSE
      <4>1. l.pc = "posting" /\ Goto(n, [launch[n] EXCEPT !.pc = "polling"])
        BY <3>1 DEF PostCreates, Posts
      <4>2. next.pc = "polling"
        BY <1>t, <4>1, GotoStep DEF Steps
      <4> QED BY <2>1, <4>1, <4>2
    <3> QED BY <3>1
  <2> QED BY <1>0, <2>1, <2>2
<1> QED BY <1>2, <1>3, <1>4, <1>5, <1>7, <1>8, <1>9, <1>10, <1>11, <1>12, <1>13, <1>14
        DEF Silent, Telling, LockRefused, ResolveFails, ResolveRefuses, FastFail,
            PostRefused, ConflictFails, PollVanishes, PollTimeout, PollFails, FreedRejected,
            FreedRefused, Accept, ReturnLaunched, ReturnError, ReturnInsufficientCapacity


LEMMA GroupsKnownInit == Init => GroupsKnown
  BY DEF Init, ClusterInit, GroupsKnown, CopyKnown, LaunchKnown, NoGroup, Idle, Same, Exists,
         Locked

LEMMA GroupsKnownStep == TypeInv /\ GroupsKnown /\ [SystemNext]_vars => GroupsKnown'
<1> SUFFICES ASSUME TypeInv, GroupsKnown, [SystemNext]_vars PROVE GroupsKnown'
  OBVIOUS
<1>k. \A m \in Names : CopyKnown(m) /\ LaunchKnown(m)
  BY DEF GroupsKnown
<1>1. ASSUME NEW n \in Names, Silent(n) \/ Telling(n) PROVE GroupsKnown'
  <2>1. CopyKnown(n)' /\ LaunchKnown(n)'
    BY <1>1, <1>k, CopyKnownAfter, LaunchKnownAfter
  <2>2. ASSUME NEW m \in Names, m # n PROVE CopyKnown(m)' /\ LaunchKnown(m)'
    <3>1. UNCHANGED OfName(m)
      BY <1>1, <2>2, OwnNameOnly
    <3> QED BY <1>k, <3>1 DEF OfName, CopyKnown, LaunchKnown
  <2> QED BY <2>1, <2>2 DEF GroupsKnown
<1>2. CASE RestartProcess
  <2>1. /\ UNCHANGED <<groups, groupUIDs>> /\ cached' = groups
        /\ \A m \in Names : launch'[m] = Idle
    BY <1>2 DEF RestartProcess
  <2>2. \A m \in Names : groups[m].uid <= groupUIDs[m] /\ 0 <= groupUIDs[m]
    BY <1>k, GroupUIDsTyped DEF CopyKnown
  <2>3. \A m \in Names : CopyKnown(m)' /\ LaunchKnown(m)'
    BY <2>1, <2>2 DEF CopyKnown, LaunchKnown, Idle, Locked
  <2> QED BY <2>3 DEF GroupsKnown
<1>3. ASSUME UNCHANGED <<cluster, calls>> PROVE GroupsKnown'
  BY <1>3 DEF GroupsKnown, CopyKnown, LaunchKnown, cluster, calls
<1> QED BY <1>1, <1>2, <1>3, SystemSteps DEF LateRefusal, vars

\* core stores the flavor of the group it was told of.
LEMMA LaunchStored ==
    ASSUME TypeInv, NEW n \in Names, LaunchKnown(n), Silent(n) \/ Telling(n),
           claims[n].launched # claims'[n].launched, claims'[n].launched # NoFlavor,
           Exists(groups[n]), groups[n].owner = claims[n].uid,
           launch[n].observed \in {0, groups[n].uid}
    PROVE  claims'[n].launched = groups[n].flavor
<1>t. claims \in [Names -> Claim]
  BY DEF TypeInv, TypeOK, ClusterTypeOK
<1>1. /\ launch[n].pc \in {"polling", "accepted"}
      /\ StoreLaunch(n, launch[n].uid, launch[n].flavor)
  <2>1. CASE PollTimeout(n) \/ Accept(n)
    BY <2>1 DEF PollTimeout, Accept, ReturnLaunched, cluster
  <2>2. CASE ReturnInsufficientCapacity(n)
    BY <1>t, <2>2 DEF ReturnInsufficientCapacity, Claim
  <2>3. CASE RemoveClaim(n)
    BY <1>t, <2>3 DEF RemoveClaim, NoClaim
  <2>4. CASE ClusterStep(n)
    BY <1>t, <2>4 DEF ClusterStep, CreateClaim, DeleteClaim, Register, Reclaim, DeleteGroup,
       OperatorWrites, Claim, NoClaim
  <2>5. CASE UNCHANGED claims
    BY <2>5
  <2>6. CASE DeleteGroup(n) \/ FinalizeGroup(n) \/ SyncCache(n) \/ UNCHANGED cluster
             \/ (\E owner, f : CreateGroup(n, owner, f))
    BY <2>5, <2>6 DEF DeleteGroup, FinalizeGroup, SyncCache, CreateGroup, cluster
  <2> QED BY <2>1, <2>2, <2>3, <2>4, <2>6 DEF Silent, Telling, Create, Lock, LockRefused,
         resolveLaunch, ResolveFails, ResolveRefuses, FastFail, PassQuota, Adopt, PostCreates,
         PostConflicts, AdoptConflicting, LandDelayed, PollSees, PollAccepts, PollRefused, Free,
         FreeFails, Release, DeleteAccepted, ClusterSteps, Sync, TearDown, TakeMark, PostRefused,
         PostFails, ConflictFails, PollVanishes, PollRejected, PollFails, FreedRejected,
         FreedRefused, Delete, DeleteNotFound, DeleteFails, DeleteReturns, ReturnError
<1>2. claims[n].uid = launch[n].uid /\ claims'[n].launched = launch[n].flavor
  BY <1>t, <1>1 DEF StoreLaunch, Claim
<1> QED BY <1>1, <1>2 DEF LaunchKnown, Locked, Same

LEMMA StepDescribesGroup ==
    ASSUME TypeInv, GroupsKnown, [SystemNext]_vars, NEW m \in Names,
           claims[m].launched # claims'[m].launched, claims'[m].launched # NoFlavor,
           Exists(groups[m]), groups[m].owner = claims[m].uid,
           launch[m].observed \in {0, groups[m].uid}
    PROVE  claims'[m].launched = groups[m].flavor
<1>1. claims' # claims
  OBVIOUS
<1>2. PICK n \in Names : Silent(n) \/ Telling(n)
  BY <1>1, SystemSteps DEF LateRefusal, RestartProcess, vars, cluster
<1>3. m = n
  BY <1>2, OwnNameOnly DEF OfName
<1>4. LaunchKnown(n)
  BY DEF GroupsKnown
<1> QED BY <1>2, <1>3, <1>4, LaunchStored

\* "The returned claim must describe the machine that exists, not the one
\* requested": a claim is launched with the flavor of the group that backs it,
\* created or adopted, unless the group adopted is no longer the one that exists.
THEOREM LaunchesDescribeGroups == Spec => LaunchDescribesGroup
<1>1. TypeInv /\ GroupsKnown /\ [Next]_vars
        => [\A n \in Names :
               /\ claims[n].launched # claims[n].launched'
               /\ claims[n].launched' # NoFlavor
               /\ Exists(groups[n]) /\ groups[n].owner = claims[n].uid
               /\ launch[n].observed \in {0, groups[n].uid}
               => claims[n].launched' = groups[n].flavor]_vars
  BY NextIsSystemNext, StepDescribesGroup
<1> QED BY <1>1, TypeInvInit, TypeInvStep, GroupsKnownInit, GroupsKnownStep, NextIsSystemNext,
           PTL DEF Spec, LaunchDescribesGroup

\* The same beside the controller, which may delete the claim meanwhile.
THEOREM FollowUpDescribesGroups == FollowUpSpec => LaunchDescribesGroup
<1>1. FollowUpInv /\ GroupsKnown /\ [FollowUpNext]_followVars
        => [\A n \in Names :
               /\ claims[n].launched # claims[n].launched'
               /\ claims[n].launched' # NoFlavor
               /\ Exists(groups[n]) /\ groups[n].owner = claims[n].uid
               /\ launch[n].observed \in {0, groups[n].uid}
               => claims[n].launched' = groups[n].flavor]_vars
  BY FollowUpSystemStep, StepDescribesGroup DEF FollowUpInv
<1>2. FollowUpInv /\ GroupsKnown /\ [FollowUpNext]_followVars => GroupsKnown'
  BY FollowUpSystemStep, GroupsKnownStep DEF FollowUpInv
<1> QED BY <1>1, <1>2, FollowUpInvInit, FollowUpInvStep, GroupsKnownInit, PTL
           DEF FollowUpSpec, LaunchDescribesGroup

-----------------------------------------------------------------------------
(***************************************************************************)
(* Freeing a refused group.  An operator that does not bring up a group it *)
(* has refused makes a refusal read from the cache a lasting fact.         *)
(***************************************************************************)

Refused(status) == IsRefused(status) /\ ~IsSynced(status)

RefusedForGood ==
    ~Recovers => \A m \in Names :
        Same(groups[m], cached[m].uid) /\ Refused(cached[m].status)
            => groups[m].status = cached[m].status

\* Only the operator writes the status of a group.
LEMMA StatusAfter ==
    ASSUME TypeInv, NEW n \in Names, Silent(n) \/ Telling(n)
    PROVE  \/ groups'[n].status = groups[n].status
           \/ TearDown(n) /\ groups'[n] = NoGroup
           \/ groups'[n].uid = groupUIDs[n] + 1
           \/ UNCHANGED cached /\ \E status \in Statuses : OperatorWrites(n, status)
<1>t. groups \in [Names -> Group] /\ ClusterTypeOK
  BY DEF TypeInv, TypeOK, ClusterTypeOK
<1>1. CASE UNCHANGED groups \/ DeleteGroup(n)
  BY <1>t, <1>1 DEF DeleteGroup, Group
<1>2. CASE ClusterStep(n)
  BY <1>t, <1>1, <1>2 DEF ClusterStep, CreateClaim, DeleteClaim, Register, Reclaim,
                          OperatorWrites
<1>3. CASE TearDown(n) \/ PostCreates(n) \/ (LandDelayed(n) /\ ~UNCHANGED cluster)
  <2>1. CASE TearDown(n)
    BY <1>t, <2>1, GroupsAfter DEF TearDown, FinalizeGroup
  <2>2. CASE PostCreates(n)
    BY <1>t, <2>2, GroupsAfter DEF PostCreates
  <2>3. CASE LandDelayed(n) /\ ~UNCHANGED cluster
    BY <1>t, <2>3, GroupsAfter DEF LandDelayed
  <2> QED BY <1>3, <2>1, <2>2, <2>3
<1>4. CASE \/ RemoveClaim(n) \/ SyncCache(n) \/ UNCHANGED cluster
           \/ (\E uid, f : StoreLaunch(n, uid, f)) \/ ReturnInsufficientCapacity(n)
  BY <1>1, <1>4 DEF RemoveClaim, SyncCache, StoreLaunch, ReturnInsufficientCapacity, cluster
<1> QED BY <1>1, <1>2, <1>3, <1>4 DEF Silent, Telling, Create, Lock, LockRefused, resolveLaunch,
       ResolveFails, ResolveRefuses, FastFail, PassQuota, Adopt, PostConflicts,
       AdoptConflicting, LandDelayed, PollSees, PollAccepts, PollRefused, Free, FreeFails,
       Release, DeleteAccepted, ClusterSteps, Sync, TakeMark, PostRefused, PostFails,
       ConflictFails, PollVanishes, PollRejected, PollTimeout, PollFails, FreedRejected,
       FreedRefused, Accept, Delete, DeleteNotFound, DeleteFails, DeleteReturns,
       ReturnLaunched, ReturnError

LEMMA RefusedForGoodStep ==
    TypeInv /\ GroupsKnown /\ RefusedForGood /\ [SystemNext]_vars => RefusedForGood'
<1> SUFFICES ASSUME TypeInv, GroupsKnown, RefusedForGood, [SystemNext]_vars, ~Recovers,
                    NEW m \in Names, Same(groups'[m], cached'[m].uid),
                    Refused(cached'[m].status)
             PROVE  groups'[m].status = cached'[m].status
  BY DEF RefusedForGood
<1>t. groups[m].uid \in Nat /\ cached[m].uid \in Nat /\ groupUIDs[m] \in Nat
  BY GroupUIDsTyped
<1>k. /\ cached[m].uid <= groupUIDs[m] /\ groups[m].uid <= groupUIDs[m]
      /\ Same(groups[m], cached[m].uid) /\ Refused(cached[m].status)
            => groups[m].status = cached[m].status
  BY DEF RefusedForGood, GroupsKnown, CopyKnown
<1>1. ASSUME NEW n \in Names, Silent(n) \/ Telling(n)
      PROVE  groups'[m].status = cached'[m].status
  <2>1. CASE m # n
    <3>1. UNCHANGED OfName(m)
      BY <1>1, <2>1, OwnNameOnly
    <3> QED BY <1>k, <3>1 DEF OfName
  <2>2. CASE m = n
    <3>1. cached'[m] = cached[m] \/ (Sync(n) /\ cached'[m] = groups[m])
      BY <1>1, <2>2, OwnGroupAfter
    <3>2. CASE Sync(n) /\ cached'[m] = groups[m]
      BY <3>2 DEF Sync, SyncCache
    <3>3. CASE cached'[m] = cached[m] /\ groups'[m].uid = groupUIDs[m] + 1
      BY <1>t, <1>k, <3>3 DEF Same
    <3>4. CASE groups'[m] = NoGroup
      BY <3>4 DEF Same, Exists, NoGroup
    <3>5. CASE cached'[m] = cached[m] /\ Kept(groups[m], groups'[m])
      <4>1. groups[m].status = cached[m].status
        BY <1>k, <3>5 DEF Kept, Same, Exists
      <4>2. ~ \E status \in Statuses : OperatorWrites(m, status)
        BY <3>5, <4>1 DEF OperatorWrites, Refused
      <4>3. CASE groups'[m].status = groups[m].status
        BY <3>5, <4>1, <4>3
      <4>4. CASE groups'[m].uid = groupUIDs[m] + 1
        BY <3>3, <3>5, <4>4
      <4> QED BY <1>1, <2>2, <3>4, <4>2, <4>3, <4>4, StatusAfter
    <3> QED BY <1>1, <2>2, <3>1, <3>2, <3>3, <3>4, <3>5, OwnGroupAfter
  <2> QED BY <2>1, <2>2
<1>2. CASE UNCHANGED cluster
  BY <1>k, <1>2 DEF cluster
<1>3. CASE RestartProcess
  BY <1>3 DEF RestartProcess
<1> QED BY <1>1, <1>2, <1>3, SystemSteps DEF LateRefusal, vars

\* A poll frees a group for a refusal it has read, of the group that exists if
\* the UIDs agree.
LEMMA StepFreesNoMachine ==
    ASSUME TypeInv, GroupsKnown, RefusedForGood, ~Recovers, [SystemNext]_vars, NEW m \in Names,
           launch[m].pc = "polling", launch'[m].pc = "freeing",
           groups[m].uid = Polled(m).uid
    PROVE  ~IsSynced(groups[m].status)
<1>1. PollRejected(m) \/ PollRefused(m)
  <2>1. PICK n \in Names : Silent(n) \/ Telling(n)
    BY SystemSteps DEF LateRefusal, RestartProcess, Idle, vars, calls
  <2>2. m = n
    BY <2>1, OwnNameOnly DEF OfName
  <2>t. LaunchTypeOK /\ launch \in [Names -> Launch] /\ launch[m] \in Launch
    BY DEF TypeInv, TypeOK, LaunchTypeOK
  <2>3. CASE Return(m) \/ (\E lost \in BOOLEAN : PostFails(m, lost))
    BY <2>t, <2>3 DEF Return, PostFails, Idle
  <2>4. CASE PollSees(m) \/ PollAccepts(m)
    BY <2>t, <2>4 DEF PollSees, PollAccepts, Goto, Launch
  <2>5. CASE UNCHANGED launch
    BY <2>5
  <2>6. CASE DeleteEnds(m) \/ UNCHANGED calls \/ LandDelayed(m) \/ Delete(m) \/ DeleteAccepted(m)
    BY <2>5, <2>6 DEF DeleteEnds, calls, LandDelayed, Delete, DeleteAccepted
  <2>7. CASE \/ Create(m) \/ Lock(m) \/ resolveLaunch(m) \/ PassQuota(m) \/ TakeMark(m) \/ Adopt(m)
             \/ PostCreates(m) \/ PostConflicts(m) \/ AdoptConflicting(m)
             \/ Free(m) \/ FreeFails(m)
    BY <2>7 DEF Create, Lock, resolveLaunch, PassQuota, TakeMark, Adopt, PostCreates, Posts,
                PostConflicts, AdoptConflicting, Free, FreeFails
  <2> QED BY <2>1, <2>2, <2>3, <2>4, <2>6, <2>7 DEF Silent, Telling, LockRefused,
         ResolveFails, ResolveRefuses, FastFail, Release, ClusterSteps, Sync, TearDown,
         PostRefused, ConflictFails, PollVanishes, PollTimeout, PollFails, FreedRejected,
         FreedRefused, Accept, DeleteNotFound, DeleteFails, DeleteReturns,
         ReturnLaunched, ReturnError, ReturnInsufficientCapacity
<1>2. Exists(Polled(m)) /\ Refused(Polled(m).status)
  BY <1>1 DEF PollRejected, PollRefused, Polls, Decision, Refused, IsRefused
<1>3. Polled(m) \in {groups[m], cached[m]}
  BY DEF Polled
<1>4. Same(groups[m], cached[m].uid) /\ Refused(cached[m].status)
        => groups[m].status = cached[m].status
  BY DEF RefusedForGood
<1> QED BY <1>2, <1>3, <1>4 DEF Same, Exists, Refused

\* "A Ready group is a booted VM": a poll never decides to free the group it has
\* read, however stale the read, once its machine is up, if the operator does
\* not bring up a group it has refused.
THEOREM NoMachineFreed == ~Recovers => (Spec => FreesNoMachine)
<1> SUFFICES ASSUME ~Recovers PROVE Spec => FreesNoMachine
  OBVIOUS
<1>0. Init => RefusedForGood
  BY DEF Init, ClusterInit, RefusedForGood
<1>1. TypeInv /\ GroupsKnown /\ RefusedForGood /\ [Next]_vars
        => [\A n \in Names :
               /\ launch[n].pc = "polling" /\ launch[n].pc' = "freeing"
               /\ groups[n].uid = Polled(n).uid
               => ~IsSynced(groups[n].status)]_vars
  BY NextIsSystemNext, StepFreesNoMachine
<1> QED BY <1>0, <1>1, TypeInvInit, TypeInvStep, GroupsKnownInit, GroupsKnownStep,
           RefusedForGoodStep, NextIsSystemNext, PTL DEF Spec, FreesNoMachine

-----------------------------------------------------------------------------
(***************************************************************************)
(* Sums.  FoldFunction adds up the numbers of a finite set one by one, in  *)
(* an order it picks; a larger function has a larger sum.                  *)
(***************************************************************************)

Pick(s) == CHOOSE x \in s : TRUE

Total(f) == FoldFunction(+, 0, f)

\* it sums f over every subset of S.
Sums(it, f, S) ==
    it = [s \in SUBSET S |-> IF s = {} THEN 0 ELSE f[Pick(s)] + it[s \ {Pick(s)}]]

\* What holds of a set once it holds of the set without the element picked
\* holds of every subset of a finite set.
LEMMA SmallestSubset ==
    ASSUME NEW S, IsFiniteSet(S), NEW Bad \in SUBSET (SUBSET S), Bad # {}
    PROVE  \E s \in Bad : s # {} => Pick(s) \in s /\ s \ {Pick(s)} \notin Bad
<1> DEFINE sizes == {Cardinality(s) : s \in Bad}
<1>1. \A s \in SUBSET S : IsFiniteSet(s) /\ Cardinality(s) \in Nat
  BY FS_Subset, FS_CardinalityType
<1>2. sizes \in SUBSET Nat /\ sizes # {}
  BY <1>1
<1>3. PICK k \in sizes : \A j \in sizes : k <= j
  BY <1>2, LeastExists
<1>4. PICK s \in Bad : Cardinality(s) = k
  BY <1>3
<1>5. ASSUME s # {} PROVE Pick(s) \in s /\ s \ {Pick(s)} \notin Bad
  <2>1. Pick(s) \in s
    BY <1>5 DEF Pick
  <2>2. Cardinality(s \ {Pick(s)}) = Cardinality(s) - 1
    BY <1>1, <2>1, FS_RemoveElement
  <2>3. ~(k <= Cardinality(s \ {Pick(s)}))
    BY <1>1, <1>4, <2>2
  <2> QED BY <1>3, <2>1, <2>3
<1> QED BY <1>5

LEMMA SumsExist ==
    ASSUME NEW S, IsFiniteSet(S), NEW f \in [S -> Nat]
    PROVE  \E it : Sums(it, f, S)
<1> DEFINE Upto(g, k) ==
       /\ g \in [SUBSET S -> Nat]
       /\ \A s \in SUBSET S : Cardinality(s) <= k =>
             g[s] = IF s = {} THEN 0 ELSE f[Pick(s)] + g[s \ {Pick(s)}]
           K == {k \in Nat : ~ \E g : Upto(g, k)}
<1>1. \A s \in SUBSET S : /\ IsFiniteSet(s) /\ Cardinality(s) \in Nat
                          /\ Cardinality(s) = 0 <=> s = {}
                          /\ s # {} => Pick(s) \in s
  BY FS_Subset, FS_CardinalityType, FS_EmptySet DEF Pick
<1>2. K = {}
  <2> SUFFICES ASSUME K # {} PROVE FALSE
    OBVIOUS
  <2>1. PICK k \in K : \A j \in K : k <= j
    BY LeastExists
  <2>2. CASE k = 0
    <3> DEFINE g == [s \in SUBSET S |-> 0]
    <3>1. Upto(g, 0)
      BY <1>1
    <3> QED BY <2>1, <2>2, <3>1
  <2>3. CASE k # 0
    <3>0. k \in Nat
      BY <2>1
    <3>k. k - 1 \in Nat /\ ~(k <= k - 1)
      BY <3>0, <2>3
    <3>1. k - 1 \notin K
      BY <2>1, <3>k, Zenon
    <3>2. PICK g : Upto(g, k - 1)
      BY <3>k, <3>1
    <3> DEFINE h == [s \in SUBSET S |->
                        IF s = {} THEN 0 ELSE f[Pick(s)] + g[s \ {Pick(s)}]]
    <3>3. h \in [SUBSET S -> Nat]
      BY <1>1, <3>2
    <3>4. ASSUME NEW s \in SUBSET S, Cardinality(s) <= k, s # {}
          PROVE  h[s \ {Pick(s)}] = g[s \ {Pick(s)}]
      <4>1. Cardinality(s \ {Pick(s)}) = Cardinality(s) - 1
        BY <1>1, <3>4, FS_RemoveElement
      <4>2. Cardinality(s \ {Pick(s)}) <= k - 1
        BY <1>1, <2>1, <3>4, <4>1
      <4> QED BY <3>2, <4>2
    <3>5. Upto(h, k)
      BY <3>3, <3>4
    <3> QED BY <2>1, <3>5
  <2> QED BY <2>2, <2>3
<1>3. Cardinality(S) \in Nat /\ \A s \in SUBSET S : Cardinality(s) <= Cardinality(S)
  BY FS_Subset, FS_CardinalityType
<1>4. PICK g : Upto(g, Cardinality(S))
  BY <1>2, <1>3
<1>5. Sums(g, f, S)
  BY <1>3, <1>4 DEF Sums
<1> QED BY <1>5

LEMMA TotalIsSum ==
    ASSUME NEW S, IsFiniteSet(S), NEW f \in [S -> Nat]
    PROVE  \E it : Sums(it, f, S) /\ it[S] = Total(f)
<1>1. (CHOOSE it : Sums(it, f, S))[S] = Total(f)
  <2>1. DOMAIN f = S
    OBVIOUS
  <2>2. Total(f) = (CHOOSE it : Sums(it, f, DOMAIN f))[DOMAIN f]
    BY Zenon DEF Total, Sums, Pick, FoldFunction, FoldFunctionOnSet, MapThenFoldSet
  <2> QED BY <2>1, <2>2, Zenon
<1>2. Sums(CHOOSE it : Sums(it, f, S), f, S)
  BY SumsExist
<1> QED BY <1>1, <1>2

LEMMA SumsTyped ==
    ASSUME NEW S, IsFiniteSet(S), NEW f \in [S -> Nat], NEW it, Sums(it, f, S)
    PROVE  \A s \in SUBSET S : it[s] \in Nat
<1> DEFINE Bad == {s \in SUBSET S : it[s] \notin Nat}
<1> SUFFICES ASSUME Bad # {} PROVE FALSE
  OBVIOUS
<1>1. PICK s \in Bad : s # {} => Pick(s) \in s /\ s \ {Pick(s)} \notin Bad
  BY SmallestSubset
<1>2. it[s] = IF s = {} THEN 0 ELSE f[Pick(s)] + it[s \ {Pick(s)}]
  BY Zenon DEF Sums
<1> QED BY <1>1, <1>2

LEMMA TotalGrows ==
    ASSUME NEW S, IsFiniteSet(S), NEW f \in [S -> Nat], NEW g \in [S -> Nat],
           \A x \in S : f[x] <= g[x]
    PROVE  /\ Total(f) \in Nat /\ Total(g) \in Nat /\ Total(f) <= Total(g)
           /\ \A n \in S, d \in Nat : f[n] + d <= g[n] => Total(f) + d <= Total(g)
<1>0. ASSUME NEW n, NEW d \in Nat, n \in S => f[n] + d <= g[n]
      PROVE  /\ Total(f) \in Nat /\ Total(g) \in Nat /\ Total(f) <= Total(g)
             /\ n \in S => Total(f) + d <= Total(g)
  <2>1. PICK fs : Sums(fs, f, S) /\ fs[S] = Total(f)
    BY TotalIsSum
  <2>2. PICK gs : Sums(gs, g, S) /\ gs[S] = Total(g)
    BY TotalIsSum
  <2>t. \A s \in SUBSET S : fs[s] \in Nat /\ gs[s] \in Nat
    BY <2>1, <2>2, SumsTyped
  <2> DEFINE more(s) == IF n \in s THEN d ELSE 0
             Bad == {s \in SUBSET S : ~(fs[s] + more(s) <= gs[s])}
  <2>3. Bad = {}
    <3> SUFFICES ASSUME Bad # {} PROVE FALSE
      OBVIOUS
    <3>1. PICK s \in Bad : s # {} => Pick(s) \in s /\ s \ {Pick(s)} \notin Bad
      BY SmallestSubset
    <3>2. /\ fs[s] = IF s = {} THEN 0 ELSE f[Pick(s)] + fs[s \ {Pick(s)}]
          /\ gs[s] = IF s = {} THEN 0 ELSE g[Pick(s)] + gs[s \ {Pick(s)}]
      BY <2>1, <2>2 DEF Sums
    <3>3. s # {}
      BY <3>2
    <3>4. fs[s \ {Pick(s)}] + more(s \ {Pick(s)}) <= gs[s \ {Pick(s)}]
      BY <3>1, <3>3
    <3>5. f[Pick(s)] + (IF Pick(s) = n THEN d ELSE 0) <= g[Pick(s)]
      BY <1>0, <3>1, <3>3
    <3>6. more(s) = more(s \ {Pick(s)}) + (IF Pick(s) = n THEN d ELSE 0)
      BY <3>1, <3>3
    <3>7. /\ f[Pick(s)] \in Nat /\ g[Pick(s)] \in Nat
          /\ fs[s \ {Pick(s)}] \in Nat /\ gs[s \ {Pick(s)}] \in Nat
          /\ more(s) \in Nat /\ more(s \ {Pick(s)}) \in Nat
      BY <2>t, <3>1, <3>3
    <3>8. ~(fs[s] + more(s) <= gs[s])
      OBVIOUS
    <3> HIDE DEF more, Bad
    <3> QED BY <3>2, <3>3, <3>4, <3>5, <3>6, <3>7, <3>8
  <2>4. fs[S] + more(S) <= gs[S]
    BY <2>3
  <2> HIDE DEF Bad
  <2>5. fs[S] \in Nat /\ gs[S] \in Nat
    BY <2>t
  <2> QED BY <2>1, <2>2, <2>4, <2>5
<1>1. Total(f) \in Nat /\ Total(g) \in Nat /\ Total(f) <= Total(g)
  <2>1. 0 \in Nat /\ (S \in S => f[S] + 0 <= g[S])
    OBVIOUS
  <2> QED BY <1>0, <2>1, Zenon
<1> QED BY <1>0, <1>1

LEMMA TotalTyped ==
    ASSUME NEW S, IsFiniteSet(S), NEW f \in [S -> Nat]
    PROVE  Total(f) \in Nat
<1>1. PICK it : Sums(it, f, S) /\ it[S] = Total(f)
  BY TotalIsSum
<1> QED BY <1>1, SumsTyped

-----------------------------------------------------------------------------
(***************************************************************************)
(* Counting refusals.  Every refusal told to the memory is paid for by a   *)
(* claim whose refusal can no longer come: one that is deleted or gone, or *)
(* whose launch is freeing the group of a quota rejection it has told.     *)
(***************************************************************************)

\* The refusal of the claim of n is still to be told.
MayBeRefused(n) ==
    /\ Wanted(claims[n]) \/ launch[n].pc # "idle"
    /\ ~(launch[n].pc \in {"freeing", "freed"} /\ launch[n].quota)

\* A launch is of the claim that exists, which has not been launched yet: core
\* removes no claim that a launch is under way for.
LaunchOfClaim(m) ==
    launch[m].pc # "idle" =>
        /\ Exists(claims[m]) /\ claims[m].uid = launch[m].uid
        /\ claims[m].launched = NoFlavor

LEMMA LaunchOfClaimAfter ==
    ASSUME TypeInv, LocksAndMarks, NEW n \in Names, Silent(n) \/ Telling(n),
           LaunchOfClaim(n)
    PROVE  LaunchOfClaim(n)'
<1>t. /\ LaunchTypeOK
      /\ launch \in [Names -> Launch] /\ launch[n] \in Launch
      /\ claims \in [Names -> Claim] /\ claims[n] \in Claim
      /\ deletion[n].step # "none" => launch[n].pc = "idle"
  BY DEF TypeInv, TypeOK, LaunchTypeOK, ClusterTypeOK, LocksAndMarks
<1>0. ASSUME UNCHANGED claims, launch[n].pc # "idle", launch'[n].uid = launch[n].uid
      PROVE  LaunchOfClaim(n)'
  BY <1>0 DEF LaunchOfClaim
<1>1. CASE Create(n)
  BY <1>t, <1>1 DEF Create, Goto, Idle, cluster, LaunchOfClaim, Wanted
<1>2. CASE Lock(n)
  <2>1. PICK b \in BOOLEAN : b = Exists(groups[n])
    BY DEF Exists
  <2>2. launch'[n].uid = launch[n].uid /\ launch[n].pc # "idle"
    BY <1>t, <1>2, <2>1 DEF Lock, Launch
  <2> QED BY <1>0, <1>2, <2>2 DEF Lock, cluster
<1>3. ASSUME Return(n) PROVE LaunchOfClaim(n)'
  BY <1>t, <1>3 DEF Return, Idle, LaunchOfClaim
<1>4. CASE \E lost \in BOOLEAN : PostFails(n, lost)
  BY <1>t, <1>4 DEF PostFails, Idle, LaunchOfClaim
<1>5. CASE resolveLaunch(n) \/ AdoptConflicting(n) \/ PollRefused(n) \/ PollSees(n)
           \/ PassQuota(n)
  <2>1. launch'[n].uid = launch[n].uid
    <3>1. CASE resolveLaunch(n)
      BY <1>t, <3>1 DEF resolveLaunch, Goto, Launch
    <3>2. CASE AdoptConflicting(n)
      BY <1>t, <3>2 DEF AdoptConflicting, Goto, Launch
    <3>3. CASE PollRefused(n)
      BY <1>t, <3>3 DEF PollRefused, Goto, Launch
    <3>4. CASE PollSees(n)
      BY <1>t, <3>4 DEF PollSees, Goto, Launch
    <3>5. CASE PassQuota(n)
      BY <1>t, <3>5 DEF PassQuota, Launch
    <3> QED BY <1>5, <3>1, <3>2, <3>3, <3>4, <3>5
  <2>2. UNCHANGED claims /\ launch[n].pc # "idle"
    BY <1>5 DEF resolveLaunch, AdoptConflicting, PollRefused, PollSees, PassQuota, Polls,
                cluster
  <2> QED BY <1>0, <2>1, <2>2
<1>6. CASE \/ TakeMark(n) \/ Adopt(n) \/ PostCreates(n) \/ PostConflicts(n)
           \/ PollAccepts(n) \/ PollRejected(n) \/ Free(n) \/ FreeFails(n)
  <2>1. UNCHANGED claims /\ launch[n].pc # "idle"
    BY <1>6 DEF TakeMark, Adopt, PostCreates, Posts, PostConflicts, PollAccepts,
       PollRejected, Polls, Free, FreeFails, CreateGroup, DeleteGroup, cluster
  <2>2. \E pc \in Steps :
           \/ Goto(n, [launch[n] EXCEPT !.pc = pc])
           \/ Goto(n, [launch[n] EXCEPT !.pc = pc, !.seen = TRUE])
           \/ Goto(n, [launch[n] EXCEPT !.pc = pc, !.quota = TRUE])
    BY <1>6 DEF TakeMark, Adopt, PostCreates, PostConflicts, PollAccepts, PollRejected,
       Free, FreeFails, Steps
  <2> QED BY <1>t, <1>0, <2>1, <2>2, GotoStep
<1>7. CASE Release(n) \/ DeleteNotFound(n)
  BY <1>t, <1>7 DEF Release, DeleteNotFound, Terminating, DeleteEnds, calls, LaunchOfClaim
<1>8. CASE LandDelayed(n) \/ Sync(n) \/ TearDown(n) \/ Delete(n) \/ DeleteAccepted(n)
           \/ DeleteFails(n) \/ DeleteReturns(n)
  <2>1. UNCHANGED <<claims, launch>>
    BY <1>8 DEF LandDelayed, Sync, TearDown, Delete, DeleteAccepted, DeleteFails,
       DeleteReturns, DeleteEnds, calls, cluster, CreateGroup, SyncCache, FinalizeGroup,
       DeleteGroup
  <2> QED BY <2>1 DEF LaunchOfClaim
<1>9. CASE ClusterSteps(n)
  <2>0. UNCHANGED launch
    BY <1>9 DEF ClusterSteps, calls
  <2>1. CASE CreateClaim(n)
    BY <2>0, <2>1 DEF CreateClaim, LaunchOfClaim
  <2>2. CASE DeleteClaim(n)
    BY <1>t, <2>0, <2>2 DEF DeleteClaim, LaunchOfClaim, Claim, Exists
  <2>3. CASE Register(n)
    BY <1>t, <2>0, <2>3 DEF Register, LaunchOfClaim, Claim, Exists
  <2>4. CASE Reclaim(n) \/ (\E status \in Statuses : OperatorWrites(n, status))
    BY <2>0, <2>4 DEF Reclaim, DeleteGroup, OperatorWrites, LaunchOfClaim
  <2> QED BY <1>9, <2>1, <2>2, <2>3, <2>4 DEF ClusterSteps, ClusterStep
<1> QED BY <1>1, <1>2, <1>3, <1>4, <1>5, <1>6, <1>7, <1>8, <1>9
        DEF Silent, Telling, LockRefused, ResolveFails, ResolveRefuses, FastFail,
            PostRefused, ConflictFails, PollVanishes, PollTimeout, PollFails, FreedRejected,
            FreedRefused, Accept, ReturnLaunched, ReturnError, ReturnInsufficientCapacity

\* What a call of the memory adds to the refusals told.
Untold == UNCHANGED <<quotaRejectionSeq, holdOutSeq>>

ToldOne ==
    \/ quotaRejectionSeq' = quotaRejectionSeq + 1 /\ UNCHANGED holdOutSeq
    \/ holdOutSeq' = holdOutSeq + 1 /\ UNCHANGED quotaRejectionSeq

LEMMA CountersAfter ==
    ASSUME MemoryTypeOK, NEW n
    PROVE  /\ UNCHANGED memory => Untold
           /\ LaunchEnds(n) \/ MarkLaunch(n) \/ SendDelete(n) => Untold
           /\ DeleteClears(n) \/ DeleteKeeps(n) => Untold
           /\ \A f : LaunchAccepted(n, f) => Untold
           /\ \A f : LaunchRefused(n, f) \/ LaunchVanished(n, f) => ToldOne
           /\ \A f : QuotaRejected(f) \/ FlavorRefused(f) => ToldOne
  BY DEF LaunchEnds, MarkLaunch, SendDelete, DeleteClears, DeleteKeeps, LaunchAccepted,
         clearQuotaRejections, clearFlavorRejection, LaunchRefused, LaunchVanished,
         QuotaRejected, FlavorRefused, recordQuotaRejection, recordFlavorRejection,
         tables, memory, MemoryTypeOK, Untold, ToldOne

\* A step creates a claim, or tells one refusal and ends what may be refused, or
\* tells nothing and makes nothing refusable.
LEMMA OwnRefusal ==
    ASSUME TypeInv, LocksAndMarks, NEW n \in Names, Silent(n) \/ Telling(n),
           LaunchOfClaim(n)
    PROVE  \/ /\ ~Exists(claims[n]) /\ ~MayBeRefused(n)
              /\ claimUIDs'[n] = claimUIDs[n] + 1
              /\ Untold
           \/ /\ claimUIDs'[n] = claimUIDs[n]
              /\ Exists(claims'[n]) => Exists(claims[n])
              /\ \/ /\ Untold
                    /\ MayBeRefused(n)' => MayBeRefused(n)
                 \/ /\ ToldOne
                    /\ MayBeRefused(n) /\ ~MayBeRefused(n)'
<1> DEFINE l == launch[n]
           Kept1 == claimUIDs'[n] = claimUIDs[n] /\ (Exists(claims'[n]) => Exists(claims[n]))
<1>t. /\ LaunchTypeOK /\ MemoryTypeOK
      /\ launch \in [Names -> Launch] /\ launch[n] \in Launch
      /\ claims \in [Names -> Claim] /\ claims[n] \in Claim
      /\ claimUIDs \in [Names -> Nat]
      /\ deletion[n].step # "none" => launch[n].pc = "idle"
  BY DEF TypeInv, TypeOK, LaunchTypeOK, ClusterTypeOK, LocksAndMarks
<1>s. /\ \A uid, f : StoreLaunch(n, uid, f) => Kept1
      /\ UNCHANGED <<claims, claimUIDs>> => Kept1
      /\ ReturnInsufficientCapacity(n) => Kept1
  BY <1>t DEF StoreLaunch, ReturnInsufficientCapacity, Claim, Exists
<1>k. ReturnInsufficientCapacity(n) /\ l.pc # "idle" => ~MayBeRefused(n)'
  BY <1>t DEF ReturnInsufficientCapacity, Return, Idle, MayBeRefused, LaunchOfClaim, Claim,
              Wanted
<1>p. l.pc \notin {"idle", "freeing", "freed"} => MayBeRefused(n)
  BY DEF MayBeRefused
<1>q. Silent(n) => Untold
  BY <1>t, SilentKeepsMemory, CountersAfter
<1>1. CASE \/ Lock(n) \/ LockRefused(n)
           \/ resolveLaunch(n) \/ ResolveFails(n) \/ ResolveRefuses(n) \/ FastFail(n)
           \/ PassQuota(n) \/ Adopt(n) \/ PostCreates(n) \/ PostConflicts(n)
           \/ AdoptConflicting(n) \/ PollSees(n) \/ PollAccepts(n) \/ PollRefused(n)
           \/ TakeMark(n) \/ (\E lost \in BOOLEAN : PostFails(n, lost)) \/ ConflictFails(n)
           \/ PollTimeout(n) \/ PollFails(n) \/ Accept(n)
  <2>1. l.pc \notin {"idle", "freeing", "freed"}
    BY <1>1 DEF Lock, LockRefused, resolveLaunch, ResolveFails, ResolveRefuses, FastFail,
       PassQuota, Adopt, PostCreates, Posts, PostConflicts, AdoptConflicting, PollSees,
       PollAccepts, PollRefused, TakeMark, PostFails, ConflictFails, PollTimeout, PollFails,
       Accept, Polls
  <2>2. Kept1
    BY <1>1, <1>s DEF Lock, LockRefused, resolveLaunch, ResolveFails, ResolveRefuses, FastFail,
       PassQuota, Adopt, PostCreates, PostConflicts, AdoptConflicting, PollSees,
       PollAccepts, PollRefused, TakeMark, PostFails, ConflictFails, PollTimeout, PollFails,
       Accept, ReturnLaunched, ReturnError, CreateGroup, cluster
  <2>3. Untold
    <3>1. CASE Silent(n)
      BY <1>q, <3>1
    <3>2. CASE \/ TakeMark(n) \/ (\E lost \in BOOLEAN : PostFails(n, lost)) \/ ConflictFails(n)
               \/ PollTimeout(n) \/ PollFails(n) \/ Accept(n)
      BY <1>t, <3>2, CountersAfter DEF TakeMark, PostFails, ConflictFails, PollTimeout,
         PollFails, Accept
    <3> QED BY <1>1, <3>1, <3>2 DEF Silent
  <2> QED BY <1>p, <2>1, <2>2, <2>3
<1>2. CASE Create(n)
  <2>1. MayBeRefused(n) /\ UNCHANGED <<claims, claimUIDs>>
    BY <1>2 DEF Create, MayBeRefused, cluster
  <2>2. Untold
    BY <1>2, <1>q DEF Silent
  <2> QED BY <1>s, <2>1, <2>2
<1>3. CASE Free(n) \/ FreeFails(n)
  <2>1. launch'[n].pc = "freed" /\ launch'[n].quota = l.quota /\ l.pc = "freeing"
    BY <1>t, <1>3 DEF Free, FreeFails, Goto, Launch
  <2>2. UNCHANGED <<claims, claimUIDs>>
    BY <1>3 DEF Free, FreeFails, DeleteGroup, cluster
  <2>3. Untold
    BY <1>3, <1>q DEF Silent
  <2> QED BY <1>s, <2>1, <2>2, <2>3 DEF MayBeRefused
<1>4. CASE FreedRejected(n)
  <2>1. ReturnInsufficientCapacity(n) /\ l.pc # "idle" /\ Untold
    BY <1>t, <1>4, CountersAfter DEF FreedRejected
  <2> QED BY <1>s, <1>k, <2>1
<1>5. CASE FreedRefused(n) \/ PostRefused(n) \/ PollVanishes(n)
  <2>1. ReturnInsufficientCapacity(n) /\ l.pc # "idle" /\ MayBeRefused(n)
    BY <1>5, <1>p DEF FreedRefused, PostRefused, PollVanishes, Posts, Polls, MayBeRefused
  <2>2. ToldOne
    BY <1>t, <1>5, CountersAfter DEF FreedRefused, PostRefused, PollVanishes
  <2> QED BY <1>s, <1>k, <2>1, <2>2
<1>6. CASE PollRejected(n)
  <2>1. /\ launch'[n].pc = "freeing" /\ launch'[n].quota
        /\ l.pc = "polling" /\ UNCHANGED <<claims, claimUIDs>>
    BY <1>t, <1>6 DEF PollRejected, Polls, Goto, Launch, cluster
  <2>2. ToldOne
    BY <1>t, <1>6, CountersAfter DEF PollRejected
  <2> QED BY <1>s, <1>p, <2>1, <2>2 DEF MayBeRefused
<1>7. CASE Release(n) \/ DeleteNotFound(n)
  <2>1. /\ RemoveClaim(n) /\ UNCHANGED launch /\ l.pc = "idle"
    BY <1>t, <1>7 DEF Release, DeleteNotFound, Terminating, DeleteEnds, calls
  <2>2. claims'[n] = NoClaim /\ UNCHANGED claimUIDs
    BY <1>t, <2>1 DEF RemoveClaim
  <2>3. Untold
    BY <1>t, <1>7, CountersAfter DEF Release, DeleteNotFound
  <2> QED BY <2>1, <2>2, <2>3 DEF MayBeRefused, NoClaim, Exists, Wanted
<1>8. CASE LandDelayed(n) \/ Sync(n) \/ TearDown(n) \/ Delete(n) \/ DeleteAccepted(n)
           \/ DeleteFails(n) \/ DeleteReturns(n)
  <2>1. UNCHANGED <<claims, claimUIDs, launch>>
    BY <1>8 DEF LandDelayed, Sync, TearDown, Delete, DeleteAccepted, DeleteFails,
       DeleteReturns, DeleteEnds, calls, cluster, CreateGroup, SyncCache, FinalizeGroup,
       DeleteGroup
  <2>2. Untold
    BY <1>t, <1>8, CountersAfter DEF LandDelayed, Sync, TearDown, Delete, DeleteAccepted,
       DeleteFails, DeleteReturns
  <2> QED BY <1>s, <2>1, <2>2 DEF MayBeRefused
<1>9. CASE ClusterSteps(n)
  <2>0. UNCHANGED launch /\ Untold
    BY <1>9, <1>q DEF ClusterSteps, calls, Silent
  <2>1. CASE CreateClaim(n)
    <3>1. ~Exists(claims[n]) /\ claimUIDs'[n] = claimUIDs[n] + 1
      BY <1>t, <2>1 DEF CreateClaim
    <3>2. ~MayBeRefused(n)
      BY <3>1 DEF MayBeRefused, LaunchOfClaim, Wanted
    <3> QED BY <2>0, <3>1, <3>2
  <2>2. CASE DeleteClaim(n) \/ Register(n)
    <3>1. UNCHANGED claimUIDs /\ claims'[n].uid = claims[n].uid /\ Wanted(claims[n])
      BY <1>t, <2>2 DEF DeleteClaim, Register, Claim
    <3> QED BY <2>0, <3>1 DEF MayBeRefused, Exists
  <2>3. CASE Reclaim(n) \/ (\E status \in Statuses : OperatorWrites(n, status))
    <3>1. UNCHANGED <<claims, claimUIDs>>
      BY <2>3 DEF Reclaim, DeleteGroup, OperatorWrites
    <3> QED BY <1>s, <2>0, <3>1 DEF MayBeRefused
  <2> QED BY <1>9, <2>1, <2>2, <2>3 DEF ClusterSteps, ClusterStep
<1> HIDE DEF Kept1
<1> QED BY <1>1, <1>2, <1>3, <1>4, <1>5, <1>6, <1>7, <1>8, <1>9 DEF Silent, Telling

\* The claims of a name whose refusal can no longer come.
SpentOn(n) == claimUIDs[n] - (IF MayBeRefused(n) THEN 1 ELSE 0)

Spent == [n \in Names |-> SpentOn(n)]

\* The controller has deleted a claim and not told of it yet.
Pending == IF followUp.pc = "record" THEN 1 ELSE 0

ClaimsCounted ==
    \A m \in Names : (Exists(claims[m]) => claimUIDs[m] # 0) /\ LaunchOfClaim(m)

RefusalsPaid == quotaRejectionSeq + holdOutSeq + Pending <= Total(Spent)

CountInv == ClaimsCounted /\ RefusalsPaid

LEMMA SpentTyped ==
    ASSUME TypeInv, ClaimsCounted
    PROVE  /\ Spent \in [Names -> Nat] /\ claimUIDs \in [Names -> Nat]
           /\ \A n \in Names : SpentOn(n) <= claimUIDs[n]
<1>1. ASSUME NEW n \in Names PROVE SpentOn(n) \in Nat /\ SpentOn(n) <= claimUIDs[n]
  <2>1. claimUIDs[n] \in Nat
    BY DEF TypeInv, TypeOK, ClusterTypeOK
  <2>2. MayBeRefused(n) => Exists(claims[n])
    BY DEF MayBeRefused, Wanted, ClaimsCounted, LaunchOfClaim
  <2>3. MayBeRefused(n) => claimUIDs[n] # 0
    BY <2>2 DEF ClaimsCounted
  <2> QED BY <2>1, <2>3 DEF SpentOn
<1>2. claimUIDs \in [Names -> Nat]
  BY DEF TypeInv, TypeOK, ClusterTypeOK
<1> QED BY <1>1, <1>2 DEF Spent

LEMMA SpentStaysTyped ==
    TypeInv' /\ ClaimsCounted' => Spent' \in [Names -> Nat]
<1>1. TypeInv /\ ClaimsCounted => Spent \in [Names -> Nat]
  BY SpentTyped
<1>2. (TypeInv /\ ClaimsCounted => Spent \in [Names -> Nat])'
  BY <1>1, PTL
<1> QED BY <1>2

LEMMA ClaimsCountedStep ==
    TypeInv /\ LocksAndMarks /\ ClaimsCounted /\ [SystemNext]_vars => ClaimsCounted'
<1> SUFFICES ASSUME TypeInv, LocksAndMarks, ClaimsCounted, [SystemNext]_vars
             PROVE  ClaimsCounted'
  OBVIOUS
<1>k. \A m \in Names : (Exists(claims[m]) => claimUIDs[m] # 0) /\ LaunchOfClaim(m)
  BY DEF ClaimsCounted
<1>1. ASSUME NEW n \in Names, Silent(n) \/ Telling(n) PROVE ClaimsCounted'
  <2>1. LaunchOfClaim(n)'
    BY <1>1, <1>k, LaunchOfClaimAfter
  <2>2. Exists(claims'[n]) => claimUIDs'[n] # 0
    <3>1. claimUIDs[n] \in Nat
      BY DEF TypeInv, TypeOK, ClusterTypeOK
    <3>2. \/ claimUIDs'[n] = claimUIDs[n] + 1
          \/ claimUIDs'[n] = claimUIDs[n] /\ (Exists(claims'[n]) => Exists(claims[n]))
      BY <1>1, <1>k, OwnRefusal
    <3> QED BY <1>k, <3>1, <3>2
  <2>3. ASSUME NEW m \in Names, m # n
        PROVE  (Exists(claims'[m]) => claimUIDs'[m] # 0) /\ LaunchOfClaim(m)'
    <3>1. UNCHANGED OfName(m)
      BY <1>1, <2>3, OwnNameOnly
    <3> QED BY <1>k, <3>1 DEF OfName, LaunchOfClaim
  <2> QED BY <2>1, <2>2, <2>3 DEF ClaimsCounted
<1>2. CASE RestartProcess
  <2>1. UNCHANGED <<claims, claimUIDs>> /\ \A m \in Names : launch'[m] = Idle
    BY <1>2 DEF RestartProcess
  <2> QED BY <1>k, <2>1 DEF ClaimsCounted, LaunchOfClaim, Idle
<1>3. ASSUME UNCHANGED <<cluster, calls>> PROVE ClaimsCounted'
  BY <1>k, <1>3 DEF ClaimsCounted, LaunchOfClaim, cluster, calls
<1> QED BY <1>1, <1>2, <1>3, SystemSteps DEF LateRefusal, vars

\* A step of one name tells at most one refusal, and spends a claim for it.
LEMMA OwnSpent ==
    ASSUME TypeInv, LocksAndMarks, ClaimsCounted, TypeInv', ClaimsCounted', IsFiniteSet(Names),
           NEW n \in Names, Silent(n) \/ Telling(n)
    PROVE  /\ Total(Spent) \in Nat /\ Total(Spent') \in Nat
           /\ \/ Untold /\ Total(Spent) <= Total(Spent')
              \/ ToldOne /\ Total(Spent) + 1 <= Total(Spent')
<1>t. Spent \in [Names -> Nat] /\ Spent' \in [Names -> Nat] /\ claimUIDs[n] \in Nat
  <2>1. Spent \in [Names -> Nat] /\ claimUIDs \in [Names -> Nat]
    BY SpentTyped
  <2>2. Spent' \in [Names -> Nat]
    BY SpentStaysTyped
  <2> QED BY <2>1, <2>2
<1>o. \A m \in Names \ {n} : Spent[m] = Spent'[m]
  <2>1. ASSUME NEW m \in Names \ {n} PROVE SpentOn(m)' = SpentOn(m)
    BY <2>1, OwnNameOnly DEF OfName, SpentOn, MayBeRefused
  <2> QED BY <2>1 DEF Spent
<1>p. LaunchOfClaim(n)
  BY DEF ClaimsCounted
<1>1. \/ Untold /\ Spent[n] <= Spent'[n]
      \/ ToldOne /\ Spent[n] + 1 <= Spent'[n]
  <2>1. Spent[n] = SpentOn(n) /\ Spent'[n] = SpentOn(n)'
    BY DEF Spent
  <2> QED BY <1>t, <1>p, <2>1, OwnRefusal DEF SpentOn
<1>2. \A m \in Names : Spent[m] <= Spent'[m]
  <2> SUFFICES ASSUME NEW m \in Names PROVE Spent[m] <= Spent'[m]
    OBVIOUS
  <2>1. Spent[m] \in Nat /\ Spent'[m] \in Nat
    BY <1>t
  <2>2. CASE m = n
    BY <1>1, <2>1, <2>2
  <2>3. CASE m # n
    <3>1. Spent[m] = Spent'[m]
      BY <1>o, <2>3
    <3> QED BY <2>1, <3>1
  <2> QED BY <2>2, <2>3
<1>3. /\ Total(Spent) \in Nat /\ Total(Spent') \in Nat /\ Total(Spent) <= Total(Spent')
      /\ Spent[n] + 1 <= Spent'[n] => Total(Spent) + 1 <= Total(Spent')
  BY <1>t, <1>2, TotalGrows
<1> QED BY <1>1, <1>3

LEMMA RefusalsPaidStep ==
    /\ IsFiniteSet(Names) /\ FollowUpInv /\ FollowUpInv' /\ LocksAndMarks
    /\ CountInv /\ ClaimsCounted' /\ [FollowUpNext]_followVars
    => RefusalsPaid'
<1> SUFFICES ASSUME IsFiniteSet(Names), FollowUpInv, FollowUpInv', LocksAndMarks, CountInv,
                    ClaimsCounted', [FollowUpNext]_followVars
             PROVE  RefusalsPaid'
  OBVIOUS
<1>t. /\ TypeInv /\ TypeInv' /\ ClaimsCounted /\ RefusalsPaid
      /\ quotaRejectionSeq \in Nat /\ holdOutSeq \in Nat
      /\ quotaRejectionSeq' \in Nat /\ holdOutSeq' \in Nat
      /\ followUp \in FollowUp
  BY DEF FollowUpInv, CountInv, TypeInv, TypeOK, MemoryTypeOK
<1>s. /\ Spent \in [Names -> Nat] /\ Spent' \in [Names -> Nat]
      /\ Total(Spent) \in Nat /\ Total(Spent') \in Nat
  <2>1. Spent \in [Names -> Nat] /\ Spent' \in [Names -> Nat]
    BY <1>t, SpentTyped, SpentStaysTyped
  <2> QED BY <2>1, TotalTyped
<1>r. /\ quotaRejectionSeq + holdOutSeq + Pending <= Total(Spent)
      /\ RefusalsPaid' <=> quotaRejectionSeq' + holdOutSeq' + Pending' <= Total(Spent')
  BY <1>t DEF RefusalsPaid
<1>0. ASSUME UNCHANGED <<claims, claimUIDs, launch>> PROVE Spent' = Spent
  BY <1>0 DEF Spent, SpentOn, MayBeRefused
<1>1. ASSUME NEW n \in Names, Silent(n) \/ Telling(n), UNCHANGED followUp
      PROVE  RefusalsPaid'
  <2>1. \/ Untold /\ Total(Spent) <= Total(Spent')
        \/ ToldOne /\ Total(Spent) + 1 <= Total(Spent')
    BY <1>1, <1>t, OwnSpent
  <2>2. Pending' = Pending /\ Pending \in {0, 1}
    BY <1>1 DEF Pending
  <2>3. CASE Untold /\ Total(Spent) <= Total(Spent')
    BY <1>t, <1>s, <1>r, <2>2, <2>3 DEF Untold
  <2>4. CASE ToldOne /\ Total(Spent) + 1 <= Total(Spent')
    BY <1>t, <1>s, <1>r, <2>2, <2>4 DEF ToldOne
  <2> QED BY <2>1, <2>3, <2>4
<1>2. ASSUME NEW n \in Names, FollowUpStep(n) PROVE RefusalsPaid'
  <2>1. CASE Reconcile(n) \/ ConfirmGroup(n) \/ ConfirmClaim(n) \/ FailLaunchRefused(n)
    <3>1. Pending' = 0 /\ Pending = 0
      <4>1. CASE Done
        BY <2>1, <4>1 DEF Done, NoFollowUp, Pending, Reconcile, ConfirmGroup, ConfirmClaim,
                          FailLaunchRefused
      <4>2. CASE Reconcile(n)
        BY <4>2 DEF Reconcile, NoFollowUp, Pending
      <4>3. CASE ConfirmGroup(n) /\ ~Done
        BY <1>t, <4>3 DEF ConfirmGroup, FollowUp, Pending
      <4>4. CASE ConfirmClaim(n) /\ ~Done
        BY <1>t, <4>4 DEF ConfirmClaim, FollowUp, Pending
      <4> QED BY <2>1, <4>1, <4>2, <4>3, <4>4 DEF FailLaunchRefused
    <3>2. UNCHANGED <<claims, claimUIDs, launch, quotaRejectionSeq, holdOutSeq>>
      BY <2>1 DEF Reconcile, ConfirmGroup, ConfirmClaim, FailLaunchRefused, vars, cluster,
         memory, tables, calls
    <3> QED BY <1>0, <1>t, <1>s, <3>1, <3>2 DEF RefusalsPaid
  <2>2. CASE FailLaunch(n)
    <3>1. /\ followUp.pc = "delete" /\ Followed(claims[n])
          /\ DeleteClaim(n) /\ UNCHANGED launch
          /\ UNCHANGED <<quotaRejectionSeq, holdOutSeq>>
      BY <2>2 DEF FailLaunch, FollowUpInv, FollowUpKnows, calls, memory, tables
    <3>2. launch[n].pc = "idle"
      BY <3>1, <1>t DEF ClaimsCounted, LaunchOfClaim, Followed
    <3>3. /\ claims \in [Names -> Claim] /\ claimUIDs \in [Names -> Nat]
          /\ claims'[n].deleting /\ UNCHANGED claimUIDs
          /\ \A m \in Names \ {n} : claims'[m] = claims[m]
      BY <1>t, <3>1 DEF DeleteClaim, TypeInv, TypeOK, ClusterTypeOK, Claim
    <3>4. MayBeRefused(n) /\ ~MayBeRefused(n)'
      BY <3>1, <3>2, <3>3 DEF MayBeRefused, Followed, Wanted
    <3>5. Spent[n] + 1 <= Spent'[n]
      BY <3>3, <3>4 DEF Spent, SpentOn
    <3>6. \A m \in Names \ {n} : Spent[m] = Spent'[m]
      BY <3>1, <3>3 DEF Spent, SpentOn, MayBeRefused
    <3>7. \A m \in Names : Spent[m] <= Spent'[m]
      BY <1>s, <3>5, <3>6
    <3>9. Total(Spent) + 1 <= Total(Spent')
      BY <1>s, <3>5, <3>7, TotalGrows
    <3>8. Pending = 0 /\ Pending' \in {0, 1}
      BY <3>1 DEF Pending
    <3> QED BY <1>t, <1>s, <3>1, <3>8, <3>9 DEF RefusalsPaid
  <2>3. CASE RecordLateRefusal(n)
    <3>1. ToldOne
      BY <1>t, <2>3, CountersAfter DEF RecordLateRefusal, TypeInv, TypeOK
    <3>2. Pending = 1 /\ Pending' = 0
      BY <2>3 DEF RecordLateRefusal, Done, NoFollowUp, Pending
    <3>3. Spent' = Spent
      BY <1>0, <2>3 DEF RecordLateRefusal, cluster, calls
    <3>4. Total(Spent') = Total(Spent)
      BY <3>3
    <3> QED BY <1>t, <1>s, <1>r, <3>1, <3>2, <3>4 DEF ToldOne
  <2> QED BY <1>2, <2>1, <2>2, <2>3 DEF FollowUpStep
<1>3. CASE RestartProcess /\ Done
  <2>1. quotaRejectionSeq' = 0 /\ holdOutSeq' = 0 /\ Pending' = 0
    BY <1>3 DEF RestartProcess, Restart, Done, NoFollowUp, Pending
  <2> QED BY <1>s, <2>1 DEF RefusalsPaid
<1>4. CASE ((Tick /\ UNCHANGED <<cluster, calls>>) \/ UNCHANGED vars) /\ UNCHANGED followUp
  <2>1. UNCHANGED <<claims, claimUIDs, launch, quotaRejectionSeq, holdOutSeq, followUp>>
    BY <1>4 DEF Tick, vars, cluster, calls, memory, tables
  <2> QED BY <1>0, <1>t, <2>1 DEF RefusalsPaid, Pending
<1>5. LaunchNext => \/ \E n \in Names : Silent(n) \/ Telling(n)
                    \/ Tick /\ UNCHANGED <<cluster, calls>>
  BY DEF LaunchNext, LaunchStep, DeleteStep, Silent, Telling
<1> QED BY <1>1, <1>2, <1>3, <1>4, <1>5 DEF FollowUpNext, followVars

\* "A retry after a failed delete cannot count it twice": whatever fails, is
\* retried or restarts, the launches and the controller together tell the memory
\* of at most one refusal per claim.
THEOREM RefusalsNeverCountedTwice ==
    IsFiniteSet(Names) => (FollowUpSpec => []RefusalsCountedOnce)
<1> SUFFICES ASSUME IsFiniteSet(Names) PROVE FollowUpSpec => []RefusalsCountedOnce
  OBVIOUS
<1>1. Init /\ followUp = NoFollowUp => CountInv
  <2> SUFFICES ASSUME Init, followUp = NoFollowUp PROVE CountInv
    OBVIOUS
  <2>1. ClaimsCounted
    BY DEF Init, ClusterInit, ClaimsCounted, LaunchOfClaim, NoClaim, Exists, Idle
  <2>2. quotaRejectionSeq = 0 /\ holdOutSeq = 0 /\ Pending = 0
    BY DEF Init, MemoryInit, Pending, NoFollowUp
  <2>3. Spent \in [Names -> Nat]
    BY <2>1, SpentTyped, TypeInvInit
  <2>4. Total(Spent) \in Nat
    BY <2>3, TotalTyped
  <2> QED BY <2>1, <2>2, <2>4 DEF CountInv, RefusalsPaid
<1>2. FollowUpInv /\ FollowUpInv' /\ LocksAndMarks /\ CountInv /\ [FollowUpNext]_followVars
        => CountInv'
  BY RefusalsPaidStep, ClaimsCountedStep, FollowUpSystemStep DEF CountInv, FollowUpInv
<1>3. FollowUpInv /\ LocksAndMarks /\ [FollowUpNext]_followVars => LocksAndMarks'
  BY FollowUpSystemStep, LocksAndMarksStep DEF FollowUpInv
<1>4. FollowUpInv /\ CountInv => RefusalsCountedOnce
  <2> SUFFICES ASSUME FollowUpInv, CountInv PROVE RefusalsCountedOnce
    OBVIOUS
  <2>1. /\ TypeInv /\ ClaimsCounted /\ RefusalsPaid
        /\ quotaRejectionSeq \in Nat /\ holdOutSeq \in Nat
    BY DEF FollowUpInv, CountInv, TypeInv, TypeOK, MemoryTypeOK
  <2>2. /\ Spent \in [Names -> Nat] /\ claimUIDs \in [Names -> Nat]
        /\ \A n \in Names : Spent[n] <= claimUIDs[n]
    BY <2>1, SpentTyped DEF Spent
  <2>3. Total(Spent) \in Nat /\ Total(claimUIDs) \in Nat /\ Total(Spent) <= Total(claimUIDs)
    BY <2>2, TotalGrows
  <2>4. Pending \in {0, 1}
    BY DEF Pending
  <2>5. RefusalsCountedOnce <=> quotaRejectionSeq + holdOutSeq <= Total(claimUIDs)
    BY Zenon DEF RefusalsCountedOnce, OneRefusalPerClaim, Total
  <2> QED BY <2>1, <2>3, <2>4, <2>5 DEF RefusalsPaid
<1> QED BY <1>1, <1>2, <1>3, <1>4, FollowUpInvInit, FollowUpInvStep, LocksAndMarksInit, PTL
        DEF FollowUpSpec

=============================================================================
