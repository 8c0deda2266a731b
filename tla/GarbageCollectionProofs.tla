----------------------- MODULE GarbageCollectionProofs -----------------------
(***************************************************************************)
(* Theorems about GarbageCollection, for every set of names, labels and    *)
(* tampered or stuck objects.                                              *)
(***************************************************************************)
EXTENDS GarbageCollection, ClusterProofs, RefusalMemoryProofs

-----------------------------------------------------------------------------
(***************************************************************************)
(* Type correctness.                                                       *)
(***************************************************************************)

LEMMA SweepWritten ==
    /\ NoSweep \in Sweep
    /\ \A L \in [Names -> Group], B \in [Names -> Labels], U \in [Names -> Nat] :
          [NoSweep EXCEPT !.pc = "claims", !.listed = L, !.labels = B, !.since = U] \in Sweep
    /\ \A s \in Sweep, V \in [Names -> Nat], O \in SUBSET Names, L \in [Names -> Group],
          B \in [Names -> Labels] :
          [s EXCEPT !.pc = "names", !.orphans = O, !.vanished = V, !.listed = L, !.labels = B]
             \in Sweep
    /\ \A s \in Sweep, pc \in Phases : [s EXCEPT !.pc = pc] \in Sweep
    /\ \A s \in Sweep, V \in [Names -> Nat] :
          /\ [s EXCEPT !.pc = "reap", !.vanished = V] \in Sweep
          /\ [s EXCEPT !.pc = "sweep", !.vanished = V] \in Sweep
    /\ \A s \in Sweep, V \in [Names -> Nat] :
          [s EXCEPT !.pc = "reap", !.vanished = V, !.name = Collector] \in Sweep
    /\ \A s \in Sweep, pc \in Phases, n \in Names : [s EXCEPT !.pc = pc, !.name = n] \in Sweep
    /\ \A s \in Sweep, O \in SUBSET Names :
          [s EXCEPT !.pc = "sweep", !.orphans = O, !.name = Collector] \in Sweep
<1>1. NoSweep \in Sweep
  BY GroupWritten, CollectorAssumption DEF NoSweep, Sweep, Nothing, Phases
<1>2. \A L \in [Names -> Group], B \in [Names -> Labels], U \in [Names -> Nat] :
          [NoSweep EXCEPT !.pc = "claims", !.listed = L, !.labels = B, !.since = U] \in Sweep
  BY <1>1 DEF Sweep, Phases
<1>3. \A s \in Sweep, V \in [Names -> Nat], O \in SUBSET Names, L \in [Names -> Group],
          B \in [Names -> Labels] :
          [s EXCEPT !.pc = "names", !.orphans = O, !.vanished = V, !.listed = L, !.labels = B]
             \in Sweep
  BY DEF Sweep, Phases
<1>4. \A s \in Sweep, pc \in Phases : [s EXCEPT !.pc = pc] \in Sweep
  BY DEF Sweep
<1>5. \A s \in Sweep, V \in [Names -> Nat] :
          /\ [s EXCEPT !.pc = "reap", !.vanished = V] \in Sweep
          /\ [s EXCEPT !.pc = "sweep", !.vanished = V] \in Sweep
  BY DEF Sweep, Phases
<1>6. \A s \in Sweep, V \in [Names -> Nat] :
          [s EXCEPT !.pc = "reap", !.vanished = V, !.name = Collector] \in Sweep
  BY DEF Sweep, Phases
<1>7. \A s \in Sweep, pc \in Phases, n \in Names : [s EXCEPT !.pc = pc, !.name = n] \in Sweep
  BY DEF Sweep
<1>8. \A s \in Sweep, O \in SUBSET Names :
          [s EXCEPT !.pc = "sweep", !.orphans = O, !.name = Collector] \in Sweep
  BY DEF Sweep, Phases
<1> QED BY <1>1, <1>2, <1>3, <1>4, <1>5, <1>6, <1>7, <1>8

\* The two ways a candidate is dealt with.
LEMMA NextWritten ==
    ASSUME sweep \in Sweep, NEW n \in Names
    PROVE  /\ NextClaim(n) \in Sweep
           /\ NextClaim(n).pc = "reap" /\ NextClaim(n).name = Collector
           /\ NextClaim(n).since = sweep.since /\ NextClaim(n).orphans = sweep.orphans
           /\ NextClaim(n).vanished = [sweep.vanished EXCEPT ![n] = 0]
           /\ NextGroup(n) \in Sweep
           /\ NextGroup(n).pc = "sweep" /\ NextGroup(n).name = Collector
           /\ NextGroup(n).since = sweep.since /\ NextGroup(n).vanished = sweep.vanished
<1> DEFINE V == [sweep.vanished EXCEPT ![n] = 0]
           O == sweep.orphans \ {n}
<1>1. V \in [Names -> Nat] /\ O \in SUBSET Names
  BY DEF Sweep
<1>2. NextClaim(n) = [sweep EXCEPT !.pc = "reap", !.vanished = V, !.name = Collector]
  BY Zenon DEF NextClaim
<1>3. NextGroup(n) = [sweep EXCEPT !.pc = "sweep", !.orphans = O, !.name = Collector]
  BY Zenon DEF NextGroup
<1> HIDE DEF V, O
<1>4. NextClaim(n) \in Sweep
  BY <1>1, <1>2, SweepWritten
<1>7. NextGroup(n) \in Sweep
  BY <1>1, <1>3, SweepWritten
<1>5. /\ NextClaim(n).pc = "reap" /\ NextClaim(n).name = Collector
      /\ NextClaim(n).since = sweep.since /\ NextClaim(n).orphans = sweep.orphans
      /\ NextClaim(n).vanished = [sweep.vanished EXCEPT ![n] = 0]
  BY <1>2 DEF Sweep, V
<1>6. /\ NextGroup(n).pc = "sweep" /\ NextGroup(n).name = Collector
      /\ NextGroup(n).since = sweep.since /\ NextGroup(n).vanished = sweep.vanished
  BY <1>3 DEF Sweep
<1> QED BY <1>4, <1>5, <1>6, <1>7

\* Where the sweep goes.  What it has still to do only shrinks, except when
\* claims are listed, and it remembers when it began.
Moved(pc, name) ==
    /\ sweep' \in Sweep
    /\ sweep'.pc = pc /\ sweep'.name = name
    /\ \A m \in Names : /\ sweep'.vanished[m] \in {0, sweep.vanished[m]}
                        /\ sweep'.since[m] \in {0, sweep.since[m]}

LEMMA PhaseMoves ==
    ASSUME sweep \in Sweep
    PROVE  /\ sweep' = NoSweep => Moved("idle", Collector)
           /\ \A pc \in Phases : sweep' = [sweep EXCEPT !.pc = pc]
                => Moved(pc, sweep.name) /\ sweep'.since = sweep.since
<1>1. ASSUME sweep' = NoSweep PROVE Moved("idle", Collector)
  <2>1. NoSweep.pc = "idle" /\ NoSweep.name = Collector
        /\ NoSweep.vanished = Nothing /\ NoSweep.since = Nothing
    BY DEF NoSweep
  <2> QED BY <1>1, <2>1, SweepWritten DEF Moved, Nothing
<1>2. ASSUME NEW pc \in Phases, sweep' = [sweep EXCEPT !.pc = pc]
      PROVE  Moved(pc, sweep.name) /\ sweep'.since = sweep.since
  <2>1. /\ sweep'.pc = pc /\ sweep'.name = sweep.name
        /\ sweep'.vanished = sweep.vanished /\ sweep'.since = sweep.since
    BY <1>2 DEF Sweep
  <2> QED BY <1>2, <2>1, SweepWritten DEF Moved
<1> QED BY <1>1, <1>2

LEMMA NextMoves ==
    ASSUME sweep \in Sweep, NEW n \in Names
    PROVE  /\ sweep' = NextClaim(n) => Moved("reap", Collector)
           /\ sweep' = NextGroup(n) => Moved("sweep", Collector)
           /\ \A pc \in Phases : sweep' = [sweep EXCEPT !.pc = pc, !.name = n]
                => Moved(pc, n)
<1>1. ASSUME sweep' = NextClaim(n) PROVE Moved("reap", Collector)
  <2>1. /\ sweep' \in Sweep /\ sweep'.pc = "reap" /\ sweep'.name = Collector
        /\ sweep'.since = sweep.since
        /\ sweep'.vanished = [sweep.vanished EXCEPT ![n] = 0]
    BY <1>1, NextWritten
  <2>2. sweep.vanished \in [Names -> Nat]
    BY DEF Sweep
  <2>3. \A m \in Names : sweep'.vanished[m] \in {0, sweep.vanished[m]}
    BY <2>1, <2>2
  <2> QED BY <2>1, <2>3 DEF Moved
<1>2. ASSUME sweep' = NextGroup(n) PROVE Moved("sweep", Collector)
  BY <1>2, NextWritten DEF Moved
<1>3. ASSUME NEW pc \in Phases, sweep' = [sweep EXCEPT !.pc = pc, !.name = n]
      PROVE  Moved(pc, n)
  <2>1. /\ sweep'.pc = pc /\ sweep'.name = n
        /\ sweep'.vanished = sweep.vanished /\ sweep'.since = sweep.since
    BY <1>3 DEF Sweep
  <2> QED BY <1>3, <2>1, SweepWritten DEF Moved
<1> QED BY <1>1, <1>2, <1>3

LEMMA GroupsListed ==
    ASSUME CollectorTypeOK, ListGroups
    PROVE  /\ sweep' \in Sweep /\ sweep'.pc = "claims" /\ sweep'.name = Collector
           /\ sweep'.vanished = Nothing /\ sweep'.since = claimUIDs
<1>1. sweep' = [NoSweep EXCEPT !.pc = "claims", !.listed = cached,
                               !.labels = cachedLabel, !.since = claimUIDs]
  BY DEF ListGroups, Read, Phase
<1>2. /\ cached \in [Names -> Group] /\ cachedLabel \in [Names -> Labels]
      /\ claimUIDs \in [Names -> Nat]
  BY DEF CollectorTypeOK, ClusterTypeOK
<1>3. sweep' \in Sweep
  BY <1>1, <1>2, SweepWritten
<1>4. /\ sweep'.pc = "claims" /\ sweep'.name = Collector
      /\ sweep'.vanished = Nothing /\ sweep'.since = claimUIDs
  BY <1>1 DEF NoSweep
<1> QED BY <1>3, <1>4

LEMMA ClaimsListed ==
    ASSUME CollectorTypeOK, ListClaims
    PROVE  /\ sweep' \in Sweep /\ sweep'.pc = "names" /\ sweep'.name = sweep.name
           /\ sweep'.since = sweep.since
           /\ \A m \in Names : \/ sweep'.vanished[m] = 0
                               \/ /\ sweep'.vanished[m] = cachedClaims[m].uid
                                  /\ Exists(cachedClaims[m])
                                  /\ cachedClaims[m].launched # NoFlavor
<1> DEFINE listed == {n \in Names : Exists(cachedClaims[n])}
           waiting == {n \in listed : /\ ~cachedClaims[n].deleting
                                      /\ cachedClaims[n].launched # NoFlavor
                                      /\ ~cachedClaims[n].registered}
           unclaimed == {n \in Names : /\ Exists(sweep.listed[n])
                                       /\ ~sweep.listed[n].deleting
                                       /\ sweep.listed[n].owner # 0
                                       /\ {n, sweep.labels[n]} \cap listed = {}}
<1>t. /\ sweep \in Sweep /\ cachedClaims \in [Names -> Claim]
      /\ sweep.listed \in [Names -> Group] /\ sweep.labels \in [Names -> Labels]
  BY DEF CollectorTypeOK, Sweep
<1>1. PICK V \in SUBSET waiting, O \in SUBSET unclaimed :
         Read([sweep EXCEPT
                  !.pc = "names", !.orphans = O,
                  !.vanished = [n \in Names |->
                                   IF n \in V THEN cachedClaims[n].uid ELSE 0],
                  !.listed = [n \in Names |-> IF n \in O THEN @[n] ELSE NoGroup],
                  !.labels = [n \in Names |-> IF n \in O THEN @[n] ELSE n]])
  BY Zenon DEF ListClaims
<1> DEFINE vanished == [n \in Names |-> IF n \in V THEN cachedClaims[n].uid ELSE 0]
           groupsLeft == [n \in Names |-> IF n \in O THEN sweep.listed[n] ELSE NoGroup]
           labelsLeft == [n \in Names |-> IF n \in O THEN sweep.labels[n] ELSE n]
<1>2. vanished \in [Names -> Nat]
  BY <1>t DEF Claim
<1>3. groupsLeft \in [Names -> Group]
  BY <1>t, GroupWritten
<1>4. labelsLeft \in [Names -> Labels]
  BY <1>t, CollectorAssumption
<1>5. O \in SUBSET Names
  BY <1>1
<1>6. sweep' = [sweep EXCEPT !.pc = "names", !.orphans = O, !.vanished = vanished,
                             !.listed = groupsLeft, !.labels = labelsLeft]
  BY <1>1, Zenon DEF Read, Phase
<1>7. \A m \in Names : \/ vanished[m] = 0
                       \/ /\ vanished[m] = cachedClaims[m].uid
                          /\ Exists(cachedClaims[m])
                          /\ cachedClaims[m].launched # NoFlavor
  BY <1>1
<1> HIDE DEF vanished, groupsLeft, labelsLeft
<1>8. sweep' \in Sweep
  BY <1>t, <1>2, <1>3, <1>4, <1>5, <1>6, SweepWritten
<1>9. /\ sweep'.pc = "names" /\ sweep'.name = sweep.name /\ sweep'.since = sweep.since
      /\ sweep'.vanished = vanished
  BY <1>t, <1>6 DEF Sweep
<1> QED BY <1>7, <1>8, <1>9

LEMMA NamesListed ==
    ASSUME CollectorTypeOK
    PROVE  /\ ListNames => Moved("reap", sweep.name)
           /\ ListNamesFails => Moved("sweep", sweep.name)
<1>t. sweep \in Sweep /\ sweep.vanished \in [Names -> Nat]
  BY DEF CollectorTypeOK, Sweep
<1>1. ASSUME ListNames PROVE Moved("reap", sweep.name)
  <2> DEFINE V == [n \in Names |-> IF Exists(cached[n]) THEN 0 ELSE sweep.vanished[n]]
  <2>1. V \in [Names -> Nat] /\ \A m \in Names : V[m] \in {0, sweep.vanished[m]}
    BY <1>t
  <2>2. sweep' = [sweep EXCEPT !.pc = "reap", !.vanished = V]
    BY <1>1, Zenon DEF ListNames, Read, Phase
  <2> HIDE DEF V
  <2>3. sweep' \in Sweep
    BY <1>t, <2>1, <2>2, SweepWritten
  <2>4. /\ sweep'.pc = "reap" /\ sweep'.name = sweep.name /\ sweep'.since = sweep.since
        /\ sweep'.vanished = V
    BY <1>t, <2>2 DEF Sweep
  <2> QED BY <2>1, <2>3, <2>4 DEF Moved
<1>2. ASSUME ListNamesFails PROVE Moved("sweep", sweep.name)
  <2>1. sweep' = [sweep EXCEPT !.pc = "sweep", !.vanished = Nothing]
    BY <1>2 DEF ListNamesFails, Read, Phase
  <2>2. Nothing \in [Names -> Nat] /\ \A m \in Names : Nothing[m] = 0
    BY DEF Nothing
  <2>3. sweep' \in Sweep
    BY <1>t, <2>1, <2>2, SweepWritten
  <2>4. /\ sweep'.pc = "sweep" /\ sweep'.name = sweep.name /\ sweep'.since = sweep.since
        /\ sweep'.vanished = Nothing
    BY <1>t, <2>1 DEF Sweep
  <2> QED BY <2>2, <2>3, <2>4 DEF Moved
<1> QED BY <1>1, <1>2

\* What the sweep leaves alone, and what is left alone around it.
LEMMA AroundKeepsSweep ==
    ASSUME NEW n \in Names, Around(n)
    PROVE  UNCHANGED <<memory, sweep>>
  BY DEF Around, Post, CreateReturns, Terminate, Relabel, Disown, SyncGroup, SyncClaim,
         Surroundings, collector

\* Every step uses the memory as RefusalMemory lets its callers.
LEMMA CollectorUsesMemory ==
    ASSUME [CollectorNext]_gcVars PROVE [MemoryNext]_memory
<1>1. ASSUME NEW n \in Names, Reaps(n) PROVE UNCHANGED memory
  BY <1>1 DEF Reaps, ConfirmVanished, ConfirmVanishedFails, ReapClaim, ReapClaimFails, Read
<1>2. ASSUME NEW n \in Names, Sweeps(n) PROVE UNCHANGED memory \/ CallerStep(Collector)
  BY <1>2 DEF Sweeps, ConfirmLabel, ConfirmOwner, ConfirmFails, SendDeleteGroup,
     DeleteGroupAccepted, DeleteGroupNotFound, DeleteGroupFails, DeleteGroupReturns, Read,
     CallerStep
<1>3. CASE Lists \/ ReapEnds \/ SweepEnds
  BY <1>3 DEF Lists, ListGroups, ListClaims, ListFails, ListNames, ListNamesFails,
     ReapEnds, SweepEnds, Read
<1>4. CASE UNCHANGED gcVars
  BY <1>4 DEF gcVars
<1> QED BY <1>1, <1>2, <1>3, <1>4, AroundKeepsSweep, CollectorAssumption
        DEF CollectorNext, Collect, Rejection, RestartCollector, MemoryNext

\* The objects keep their types.
LEMMA CollectorClusterType ==
    ASSUME CollectorTypeOK, [CollectorNext]_gcVars PROVE ClusterTypeOK'
<1>t. /\ ClusterTypeOK /\ launching \in [Names -> Nat]
      /\ \A n \in Names : claims[n].uid \in Nat /\ claims[n] \in Claim /\ groups[n] \in Group
  BY DEF CollectorTypeOK, ClusterTypeOK, Claim
<1>0. ASSUME UNCHANGED cluster PROVE ClusterTypeOK'
  BY <1>t, <1>0 DEF ClusterTypeOK, cluster
<1>1. ASSUME NEW n \in Names, Around(n) PROVE ClusterTypeOK'
  <2>1. CASE Post(n)
    BY <1>t, <2>1, ClusterTypeStep DEF Post
  <2>2. CASE CreateReturns(n)
    BY <1>t, <1>0, <2>2, ClusterTypeStep DEF CreateReturns
  <2>3. CASE Terminate(n)
    BY <1>t, <2>3, ClusterTypeStep DEF Terminate, Reclaim
  <2>4. CASE Disown(n)
    <3>1. \A g \in Group : [g EXCEPT !.owner = 0] \in Group
      BY GroupWritten
    <3> QED BY <1>t, <2>4, <3>1, ClusterWritten DEF Disown, ClusterTypeOK
  <2>5. CASE SyncGroup(n)
    BY <1>t, <2>5, ClusterWritten DEF SyncGroup, ClusterTypeOK
  <2>6. CASE Surroundings(n)
    BY <1>t, <2>6, ClusterTypeStep DEF Surroundings
  <2>7. CASE Relabel(n) \/ SyncClaim(n)
    BY <1>0, <2>7 DEF Relabel, SyncClaim
  <2> QED BY <1>1, <2>1, <2>2, <2>3, <2>4, <2>5, <2>6, <2>7 DEF Around
<1>2. ASSUME NEW n \in Names, Reaps(n) PROVE ClusterTypeOK'
  <2>1. CASE ReapClaim(n)
    <3>1. Exists(claims[n]) \in BOOLEAN
      BY DEF Exists
    <3> QED BY <1>t, <2>1, <3>1, ClaimWritten, ClusterWritten DEF ReapClaim, ClusterTypeOK
  <2> QED BY <1>0, <1>2, <2>1 DEF Reaps, ConfirmVanished, ConfirmVanishedFails,
                                  ReapClaimFails, Read
<1>3. ASSUME NEW n \in Names, Sweeps(n) PROVE ClusterTypeOK'
  <2>1. UNCHANGED cluster \/ DeleteGroup(n)
    BY <1>3 DEF Sweeps, ConfirmLabel, ConfirmOwner, ConfirmFails, SendDeleteGroup,
       DeleteGroupAccepted, DeleteGroupNotFound, DeleteGroupFails, DeleteGroupReturns, Read
  <2> QED BY <1>t, <1>0, <2>1, ClusterTypeStep
<1>4. CASE Lists \/ ReapEnds \/ SweepEnds
  BY <1>0, <1>4 DEF Lists, ListGroups, ListClaims, ListFails, ListNames, ListNamesFails,
     ReapEnds, SweepEnds, Read
<1>5. CASE Rejection \/ UNCHANGED gcVars
  BY <1>0, <1>5 DEF Rejection, gcVars
<1>6. CASE RestartCollector
  BY <1>t, <1>6 DEF RestartCollector, ClusterTypeOK
<1> QED BY <1>1, <1>2, <1>3, <1>4, <1>5, <1>6 DEF CollectorNext, Collect

\* Where each step of the collector takes the sweep.
LEMMA ListsMove ==
    ASSUME CollectorTypeOK
    PROVE  /\ ListFails \/ SweepEnds => Moved("idle", Collector)
           /\ ReapEnds => Moved("sweep", sweep.name)
<1>t. sweep \in Sweep /\ "sweep" \in Phases
  BY DEF CollectorTypeOK, Phases
<1>1. ListFails \/ SweepEnds => Moved("idle", Collector)
  BY <1>t, PhaseMoves DEF ListFails, SweepEnds, Read, Phase
<1>2. ReapEnds => Moved("sweep", sweep.name)
  BY <1>t, PhaseMoves DEF ReapEnds, Read, Phase
<1> QED BY <1>1, <1>2

LEMMA SweepMoves ==
    ASSUME CollectorTypeOK, NEW n \in Names
    PROVE  /\ ConfirmVanished(n) => \/ Moved("reap", Collector)
                                    \/ ~Exists(groups[n]) /\ Moved("reaping", n)
           /\ ConfirmVanishedFails(n) \/ ReapClaim(n) \/ ReapClaimFails(n)
                 => Moved("reap", Collector)
           /\ ConfirmLabel(n) \/ ConfirmOwner(n)
                 => \/ Moved("sweep", Collector)
                    \/ Moved("owner", n)
                    \/ ~Exists(claims[n]) /\ Moved("confirmed", n)
           /\ ConfirmFails(n) \/ DeleteGroupNotFound(n) \/ DeleteGroupFails(n)
              \/ DeleteGroupReturns(n) => Moved("sweep", Collector)
           /\ SendDeleteGroup(n) => Moved("sent", n) /\ sweep'.since = sweep.since
           /\ DeleteGroupAccepted(n) => Moved("accepted", n) /\ sweep'.since = sweep.since
<1>t. sweep \in Sweep
  BY DEF CollectorTypeOK
<1>p. {"reaping", "owner", "confirmed", "sent", "accepted"} \subseteq Phases
  BY DEF Phases
<1>1. ConfirmVanished(n) => \/ Moved("reap", Collector)
                            \/ ~Exists(groups[n]) /\ Moved("reaping", n)
  BY <1>t, <1>p, NextMoves DEF ConfirmVanished, Read, Phase
<1>2. ConfirmVanishedFails(n) \/ ReapClaim(n) \/ ReapClaimFails(n)
         => Moved("reap", Collector)
  BY <1>t, NextMoves DEF ConfirmVanishedFails, ReapClaim, ReapClaimFails, Read, Phase
<1>3. ASSUME ConfirmLabel(n)
      PROVE  \/ Moved("sweep", Collector)
             \/ Moved("owner", n)
             \/ ~Exists(claims[n]) /\ Moved("confirmed", n)
  BY <1>3, <1>t, <1>p, NextMoves DEF ConfirmLabel, Read, Phase
<1>4. ASSUME ConfirmOwner(n)
      PROVE  \/ Moved("sweep", Collector)
             \/ ~Exists(claims[n]) /\ Moved("confirmed", n)
  BY <1>4, <1>t, <1>p, NextMoves, PhaseMoves DEF ConfirmOwner, Read, Phase
<1>5. ConfirmFails(n) \/ DeleteGroupNotFound(n) \/ DeleteGroupFails(n)
      \/ DeleteGroupReturns(n) => Moved("sweep", Collector)
  BY <1>t, NextMoves DEF ConfirmFails, DeleteGroupNotFound, DeleteGroupFails,
     DeleteGroupReturns, Read, Phase
<1>6. SendDeleteGroup(n) => Moved("sent", n) /\ sweep'.since = sweep.since
  BY <1>t, <1>p, PhaseMoves DEF SendDeleteGroup, Phase
<1>7. DeleteGroupAccepted(n) => Moved("accepted", n) /\ sweep'.since = sweep.since
  BY <1>t, <1>p, PhaseMoves DEF DeleteGroupAccepted, Phase
<1> QED BY <1>1, <1>2, <1>3, <1>4, <1>5, <1>6, <1>7


\* A sweep has a mark exactly while its DELETE is under way, and a candidate
\* exactly while it is deciding about one.
Deciding == {"reaping", "owner", "confirmed", "sent", "accepted"}

SweepMarked ==
    /\ deleteMark[Collector] # NoMark <=> sweep.pc \in {"sent", "accepted"}
    /\ sweep.name # Collector <=> sweep.pc \in Deciding

LEMMA SweepTypeStep ==
    ASSUME CollectorTypeOK, [CollectorNext]_gcVars
    PROVE  sweep' \in Sweep /\ SweepMarked'
<1> DEFINE Goal == sweep' \in Sweep /\ SweepMarked'
<1>t. /\ sweep \in Sweep /\ SweepMarked
      /\ quotaRejectionSeq \in Nat
      /\ deleteMark \in [Callers -> Nat \cup {NoMark}]
  BY DEF CollectorTypeOK, SweepMarked, MemoryTypeOK, Deciding
<1>n. Collector \in Callers /\ Collector \notin Names /\ NoMark \notin Nat
  BY CollectorAssumption DEF NoMark
<1>0. ASSUME UNCHANGED <<sweep, deleteMark>> PROVE Goal
  BY <1>t, <1>0 DEF SweepMarked
\* It moves on without a mark ...
<1>1. ASSUME UNCHANGED memory, sweep.pc \notin {"sent", "accepted"},
             NEW pc, sweep' \in Sweep, sweep'.pc = pc, sweep'.name = Collector,
             pc \notin Deciding
      PROVE  Goal
  BY <1>t, <1>n, <1>1 DEF SweepMarked, memory, Deciding
\* ... to no candidate or to one.
<1>2. ASSUME UNCHANGED memory, sweep.pc \notin {"sent", "accepted"},
             NEW n \in Names, NEW pc \in {"reaping", "owner", "confirmed"}, Moved(pc, n)
      PROVE  Goal
  BY <1>t, <1>n, <1>2 DEF SweepMarked, memory, Deciding, Moved
<1>3. CASE Lists \/ ReapEnds \/ SweepEnds
  <2>1. UNCHANGED memory
    BY <1>3 DEF Lists, ListGroups, ListClaims, ListFails, ListNames, ListNamesFails,
       ReapEnds, SweepEnds, Read
  <2>2. sweep.pc \in {"idle", "claims", "names", "reap", "sweep"}
    BY <1>3 DEF Lists, ListGroups, ListClaims, ListFails, ListNames, ListNamesFails,
       ReapEnds, SweepEnds
  <2>3. sweep.name = Collector
    BY <1>t, <2>2 DEF SweepMarked, Deciding
  <2>4. /\ sweep' \in Sweep /\ sweep'.name = Collector
        /\ sweep'.pc \in {"idle", "claims", "names", "reap", "sweep"}
    BY <1>3, <2>3, GroupsListed, ClaimsListed, NamesListed, ListsMove DEF Lists, Moved
  <2> QED BY <1>1, <2>1, <2>2, <2>4 DEF Deciding
<1>4. ASSUME NEW n \in Names, Reaps(n) PROVE Goal
  <2>1. UNCHANGED memory /\ sweep.pc \in {"reap", "reaping"}
    BY <1>4 DEF Reaps, ConfirmVanished, ConfirmVanishedFails, ReapClaim, ReapClaimFails, Read
  <2>2. Moved("reap", Collector) \/ Moved("reaping", n)
    BY <1>4, SweepMoves DEF Reaps
  <2> QED BY <1>1, <1>2, <2>1, <2>2 DEF Deciding, Moved
<1>5. ASSUME NEW n \in Names, Sweeps(n) PROVE Goal
  <2>1. CASE ConfirmLabel(n) \/ ConfirmOwner(n) \/ ConfirmFails(n)
    <3>1. UNCHANGED memory /\ sweep.pc \in {"sweep", "owner"}
      BY <2>1 DEF ConfirmLabel, ConfirmOwner, ConfirmFails, Read
    <3>2. Moved("sweep", Collector) \/ Moved("owner", n) \/ Moved("confirmed", n)
      BY <2>1, SweepMoves
    <3> QED BY <1>1, <1>2, <3>1, <3>2 DEF Deciding, Moved
  <2>2. CASE SendDeleteGroup(n)
    <3>1. deleteMark'[Collector] = quotaRejectionSeq
      BY <1>t, <1>n, <2>2 DEF SendDeleteGroup, SendDelete
    <3>2. Moved("sent", n)
      BY <2>2, SweepMoves
    <3> QED BY <1>t, <1>n, <3>1, <3>2 DEF Moved, SweepMarked, Deciding
  <2>3. CASE DeleteGroupAccepted(n)
    <3>1. UNCHANGED deleteMark /\ sweep.pc = "sent"
      BY <2>3 DEF DeleteGroupAccepted, memory
    <3>2. Moved("accepted", n)
      BY <2>3, SweepMoves
    <3> QED BY <1>t, <1>n, <3>1, <3>2 DEF Moved, SweepMarked, Deciding
  <2>4. CASE DeleteGroupNotFound(n) \/ DeleteGroupFails(n) \/ DeleteGroupReturns(n)
    <3>1. deleteMark'[Collector] = NoMark
      BY <1>t, <1>n, <2>4 DEF DeleteGroupNotFound, DeleteGroupFails, DeleteGroupReturns,
         DeleteKeeps, DeleteClears
    <3>2. Moved("sweep", Collector)
      BY <2>4, SweepMoves
    <3> QED BY <3>1, <3>2 DEF Moved, SweepMarked, Deciding
  <2> QED BY <1>5, <2>1, <2>2, <2>3, <2>4 DEF Sweeps
<1>6. ASSUME NEW n \in Names, Around(n) PROVE Goal
  BY <1>0, <1>6, AroundKeepsSweep DEF memory
<1>7. CASE Rejection
  BY <1>0, <1>7 DEF Rejection, QuotaRejected, collector
<1>8. CASE RestartCollector
  <2>1. deleteMark'[Collector] = NoMark
    BY <1>n, <1>8 DEF RestartCollector, Restart
  <2>2. Moved("idle", Collector)
    BY <1>t, <1>8, PhaseMoves DEF RestartCollector
  <2> QED BY <2>1, <2>2 DEF Moved, SweepMarked, Deciding
<1>9. CASE UNCHANGED gcVars
  BY <1>0, <1>9 DEF gcVars, memory, collector
<1> QED BY <1>3, <1>4, <1>5, <1>6, <1>7, <1>8, <1>9 DEF CollectorNext, Collect

LEMMA CopiesTypeStep ==
    ASSUME CollectorTypeOK, [CollectorNext]_gcVars
    PROVE  /\ label' \in [Names -> Labels] /\ cachedLabel' \in [Names -> Labels]
           /\ cachedClaims' \in [Names -> Claim] /\ launching' \in [Names -> Nat]
<1> DEFINE Goal == /\ label' \in [Names -> Labels] /\ cachedLabel' \in [Names -> Labels]
                   /\ cachedClaims' \in [Names -> Claim] /\ launching' \in [Names -> Nat]
<1>t. /\ label \in [Names -> Labels] /\ cachedLabel \in [Names -> Labels]
      /\ cachedClaims \in [Names -> Claim] /\ launching \in [Names -> Nat]
      /\ claims \in [Names -> Claim] /\ \A n \in Names : claims[n].uid \in Nat
      /\ Names \subseteq Labels
  BY CollectorAssumption DEF CollectorTypeOK, ClusterTypeOK, Claim
<1>0. ASSUME UNCHANGED <<label, cachedLabel, cachedClaims, launching>> PROVE Goal
  BY <1>t, <1>0
<1>1. ASSUME NEW n \in Names, Around(n) PROVE Goal
  <2>1. CASE Post(n) \/ CreateReturns(n)
    BY <1>t, <2>1 DEF Post, CreateReturns
  <2>2. CASE Terminate(n) \/ Disown(n) \/ Surroundings(n)
    BY <1>0, <2>2 DEF Terminate, Disown, Surroundings, collector
  <2>3. CASE Relabel(n) \/ SyncGroup(n)
    BY <1>t, <2>3 DEF Relabel, SyncGroup
  <2>4. CASE SyncClaim(n)
    BY <1>t, <2>4 DEF SyncClaim
  <2> QED BY <1>1, <2>1, <2>2, <2>3, <2>4 DEF Around
<1>2. CASE Collect
  BY <1>0, <1>2 DEF Collect, Lists, ListGroups, ListClaims, ListFails, ListNames,
     ListNamesFails, ReapEnds, SweepEnds, Reaps, ConfirmVanished, ConfirmVanishedFails,
     ReapClaim, ReapClaimFails, Sweeps, ConfirmLabel, ConfirmOwner, ConfirmFails,
     SendDeleteGroup, DeleteGroupAccepted, DeleteGroupNotFound, DeleteGroupFails,
     DeleteGroupReturns, Read, Phase
<1>3. CASE RestartCollector
  BY <1>t, <1>3 DEF RestartCollector
<1>4. CASE Rejection \/ UNCHANGED gcVars
  BY <1>0, <1>4 DEF Rejection, gcVars, collector
<1> QED BY <1>1, <1>2, <1>3, <1>4 DEF CollectorNext

LEMMA CollectorTypeInit == CollectorInit => CollectorTypeOK
<1> SUFFICES ASSUME CollectorInit PROVE CollectorTypeOK
  OBVIOUS
<1>1. ClusterTypeOK
  BY GroupWritten, ClaimWritten DEF CollectorInit, ClusterInit, ClusterTypeOK
<1>2. MemoryTypeOK
  BY MemoryTypeInit DEF CollectorInit
<1>3. /\ label \in [Names -> Labels] /\ cachedLabel \in [Names -> Labels]
      /\ cachedClaims \in [Names -> Claim] /\ launching \in [Names -> Nat]
  BY <1>1, CollectorAssumption DEF CollectorInit, ClusterTypeOK
<1>4. sweep \in Sweep
  BY SweepWritten DEF CollectorInit
<1>5. /\ deleteMark[Collector] # NoMark <=> sweep.pc \in {"sent", "accepted"}
      /\ sweep.name # Collector <=>
            sweep.pc \in {"reaping", "owner", "confirmed", "sent", "accepted"}
  BY CollectorAssumption DEF CollectorInit, MemoryInit, NoSweep
<1> QED BY <1>1, <1>2, <1>3, <1>4, <1>5 DEF CollectorTypeOK

LEMMA CollectorTypeStep ==
    CollectorTypeOK /\ [CollectorNext]_gcVars => CollectorTypeOK'
<1> SUFFICES ASSUME CollectorTypeOK, [CollectorNext]_gcVars PROVE CollectorTypeOK'
  OBVIOUS
<1>1. MemoryTypeOK'
  BY MemoryTypeStep, CollectorUsesMemory DEF CollectorTypeOK
<1> QED BY <1>1, CollectorClusterType, SweepTypeStep, CopiesTypeStep
        DEF CollectorTypeOK, SweepMarked, Deciding

\* The state of the collector and of what it meets has its type; a sweep holds
\* a mark of the memory of refusals exactly while its DELETE is under way.
THEOREM CollectorTypeCorrect == CollectorSpec => []CollectorTypeOK
  BY CollectorTypeInit, CollectorTypeStep, PTL DEF CollectorSpec

\* Provider.Delete as the garbage collector calls it implements RefusalMemory:
\* the mark is taken before the request, and only what it covers is cleared.
THEOREM CollectorUsesMemoryAsSpecified == CollectorSpec => CollectorUsesRefusalMemory
<1>1. CollectorInit => MemoryInit
  BY DEF CollectorInit
<1> QED BY <1>1, CollectorUsesMemory, PTL
        DEF CollectorSpec, CollectorUsesRefusalMemory, MemorySpec


-----------------------------------------------------------------------------
(***************************************************************************)
(* What the collector spares.  It confirms an absence, and then acts on it *)
(* without a precondition; what makes that safe is what can have happened  *)
(* in between.  UIDs only grow, so a claim created since is not one the    *)
(* sweep has seen; and a launched claim is not launched again, so no group *)
(* of it appears after it was found to have none.                          *)
(***************************************************************************)

LEMMA CollectorClaims ==
    ASSUME CollectorTypeOK, [CollectorNext]_gcVars, NEW m \in Names
    PROVE  ClaimMoves(m)
<1>t. ClusterTypeOK
  BY DEF CollectorTypeOK
<1>0. ASSUME UNCHANGED <<claims, claimUIDs>> PROVE ClaimMoves(m)
  BY <1>0 DEF ClaimMoves
<1>1. ASSUME NEW n \in Names, Around(n) PROVE ClaimMoves(m)
  <2>1. CASE CreateReturns(n)
    BY <1>t, <1>0, <2>1, ClaimsAfter DEF CreateReturns, cluster
  <2>2. CASE Terminate(n)
    BY <1>t, <2>2, ClaimsAfter DEF Terminate, Reclaim
  <2>3. CASE Surroundings(n)
    BY <1>t, <2>3, ClaimsAfter DEF Surroundings
  <2>4. CASE Post(n) \/ Relabel(n) \/ Disown(n) \/ SyncGroup(n) \/ SyncClaim(n)
    BY <1>0, <2>4 DEF Post, CreateGroup, Relabel, Disown, SyncGroup, SyncClaim, cluster
  <2> QED BY <1>1, <2>1, <2>2, <2>3, <2>4 DEF Around
<1>2. ASSUME NEW n \in Names, ReapClaim(n) PROVE ClaimMoves(m)
  <2>1. PICK b \in BOOLEAN : b = Exists(claims[n])
    BY DEF Exists
  <2>2. UNCHANGED claimUIDs /\ claims' = [claims EXCEPT ![n].deleting = b]
    BY <1>2, <2>1 DEF ReapClaim
  <2> QED BY <1>t, <2>1, <2>2, ClaimsAfter
<1>3. CASE Collect
  <2>1. UNCHANGED <<claims, claimUIDs>> \/ \E n \in Names : ReapClaim(n)
    BY <1>3 DEF Collect, Lists, ListGroups, ListClaims, ListFails, ListNames,
       ListNamesFails, ReapEnds, SweepEnds, Reaps, ConfirmVanished, ConfirmVanishedFails,
       ReapClaimFails, Sweeps, ConfirmLabel, ConfirmOwner, ConfirmFails,
       SendDeleteGroup, DeleteGroupAccepted, DeleteGroupNotFound, DeleteGroupFails,
       DeleteGroupReturns, DeleteGroup, Read, cluster
  <2> QED BY <1>0, <1>2, <2>1
<1>4. CASE Rejection \/ RestartCollector \/ UNCHANGED gcVars
  BY <1>0, <1>4 DEF Rejection, RestartCollector, gcVars, cluster
<1> QED BY <1>1, <1>3, <1>4 DEF CollectorNext

\* Only a launch gives a name a group, and only users take an owner away.
LEMMA CollectorGroups ==
    ASSUME CollectorTypeOK, [CollectorNext]_gcVars, NEW m \in Names
    PROVE  \/ ~Exists(groups'[m])
           \/ Exists(groups[m]) /\ groups'[m].owner \in {groups[m].owner, 0}
           \/ Post(m)
<1> DEFINE Goal == \/ ~Exists(groups'[m])
                   \/ Exists(groups[m]) /\ groups'[m].owner \in {groups[m].owner, 0}
                   \/ Post(m)
<1>t. ClusterTypeOK
  BY DEF CollectorTypeOK
<1>0. ASSUME groups' = groups PROVE Goal
  BY <1>0
<1>1. ASSUME Kept(groups[m], groups'[m]) PROVE Goal
  BY <1>1 DEF Kept, Exists
<1>2. ASSUME NEW n \in Names, Around(n) PROVE Goal
  <2>1. CASE Post(n)
    BY <1>t, <2>1, GroupsAfter DEF Post
  <2>2. CASE Terminate(n)
    <3>1. UNCHANGED groups \/ DeleteGroup(n)
      BY <2>2 DEF Terminate, RemoveClaim, Reclaim
    <3> QED BY <1>t, <1>0, <1>1, <3>1, GroupsAfter
  <2>3. CASE Disown(n)
    BY <1>t, <2>3 DEF Disown, ClusterTypeOK, Group, Exists
  <2>4. CASE Surroundings(n)
    BY <1>t, <1>0, <1>1, <2>4, GroupsAfter DEF Surroundings, NoGroup, Exists
  <2>5. CASE CreateReturns(n) \/ Relabel(n) \/ SyncGroup(n) \/ SyncClaim(n)
    BY <1>0, <2>5 DEF CreateReturns, StoreLaunch, Relabel, SyncGroup, SyncClaim, cluster
  <2> QED BY <1>2, <2>1, <2>2, <2>3, <2>4, <2>5 DEF Around
<1>3. CASE Collect
  <2>1. UNCHANGED groups \/ \E n \in Names : DeleteGroup(n)
    BY <1>3 DEF Collect, Lists, ListGroups, ListClaims, ListFails, ListNames,
       ListNamesFails, ReapEnds, SweepEnds, Reaps, ConfirmVanished, ConfirmVanishedFails,
       ReapClaim, ReapClaimFails, Sweeps, ConfirmLabel, ConfirmOwner, ConfirmFails,
       SendDeleteGroup, DeleteGroupAccepted, DeleteGroupNotFound, DeleteGroupFails,
       DeleteGroupReturns, Read, cluster
  <2> QED BY <1>t, <1>0, <1>1, <2>1, GroupsAfter
<1>4. CASE Rejection \/ RestartCollector \/ UNCHANGED gcVars
  BY <1>0, <1>4 DEF Rejection, RestartCollector, gcVars, cluster
<1> QED BY <1>2, <1>3, <1>4 DEF CollectorNext

\* The collector has seen no UID before it was given.
UIDsSeen ==
    \A n \in Names :
        /\ claims[n].uid <= claimUIDs[n]
        /\ cachedClaims[n].uid <= claimUIDs[n]
        /\ sweep.since[n] <= claimUIDs[n]
        /\ sweep.vanished[n] <= claimUIDs[n]

\* The name of a group about to be deleted is that of no claim older than the
\* sweep.
ConfirmedGone ==
    \A n \in Names :
        /\ sweep.pc \in {"confirmed", "sent", "accepted"} /\ sweep.name = n
        /\ Exists(claims[n])
        => claims[n].uid > sweep.since[n]

\* A claim listed as launched is, ...
ListedLaunched ==
    \A n \in Names :
        /\ Exists(cachedClaims[n]) /\ cachedClaims[n].uid = claims[n].uid
           /\ cachedClaims[n].launched # NoFlavor
           => claims[n].launched # NoFlavor
        /\ sweep.vanished[n] # 0 /\ sweep.vanished[n] = claims[n].uid
           => claims[n].launched # NoFlavor

\* ... and has no group once that was confirmed.
ConfirmedVanished ==
    \A n \in Names :
        /\ sweep.pc = "reaping" /\ sweep.name = n
        /\ claims[n].uid # 0 /\ claims[n].uid = sweep.vanished[n]
        /\ Exists(groups[n])
        => groups[n].owner # claims[n].uid

SparingInv == UIDsSeen /\ ConfirmedGone /\ ListedLaunched /\ ConfirmedVanished

\* What a step of the collector, and a step around it, tell of the sweep.
LEMMA SweepOf ==
    ASSUME CollectorTypeOK, [CollectorNext]_gcVars, NEW m \in Names
    PROVE  /\ sweep'.since[m] \in {0, sweep.since[m], claimUIDs[m]}
           /\ \/ sweep'.vanished[m] \in {0, sweep.vanished[m]}
              \/ /\ sweep'.vanished[m] = cachedClaims[m].uid
                 /\ Exists(cachedClaims[m]) /\ cachedClaims[m].launched # NoFlavor
                 /\ UNCHANGED claims /\ sweep'.pc = "names"
           /\ sweep'.pc \in {"confirmed", "sent", "accepted"} /\ sweep'.name = m
              => \/ ~Exists(claims'[m])
                 \/ /\ sweep.pc \in {"confirmed", "sent", "accepted"} /\ sweep.name = m
                    /\ sweep'.since = sweep.since
           /\ sweep'.pc = "reaping" /\ sweep'.name = m
              => \/ ~Exists(groups'[m])
                 \/ sweep.pc = "reaping" /\ sweep.name = m
<1> DEFINE Old == sweep'.since[m] \in {0, sweep.since[m], claimUIDs[m]}
           Todo == \/ sweep'.vanished[m] \in {0, sweep.vanished[m]}
                   \/ /\ sweep'.vanished[m] = cachedClaims[m].uid
                      /\ Exists(cachedClaims[m]) /\ cachedClaims[m].launched # NoFlavor
                      /\ UNCHANGED claims /\ sweep'.pc = "names"
           Gone == sweep'.pc \in {"confirmed", "sent", "accepted"} /\ sweep'.name = m
              => \/ ~Exists(claims'[m])
                 \/ /\ sweep.pc \in {"confirmed", "sent", "accepted"} /\ sweep.name = m
                    /\ sweep'.since = sweep.since
           Reaping == sweep'.pc = "reaping" /\ sweep'.name = m
              => \/ ~Exists(groups'[m])
                 \/ sweep.pc = "reaping" /\ sweep.name = m
           Goal == Old /\ Todo /\ Gone /\ Reaping
<1>0. ASSUME UNCHANGED sweep PROVE Goal
  BY <1>0
<1>1. ASSUME NEW pc \in {"idle", "claims", "names", "reap", "sweep", "owner"}, NEW name,
             Moved(pc, name)
      PROVE  Goal
  BY <1>1 DEF Moved
<1>2. CASE Lists \/ ReapEnds \/ SweepEnds
  <2>1. CASE ListGroups
    BY <2>1, GroupsListed DEF Nothing
  <2>2. CASE ListClaims
    <3>1. sweep'.pc = "names" /\ sweep'.since = sweep.since /\ UNCHANGED claims
      BY <2>2, ClaimsListed DEF ListClaims, Read, cluster
    <3> QED BY <2>2, <3>1, ClaimsListed
  <2> QED BY <1>1, <1>2, <2>1, <2>2, NamesListed, ListsMove DEF Lists
<1>3. ASSUME NEW n \in Names, Reaps(n) PROVE Goal
  <2>1. CASE ConfirmVanished(n)
    <3>1. UNCHANGED groups
      BY <2>1 DEF ConfirmVanished, Read, cluster
    <3> QED BY <1>1, <2>1, <3>1, SweepMoves DEF Moved
  <2> QED BY <1>1, <1>3, <2>1, SweepMoves DEF Reaps
<1>4. ASSUME NEW n \in Names, Sweeps(n) PROVE Goal
  <2>1. CASE ConfirmLabel(n) \/ ConfirmOwner(n)
    <3>1. UNCHANGED claims
      BY <2>1 DEF ConfirmLabel, ConfirmOwner, Read, cluster
    <3> QED BY <1>1, <2>1, <3>1, SweepMoves DEF Moved
  <2>2. CASE SendDeleteGroup(n) \/ DeleteGroupAccepted(n)
    <3>1. sweep.pc \in {"confirmed", "sent", "accepted"} /\ sweep.name = n
      BY <2>2 DEF SendDeleteGroup, DeleteGroupAccepted
    <3> QED BY <2>2, <3>1, SweepMoves DEF Moved
  <2> QED BY <1>1, <1>4, <2>1, <2>2, SweepMoves DEF Sweeps
<1>5. ASSUME NEW n \in Names, Around(n) PROVE Goal
  BY <1>0, <1>5, AroundKeepsSweep
<1>6. CASE Rejection \/ UNCHANGED gcVars
  BY <1>0, <1>6 DEF Rejection, gcVars, collector
<1>7. CASE RestartCollector
  BY <1>1, <1>7, PhaseMoves DEF RestartCollector, CollectorTypeOK
<1> QED BY <1>2, <1>3, <1>4, <1>5, <1>6, <1>7 DEF CollectorNext, Collect


LEMMA CopiesOf ==
    ASSUME CollectorTypeOK, [CollectorNext]_gcVars, NEW m \in Names
    PROVE  \/ cachedClaims'[m] = cachedClaims[m]
           \/ cachedClaims'[m] = claims[m] /\ claims'[m] = claims[m]
<1> DEFINE Goal == \/ cachedClaims'[m] = cachedClaims[m]
                   \/ cachedClaims'[m] = claims[m] /\ claims'[m] = claims[m]
<1>1. ASSUME NEW n \in Names, Around(n) PROVE Goal
  <2>1. CASE SyncClaim(n)
    BY <2>1 DEF SyncClaim, cluster, CollectorTypeOK
  <2>2. UNCHANGED cachedClaims \/ SyncClaim(n)
    BY <1>1 DEF Around, Post, CreateReturns, Terminate, Relabel, Disown, SyncGroup,
       Surroundings, collector
  <2> QED BY <2>1, <2>2
<1>2. CASE Collect
  BY <1>2 DEF Collect, Lists, ListGroups, ListClaims, ListFails, ListNames,
     ListNamesFails, ReapEnds, SweepEnds, Reaps, ConfirmVanished, ConfirmVanishedFails,
     ReapClaim, ReapClaimFails, Sweeps, ConfirmLabel, ConfirmOwner, ConfirmFails,
     SendDeleteGroup, DeleteGroupAccepted, DeleteGroupNotFound, DeleteGroupFails,
     DeleteGroupReturns, Read, Phase
<1>3. CASE Rejection \/ RestartCollector \/ UNCHANGED gcVars
  BY <1>3 DEF Rejection, RestartCollector, gcVars, collector
<1> QED BY <1>1, <1>2, <1>3 DEF CollectorNext

LEMMA SparingInvInit == CollectorInit => SparingInv
  BY DEF CollectorInit, ClusterInit, NoSweep, Nothing, NoClaim, NoGroup, Exists, SparingInv,
     UIDsSeen, ConfirmedGone, ListedLaunched, ConfirmedVanished

LEMMA SparingInvStep ==
    ASSUME CollectorTypeOK, SparingInv, [CollectorNext]_gcVars
    PROVE  SparingInv'
<1> SUFFICES ASSUME NEW m \in Names
             PROVE  /\ claims'[m].uid <= claimUIDs'[m]
                    /\ cachedClaims'[m].uid <= claimUIDs'[m]
                    /\ sweep'.since[m] <= claimUIDs'[m]
                    /\ sweep'.vanished[m] <= claimUIDs'[m]
                    /\ /\ sweep'.pc \in {"confirmed", "sent", "accepted"}
                       /\ sweep'.name = m /\ Exists(claims'[m])
                       => claims'[m].uid > sweep'.since[m]
                    /\ /\ Exists(cachedClaims'[m]) /\ cachedClaims'[m].uid = claims'[m].uid
                       /\ cachedClaims'[m].launched # NoFlavor
                       => claims'[m].launched # NoFlavor
                    /\ sweep'.vanished[m] # 0 /\ sweep'.vanished[m] = claims'[m].uid
                       => claims'[m].launched # NoFlavor
                    /\ /\ sweep'.pc = "reaping" /\ sweep'.name = m
                       /\ claims'[m].uid # 0 /\ claims'[m].uid = sweep'.vanished[m]
                       /\ Exists(groups'[m])
                       => groups'[m].owner # claims'[m].uid
  BY DEF SparingInv, UIDsSeen, ConfirmedGone, ListedLaunched, ConfirmedVanished, Exists
<1>t. /\ claims[m].uid \in Nat /\ cachedClaims[m].uid \in Nat /\ claimUIDs[m] \in Nat
      /\ sweep.since[m] \in Nat /\ sweep.vanished[m] \in Nat
      /\ groups[m].owner \in Nat
  BY DEF CollectorTypeOK, ClusterTypeOK, Sweep, Claim, Group
<1>i. /\ claims[m].uid <= claimUIDs[m] /\ cachedClaims[m].uid <= claimUIDs[m]
      /\ sweep.since[m] <= claimUIDs[m] /\ sweep.vanished[m] <= claimUIDs[m]
  BY DEF SparingInv, UIDsSeen
<1>c. ClaimMoves(m)
  BY CollectorClaims
<1>n. NoClaim.uid = 0 /\ NoClaim.launched = NoFlavor
  BY DEF NoClaim
<1>1. /\ claims'[m].uid \in Nat /\ claimUIDs'[m] \in Nat
      /\ claims'[m].uid <= claimUIDs'[m] /\ claimUIDs[m] <= claimUIDs'[m]
  BY <1>t, <1>i, <1>c, <1>n DEF ClaimMoves
<1>2. cachedClaims'[m].uid <= claimUIDs'[m]
  BY <1>1, <1>t, <1>i, CopiesOf
<1>3. sweep'.since[m] <= claimUIDs'[m]
  BY <1>1, <1>t, <1>i, SweepOf
<1>4. sweep'.vanished[m] <= claimUIDs'[m]
  BY <1>1, <1>t, <1>i, SweepOf
<1>5. ASSUME sweep'.pc \in {"confirmed", "sent", "accepted"}, sweep'.name = m,
             Exists(claims'[m])
      PROVE  claims'[m].uid > sweep'.since[m]
  <2>1. /\ sweep.pc \in {"confirmed", "sent", "accepted"} /\ sweep.name = m
        /\ sweep'.since = sweep.since
    BY <1>5, SweepOf
  <2>2. Exists(claims[m]) => claims[m].uid > sweep.since[m]
    BY <2>1 DEF SparingInv, ConfirmedGone
  <2> QED BY <1>5, <1>c, <1>i, <1>n, <1>t, <2>1, <2>2 DEF ClaimMoves, Exists
\* A UID that was seen before is that of the same claim.
<1>6. ASSUME NEW uid \in Nat, uid # 0, uid <= claimUIDs[m], uid = claims'[m].uid
      PROVE  /\ uid = claims[m].uid
             /\ claims[m].launched # NoFlavor => claims'[m].launched # NoFlavor
  BY <1>6, <1>c, <1>n, <1>t DEF ClaimMoves
<1>7. ASSUME Exists(cachedClaims'[m]), cachedClaims'[m].uid = claims'[m].uid,
             cachedClaims'[m].launched # NoFlavor
      PROVE  claims'[m].launched # NoFlavor
  <2>1. CASE cachedClaims'[m] = cachedClaims[m]
    BY <1>6, <1>7, <1>i, <1>t, <2>1 DEF SparingInv, ListedLaunched, Exists
  <2> QED BY <1>7, <2>1, CopiesOf
<1>8. ASSUME sweep'.vanished[m] # 0, sweep'.vanished[m] = claims'[m].uid
      PROVE  claims'[m].launched # NoFlavor
  <2>1. CASE sweep'.vanished[m] = sweep.vanished[m]
    BY <1>6, <1>8, <1>i, <1>t, <2>1 DEF SparingInv, ListedLaunched
  <2>2. CASE /\ sweep'.vanished[m] = cachedClaims[m].uid
             /\ Exists(cachedClaims[m]) /\ cachedClaims[m].launched # NoFlavor
             /\ UNCHANGED claims
    BY <1>8, <2>2 DEF SparingInv, ListedLaunched
  <2> QED BY <1>8, <2>1, <2>2, SweepOf
<1>9. ASSUME sweep'.pc = "reaping", sweep'.name = m, claims'[m].uid # 0,
             claims'[m].uid = sweep'.vanished[m], Exists(groups'[m])
      PROVE  groups'[m].owner # claims'[m].uid
  <2>1. sweep.pc = "reaping" /\ sweep.name = m
    BY <1>9, SweepOf
  <2>2. sweep'.vanished[m] = sweep.vanished[m]
    BY <1>9, <2>1, SweepOf
  <2>3. claims[m].uid = sweep.vanished[m] /\ claims[m].uid # 0
    BY <1>6, <1>9, <1>i, <1>t, <2>2
  <2>4. claims[m].launched # NoFlavor
    BY <2>3 DEF SparingInv, ListedLaunched
  <2>5. ~Post(m)
    BY <2>4 DEF Post
  <2>6. Exists(groups[m]) /\ groups'[m].owner \in {groups[m].owner, 0}
    BY <1>9, <2>5, CollectorGroups
  <2>7. groups[m].owner # claims[m].uid
    BY <2>1, <2>3, <2>6 DEF SparingInv, ConfirmedVanished
  <2> QED BY <1>6, <1>9, <1>i, <1>t, <2>2, <2>3, <2>6, <2>7
<1> QED BY <1>1, <1>2, <1>3, <1>4, <1>5, <1>7, <1>8, <1>9


\* The two facts a deletion of the collector rests on.
LEMMA SparedOwner ==
    ASSUME SparingInv, NEW n \in Names,
           sweep.pc = "sent", sweep.name = n, Exists(claims[n])
    PROVE  claims[n].uid > sweep.since[n]
  BY DEF SparingInv, ConfirmedGone

LEMMA SparedLaunch ==
    ASSUME SparingInv, NEW n \in Names,
           sweep.pc = "reaping", sweep.name = n, Exists(groups[n]),
           claims[n].uid # 0, claims[n].uid = sweep.vanished[n]
    PROVE  groups[n].owner # claims[n].uid
  BY DEF SparingInv, ConfirmedVanished


SparingCollector == CollectorTypeOK /\ SparingInv

LEMMA SparingCollectorInit == CollectorInit => SparingCollector
  BY CollectorTypeInit, SparingInvInit DEF SparingCollector

LEMMA SparingCollectorStep ==
    SparingCollector /\ [CollectorNext]_gcVars => SparingCollector'
  BY CollectorTypeStep, SparingInvStep DEF SparingCollector

\* While the uncached reads that found the claim of a group gone are followed
\* by the DELETE of the group, no claim that was alive when the sweep began has
\* the group's name, whatever the caches missed and whatever users made of the
\* label.
THEOREM OwnedGroupsSpared == CollectorSpec => SparesOwnedGroups
<1>1. SparingCollector =>
         \A n \in Names :
            /\ sweep.pc = "sent" /\ sweep'.pc # "sent" /\ sweep.name = n
            /\ groups'[n] # groups[n]
            /\ Exists(claims[n]) /\ claims[n].uid <= sweep.since[n]
            => groups[n].owner # claims[n].uid
  <2> SUFFICES ASSUME SparingCollector, NEW n \in Names, sweep.pc = "sent", sweep.name = n,
                      Exists(claims[n]), claims[n].uid <= sweep.since[n]
               PROVE  FALSE
    OBVIOUS
  <2>1. claims[n].uid \in Nat /\ sweep.since[n] \in Nat
    BY DEF SparingCollector, CollectorTypeOK, ClusterTypeOK, Claim, Sweep
  <2>2. claims[n].uid > sweep.since[n]
    BY SparedOwner DEF SparingCollector
  <2> QED BY <2>1, <2>2
<1> QED BY <1>1, SparingCollectorInit, SparingCollectorStep, PTL
        DEF CollectorSpec, SparesOwnedGroups

\* The claim reapVanishedNodeClaims deletes was listed as launched, so core has
\* not launched it again since the uncached read found that it has no group.
THEOREM LaunchedClaimsSpared == CollectorSpec => SparesLaunchedClaims
<1>1. SparingCollector /\ [CollectorNext]_gcVars =>
         \A n \in Names :
            /\ sweep.pc = "reaping" /\ sweep.name = n
            /\ ~claims[n].deleting /\ claims'[n].deleting
            /\ Exists(groups[n]) /\ claims[n].uid = sweep.vanished[n]
            => groups[n].owner # claims[n].uid
  BY CollectorClaims, SparedLaunch
     DEF SparingCollector, ClaimMoves, Exists, NoClaim
<1> QED BY <1>1, SparingCollectorInit, SparingCollectorStep, PTL
        DEF CollectorSpec, SparesLaunchedClaims

=============================================================================
