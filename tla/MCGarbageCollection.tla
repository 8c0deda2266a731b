------------------------ MODULE MCGarbageCollection ------------------------
(***************************************************************************)
(* Instances of GarbageCollection.                                         *)
(***************************************************************************)
EXTENDS GarbageCollection

CONSTANTS Small, a, b, ghost

Sizes == [f \in Flavors |-> [cpu |-> 1, memory |-> 2]]

Rejected == [NoStatus EXCEPT !.reconcileFailed = "QuotaExceeded"]
Up == [NoStatus EXCEPT !.ready = TRUE]

OnlyUp == {Up}
UpOrRejected == {Up, Rejected}

\* Everything is quiet, but for the stuck object: a launched claim whose group
\* has vanished, or a group whose claim is gone.
AtStuck(object, absent) == [n \in Names |-> IF n \in Stuck THEN object ELSE absent]

LeftClaim == [NoClaim EXCEPT !.uid = 1, !.launched = Small]
LeftGroup == [NoGroup EXCEPT !.uid = 1, !.owner = 1, !.flavor = Small]

StuckInit ==
    /\ \/ /\ claims = AtStuck(LeftClaim, NoClaim)
          /\ groups = AtStuck(NoGroup, NoGroup)
       \/ /\ claims = AtStuck(NoClaim, NoClaim)
          /\ groups = AtStuck(LeftGroup, NoGroup)
    /\ cached = groups /\ cachedClaims = claims
    /\ claimUIDs = AtStuck(1, 0) /\ groupUIDs = AtStuck(1, 0)
    /\ MemoryInit
    /\ label = [n \in Names |-> n] /\ cachedLabel = label
    /\ launching = [n \in Names |-> 0]
    /\ sweep = NoSweep

FairCollector == StuckInit /\ [][CollectorNext /\ StuckFirst]_gcVars /\ FairSweeps
=============================================================================
