--------------------------- MODULE ClusterProofs ---------------------------
(***************************************************************************)
(* Lemmas about Cluster, for the proofs about the modules that extend it:  *)
(* what a step of the cluster writes has its type, and the UIDs tell the   *)
(* objects of one name apart, in the API server and in the cache.          *)
(***************************************************************************)
EXTENDS Cluster, TLAPS

LEMMA GroupWritten ==
    /\ NoGroup \in Group
    /\ \A uid, owner \in Nat, f \in Flavors \cup {NoFlavor} :
          /\ [NoGroup EXCEPT !.uid = uid, !.owner = owner, !.flavor = f] \in Group
          /\ [NoGroup EXCEPT !.owner = owner, !.flavor = f] \in Group
    /\ \A g \in Group, b \in BOOLEAN : [g EXCEPT !.deleting = b] \in Group
    /\ \A g \in Group, s \in NodeGroupStatus : [g EXCEPT !.status = s] \in Group
    /\ \A g \in Group, owner \in Nat : [g EXCEPT !.owner = owner] \in Group
  BY DEF Group, NoGroup, NoStatus, NodeGroupStatus

LEMMA ClaimWritten ==
    /\ NoClaim \in Claim
    /\ \A uid \in Nat : [NoClaim EXCEPT !.uid = uid] \in Claim
    /\ \A c \in Claim, b \in BOOLEAN : /\ [c EXCEPT !.deleting = b] \in Claim
                                       /\ [c EXCEPT !.registered = b] \in Claim
    /\ \A c \in Claim, f \in Flavors \cup {NoFlavor} : [c EXCEPT !.launched = f] \in Claim
  BY DEF Claim, NoClaim

\* A write to one object of a typed table.
LEMMA ClusterWritten ==
    ASSUME ClusterTypeOK, NEW n \in Names
    PROVE  /\ \A c \in Claim : [claims EXCEPT ![n] = c] \in [Names -> Claim]
           /\ \A g \in Group : [groups EXCEPT ![n] = g] \in [Names -> Group]
           /\ \A g \in Group : [cached EXCEPT ![n] = g] \in [Names -> Group]
  BY DEF ClusterTypeOK

\* Every operation of Cluster keeps the types.
LEMMA ClusterTypeStep ==
    ASSUME ClusterTypeOK, NEW n \in Names
    PROVE  /\ ClusterStep(n) => ClusterTypeOK'
           /\ RemoveClaim(n) => ClusterTypeOK'
           /\ \A uid, f : StoreLaunch(n, uid, f) /\ f \in Flavors \cup {NoFlavor}
                             => ClusterTypeOK'
           /\ \A owner \in Nat, f \in Flavors :
                 CreateGroup(n, owner, f) => ClusterTypeOK'
           /\ DeleteGroup(n) => ClusterTypeOK'
           /\ FinalizeGroup(n) => ClusterTypeOK'
           /\ SyncCache(n) => ClusterTypeOK'
<1> USE DEF ClusterTypeOK
<1>0. /\ claims[n] \in Claim /\ claims[n].uid \in Nat
      /\ groups[n] \in Group /\ cached[n] \in Group
      /\ claimUIDs[n] \in Nat /\ groupUIDs[n] \in Nat
  BY DEF Claim
<1>1. ASSUME CreateClaim(n) PROVE ClusterTypeOK'
  BY <1>0, <1>1, ClaimWritten, ClusterWritten DEF CreateClaim
<1>2. ASSUME DeleteClaim(n) PROVE ClusterTypeOK'
  BY <1>0, <1>2, ClaimWritten, ClusterWritten DEF DeleteClaim
<1>3. ASSUME Register(n) PROVE ClusterTypeOK'
  BY <1>0, <1>3, ClaimWritten, ClusterWritten DEF Register
<1>4. ASSUME DeleteGroup(n) PROVE ClusterTypeOK'
  <2>1. Exists(groups[n]) \in BOOLEAN
    BY DEF Exists
  <2> QED BY <1>0, <1>4, <2>1, GroupWritten, ClusterWritten DEF DeleteGroup
<1>5. ASSUME NEW status \in Statuses, OperatorWrites(n, status) PROVE ClusterTypeOK'
  BY <1>0, <1>5, GroupWritten, ClusterWritten, ClusterAssumption DEF OperatorWrites
<1>6. ASSUME RemoveClaim(n) PROVE ClusterTypeOK'
  BY <1>0, <1>6, ClaimWritten, ClusterWritten DEF RemoveClaim
<1>7. ASSUME NEW uid, NEW f \in Flavors \cup {NoFlavor}, StoreLaunch(n, uid, f)
      PROVE  ClusterTypeOK'
  BY <1>0, <1>7, ClaimWritten, ClusterWritten DEF StoreLaunch
<1>8. ASSUME NEW owner \in Nat, NEW f \in Flavors, CreateGroup(n, owner, f)
      PROVE  ClusterTypeOK'
  <2>1. groupUIDs'[n] = groupUIDs[n] + 1
    BY <1>0, <1>8 DEF CreateGroup
  <2>u. PICK uid \in Nat : uid = groupUIDs'[n]
    BY <1>0, <2>1
  <2> DEFINE new == [NoGroup EXCEPT !.uid = uid, !.owner = owner, !.flavor = f]
  <2>2. new \in Group
    BY GroupWritten
  <2>3. groups' = [groups EXCEPT ![n] = new]
    BY <1>8, <2>u DEF CreateGroup
  <2> HIDE DEF new
  <2>4. groups' \in [Names -> Group]
    BY <2>2, <2>3, ClusterWritten
  <2> QED BY <1>0, <1>8, <2>1, <2>4 DEF CreateGroup
<1>9. ASSUME FinalizeGroup(n) PROVE ClusterTypeOK'
  BY <1>0, <1>9, GroupWritten, ClusterWritten DEF FinalizeGroup
<1>10. ASSUME SyncCache(n) PROVE ClusterTypeOK'
  BY <1>0, <1>10, GroupWritten, ClusterWritten DEF SyncCache
<1>11. ASSUME ClusterStep(n) PROVE ClusterTypeOK'
  BY <1>11, <1>1, <1>2, <1>3, <1>4, <1>5 DEF ClusterStep, Reclaim
<1> QED BY <1>4, <1>6, <1>7, <1>8, <1>9, <1>10, <1>11

\* Once created, a group keeps its UID and its flavor, and its owner unless a
\* user orphans it.
Kept(object, later) ==
    later.uid = object.uid /\ later.owner = object.owner /\ later.flavor = object.flavor

LEMMA GroupsAfter ==
    ASSUME ClusterTypeOK, NEW n \in Names, NEW m \in Names
    PROVE  /\ ClusterStep(n) \/ DeleteGroup(n) => Kept(groups[m], groups'[m])
           /\ ClusterStep(n) \/ DeleteGroup(n) => UNCHANGED <<cached, groupUIDs>>
           /\ FinalizeGroup(n) => groups'[m] = IF m = n THEN NoGroup ELSE groups[m]
           /\ \A owner, f : CreateGroup(n, owner, f) =>
                 IF m = n
                 THEN /\ ~Exists(groups[n])
                      /\ groups'[n].uid = groupUIDs'[n] /\ groups'[n].owner = owner
                      /\ groups'[n].flavor = f /\ groups'[n].status = NoStatus
                      /\ groupUIDs'[n] = groupUIDs[n] + 1
                 ELSE groups'[m] = groups[m] /\ groupUIDs'[m] = groupUIDs[m]
<1> USE DEF ClusterTypeOK
<1>1. ASSUME DeleteGroup(n) PROVE Kept(groups[m], groups'[m])
  BY <1>1 DEF DeleteGroup, Group, Kept
<1>2. ASSUME NEW status \in Statuses, OperatorWrites(n, status)
      PROVE  Kept(groups[m], groups'[m])
  BY <1>2 DEF OperatorWrites, Group, Kept
<1>3. ASSUME CreateClaim(n) \/ DeleteClaim(n) \/ Register(n)
      PROVE  Kept(groups[m], groups'[m])
  BY <1>3 DEF CreateClaim, DeleteClaim, Register, Kept
<1>4. ClusterStep(n) \/ DeleteGroup(n) => UNCHANGED <<cached, groupUIDs>>
  BY DEF ClusterStep, CreateClaim, DeleteClaim, Register, Reclaim, DeleteGroup, OperatorWrites
<1>5. FinalizeGroup(n) => groups'[m] = IF m = n THEN NoGroup ELSE groups[m]
  BY DEF FinalizeGroup
<1>6. ASSUME NEW owner, NEW f, CreateGroup(n, owner, f)
      PROVE  IF m = n
             THEN /\ ~Exists(groups[n])
                  /\ groups'[n].uid = groupUIDs'[n] /\ groups'[n].owner = owner
                  /\ groups'[n].flavor = f /\ groups'[n].status = NoStatus
                  /\ groupUIDs'[n] = groupUIDs[n] + 1
             ELSE groups'[m] = groups[m] /\ groupUIDs'[m] = groupUIDs[m]
  <2>1. PICK uid : uid = groupUIDs'[n]
    OBVIOUS
  <2> DEFINE new == [NoGroup EXCEPT !.uid = uid, !.owner = owner, !.flavor = f]
  <2>2. new.uid = uid /\ new.owner = owner /\ new.flavor = f /\ new.status = NoStatus
    BY DEF NoGroup
  <2>3. groups' = [groups EXCEPT ![n] = new]
    BY <1>6, <2>1 DEF CreateGroup
  <2> HIDE DEF new
  <2> QED BY <1>6, <2>1, <2>2, <2>3 DEF CreateGroup
<1> QED BY <1>1, <1>2, <1>3, <1>4, <1>5, <1>6 DEF ClusterStep, Reclaim

\* An operation on one name leaves the others alone.
LEMMA OtherNamesKept ==
    ASSUME ClusterTypeOK, NEW n \in Names, NEW m \in Names, m # n,
           \/ ClusterStep(n) \/ RemoveClaim(n) \/ DeleteGroup(n) \/ FinalizeGroup(n)
           \/ SyncCache(n)
           \/ \E uid, f : StoreLaunch(n, uid, f)
           \/ \E owner, f : CreateGroup(n, owner, f)
    PROVE  /\ claims'[m] = claims[m] /\ claimUIDs'[m] = claimUIDs[m]
           /\ groups'[m] = groups[m] /\ groupUIDs'[m] = groupUIDs[m]
           /\ cached'[m] = cached[m]
<1> USE DEF ClusterTypeOK
<1>1. CASE RemoveClaim(n) \/ DeleteGroup(n) \/ FinalizeGroup(n) \/ SyncCache(n)
  BY <1>1 DEF RemoveClaim, DeleteGroup, FinalizeGroup, SyncCache
<1>2. CASE \E uid, f : StoreLaunch(n, uid, f)
  BY <1>2 DEF StoreLaunch
<1>3. CASE \E owner, f : CreateGroup(n, owner, f)
  BY <1>3 DEF CreateGroup
<1>4. CASE ClusterStep(n)
  BY <1>4 DEF ClusterStep, CreateClaim, DeleteClaim, Register, Reclaim, DeleteGroup,
              OperatorWrites
<1> QED BY <1>1, <1>2, <1>3, <1>4


\* A claim keeps its UID, and once launched stays so, until it is removed; the
\* claim created next has a UID no claim of its name has had.  Nothing marks a
\* claim that does not exist.
ClaimMoves(m) ==
    /\ \/ /\ claims'[m].uid = claims[m].uid /\ claimUIDs'[m] = claimUIDs[m]
          /\ claims[m].launched # NoFlavor => claims'[m].launched # NoFlavor
       \/ claims'[m] = NoClaim /\ claimUIDs'[m] = claimUIDs[m]
       \/ claims'[m].uid = claimUIDs[m] + 1 /\ claimUIDs'[m] = claimUIDs[m] + 1
    /\ claims'[m].deleting => claims[m].deleting \/ Exists(claims[m])

LEMMA ClaimsAfter ==
    ASSUME ClusterTypeOK, NEW n \in Names, NEW m \in Names
    PROVE  /\ UNCHANGED <<claims, claimUIDs>> => ClaimMoves(m)
           /\ ClusterStep(n) => ClaimMoves(m)
           /\ RemoveClaim(n) => ClaimMoves(m)
           /\ \A uid, f : StoreLaunch(n, uid, f) /\ f \in Flavors => ClaimMoves(m)
           /\ \A b \in BOOLEAN :
                 /\ UNCHANGED claimUIDs /\ claims' = [claims EXCEPT ![n].deleting = b]
                 /\ b => Exists(claims[n])
                 => ClaimMoves(m)
           /\ DeleteGroup(n) \/ FinalizeGroup(n) \/ SyncCache(n) => ClaimMoves(m)
<1>t. claims \in [Names -> Claim] /\ claimUIDs \in [Names -> Nat]
  BY DEF ClusterTypeOK
<1>0. ASSUME UNCHANGED <<claims, claimUIDs>> PROVE ClaimMoves(m)
  BY <1>0 DEF ClaimMoves
<1>1. ASSUME NEW b \in BOOLEAN, UNCHANGED claimUIDs, claims' = [claims EXCEPT ![n].deleting = b],
             b => Exists(claims[n])
      PROVE  ClaimMoves(m)
  BY <1>t, <1>1 DEF ClaimMoves, Claim
<1>2. ASSUME RemoveClaim(n) PROVE ClaimMoves(m)
  BY <1>t, <1>2 DEF RemoveClaim, ClaimMoves, NoClaim
<1>3. ASSUME NEW uid, NEW f \in Flavors, StoreLaunch(n, uid, f) PROVE ClaimMoves(m)
  BY <1>t, <1>3, ClusterAssumption DEF StoreLaunch, ClaimMoves, Claim
<1>4. ASSUME CreateClaim(n) PROVE ClaimMoves(m)
  <2>1. PICK uid : uid = claimUIDs'[n]
    OBVIOUS
  <2> DEFINE new == [NoClaim EXCEPT !.uid = uid]
  <2>2. new.uid = uid /\ ~new.deleting
    BY DEF NoClaim
  <2>3. claims' = [claims EXCEPT ![n] = new]
    BY <1>4, <2>1 DEF CreateClaim
  <2> HIDE DEF new
  <2> QED BY <1>t, <1>4, <2>1, <2>2, <2>3 DEF CreateClaim, ClaimMoves
<1>5. ASSUME Register(n) PROVE ClaimMoves(m)
  BY <1>t, <1>5 DEF Register, ClaimMoves, Claim
<1>6. ASSUME DeleteClaim(n) PROVE ClaimMoves(m)
  BY <1>1, <1>6 DEF DeleteClaim, Wanted
<1>7. ASSUME DeleteGroup(n) \/ FinalizeGroup(n) \/ SyncCache(n)
             \/ \E status \in Statuses : OperatorWrites(n, status)
      PROVE  ClaimMoves(m)
  BY <1>0, <1>7 DEF DeleteGroup, FinalizeGroup, SyncCache, OperatorWrites
<1>8. ASSUME ClusterStep(n) PROVE ClaimMoves(m)
  BY <1>8, <1>4, <1>5, <1>6, <1>7 DEF ClusterStep, Reclaim
<1> QED BY <1>0, <1>1, <1>2, <1>3, <1>7, <1>8

=============================================================================
