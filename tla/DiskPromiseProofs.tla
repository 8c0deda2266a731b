-------------------------- MODULE DiskPromiseProofs --------------------------
(***************************************************************************)
(* What the catalogue serves stays within bounds (CapacityCatalogue,       *)
(* DiskPromise), for any flavors, sizes, overrides, nodes and reports.     *)
(***************************************************************************)
EXTENDS DiskPromise, TLAPS

\* Figures of a served flavor that checkObservation would let in.
SoundFigures(f, figures) ==
    /\ DOMAIN figures.capacity = DOMAIN figures.allocatable
    /\ \A r \in DOMAIN figures.capacity :
          /\ figures.capacity[r] \in Int /\ figures.allocatable[r] \in Int
          /\ figures.allocatable[r] <= figures.capacity[r]
    /\ \A r \in DOMAIN figures.capacity \ {Disk} : Matches(f, figures, r)
    /\ Disk \in DOMAIN figures.capacity =>
          /\ Within(figures.capacity[Disk], ephemeralStorage.capacity)
          /\ Within(figures.allocatable[Disk], ephemeralStorage.allocatable)

\* What is observed of every served flavor is such; with a reference, it says
\* nothing of disks; and the reference is one that was accepted.
CatalogueInv ==
    /\ DOMAIN observed = Flavors
    /\ \A f \in Served : SoundFigures(f, observed[f])
    /\ ephemeralStorageRequired =>
          \A f \in Served : Disk \notin DOMAIN observed[f].capacity
    /\ ephemeralStorageReference \in DiskProfile
    /\ ephemeralStorageReference # NoDisk => ValidDisk(ephemeralStorageReference)

\* What is known of the reference node are figures.
HostInv == host.disk \in DiskProfile /\ answer.disk \in DiskProfile

-----------------------------------------------------------------------------
(***************************************************************************)
(* The sizes.                                                              *)
(***************************************************************************)

\* A served flavor has a size.
LEMMA ServedSizes ==
  ASSUME NEW f \in Served
  PROVE  /\ f \in Flavors
         /\ ApplyOverrides[f].cpu \in Nat /\ ApplyOverrides[f].cpu > 0
         /\ ApplyOverrides[f].memory \in Nat /\ ApplyOverrides[f].memory > 0
<1>1. f \in DOMAIN FlavorSizing \cup DOMAIN Overrides
      /\ Override(f, "cpu") > 0 /\ Override(f, "memory") > 0
  BY DEF Served, ApplyOverrides
<1>2. /\ ApplyOverrides[f].cpu = Override(f, "cpu")
      /\ ApplyOverrides[f].memory = Override(f, "memory")
  BY DEF Served, ApplyOverrides
<1>3. Override(f, "cpu") \in Nat /\ Override(f, "memory") \in Nat
  BY CatalogueAssumption DEF Override, Size
<1> QED
  BY <1>1, <1>2, <1>3, CatalogueAssumption

\* The figures it has before any node reports.
LEMMA StaticFigures ==
  ASSUME NEW f \in Served
  PROVE  /\ staticCapacity(f)[Disk] = ephemeralStorage.capacity
         /\ staticAllocatable(f)[Disk] = ephemeralStorage.allocatable
         /\ \A r \in generalizableResources :
               /\ staticCapacity(f)[r] \in Int /\ staticAllocatable(f)[r] \in Int
               /\ staticAllocatable(f)[r] <= staticCapacity(f)[r]
<1>1. /\ staticCapacity(f)["cpu"] = ApplyOverrides[f].cpu
      /\ staticCapacity(f)["memory"] = ApplyOverrides[f].memory
      /\ staticCapacity(f)["pods"] = maxPods
      /\ staticCapacity(f)[Disk] = ephemeralStorage.capacity
  BY DEF staticCapacity, SizingOf, generalizableResources, Disk
<1>2. /\ staticAllocatable(f)["cpu"] = staticCapacity(f)["cpu"]
      /\ staticAllocatable(f)["memory"] = staticCapacity(f)["memory"] - kubeReservedMemory
      /\ staticAllocatable(f)["pods"] = staticCapacity(f)["pods"]
      /\ staticAllocatable(f)[Disk] = ephemeralStorage.allocatable
  BY DEF staticAllocatable, generalizableResources, Disk
<1>3. /\ ephemeralStorage.capacity \in Nat /\ ephemeralStorage.allocatable \in Nat
      /\ ephemeralStorage.allocatable <= ephemeralStorage.capacity
  BY CatalogueAssumption DEF DiskProfile, ValidDisk
<1> QED
  BY <1>1, <1>2, <1>3, ServedSizes, CatalogueAssumption DEF generalizableResources

-----------------------------------------------------------------------------
(***************************************************************************)
(* The reports.                                                            *)
(***************************************************************************)

\* The minimum of sound figures is sound.
LEMMA MergeSound ==
  ASSUME NEW f \in Served, NEW a, NEW b, SoundFigures(f, a), SoundFigures(f, b)
  PROVE  SoundFigures(f, [capacity |-> minMerge(a.capacity, b.capacity),
                          allocatable |-> minMerge(a.allocatable, b.allocatable)])
<1> DEFINE c == minMerge(a.capacity, b.capacity)
           d == minMerge(a.allocatable, b.allocatable)
           D == DOMAIN a.capacity \cup DOMAIN b.capacity
<1>0. /\ DOMAIN a.allocatable = DOMAIN a.capacity
      /\ DOMAIN b.allocatable = DOMAIN b.capacity
      /\ \A r \in DOMAIN a.capacity : a.capacity[r] \in Int
      /\ \A r \in DOMAIN b.capacity : b.capacity[r] \in Int
      /\ \A r \in DOMAIN a.allocatable : a.allocatable[r] \in Int
      /\ \A r \in DOMAIN b.allocatable : b.allocatable[r] \in Int
  BY DEF SoundFigures
<1>1. /\ DOMAIN c = D
      /\ \A r \in D : \/ r \in DOMAIN a.capacity /\ c[r] = a.capacity[r]
                      \/ r \in DOMAIN b.capacity /\ c[r] = b.capacity[r]
  BY <1>0 DEF minMerge
<1>2. /\ DOMAIN d = D
      /\ \A r \in D : \/ r \in DOMAIN a.capacity /\ d[r] = a.allocatable[r]
                      \/ r \in DOMAIN b.capacity /\ d[r] = b.allocatable[r]
      /\ \A r \in DOMAIN a.capacity : d[r] <= a.allocatable[r]
      /\ \A r \in DOMAIN b.capacity : d[r] <= b.allocatable[r]
  BY <1>0 DEF minMerge
<1>3. \A r \in D : c[r] \in Int /\ d[r] \in Int /\ d[r] <= c[r]
  <2> HIDE DEF c, d
  <2> TAKE r \in D
  <2>1. c[r] \in Int /\ d[r] \in Int
    BY <1>1, <1>2 DEF SoundFigures
  <2>2. CASE r \in DOMAIN a.capacity /\ c[r] = a.capacity[r]
    BY <1>2, <2>1, <2>2 DEF SoundFigures
  <2>3. CASE r \in DOMAIN b.capacity /\ c[r] = b.capacity[r]
    BY <1>2, <2>1, <2>3 DEF SoundFigures
  <2> QED
    BY <1>1, <2>2, <2>3
<1>4. SoundFigures(f, [capacity |-> c, allocatable |-> d])
  <2> HIDE DEF c, d, D
  <2>1. \A r \in D \ {Disk} : Matches(f, [capacity |-> c, allocatable |-> d], r)
    BY <1>1, <1>2 DEF SoundFigures, Matches
  <2>2. Disk \in D => /\ Within(c[Disk], ephemeralStorage.capacity)
                      /\ Within(d[Disk], ephemeralStorage.allocatable)
    BY <1>1, <1>2 DEF SoundFigures
  <2> QED
    BY <1>1, <1>2, <1>3, <2>1, <2>2 DEF SoundFigures
<1> QED
  BY <1>4

\* What RecordObservedCapacity keeps of a plausible report is sound.
LEMMA KeptSound ==
  ASSUME NEW f \in Served, NEW report \in Reports, Plausible(f, report)
  PROVE  /\ SoundFigures(f, Kept(f, report))
         /\ ephemeralStorageRequired => Disk \notin DOMAIN Kept(f, report).capacity
<1> DEFINE considered == Considered(report)
           Plain(r) == report.capacity[r] \in Int /\ report.allocatable[r] \in Int
                       /\ report.allocatable[r] <= report.capacity[r]
<1>1. /\ DOMAIN report.capacity = DOMAIN report.allocatable
      /\ \A r \in DOMAIN report.capacity : Plain(r)
  BY DiskPromiseAssumption DEF Plausible, checkConsistent
<1>2. /\ DOMAIN considered.capacity = DOMAIN considered.allocatable
      /\ DOMAIN considered.capacity \subseteq DOMAIN report.capacity
      /\ \A r \in DOMAIN considered.capacity :
            /\ considered.capacity[r] = report.capacity[r]
            /\ considered.allocatable[r] = report.allocatable[r]
      /\ ephemeralStorageRequired => Disk \notin DOMAIN considered.capacity
  BY <1>1 DEF Considered, WithoutDisk
<1>3. checkObservation(f, considered)
  BY DEF Plausible
<1> HIDE DEF considered
<1>4. \A r \in DOMAIN considered.capacity \ {Disk} : Matches(f, considered, r)
  BY <1>3 DEF checkObservation
<1>5. CASE LegacyDisk(considered)
  <2>1. Kept(f, report) = WithoutDisk(report)
    BY <1>5 DEF Kept, considered
  <2>2. /\ DOMAIN WithoutDisk(report).capacity = DOMAIN report.capacity \ {Disk}
        /\ DOMAIN WithoutDisk(report).allocatable = DOMAIN report.capacity \ {Disk}
        /\ \A r \in DOMAIN report.capacity \ {Disk} :
              /\ WithoutDisk(report).capacity[r] = report.capacity[r]
              /\ WithoutDisk(report).allocatable[r] = report.allocatable[r]
    BY <1>1 DEF WithoutDisk
  <2>3. \A r \in DOMAIN report.capacity \ {Disk} : r \in DOMAIN considered.capacity
    BY DEF considered, Considered, WithoutDisk
  <2>4. \A r \in DOMAIN report.capacity \ {Disk} : Matches(f, WithoutDisk(report), r)
    BY <1>2, <1>4, <2>2, <2>3 DEF Matches
  <2> QED
    BY <1>1, <1>2, <2>1, <2>2, <2>4 DEF SoundFigures
<1>6. CASE ~LegacyDisk(considered)
  <2>1. Kept(f, report) = considered
    BY <1>6 DEF Kept, considered
  <2>2. Disk \in DOMAIN considered.capacity =>
           /\ Within(considered.capacity[Disk], ephemeralStorage.capacity)
           /\ Within(considered.allocatable[Disk], ephemeralStorage.allocatable)
    BY <1>3, <1>6 DEF checkObservation, DiskMatches
  <2> QED
    BY <1>1, <1>2, <1>4, <2>1, <2>2 DEF SoundFigures
<1> QED
  BY <1>5, <1>6

-----------------------------------------------------------------------------
(***************************************************************************)
(* The invariant.                                                          *)
(***************************************************************************)

\* Nothing observed is sound.
LEMMA UnobservedSound ==
  ASSUME NEW f
  PROVE  SoundFigures(f, Unobserved) /\ DOMAIN Unobserved.capacity = {}
  BY DEF SoundFigures, Unobserved, NoFigures

\* A process knows nothing when it starts.
LEMMA FreshSound ==
  ASSUME observed = [f \in Flavors |-> Unobserved], ephemeralStorageReference = NoDisk
  PROVE  CatalogueInv
<1>1. \A f \in Served : f \in Flavors
  BY ServedSizes
<1> QED
  BY <1>1, UnobservedSound DEF CatalogueInv, NoDisk, DiskProfile

\* A report keeps the invariant.
LEMMA RecordStep ==
  ASSUME CatalogueInv, NEW g \in Flavors, NEW report \in Reports,
         RecordObservedCapacity(g, report)
  PROVE  CatalogueInv'
<1> DEFINE merged == [capacity |-> minMerge(observed[g].capacity, Kept(g, report).capacity),
                      allocatable |-> minMerge(observed[g].allocatable,
                                               Kept(g, report).allocatable)]
<1>1. observed' = [observed EXCEPT ![g] = merged]
  BY DEF RecordObservedCapacity
<1>2. Plausible(g, report)
  BY DEF RecordObservedCapacity
<1>3. ASSUME g \in Served
      PROVE  /\ SoundFigures(g, merged)
             /\ ephemeralStorageRequired => Disk \notin DOMAIN merged.capacity
  <2>1. /\ SoundFigures(g, Kept(g, report)) /\ SoundFigures(g, observed[g])
        /\ ephemeralStorageRequired => Disk \notin DOMAIN Kept(g, report).capacity
                                       /\ Disk \notin DOMAIN observed[g].capacity
    BY <1>2, <1>3, KeptSound DEF CatalogueInv
  <2>2. SoundFigures(g, merged)
    BY <1>3, <2>1, MergeSound
  <2>3. DOMAIN merged.capacity = DOMAIN observed[g].capacity \cup DOMAIN Kept(g, report).capacity
    BY DEF minMerge
  <2> QED
    BY <2>1, <2>2, <2>3
<1> HIDE DEF merged
<1>4. \A f \in Served : observed'[f] = IF f = g THEN merged ELSE observed[f]
  BY <1>1, ServedSizes DEF CatalogueInv
<1>5. UNCHANGED <<ephemeralStorageRequired, ephemeralStorageReference>>
  BY DEF RecordObservedCapacity
<1>6. DOMAIN observed' = Flavors
  BY <1>1 DEF CatalogueInv
<1>7. ASSUME NEW f \in Served
      PROVE  /\ SoundFigures(f, observed'[f])
             /\ ephemeralStorageRequired => Disk \notin DOMAIN observed'[f].capacity
  BY <1>3, <1>4 DEF CatalogueInv
<1> QED
  BY <1>5, <1>6, <1>7 DEF CatalogueInv, SoundFigures

\* So does everything else.
LEMMA CatalogueStep ==
  ASSUME CatalogueInv, HostInv, [PromiseNext]_promiseVars
  PROVE  CatalogueInv'
<1>1. CASE UNCHANGED catalogue
  BY <1>1 DEF CatalogueInv, catalogue, SoundFigures
<1>2. ASSUME NEW node \in Nodes, NEW groupLabel \in NodeGroups, NEW flavorLabel \in Flavors,
             NEW report \in Reports, ReconcileNode(node, groupLabel, flavorLabel, report)
      PROVE  CatalogueInv'
  <2>1. FlavorOf[groupLabel] \in Flavors
    BY DiskPromiseAssumption DEF NodeGroups
  <2> QED
    BY <1>2, <2>1, RecordStep DEF ReconcileNode
<1>3. CASE EnableReference
  <2>1. /\ observed' = [f \in Flavors |-> WithoutDisk(observed[f])]
        /\ UNCHANGED ephemeralStorageReference
    BY <1>3 DEF EnableReference, RequireEphemeralStorageReference
  <2>2. ASSUME NEW f \in Served
        PROVE  SoundFigures(f, observed'[f]) /\ Disk \notin DOMAIN observed'[f].capacity
    <3>1. observed'[f] = WithoutDisk(observed[f]) /\ SoundFigures(f, observed[f])
      BY <2>1, ServedSizes DEF CatalogueInv
    <3> DEFINE had == observed[f]
               left == WithoutDisk(had)
    <3>2. /\ DOMAIN left.capacity = DOMAIN had.capacity \ {Disk}
          /\ DOMAIN left.allocatable = DOMAIN had.allocatable \ {Disk}
          /\ \A r \in DOMAIN had.capacity \ {Disk} : left.capacity[r] = had.capacity[r]
          /\ \A r \in DOMAIN had.allocatable \ {Disk} : left.allocatable[r] = had.allocatable[r]
      BY DEF WithoutDisk
    <3> HIDE DEF left, had
    <3>3. SoundFigures(f, left)
      BY <3>1, <3>2 DEF SoundFigures, Matches, had
    <3> QED
      BY <3>1, <3>2, <3>3 DEF left, had
  <2> QED
    BY <2>1, <2>2 DEF CatalogueInv, SoundFigures
<1>4. CASE ApplyReference
  <2>1. UNCHANGED <<observed, ephemeralStorageRequired>>
    BY <1>4 DEF ApplyReference, SetEphemeralStorageReference,
                InvalidateEphemeralStorageReference
  <2>2. \/ UNCHANGED ephemeralStorageReference
        \/ ValidDisk(answer.disk) /\ ephemeralStorageReference' = answer.disk
    BY <1>4 DEF ApplyReference, SetEphemeralStorageReference,
                InvalidateEphemeralStorageReference
  <2> QED
    BY <2>1, <2>2 DEF CatalogueInv, HostInv, SoundFigures
<1>5. CASE RestartProcess
  <2>1. observed' = [f \in Flavors |-> Unobserved] /\ ephemeralStorageReference' = NoDisk
    BY <1>5 DEF RestartProcess
  <2> QED
    BY <2>1, ServedSizes, UnobservedSound DEF CatalogueInv, SoundFigures, NoDisk, DiskProfile
<1>6. CASE LaunchNext
  <2>1. UNCHANGED catalogue
    BY <1>6 DEF LaunchNext, CreateClaim, Resolve, ResolveExisting, ResolveRefuses, Post,
                PostFails, LandDelayed, Tamper, Launched, LaunchFails, Terminate
  <2> QED
    BY <1>1, <2>1
<1>7. ASSUME NEW next \in Host, HostChanges(next)
      PROVE  CatalogueInv'
  BY <1>1, <1>7 DEF HostChanges
<1>8. CASE ReadReference
  BY <1>1, <1>8 DEF ReadReference
<1>9. CASE UNCHANGED promiseVars
  BY <1>1, <1>9 DEF promiseVars
<1> QED
  BY <1>2, <1>3, <1>4, <1>5, <1>6, <1>7, <1>8, <1>9 DEF PromiseNext, FeedNext

\* The node reports figures, whoever reads them and when.
LEMMA HostStep ==
  ASSUME HostInv, [PromiseNext]_promiseVars
  PROVE  HostInv'
<1> USE DEF HostInv
<1>1. NoDisk \in DiskProfile
  BY DEF NoDisk, DiskProfile
<1>2. CASE UNCHANGED <<host, answer>>
  BY <1>2
<1>3. ASSUME NEW next \in Host, HostChanges(next)
      PROVE  HostInv'
  BY <1>1, <1>3, DiskPromiseAssumption DEF HostChanges, Host
<1>4. CASE ReadReference
  BY <1>4 DEF ReadReference
<1>5. CASE ApplyReference \/ RestartProcess
  BY <1>1, <1>5 DEF ApplyReference, RestartProcess, NoAnswer
<1>6. CASE LaunchNext
  BY <1>2, <1>6 DEF LaunchNext, CreateClaim, Resolve, ResolveExisting, ResolveRefuses, Post,
            PostFails, LandDelayed, Tamper, Launched, LaunchFails, Terminate
<1>7. ASSUME NEW node \in Nodes, NEW groupLabel \in NodeGroups, NEW flavorLabel \in Flavors,
             NEW report \in Reports, ReconcileNode(node, groupLabel, flavorLabel, report)
      PROVE  HostInv'
  BY <1>2, <1>7 DEF ReconcileNode
<1>8. CASE EnableReference
  BY <1>2, <1>8 DEF EnableReference
<1>9. CASE UNCHANGED promiseVars
  BY <1>2, <1>9 DEF promiseVars
<1> QED
  BY <1>3, <1>4, <1>5, <1>6, <1>7, <1>8, <1>9 DEF PromiseNext, FeedNext

\* A process that starts knows nothing of either.
LEMMA InvInit == PromiseInit => CatalogueInv /\ HostInv
<1> SUFFICES ASSUME PromiseInit PROVE CatalogueInv /\ HostInv
  OBVIOUS
<1>1. CatalogueInv
  BY FreshSound DEF PromiseInit, CatalogueInit
<1>2. HostInv
  BY DiskPromiseAssumption
     DEF PromiseInit, HostInv, NoHost, NoAnswer, NoDisk, DiskProfile
<1> QED
  BY <1>1, <1>2

-----------------------------------------------------------------------------
(***************************************************************************)
(* What is served.                                                         *)
(***************************************************************************)

\* A disk that is within the tolerance of itself.
LEMMA WithinItself ==
  ASSUME NEW x \in Nat, x > 0
  PROVE  Within(x, x)
  BY DEF Within

\* Sound figures, laid over the flavor's own.
LEMMA ObservedServed ==
  ASSUME CatalogueInv, NEW f \in Served
  PROVE  /\ ObservedType(f).capacity["cpu"] = staticCapacity(f)["cpu"]
         /\ \A r \in generalizableResources \ {Disk} :
               /\ Plausibly(ObservedType(f).capacity[r], staticCapacity(f)[r])
               /\ Plausibly(ObservedType(f).allocatable[r], staticAllocatable(f)[r])
         /\ \A r \in generalizableResources :
               ObservedType(f).allocatable[r] <= ObservedType(f).capacity[r]
         /\ DOMAIN ObservedType(f).capacity = generalizableResources
         /\ DOMAIN ObservedType(f).allocatable = generalizableResources
         /\ IF ephemeralStorageRequired THEN DiskOf(ObservedType(f)) = ephemeralStorage
            ELSE /\ Within(ObservedType(f).capacity[Disk], ephemeralStorage.capacity)
                 /\ Within(ObservedType(f).allocatable[Disk], ephemeralStorage.allocatable)
<1> DEFINE o == observed[f]
           Served1(r) == IF r \in DOMAIN o.capacity THEN o.capacity[r] ELSE staticCapacity(f)[r]
           Served2(r) == IF r \in DOMAIN o.capacity THEN o.allocatable[r]
                         ELSE staticAllocatable(f)[r]
<1>1. SoundFigures(f, o)
  BY DEF CatalogueInv
<1>2. /\ DOMAIN ObservedType(f).capacity = generalizableResources
      /\ DOMAIN ObservedType(f).allocatable = generalizableResources
      /\ \A r \in generalizableResources :
            /\ ObservedType(f).capacity[r] = Served1(r)
            /\ ObservedType(f).allocatable[r] = Served2(r)
  BY <1>1 DEF ObservedType, Overlaid, SoundFigures
<1>3. "cpu" \in generalizableResources /\ "memory" \in generalizableResources
      /\ Disk \in generalizableResources
  BY DEF generalizableResources, Disk
<1>4. ObservedType(f).capacity["cpu"] = staticCapacity(f)["cpu"]
  BY <1>1, <1>2, <1>3 DEF SoundFigures, Matches, Disk
<1>5. \A r \in generalizableResources \ {Disk} :
         /\ Plausibly(ObservedType(f).capacity[r], staticCapacity(f)[r])
         /\ Plausibly(ObservedType(f).allocatable[r], staticAllocatable(f)[r])
  BY <1>1, <1>2, <1>4 DEF SoundFigures, Matches, Plausibly
<1>6. \A r \in generalizableResources :
         ObservedType(f).allocatable[r] <= ObservedType(f).capacity[r]
  BY <1>1, <1>2, StaticFigures DEF SoundFigures
<1>7. CASE ephemeralStorageRequired
  <2>1. Disk \notin DOMAIN o.capacity
    BY <1>7 DEF CatalogueInv
  <2>2. /\ ObservedType(f).capacity[Disk] = ephemeralStorage.capacity
        /\ ObservedType(f).allocatable[Disk] = ephemeralStorage.allocatable
    BY <1>2, <1>3, <2>1, StaticFigures
  <2>3. DiskOf(ObservedType(f)) = ephemeralStorage
    BY <2>2, CatalogueAssumption DEF DiskOf, DiskProfile
  <2> QED
    BY <1>2, <1>4, <1>5, <1>6, <1>7, <2>3
<1>8. CASE ~ephemeralStorageRequired
  <2>1. /\ ephemeralStorage.capacity \in Nat /\ ephemeralStorage.capacity > 0
        /\ ephemeralStorage.allocatable \in Nat /\ ephemeralStorage.allocatable > 0
    BY CatalogueAssumption DEF DiskProfile, ValidDisk
  <2>2. /\ Within(ObservedType(f).capacity[Disk], ephemeralStorage.capacity)
        /\ Within(ObservedType(f).allocatable[Disk], ephemeralStorage.allocatable)
    BY <1>1, <1>2, <1>3, <2>1, StaticFigures, WithinItself DEF SoundFigures
  <2> QED
    BY <1>2, <1>4, <1>5, <1>6, <1>8, <2>2
<1> QED
  BY <1>7, <1>8

\* The disk of the reference, when there is one, over them.
LEMMA ServedSound == CatalogueInv => ServedWithinBounds
<1> SUFFICES ASSUME CatalogueInv, NEW f \in Served
             PROVE  SoundType(f, InstanceType(f))
  BY DEF ServedWithinBounds
<1> DEFINE type == ObservedType(f)
           reference == ephemeralStorageReference
<1>1. CASE reference = NoDisk
  <2>1. InstanceType(f) = type
    BY <1>1 DEF InstanceType
  <2>2. SoundDisk(DiskOf(type))
    BY <1>1, ObservedServed DEF SoundDisk, DiskOf
  <2> QED
    BY <2>1, <2>2, ObservedServed DEF SoundType
<1>2. CASE reference # NoDisk
  <2>1. /\ reference.allocatable <= reference.capacity
        /\ reference = [capacity |-> reference.capacity, allocatable |-> reference.allocatable]
    BY <1>2 DEF CatalogueInv, ValidDisk, DiskProfile
  <2>2. InstanceType(f) = WithDisk(type, reference)
    BY <1>2 DEF InstanceType
  <2>3. /\ WithDisk(type, reference).capacity[Disk] = reference.capacity
        /\ WithDisk(type, reference).allocatable[Disk] = reference.allocatable
        /\ \A r \in generalizableResources \ {Disk} :
              /\ WithDisk(type, reference).capacity[r] = type.capacity[r]
              /\ WithDisk(type, reference).allocatable[r] = type.allocatable[r]
    BY ObservedServed DEF WithDisk, generalizableResources, Disk
  <2>4. SoundDisk(DiskOf(WithDisk(type, reference)))
    BY <1>2, <2>1, <2>3 DEF SoundDisk, DiskOf
  <2>5. \A r \in generalizableResources :
           WithDisk(type, reference).allocatable[r] <= WithDisk(type, reference).capacity[r]
    BY <2>1, <2>3, ObservedServed
  <2>6. WithDisk(type, reference).capacity["cpu"] = type.capacity["cpu"]
    BY <2>3 DEF generalizableResources, Disk
  <2> QED
    BY <2>2, <2>3, <2>4, <2>5, <2>6, ObservedServed DEF SoundType
<1> QED
  BY <1>1, <1>2

-----------------------------------------------------------------------------
(***************************************************************************)
(* What is promised.                                                       *)
(***************************************************************************)

\* A disk that suits the claim.
Fits(disk) == claim.request <= disk.allocatable /\ (claim.limited => disk # NoDisk)

\* A group says what its launch was promised, and that suits the claim.
SaysPromise(g) == g.annotations = "snapshot" => g.snapshot = g.promised /\ Fits(g.promised)

\* The group of the name is of this claim, wherever it has got to.
OneClaim ==
    /\ DOMAIN claim = {"state", "request", "limited", "disk"}
    /\ DOMAIN group = {"flavor", "annotations", "snapshot", "promised"}
    /\ DOMAIN delayed = {"flavor", "annotations", "snapshot", "promised"}
    /\ launch.pc # "idle" => claim.state = "planned"
    /\ launch.pc = "posting" => launch.flavor # NoFlavor
    /\ launch.pc = "polling" \/ claim.state = "launched" => Exists(group)
    /\ claim.state = "none" => group = NoGroup /\ delayed = NoGroup

LaunchInv ==
    /\ OneClaim
    /\ SaysPromise(group) /\ SaysPromise(delayed)
    /\ launch.pc = "posting" => Fits(launch.type)
    /\ PromiseHolds

\* A disk that is offered to a NodePool with a limit is known.
LEMMA OfferedKnown ==
  ASSUME CatalogueInv, NEW limited \in BOOLEAN, NEW f \in Offered(limited)
  PROVE  f \in Served /\ (limited => DiskOf(ProvisioningType(f)) # NoDisk)
<1>1. f \in Served
  BY DEF Offered
<1>2. ASSUME limited
      PROVE  DiskOf(InstanceType(f)) # NoDisk
  <2>1. SoundDisk(DiskOf(InstanceType(f)))
    BY <1>1, ServedSound DEF ServedWithinBounds, SoundType
  <2>2. ephemeralStorage.capacity \in Nat /\ ephemeralStorage.capacity > 0
    BY CatalogueAssumption DEF DiskProfile, ValidDisk
  <2>3. ephemeralStorage # NoDisk /\ ~Within(0, ephemeralStorage.capacity)
    BY <2>2 DEF NoDisk, Within
  <2> QED
    BY <2>1, <2>3 DEF SoundDisk, NoDisk
<1>3. ASSUME limited
      PROVE  ProvisioningType(f) = InstanceType(f)
  BY <1>3 DEF Offered, ProvisioningType
<1> QED
  BY <1>1, <1>2, <1>3

\* What a launch does keeps its promise.
LEMMA LaunchStep ==
  ASSUME CatalogueInv, LaunchInv, LaunchNext
  PROVE  LaunchInv'
<1> USE DEF LaunchInv, OneClaim, SaysPromise, Fits, PromiseHolds, Exists, Idle
<1>1. ASSUME NEW request \in Requests, NEW limited \in BOOLEAN, CreateClaim(request, limited)
      PROVE  LaunchInv'
  BY <1>1 DEF CreateClaim, NoClaim, NoGroup
<1>2. ASSUME NEW f \in Served, Resolve(f)
      PROVE  LaunchInv'
  BY <1>2, OfferedKnown, ServedSizes, DiskPromiseAssumption DEF Resolve
<1>3. CASE ResolveExisting
  BY <1>3 DEF ResolveExisting
<1>4. CASE ResolveRefuses
  BY <1>4 DEF ResolveRefuses
<1>5. CASE Post
  BY <1>5 DEF Post, Posted
<1>6. ASSUME NEW lost \in BOOLEAN, PostFails(lost)
      PROVE  LaunchInv'
  BY <1>6 DEF PostFails, Posted
<1>7. CASE LandDelayed
  BY <1>7 DEF LandDelayed, NoGroup
<1>8. CASE Tamper
  <2>1. /\ group'.annotations = "malformed"
        /\ group'.flavor = group.flavor
        /\ DOMAIN group' = DOMAIN group
    BY <1>8 DEF Tamper
  <2>2. UNCHANGED <<claim, launch, delayed>> /\ Exists(group)
    BY <1>8 DEF Tamper
  <2>3. claim.state # "none"
    BY <2>2 DEF NoGroup
  <2> QED
    BY <2>1, <2>2, <2>3
<1>9. CASE Launched
  BY <1>9 DEF Launched, DescribedDisk
<1>10. CASE LaunchFails
  BY <1>10 DEF LaunchFails
<1>11. CASE Terminate
  BY <1>11 DEF Terminate, NoClaim, NoGroup
<1> QED
  BY <1>1, <1>2, <1>3, <1>4, <1>5, <1>6, <1>7, <1>8, <1>9, <1>10, <1>11 DEF LaunchNext

\* Nobody else touches claim, group and launch, but a restart, which forgets.
LEMMA LaunchInvStep ==
  ASSUME CatalogueInv, LaunchInv, [PromiseNext]_promiseVars
  PROVE  LaunchInv'
<1>1. CASE UNCHANGED launching
  BY <1>1 DEF launching, LaunchInv, OneClaim, SaysPromise, Fits, PromiseHolds, Exists
<1>2. CASE LaunchNext
  BY <1>2, LaunchStep
<1>3. CASE RestartProcess
  BY <1>3 DEF RestartProcess, Idle, LaunchInv, OneClaim, SaysPromise, Fits, PromiseHolds,
              Exists
<1>4. CASE FeedNext \/ UNCHANGED promiseVars
  BY <1>1, <1>4 DEF FeedNext, ReconcileNode, EnableReference, HostChanges, ReadReference,
                    ApplyReference, promiseVars
<1> QED
  BY <1>2, <1>3, <1>4 DEF PromiseNext

\* An earlier release left a claim that is not launched, and a group without
\* annotations.
LEMMA LaunchInvInit == PromiseInit => LaunchInv
<1> SUFFICES ASSUME PromiseInit PROVE LaunchInv
  OBVIOUS
<1> USE DEF LaunchInv, OneClaim, SaysPromise, PromiseHolds, Exists, Idle, NoGroup
<1>1. CASE claim = NoClaim /\ group = NoGroup
  BY <1>1 DEF PromiseInit, NoClaim
<1>2. CASE /\ claim \in [state : {"planned"}, request : Requests, limited : BOOLEAN,
                         disk : {NoDisk}]
           /\ group \in {NoGroup} \cup {EarlierRelease(f) : f \in Flavors}
  <2>1. claim.state = "planned" /\ DOMAIN claim = {"state", "request", "limited", "disk"}
    BY <1>2
  <2>2. /\ group.annotations = "absent"
        /\ DOMAIN group = {"flavor", "annotations", "snapshot", "promised"}
    BY <1>2 DEF EarlierRelease
  <2> QED
    BY <2>1, <2>2 DEF PromiseInit
<1> QED
  BY <1>1, <1>2 DEF PromiseInit

-----------------------------------------------------------------------------
(***************************************************************************)
(* Who is heard.                                                           *)
(***************************************************************************)

Lists == {"capacity", "allocatable"}

\* What was reported are figures.
HeardInv ==
    \A h \in heard, list \in Lists : \A r \in DOMAIN h[2][list] : h[2][list][r] \in Int

\* One figure more.
LEMMA LeastOfMore ==
  ASSUME NEW S, \A x \in S : x \in Int, NEW x, IsLeast(x, S), NEW y \in Int
  PROVE  IsLeast(IF y < x THEN y ELSE x, S \cup {y})
  BY DEF IsLeast

\* A list of figures but for the disk.
LEMMA LeftWithoutDisk ==
  ASSUME NEW figures, NEW list \in Lists
  PROVE  /\ DOMAIN WithoutDisk(figures)[list] = DOMAIN figures[list] \ {Disk}
         /\ \A r \in DOMAIN figures[list] \ {Disk} :
               WithoutDisk(figures)[list][r] = figures[list][r]
  BY DEF WithoutDisk, Lists

\* What is kept of a report, but for the disk, is what the report says.
LEMMA KeptIsReported ==
  ASSUME NEW f, NEW report \in Reports, NEW list \in Lists
  PROVE  /\ DOMAIN WithoutDisk(report)[list] = DOMAIN report[list] \ {Disk}
         /\ \A r \in DOMAIN WithoutDisk(report)[list] :
               WithoutDisk(report)[list][r] = report[list][r] /\ report[list][r] \in Int
         /\ DOMAIN Kept(f, report)[list] \ {Disk} = DOMAIN report[list] \ {Disk}
         /\ \A r \in DOMAIN report[list] \ {Disk} :
               Kept(f, report)[list][r] = report[list][r]
<1>1. /\ DOMAIN WithoutDisk(report)[list] = DOMAIN report[list] \ {Disk}
      /\ \A r \in DOMAIN WithoutDisk(report)[list] :
            WithoutDisk(report)[list][r] = report[list][r]
  BY LeftWithoutDisk
<1>2. \A r \in DOMAIN report[list] : report[list][r] \in Int
  BY DiskPromiseAssumption DEF Lists
<1>3. Kept(f, report) = report \/ Kept(f, report) = WithoutDisk(report)
  BY DEF Kept, Considered
<1> QED
  BY <1>1, <1>2, <1>3

\* A report of a node that its group vouches for.
LEMMA ReportStep ==
  ASSUME FollowsSmallestNode, HeardInv, CatalogueInv,
         NEW node \in Nodes, NEW groupLabel \in NodeGroups, NEW flavorLabel \in Flavors,
         NEW report \in Reports, ReconcileNode(node, groupLabel, flavorLabel, report)
  PROVE  FollowsSmallestNode' /\ HeardInv'
<1> DEFINE g == FlavorOf[groupLabel]
           said == WithoutDisk(report)
           kept == Kept(g, report)
<1>1. /\ g \in Flavors /\ node \in NodesOf(g)
      /\ \A f \in Flavors : node \in NodesOf(f) => f = g
  BY DiskPromiseAssumption DEF ReconcileNode, NodesOf, NodeGroups
<1>2. heard' = heard \cup {<<node, said>>}
  BY DEF ReconcileNode, Heard
<1>3. /\ \A f \in Flavors : f # g => observed'[f] = observed[f]
      /\ observed'[g] = [capacity |-> minMerge(observed[g].capacity, kept.capacity),
                         allocatable |-> minMerge(observed[g].allocatable, kept.allocatable)]
  BY <1>1 DEF ReconcileNode, RecordObservedCapacity, CatalogueInv
<1> HIDE DEF g, said, kept
<1>4. HeardInv'
  BY <1>2, KeptIsReported DEF HeardInv, said
<1>5. ASSUME NEW f \in Flavors, NEW list \in Lists,
             NEW r \in generalizableResources \ {Disk}
      PROVE  IF r \in DOMAIN observed'[f][list]
             THEN IsLeast(observed'[f][list][r], ReportedOf(f, list, r)')
             ELSE ReportedOf(f, list, r)' = {}
  <2> DEFINE S == ReportedOf(f, list, r)
             had == observed[f][list]
  <2>1. IF r \in DOMAIN had THEN IsLeast(had[r], S) ELSE S = {}
    BY DEF FollowsSmallestNode, Lists
  <2>2. \A x \in S : x \in Int
    BY DEF ReportedOf, HeardInv
  <2>3. CASE f # g
    <3>1. ReportedOf(f, list, r)' = S
      BY <1>1, <1>2, <2>3 DEF ReportedOf
    <3> QED
      BY <1>3, <2>1, <2>3, <3>1
  <2>4. CASE f = g /\ r \notin DOMAIN said[list]
    <3>1. ReportedOf(f, list, r)' = S
      BY <1>2, <2>4 DEF ReportedOf
    <3>2. r \notin DOMAIN kept[list]
      <4>1. DOMAIN kept[list] \ {Disk} = DOMAIN said[list]
        BY KeptIsReported DEF said, kept
      <4> QED
        BY <2>4, <4>1
    <3>3. observed'[f][list] = minMerge(had, kept[list])
      BY <1>3, <2>4 DEF Lists
    <3>4. /\ r \in DOMAIN observed'[f][list] <=> r \in DOMAIN had
          /\ r \in DOMAIN had => observed'[f][list][r] = had[r]
      BY <3>2, <3>3 DEF minMerge
    <3> QED
      BY <2>1, <3>1, <3>4
  <2>5. CASE f = g /\ r \in DOMAIN said[list]
    <3> DEFINE y == said[list][r]
    <3>1. y \in Int /\ r \in DOMAIN kept[list] /\ kept[list][r] = y
      <4>1. /\ DOMAIN kept[list] \ {Disk} = DOMAIN said[list]
            /\ DOMAIN said[list] = DOMAIN report[list] \ {Disk}
            /\ said[list][r] = report[list][r] /\ report[list][r] \in Int
        BY <2>5, KeptIsReported DEF said, kept
      <4>2. kept[list][r] = report[list][r]
        BY <2>5, <4>1, KeptIsReported DEF kept
      <4> QED
        BY <2>5, <4>1, <4>2
    <3>2. ReportedOf(f, list, r)' = S \cup {y}
      <4>1. /\ <<node, said>>[1] \in NodesOf(f) /\ r \in DOMAIN <<node, said>>[2][list]
            /\ <<node, said>>[2][list][r] = y
        BY <1>1, <2>5
      <4>2. {h \in heard' : h[1] \in NodesOf(f) /\ r \in DOMAIN h[2][list]}
            = {h \in heard : h[1] \in NodesOf(f) /\ r \in DOMAIN h[2][list]}
              \cup {<<node, said>>}
        BY <1>2, <4>1
      <4> QED
        BY <4>1, <4>2 DEF ReportedOf, NodesOf
    <3>3. observed'[f][list] = minMerge(had, kept[list])
      BY <1>3, <2>5 DEF Lists
    <3>4. /\ r \in DOMAIN observed'[f][list]
          /\ observed'[f][list][r] = IF r \in DOMAIN had /\ ~(y < had[r]) THEN had[r] ELSE y
      BY <3>1, <3>3 DEF minMerge
    <3> HIDE DEF S, had, y
    <3>5. CASE r \in DOMAIN had
      <4>1. IsLeast(had[r], S) /\ had[r] \in Int
        BY <2>1, <2>2, <3>5 DEF IsLeast
      <4>2. IsLeast(IF y < had[r] THEN y ELSE had[r], S \cup {y})
        BY <2>2, <3>1, <4>1, LeastOfMore
      <4> QED
        BY <3>2, <3>4, <3>5, <4>2
    <3>6. CASE r \notin DOMAIN had
      BY <2>1, <3>1, <3>2, <3>4, <3>6 DEF IsLeast
    <3> QED
      BY <3>5, <3>6
  <2> QED
    BY <2>3, <2>4, <2>5
<1> QED
  BY <1>4, <1>5 DEF FollowsSmallestNode, Lists

\* Everything else.
LEMMA SmallestStep ==
  ASSUME FollowsSmallestNode, HeardInv, CatalogueInv, [PromiseNext]_promiseVars
  PROVE  FollowsSmallestNode' /\ HeardInv'
<1>1. CASE UNCHANGED <<observed, heard>>
  BY <1>1 DEF FollowsSmallestNode, ReportedOf, HeardInv
<1>2. ASSUME NEW node \in Nodes, NEW groupLabel \in NodeGroups, NEW flavorLabel \in Flavors,
             NEW report \in Reports, ReconcileNode(node, groupLabel, flavorLabel, report)
      PROVE  FollowsSmallestNode' /\ HeardInv'
  BY <1>2, ReportStep
<1>3. CASE EnableReference
  <2>1. /\ \A f \in Flavors : observed'[f] = WithoutDisk(observed[f])
        /\ UNCHANGED heard
    BY <1>3 DEF EnableReference, RequireEphemeralStorageReference
  <2>2. \A f \in Flavors, list \in Lists :
           /\ DOMAIN observed'[f][list] = DOMAIN observed[f][list] \ {Disk}
           /\ \A r \in DOMAIN observed[f][list] \ {Disk} :
                 observed'[f][list][r] = observed[f][list][r]
    BY <2>1, LeftWithoutDisk
  <2>3. HeardInv' /\ \A f, list, r : ReportedOf(f, list, r)' = ReportedOf(f, list, r)
    BY <2>1 DEF HeardInv, ReportedOf
  <2> QED
    BY <2>2, <2>3 DEF FollowsSmallestNode, Lists
<1>4. CASE RestartProcess
  <2>1. heard' = {} /\ \A f \in Flavors : observed'[f] = Unobserved
    BY <1>4 DEF RestartProcess
  <2>2. \A f, list, r : ReportedOf(f, list, r)' = {}
    BY <2>1 DEF ReportedOf
  <2>3. \A list \in Lists : DOMAIN Unobserved[list] = {}
    BY DEF Unobserved, NoFigures, Lists
  <2> QED
    BY <2>1, <2>2, <2>3 DEF FollowsSmallestNode, HeardInv, Lists
<1>5. CASE LaunchNext
  BY <1>1, <1>5 DEF LaunchNext, CreateClaim, Resolve, ResolveExisting, ResolveRefuses, Post,
                PostFails, LandDelayed, Tamper, Launched, LaunchFails, Terminate, catalogue
<1>6. CASE \/ \E next \in Host : HostChanges(next)
           \/ ReadReference \/ ApplyReference \/ UNCHANGED promiseVars
  BY <1>1, <1>6 DEF HostChanges, ReadReference, ApplyReference, SetEphemeralStorageReference,
                InvalidateEphemeralStorageReference, promiseVars, catalogue
<1> QED
  BY <1>2, <1>3, <1>4, <1>5, <1>6 DEF PromiseNext, FeedNext

\* Nobody has been heard when a process starts.
LEMMA SmallestInit == PromiseInit => FollowsSmallestNode /\ HeardInv
<1> SUFFICES ASSUME PromiseInit PROVE FollowsSmallestNode /\ HeardInv
  OBVIOUS
<1>1. heard = {} /\ \A f \in Flavors : observed[f] = Unobserved
  BY DEF PromiseInit, CatalogueInit
<1>2. \A f, list, r : ReportedOf(f, list, r) = {}
  BY <1>1 DEF ReportedOf
<1>3. \A list \in Lists : DOMAIN Unobserved[list] = {}
  BY DEF Unobserved, NoFigures, Lists
<1> QED
  BY <1>1, <1>2, <1>3 DEF FollowsSmallestNode, HeardInv, Lists

-----------------------------------------------------------------------------
(***************************************************************************)
(* Theorems.                                                               *)
(***************************************************************************)

\* Whatever kubelets report, in whatever order and however little at a time,
\* and whatever becomes of the reference, a flavor is served with its own cpu;
\* with memory, pods and everything allocatable its own or within the tolerance of
\* its own; with no more allocatable than capacity; with the disk of new workers.
THEOREM AlwaysServedWithinBounds == PromiseSpec => []ServedWithinBounds
<1>1. CatalogueInv /\ HostInv /\ [PromiseNext]_promiseVars => (CatalogueInv /\ HostInv)'
  BY CatalogueStep, HostStep
<1> QED
  BY InvInit, <1>1, ServedSound, PTL DEF PromiseSpec

\* What is observed of a flavor is, figure by figure, the least that the nodes
\* of its managed groups have reported since the process started, in whatever
\* order, and no other node has any part in it.
THEOREM AlwaysFollowsSmallestNode == PromiseSpec => []FollowsSmallestNode
<1>1. CatalogueInv /\ HostInv /\ [PromiseNext]_promiseVars => (CatalogueInv /\ HostInv)'
  BY CatalogueStep, HostStep
<1>2. FollowsSmallestNode /\ HeardInv /\ CatalogueInv /\ [PromiseNext]_promiseVars
      => (FollowsSmallestNode /\ HeardInv)'
  BY SmallestStep
<1> QED
  BY InvInit, SmallestInit, <1>1, <1>2, PTL DEF PromiseSpec

\* A launched claim describes the disk its launch was resolved with, which
\* suits it, through retries, lost answers, adoptions and restarts.
THEOREM PromiseAlwaysHolds == PromiseSpec => []PromiseHolds
<1>1. CatalogueInv /\ HostInv /\ [PromiseNext]_promiseVars => (CatalogueInv /\ HostInv)'
  BY CatalogueStep, HostStep
<1>2. LaunchInv /\ CatalogueInv /\ [PromiseNext]_promiseVars => LaunchInv'
  BY LaunchInvStep
<1>3. LaunchInv => PromiseHolds
  BY DEF LaunchInv
<1> QED
  BY InvInit, LaunchInvInit, <1>1, <1>2, <1>3, PTL DEF PromiseSpec

=============================================================================
