------------------------- MODULE CapacityCatalogue -------------------------
(***************************************************************************)
(* What the flavor catalogue serves, and how it learns it at runtime       *)
(* (pkg/providers/instancetype/instancetype.go): the built-in sizes under  *)
(* the operator's overrides, under the minimum of what the nodes of each   *)
(* flavor have reported, under the disk of a reference node.               *)
(*                                                                         *)
(* Figures are integers, in any unit.  A list of resources is a function   *)
(* on the resources it holds.  Every operation is one step: it holds mu.   *)
(***************************************************************************)
EXTENDS Integers

CONSTANTS
    Flavors,        \* flavor names
    FlavorSizing,   \* the built-in sizes, by flavor name
    Overrides,      \* settings.flavors, 0 for a field that is not set
    kubeReservedMemory,
    ephemeralStorage,       \* the disk of new workers
    legacyEphemeralStorage, \* the disk old workers keep
    maxPods

Disk == "ephemeral-storage"

generalizableResources == {"cpu", "memory", Disk, "pods"}

Size == [cpu : Nat, memory : Nat]

DiskProfile == [capacity : Nat, allocatable : Nat]

\* No reference has been set; also the disk of a launch that knows none.
NoDisk == [capacity |-> 0, allocatable |-> 0]

\* What SetEphemeralStorageReference accepts.
ValidDisk(disk) == 0 < disk.allocatable /\ disk.allocatable <= disk.capacity

ASSUME CatalogueAssumption ==
    /\ DOMAIN FlavorSizing \subseteq Flavors /\ DOMAIN Overrides \subseteq Flavors
    /\ FlavorSizing \in [DOMAIN FlavorSizing -> Size]
    /\ Overrides \in [DOMAIN Overrides -> Size]
    /\ kubeReservedMemory \in Nat /\ maxPods \in Nat
    /\ ephemeralStorage \in DiskProfile /\ ValidDisk(ephemeralStorage)
    /\ legacyEphemeralStorage \in DiskProfile /\ ValidDisk(legacyEphemeralStorage)

-----------------------------------------------------------------------------
(***************************************************************************)
(* The sizes, fixed at start-up.                                           *)
(***************************************************************************)

Override(f, field) ==
    IF f \in DOMAIN Overrides /\ Overrides[f][field] # 0 THEN Overrides[f][field]
    ELSE IF f \in DOMAIN FlavorSizing THEN FlavorSizing[f][field] ELSE 0

\* A flavor neither built in nor given both sizes is skipped.
ApplyOverrides ==
    [f \in {g \in DOMAIN FlavorSizing \cup DOMAIN Overrides :
                Override(g, "cpu") > 0 /\ Override(g, "memory") > 0} |->
        [cpu |-> Override(f, "cpu"), memory |-> Override(f, "memory")]]

\* Served, and built in, are the same flavors: the base is the built-in seed.
Served == DOMAIN ApplyOverrides

\* A flavor that left the catalogue has no size.
SizingOf(f) == IF f \in Served THEN ApplyOverrides[f] ELSE [cpu |-> 0, memory |-> 0]

\* What a flavor advertises before any node of it has reported.
staticCapacity(f) ==
    [r \in generalizableResources |->
        IF r = Disk THEN ephemeralStorage.capacity
        ELSE IF r = "pods" THEN maxPods ELSE SizingOf(f)[r]]

\* Negative for a memory pinned below the reserve, which nothing forbids.
staticAllocatable(f) ==
    [r \in generalizableResources |->
        IF r = Disk THEN ephemeralStorage.allocatable
        ELSE IF r = "memory" THEN staticCapacity(f)[r] - kubeReservedMemory
        ELSE staticCapacity(f)[r]]

-----------------------------------------------------------------------------
VARIABLES
    observed,                   \* what the nodes of each flavor reported
    ephemeralStorageRequired,   \* dynamic disk sizing is on
    ephemeralStorageReady,      \* the reference stands
    ephemeralStorageReference   \* the last one

catalogue == <<observed, ephemeralStorageRequired, ephemeralStorageReady,
               ephemeralStorageReference>>

NoFigures == [r \in {} |-> 0]

Unobserved == [capacity |-> NoFigures, allocatable |-> NoFigures]

CatalogueInit ==
    /\ observed = [f \in Flavors |-> Unobserved]
    /\ ephemeralStorageRequired = FALSE
    /\ ephemeralStorageReady = FALSE
    /\ ephemeralStorageReference = NoDisk

WithoutDisk(report) ==
    [capacity |-> [r \in DOMAIN report.capacity \ {Disk} |-> report.capacity[r]],
     allocatable |-> [r \in DOMAIN report.allocatable \ {Disk} |-> report.allocatable[r]]]

-----------------------------------------------------------------------------
(***************************************************************************)
(* RecordObservedCapacity.                                                 *)
(***************************************************************************)

\* Within observedTolerance, 10%.  Computed in floating point, where 0.9 - 1
\* is above -0.1 and 1.1 - 1 above 0.1.  Nothing deviates finitely from zero,
\* and nothing that is not negative little from a negative figure.
Within(got, want) ==
    want > 0 /\ 10 * (want - got) <= want /\ 10 * (got - want) < want

checkConsistent(report) ==
    /\ DOMAIN report.capacity = DOMAIN report.allocatable
    /\ \A r \in DOMAIN report.capacity : report.allocatable[r] <= report.capacity[r]

\* A disk in the bounds of the disk old workers keep.
LegacyDisk(report) ==
    /\ Disk \in DOMAIN report.capacity
    /\ Within(report.capacity[Disk], legacyEphemeralStorage.capacity)

DiskMatches(report, disk) ==
    /\ Within(report.capacity[Disk], disk.capacity)
    /\ Within(report.allocatable[Disk], disk.allocatable)
    /\ Within(report.allocatable[Disk] * disk.capacity,
              disk.allocatable * report.capacity[Disk])

\* Mutant of Matches: the bound of what is allocatable follows the reports.
MatchesLatest(f, report, r) ==
    /\ r = "cpu" => report.capacity[r] = staticCapacity(f)[r]
    /\ r # "cpu" => Within(report.capacity[r], staticCapacity(f)[r])
    /\ Within(report.allocatable[r],
              IF r \in DOMAIN observed[f].allocatable
              THEN observed[f].allocatable[r] ELSE staticAllocatable(f)[r])

\* cpu is the flavor's identity; anything else is within the tolerance.
Matches(f, report, r) ==
    /\ r = "cpu" => report.capacity[r] = staticCapacity(f)[r]
    /\ r # "cpu" => Within(report.capacity[r], staticCapacity(f)[r])
    /\ Within(report.allocatable[r], staticAllocatable(f)[r])

\* checkObservation, against the catalogue's own figures.
checkObservation(f, report) ==
    /\ \A r \in DOMAIN report.capacity \ {Disk} : Matches(f, report, r)
    /\ Disk \in DOMAIN report.capacity =>
          DiskMatches(report, IF LegacyDisk(report) THEN legacyEphemeralStorage
                              ELSE ephemeralStorage)

\* With a reference no worker's disk counts.
Considered(report) ==
    IF ephemeralStorageRequired THEN WithoutDisk(report) ELSE report

\* Nothing bounds the report of a flavor without a size.
Plausible(f, report) ==
    /\ checkConsistent(report)
    /\ f \in Served => checkObservation(f, Considered(report))

\* An old worker's disk does not describe new ones.
Kept(f, report) ==
    IF f \in Served /\ LegacyDisk(Considered(report))
    THEN WithoutDisk(report) ELSE Considered(report)

minMerge(prev, next) ==
    [r \in DOMAIN prev \cup DOMAIN next |->
        IF r \notin DOMAIN prev \/ (r \in DOMAIN next /\ next[r] < prev[r])
        THEN next[r] ELSE prev[r]]

\* A report without cpu or memory is ignored, an implausible one refused.
RecordObservedCapacity(f, report) ==
    /\ {"cpu", "memory"} \subseteq DOMAIN report.capacity
    /\ Plausible(f, report)
    /\ observed' = [observed EXCEPT ![f] =
          [capacity |-> minMerge(@.capacity, Kept(f, report).capacity),
           allocatable |-> minMerge(@.allocatable, Kept(f, report).allocatable)]]
    /\ UNCHANGED <<ephemeralStorageRequired, ephemeralStorageReady,
                   ephemeralStorageReference>>

-----------------------------------------------------------------------------
(***************************************************************************)
(* The disk reference.                                                     *)
(***************************************************************************)

\* What embedded callers observed before keeps no disk.
RequireEphemeralStorageReference ==
    /\ ~ephemeralStorageRequired
    /\ ephemeralStorageRequired' = TRUE
    /\ observed' = [f \in Flavors |-> WithoutDisk(observed[f])]
    /\ UNCHANGED <<ephemeralStorageReady, ephemeralStorageReference>>

\* Invalid figures change nothing.
SetEphemeralStorageReference(disk) ==
    /\ ephemeralStorageRequired
    /\ ValidDisk(disk)
    /\ ephemeralStorageReference' = disk
    /\ ephemeralStorageReady' = TRUE
    /\ UNCHANGED <<observed, ephemeralStorageRequired>>

\* The last reference still describes the machines that run.
InvalidateEphemeralStorageReference ==
    /\ ephemeralStorageReady' = FALSE
    /\ UNCHANGED <<observed, ephemeralStorageRequired, ephemeralStorageReference>>

EphemeralStorageReady == ephemeralStorageRequired => ephemeralStorageReady

-----------------------------------------------------------------------------
(***************************************************************************)
(* What is served.                                                         *)
(***************************************************************************)

\* A resource nobody reported keeps its own figure.
Overlaid(figures, over) ==
    [r \in generalizableResources |-> IF r \in DOMAIN over THEN over[r] ELSE figures[r]]

WithDisk(type, disk) ==
    [capacity |-> [type.capacity EXCEPT ![Disk] = disk.capacity],
     allocatable |-> [type.allocatable EXCEPT ![Disk] = disk.allocatable]]

DiskOf(type) ==
    [capacity |-> type.capacity[Disk], allocatable |-> type.allocatable[Disk]]

ObservedType(f) ==
    [capacity |-> Overlaid(staticCapacity(f), observed[f].capacity),
     allocatable |-> Overlaid(staticAllocatable(f), observed[f].allocatable)]

\* newInstanceTypeLocked, as Get and List serve it.
InstanceType(f) ==
    IF ephemeralStorageReference = NoDisk THEN ObservedType(f)
    ELSE WithDisk(ObservedType(f), ephemeralStorageReference)

\* A flavor that left the catalogue: a name, and what its nodes reported.  With
\* no memory to reserve from, it has no overhead, on its disk either.
Synthesize(f) ==
    IF InstanceType(f).capacity["memory"] = 0
    THEN [InstanceType(f) EXCEPT !.allocatable = InstanceType(f).capacity]
    ELSE InstanceType(f)

\* ListForProvisioning: while no reference stands, new workers have no disk.
ProvisioningType(f) ==
    IF EphemeralStorageReady THEN InstanceType(f) ELSE WithDisk(InstanceType(f), NoDisk)

-----------------------------------------------------------------------------
(***************************************************************************)
(* Properties.                                                             *)
(***************************************************************************)

\* "A kubelet can rewrite its own Node's status, and whatever is recorded here
\* becomes the flavor's capacity for the whole cluster": after any sequence of
\* reports, references and withdrawals, a flavor is served with its own cpu;
\* with every other figure, and everything that is allocatable, its own or within
\* the tolerance of its own (bounds that do not wander with the reports); never
\* with more allocatable than capacity; and with the disk of new workers.
Plausibly(got, own) == got = own \/ Within(got, own)

SoundDisk(disk) ==
    IF ephemeralStorageReference # NoDisk THEN disk = ephemeralStorageReference
    ELSE IF ephemeralStorageRequired THEN disk = ephemeralStorage
    ELSE /\ Within(disk.capacity, ephemeralStorage.capacity)
         /\ Within(disk.allocatable, ephemeralStorage.allocatable)

SoundType(f, type) ==
    /\ type.capacity["cpu"] = staticCapacity(f)["cpu"]
    /\ \A r \in generalizableResources \ {Disk} :
          /\ Plausibly(type.capacity[r], staticCapacity(f)[r])
          /\ Plausibly(type.allocatable[r], staticAllocatable(f)[r])
    /\ \A r \in generalizableResources : type.allocatable[r] <= type.capacity[r]
    /\ SoundDisk(DiskOf(type))

ServedWithinBounds == \A f \in Served : SoundType(f, InstanceType(f))

=============================================================================
