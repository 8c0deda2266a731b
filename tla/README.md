# Verification of the Clever Cloud Karpenter provider

The provider launches machines for karpenter-core on Clever Kubernetes Engine.
It owns no machine: it creates a `NodeGroup` object for every `NodeClaim`, Clever
Cloud's node-group operator turns the group into a VM, and a VM that joins
becomes a `Node`. All its state is in the API server, but for one thing it keeps
in memory: what the operator and the organisation quota have refused, which is
the only channel back to a scheduler that remembers nothing.

What makes the code hard is therefore not the amount of state but who else
writes it. Between any two lines of a launch the operator may change its mind,
the informer cache may be behind, a controller may delete the claim, a request
may land after its answer was given up, the process may restart.

Contents: [inventory](#inventory), [modules](#modules), [runs](#runs),
[fairness](#fairness), [theorems](#theorems),
[what the environment is assumed to do](#assumptions),
[findings](#findings), [what is not modelled](#not-modelled), [plan](#plan).

Run `tlc -config X.cfg M` for a run, `tlapm M.tla` for the eight `*Proofs` modules.
`PROJECT.json` lists the runs with their properties, for every definition the
source lines it stands for, for every property a mutant of the code that breaks
it, and for every hazard the properties that watch it.

## Inventory

Paths are under `src/pkg/` unless said otherwise.

| Component | State it keeps | Operations | Hard because | Correct when |
|---|---|---|---|---|
| Refusal memory (`providers/nodegroup/nodegroup.go`, fields guarded by `Provider.mu`) | last quota rejection and hold-out of each flavor, two sequence counters | record, clear up to a mark, `Unavailable`, `quotaFastFail` | concurrent callers; clock ties; a request's answer arrives after newer refusals | nothing recorded during a call is forgotten by it; a larger flavor never reopens before the cheaper probe |
| NodeGroup provider (same file) | `createMu`; the API objects | `ResolveAndCreate`, `waitForAcceptance`, `Delete`, `RecordLateRefusal`, `Get`, `List` | long critical section with many exits; cached polls; conflicting and lost POSTs | one launch at a time from decision to verdict; a retry adopts what exists; no booted VM is freed |
| CloudProvider (`cloudprovider/`) | none | `Create`, `Delete`, `List`, `Get`, `IsDrifted`, `GetInstanceTypes`, disk snapshot | core retries on plain errors, replans on capacity errors | the claim describes the machine that exists; every launch returns; every deleted claim is released |
| NodeGroup API (`apis/nodegroup/v1/types.go`) | none | predicates on a status with several conditions at once | they overlap, so callers order them | a Ready group is never read as refused |
| nodegroupstatus (`controllers/nodegroupstatus/`) | deduplication, gauges | fails a launch refused after its acknowledgement | reads, then deletes; the node may join in between | registered claims are spared; a refusal counts once; the launch does fail |
| garbagecollection (`controllers/garbagecollection/`) | deduplication, gauges | sweeps groups without a claim and launched claims without a group | destroys on an absence, which a stale cache fakes; labels are the user's | a living owner's group and an existing group's claim are spared; one failure shields nothing else |
| providerid (`controllers/providerid/`) | log deduplication | stamps, or refuses and strips | the uniqueness check reads, then patches; groups get resized | one node per ID; some node gets it; the extras are inert |
| nodeclass (`controllers/nodeclass/`) | none | finalizer, validation, API probe, hash migration, ignored labels | migration runs beside spec edits and drift; finalization beside launches | no node is recorded as built from a spec it never got; the class outlives its claims |
| ephemeralstorage (`controllers/ephemeralstorage/`) | none (writes the catalogue) | set or withdraw the disk reference | the reference node goes, comes back, misreports between the read and its use | the reference that stands is used, one that is gone is not |
| instancetypecapacity (`controllers/instancetypecapacity/`) | log deduplication (writes the catalogue) | accept or reject a node's report | any kubelet can misreport, once or little by little | only nodes a group vouches for are heard; what is served stays within bounds |
| Instance type catalogue (`providers/instancetype/`) | observed capacities, disk reference (`Provider.mu`) | `List`, `ListForProvisioning`, `Find`, `RecordObservedCapacity`, `Require`/`Set`/`InvalidateEphemeralStorageReference` | read by launches while it is written, over attempts minutes apart | a claim describes the disk its launch was resolved with |
| CleverNodeClass API (`apis/v1alpha1/`) | schema, hashes, label tables | `Hash`, `HashMatches`, `ValidateNodeClassLabel` | several hash generations coexist | like is compared with like |
| Metrics, generated code, charts, scripts | write-only, or no logic | | | |
| Process wiring (`src/cmd/controller/main.go`, `controllers/controllers.go`) | leader lease | start, restart | memory and lock are lost, requests in flight are not | a restart loses only what it may |

How they interact. karpenter-core calls `CloudProvider.Create` and `Delete`, one
worker per claim. `Create` takes `createMu` in the NodeGroup provider, chooses a
flavor from the catalogue minus what the refusal memory makes unavailable, POSTs
the group and polls it. nodegroupstatus and garbagecollection read the same
objects later, from their own workers, and delete claims and groups; they share
the refusal memory with the launches (`RecordLateRefusal`, `Delete`) and not
`createMu`. The node controllers write nodes and the catalogue, which launches
read at several points: when core plans, when the launch resolves, and again when
it meets a group it had not resolved. A launch also reads the NodeClass, uncached,
while the nodeclass controller decides from its cache whether the class may go.

## Modules

    Catalogue <-- RefusalMemory --refines (twice)--> RefusalLedger
        ^            ^   ^  ^---- RefusalMemoryProofs
        |            |   |
    Cluster <--- NodeGroupLaunch <--- LaunchFollowUp <--- LaunchProofs
     ^  ^------- GarbageCollection <--- GarbageCollectionProofs
     |           (also over RefusalMemory)
    NodeGroupConditions               ProviderID <--- ProviderIDProofs
                                      HashMigration <--- HashMigrationProofs
    CapacityCatalogue <--- DiskPromise <--- DiskPromiseProofs
                                      NodeClassLifecycle <--- NodeClassLifecycleProofs

LaunchProofs and GarbageCollectionProofs also extend RefusalMemoryProofs and
ClusterProofs, the lemmas about Cluster.

- **Catalogue**: the sizes a quota rejection compares. The catalogue's sizes are
  fixed at start-up, so they are a constant; a flavor outside `DOMAIN Sizing` is
  one whose override names no known size.
- **NodeGroupConditions**: a group's status as the predicates of `types.go` read
  it. A condition that is not True reads as absent.
- **RefusalMemory**: both tables, their counters, and the marks of the calls in
  flight, one action per operation. `Provider.mu` makes each operation atomic,
  hence an action; a mark is a local variable of the call that took it, here a
  function of the caller. Alone it lets callers act in any order, which is more
  than the provider does.
- **RefusalLedger**: the abstract promise, without sequence numbers: what is
  recorded during a call is kept from that call. RefusalMemory implements it
  twice, `QuotaLedger` for rejections and DELETEs, `HoldOutLedger` for hold-outs
  and launches, under the refinement mappings at the end of that module.
- **Cluster** (external): claims, groups, the informer's copies, core, operator
  and garbage collection by owner, as the code assumes them.
- **NodeGroupLaunch**: `CloudProvider.Create` and `Delete` down to the provider.
  A launch is a program counter (`launch[n].pc`) whose steps end where shared
  state is touched: lock and uncached read; resolve; quota check; mark; POST;
  conflict; poll; free; record; accept. Its error paths are separate actions.
  The memory's actions are conjoined, and `UsesRefusalMemory` checks that every
  step is one of RefusalMemory's, so that what is proved there holds here.
- **LaunchFollowUp**: the nodegroupstatus controller beside NodeGroupLaunch, one
  action per API call of `failLaunch`. `FastFail` becomes possible only here:
  it takes a rejection recorded without `createMu`.
- **GarbageCollection**: the sweep, one action per API call, over the same
  Cluster and RefusalMemory, with the informer's copy of claims as well; launches
  are reduced to the writes the collector can meet.
- **ProviderID**: nodes, the informer's copies, one worker.
- **HashMigration**: one CleverNodeClass, the stamps of its groups, and the three
  generations of the hash. A hash is what was hashed (labels are sets of
  key/value pairs, `declared` tells `labels: {}` from no labels), so that two
  stamps are equal when the code's are, collisions apart. `Reconcile` reads the
  class, `ListGroups` the groups, then each group is read (`ReadClaim`) and
  patched (`PatchStamp`) on its own, and `Report` writes the status under an
  optimistic lock, all from cached copies. At the start the controller inherits
  any stamps earlier or later versions leave. Fields other than labels do not
  exist yet, so `frozenHashGeneration.fields` refuses nothing.
- **CapacityCatalogue**: what `instancetype.Provider` serves and learns. The
  figures of a flavor are built in layers: its built-in size, under the operator's
  overrides (`ApplyOverrides`), under the minimum of its nodes' reports
  (`RecordObservedCapacity`), under the disk of the reference node
  (`SetEphemeralStorageReference`). `InstanceType`, `ProvisioningType` and
  `Synthesize` are the three ways it is read. Figures are integers; `Within` says
  what the floating-point comparison with the 10% tolerance accepts at its two
  ends, which differ.
- **DiskPromise**: that catalogue at work. The instancetypecapacity controller
  feeds it with what kubelets write (labels and reports are the environment's,
  the name of the node and the group are not), the ephemeralstorage controller
  with what it has read of the reference node one step earlier. A claim goes from
  core's plan through `Create`: resolved from the catalogue, posted with the
  snapshot annotations of what was resolved, retried, adopted, described. What
  the launch does beside the catalogue is NodeGroupLaunch's subject, so a refusal
  is only `ResolveRefuses`, and a group is only its flavor and its annotations.
- **NodeClassLifecycle**: one class name, created, edited and deleted by users;
  the controller's reconcile, one action per API call, from the cached class
  (`Reconcile`) through finalizer, validation and API probe to the status patch
  under an optimistic lock, or through the list of claims to the removal of the
  finalizer; and the two reads of a launch that matter to it, of the claim and of
  the class (`checkNodeClaimWanted`, `resolveLaunch`).
- **MC\***: instances. **\*Proofs**: theorems.

Operators named "mutant" in a comment are the bugs each property is tested
against; no specification uses them.

### Abstractions worth knowing

- Time is a counter that only the backoffs read. The poll's timeout, core's
  retries and the ages that protect young objects are nondeterministic: a
  timeout may come at any poll, any object may be too young.
- `Create`'s return and core's storing of it are one step (`ReturnLaunched`).
- The contents of a group other than its flavor and owner are left out; so are
  messages, events, log lines and gauges.
- `vetted` (NodeGroupLaunch), `since` and the UIDs in `vanished`
  (GarbageCollection), `heard` and `promised` (DiskPromise) are histories: but for
  whether a claim is in `vanished` at all, nothing is decided by them.

## Runs

Bounds are the constants of the `.cfg`: `MaxTime` bounds the clock,
`MaxRejections` and `MaxHoldOuts` the records of one process, `MaxClaims` and
`MaxGroups` the objects created under one name. Times are for two workers.

| Run | Instance | States, time | Shows |
|---|---|---|---|
| memory | three sizes in a chain, two callers, two rejections and a hold-out, four ticks | 146 k, 35 s | the ledger refinements, the order of sequence numbers, the windows of `coverage` |
| launch | one name, two claims, two groups, three flavors of which one the CRD lacks, six statuses | 324 k, 125 s | `FreesNoMachine`, `LaunchDescribesGroup`, `LaunchesReturn`, `TerminationEnds` |
| follow_up | one name, two claims, two groups, an operator that may recover, no time | 315 k, 90 s | `SparesRegisteredClaims`, `RefusalsCountedOnce`, `UsesRefusalMemory`, `RefusedLaunchesFail` |
| two_launches | two names that compete for the lock, late rejections | 1.3 M, 82 s | `LocksAndMarks`, `PostsAreVetted` |
| collector | one name, two claims, a label that names no claim | 1.4 M, 75 s | `SparesOwnedGroups`, `SparesLaunchedClaims`, `CollectorUsesRefusalMemory` |
| collector_live | two names, one of them stuck and first in every list | 64 k, 71 s | `OrphansReaped`, `VanishedReaped` |
| provider_id | two nodes of a managed group, one of a user's | 34 k, 112 s | `UniqueProviderID`, `HolderKeepsPool`, `NodesServed`, `ExtrasStripped` |
| hash_migration | one name, four configurations, two edits | 373 k, 80 s | `StampsHashBuiltSpec`, `LegacyAdviceSafe`, `DriftMeansEdit`, `EditsDriftNodes`, `StampsMigrate` |
| disk_promise | a flavor with a pinned size and one outside the catalogue, a node of the first and a user's, six reports, three references, two requests | 667 k, 125 s | `ServedWithinBounds`, `FollowsSmallestNode`, `PromiseHolds`, `ReferenceFollowed` |
| node_class | one claim name, two classes | 70 k, 65 s | `ClassOutlivesMachines`, `ClassesFinalized`, `ClassesBecomeReady` |
| stale_adoption, stale_verdict | as launch | | the [findings](#findings) |

Why the bounds are enough for the cases that matter: two claims under one name
give a predecessor whose objects, cached copies and requests can be mistaken for
the successor's; two groups under one name give the stale copy and the conflict;
two names give a queue on `createMu` and a rejection that crosses another launch;
two rejections give one to forget and one to keep; a chain of three sizes gives a
flavor covered by two windows at once. A third of any adds no new pair of roles.
The groups of a class meet only in the count of what is pending, so hash_migration
has one; its safety properties are proved for any number. Its configurations are
a delivered label beside a legacy one, the same beside a malformed one, `{}` and
none; two edits let one land before and one during a migration.
disk_promise keeps the proportions of the real figures. Its reports are one of an
old worker; one of a new worker on another image; one whose disk is neither the
old nor the new one; one with an allocatable that only the previous report would
make plausible; one with too few pods; and one that is inconsistent. The user's
node labels itself as it likes. Its references one larger than the built-in disk,
one smaller, one invalid; its requests none, and one that only the larger disk
holds. In node_class two classes are a deleted one and its successor under one
name; a second claim would add nothing to the one the finalizer waits for, since
claims meet only in the set of those the cache shows.
The deadlock check is on in every run.

`SYMMETRY` is used in the two runs without liveness that treat their callers, or
names, alike.

## Fairness

- `FairLaunches`: a launch that can take a step infinitely often takes one. Its
  steps are API calls, all with deadlines, and a poll with a timeout; waiting for
  `createMu` is strongly fair because Go's Mutex does not starve a waiter.
  Nothing is asked of the operator, which may never answer.
- `FairTermination`: core calls `Delete` again until the claim is released; an
  accepted DELETE, the operator's teardown and the watch come in the end. A
  DELETE may fail any number of times (strong fairness on its acceptance).
- `FairFollowUp`: the controller's worker comes round, its calls return,
  and a DELETE whose preconditions hold is accepted in the end. Without the
  second a worker that never leaves a lost race would follow no later launch.
  That some event brings the worker to a refused launch is assumed:
  `RefusedLaunchesFail` checks that what a reconcile skips is never a refused
  launch, not that every watch it needs is registered.
- `FairSweeps`: the poll period brings the next sweep; the process stays up in
  the end; lists and calls repeated at every sweep succeed now and then, except
  those for `Stuck` objects, of which nothing is asked. A `Stuck` object
  comes first in every list (`StuckFirst`), and of the objects behind it nothing
  is asked before the loop is past it (`StuckDone`). This is what makes
  `OrphansReaped` and `VanishedReaped` say that one failing object does not shield
  the others: a loop that returns at its first failure violates them, in either
  phase.
- `FairMigration`: the resync brings the class back, core evaluates drift again
  and again, the watches deliver, every step of a reconcile returns; lists, reads
  and patches succeed now and then. Restarts are not excluded. The later pass is
  assumed and the run has one group, so `StampsMigrate` says that failures leave
  a group in a state that a later pass repairs, not that one group's failure does
  not keep a pass from the next group.
- `FairPromise`: the watch and a refresh every minute bring the reference node to
  the reconciler, whose uncached read succeeds in the end. Nothing is asked of
  launches or kubelets. With the return of the node assumed, `ReferenceFollowed`
  is about what a reconcile makes of its read; that it asks for the refresh is not
  checked.
- `FairClass`: the watches deliver, the queue is served, and each call of a
  reconcile succeeds now and then (strong fairness, since it may conflict and is
  retried a second later). That the class comes back to the queue is not assumed
  but modelled: a reconcile says itself whether it asks to run again (an error, a
  30 s wait for claims, the one-minute probe of an API that is not served), so
  that forgetting to ask is a violation of `ClassesFinalized` or
  `ClassesBecomeReady`.
- `FairPID`: kubelet heartbeats keep producing events for a node without an ID.

## Theorems

For every value of the constants allowed by the named assumptions
(`SizingAssumption`, `BackoffAssumption`, `BoundAssumption`,
`ProviderIDAssumption`, `LabelAssumption`, `ConfigurationAssumption`,
`CatalogueAssumption`, `DiskPromiseAssumption`, `ClassAssumption`,
`ClusterAssumption`, `LaunchAssumption`, `CollectorAssumption`), and where a theorem has a hypothesis, for those that
satisfy it:

- **RefusalMemoryProofs.** `MemoryTypeCorrect` is inductive by itself.
  `SequencesAlwaysOrder` needs the types: `MemoryInv` is both. One lemma says
  that putting the next number in a table keeps it in order, one that forgetting
  does, and the step lemma goes through the actions.
  `LargerFlavorsAlwaysWait` needs no induction, only that being at least as
  large is transitive and that other flavors' windows are twice the flavor's own
  (`CoversTheLarger`).
  `QuotaRejectionsImplementLedger` and `HoldOutsImplementLedger` are the
  refinements. They rest on `MemoryInv`: the mapping turns a mark into the set of
  entries above it, and "above the mark" means "recorded since" only while the
  numbers order the entries and no mark is ahead of its counter. Each action maps
  to one of the ledger, or a stutter.
  `ProbesReopenFirst` has the hypothesis `SizesDiffer`: no two flavors have the
  same size, as in the built-in catalogue; overrides can break it, and of two
  flavors of one size either can be the other's probe, so neither is smaller. Among
  the rejections that the clock expires, one of the smallest flavor shows the
  probe: anything covering it would be of a smaller flavor and still be in force.
- **ClusterProofs** has no theorem of its own: what each operation of Cluster
  writes is typed, leaves other names alone, gives a new object a UID no object of
  that name had, and never changes the flavor or the owner of a group.
- **LaunchProofs** is about both launch specifications: `SystemNext` adds to the
  steps of NodeGroupLaunch the two that only LaunchFollowUp has, and an invariant
  is shown to survive all of them once. `Silent` and `Telling` sort the steps of a
  name by whether they use the memory, and `OwnNameOnly` says that they leave the
  state of other names alone, so that every further invariant is proved for the
  name that moves.
  - `LaunchTypeCorrect`, `FollowUpTypeCorrect`. The types are not inductive: what
    is recorded as refused is the flavor of a group that was read. `TypeInv` adds
    `FlavorsKnown`: a group, a copy, a delayed POST and a launch that has chosen
    have a flavor of the catalogue; `FollowUpInv` adds what the controller has
    read.
  - `LaunchesUseMemory`, `FollowUpUsesMemory`: every step is one of
    RefusalMemory's or leaves the memory alone, which carries the theorems above
    over to the launches (`FollowUpRemembers`).
  - `LocksAndMarksHold`, `FollowUpLocksAndMarks`: inductive with the types.
  - `PostsAlwaysVetted`, `FollowUpPostsVetted`. `RefusalsVetted` says it of every
    step from the choice to the POST, and that what a launch saw is not ahead of
    the counters; `MemoryGrows` that a refusal not seen is a later one, and that
    time only takes refusals out of force. A restart, which sets the counters
    back, also ends every launch.
  - `RegisteredClaimsSpared`: the claim deleted is the one that was read
    (`FollowUpKnows`), whatever has happened to the group.
  - `RefusalsNeverCountedTwice`, for finitely many names. The bound is not
    inductive: a claim can be refused at most once more only while it is wanted
    or has a launch (`MayBeRefused`), so `CountInv` bounds the refusals, those told
    and the one the controller is about to tell, by the claims that cannot
    (`Spent`), and says that a launch is of the claim that exists and is not
    launched yet (`LaunchOfClaim`), which keeps the launch and the controller from
    both refusing it. The lemmas about sums (`TotalGrows`) are by the least
    counterexample, as no induction theorem can be used.
  - `LaunchesDescribeGroups`, `FollowUpDescribesGroups`. `GroupsKnown` says what
    the copies and the launches know: a copy with the UID of the group has its
    flavor (`CopyKnown`), a launch that adopted a group has its UID, and one that
    created it is the only one that could (`LaunchKnown`).
  - `NoMachineFreed`, when the operator does not bring up a group it has refused
    (`~Recovers`, the assumption under which the run checks it): a refusal
    read from the cache is then the status of the group still (`RefusedForGood`).
- **GarbageCollectionProofs.** `CollectorTypeCorrect` needs to know that a sweep
  in progress holds its mark; `CollectorUsesMemoryAsSpecified` is as for the
  launches. `OwnedGroupsSpared` and `LaunchedClaimsSpared` need `SparingInv`: UIDs
  only grow, so an object of a name seen with another UID is a later one; what
  the sweep has confirmed as gone does not come back, and a launched claim is not
  launched again.
- **ProviderIDProofs.** Uniqueness is not inductive: between its list and its
  patch the worker relies on what the list said. `PIDInv` adds that the answer
  still holds (`AnswersHold`): only this worker stamps, nodes join unstamped, so
  no sibling can have got the ID meanwhile, nor the refused node itself.
  `ProviderIDsUnique` and `HoldersKeepPool` follow, for any number of nodes.
- **HashMigrationProofs.** That a stamp hashes what was built is not inductive
  either: the patch writes the hash of a copy of the class because a copy of the
  group matched it. `StampInv` adds what the copies are worth: a copy is well
  stamped, of a group of that name that was built the same, and the worker only
  keeps copies that match its class. `MatchingHash` then says that an older stamp
  that matches has the same hash today. `StampsAlwaysHashBuiltSpec` follows, and
  `DriftAlwaysMeansEdit` with the converse lemma `SameLabelsMatch`.
  `AdviceAlwaysSafe` needs `AdviceInv`: cached copies of groups with an older
  stamp are current, because no step makes such a group; hence a worker that
  counts nothing as pending has all of them still to do, and a report that counts
  nothing leaves none.

- **DiskPromiseProofs.** What is served is sound because what is observed is:
  `SoundFigures` says of each observed figure what `Matches` asks of a report's,
  against the catalogue's own and not against earlier reports. It is inductive:
  the minimum of two sound figures is sound (`MergeSound`), and a plausible report
  is once its old disk is cut off (`KeptSound`). `AlwaysServedWithinBounds` lays
  the reference over it. It holds for any overrides, a memory pinned below the
  reserve included.
  `AlwaysFollowsSmallestNode` is about `heard`, the history of who has reported
  what since the process started. With `HeardInv`, which types it, the property is
  inductive: a merge keeps the least of what was there and what is added
  (`LeastOfMore`), what is kept of a report is what was reported but for the disk
  (`KeptIsReported`), and turning dynamic disks on takes nothing but disks
  (`LeftWithoutDisk`).
  `PromiseAlwaysHolds` needs `LaunchInv`: a group, and a POST on its way, say what
  their launch was promised, a launch about to POST has been promised a disk that
  fits, and the name is this claim's alone; that a limited claim is never promised
  an unknown disk rests on the first theorem. For any flavors and sizes, and
  reports whose figures are not negative.
- **NodeClassLifecycleProofs.** The finalizer is removed by name, on an answer of
  the cache. `ClassInv` adds what that answer is worth: the cache shows every claim
  a launch has taken up, so an empty list means that no claim needs the class
  (`RemovalIsSafe`); and no launch can begin meanwhile, since the class looked at
  is terminating, or has been replaced by one that the only writer of `Ready`
  cannot have declared Ready yet (`GoingIsNotLaunchable`). The theorem is
  `ClassAlwaysOutlivesMachines`.
- Types are theorems of their own where an invariant rests on them:
  `PIDTypeCorrect`, `MigrationTypeCorrect`, `ClassTypeCorrect`,
  `LaunchTypeCorrect`, `FollowUpTypeCorrect`, `CollectorTypeCorrect`.

So every invariant and every action property of the passing runs is a theorem.
Checked by TLC only: liveness (`LaunchesReturn`, `TerminationEnds`,
`RefusedLaunchesFail`, `OrphansReaped`, `VanishedReaped`, `NodesServed`,
`ExtrasStripped`, `EditsDriftNodes`, `StampsMigrate`, `ReferenceFollowed`,
`ClassesFinalized`, `ClassesBecomeReady`), which the prover cannot express. The two
properties under [findings](#findings) do not hold.

## Assumptions

About what is not in this repository, and the modules take as given:

- core reconciles a claim with one worker, which launches or terminates it, and
  deletes a claim whose `Create` answers an insufficient-capacity or
  NodeClass-not-ready error; on any other error it retries.
- The operator keeps `Ready` once set, and a refusal of a group that never was
  Ready is for good, unless `Recovers` (which the follow-up runs set).
- A POST whose answer was lost lands, or is dropped, before a teardown ends.
- The informer cache shows, object by object, some earlier state, never an
  inconsistent one; it is filled before any controller runs.
- Names can be reused, except in HashMigration, where a name belongs to one group.
  core draws fresh names, so this is stronger than needed;
  where a property could only fail on a name reused within one sweep it speaks of
  the objects that existed when the sweep listed them.
- Users write no legacy key in an edit of the labels (the CRD refuses it). No
  launch of an earlier version lands after this one has taken over, and it
  inherits no LabelsIgnored advice: after a rollback and a second upgrade the
  advice of the first would stand until the first report.
- A claim's Drifted condition is written by core from `IsDrifted` alone; core's
  other reasons for it (NodePool drift) are left out.
- The figures a node reports are not negative, which the API server validates. A
  flavor's own can be: the settings accept a memory pinned below the 100 Mi the
  kubelet reserves (`instancetype.go:441`), and the catalogue then serves it with
  a negative allocatable memory, which `ServedWithinBounds` grants as the flavor's
  own figure.
- The groups under a claim's name are this provider's and keep its marker. The
  refusals of others (`cloudprovider.go:149`, and in `OwnedByNodeClaim`,
  `nodegroup.go:668`), which change no state, are left out, and ownership is the
  owner's UID.
- `HashMigration.Launch` takes the class, current or cached, at the POST. The code
  reads it once, earlier, and may POST an older spec; a stamp is compared with
  what its own group was built from, so no property tells the two apart.
- In DiskPromise one claim exists at a time, and its group for as long as it.
- In NodeClassLifecycle a PATCH that failed has landed or never will, one process
  runs at a time with its caches filled before its controllers, and a class
  version is compared by what it holds: two versions that are equal but for their
  number are taken for one, so that a conflict between them, which only delays, is
  not seen.
- One leader at a time, and a PATCH of the providerid controller lands before its
  call returns.

## Findings

Both are disagreements between a comment and a stale cache, found while
modelling and confirmed by runs that expect a violation:

- **stale_adoption**: a launch that meets AlreadyExists adopts the cached copy of
  the group. If that still shows an earlier group of the same claim with another
  flavor, and the poll times out before the watch catches up, the claim describes
  the earlier flavor, although "the returned claim must describe the machine that
  exists". `LaunchDescribesGroup` states what does hold.
- **stale_verdict**: the poll of a group just created compares no UID, and its
  first cached reads may be of an earlier group of that name, whose acknowledgement
  or refusal becomes the verdict.

## Not modelled

- Metrics, events, logs, generated code, charts, scripts: write-only or no logic.
- `Get`, `List`, `RepairPolicies` and the construction of a group from its
  template: conversions without a state change of their own.
- Prices, requirements and labels of an instance type, and the parsing of the
  overrides in the settings: they change no state, and no property tells their
  results apart. An override is modelled by the sizes it sets.
- `TypeOK`, `CollectorTypeOK` and `ClassTypeOK` are in no run: `FollowUpTypeOK`,
  which is checked, contains the first, and all three are proved.
- Flags, leader election, controller registration.
- The reports of the collector (overdue deletions, resized and refused groups).
- That a re-stamped group's claim was becoming Drifted: the controller reads that
  condition from the cache, and the race only confirms a verdict that is current.

## Plan

Written, in this order: the refusal memory with its ledger, the launch, its
follow-up, the collector, the provider ID, the hash migration, the catalogue with
the disk promise, the life of a class; then the proofs, down to the last invariant
and action property of the runs. What is left:

1. **Label rules** (`ValidateNodeClassLabel`) as an operator, checked against a
   reference definition over bounded inputs.
2. A statement for each of the two hazards no property covers: a DELETE whose
   effect on the backoff is decided on a stale copy, and a PATCH of a provider ID
   that lands after its answer was lost.
