--------------------------- MODULE HashMigration ---------------------------
(***************************************************************************)
(* How a group remembers the CleverNodeClass it was built from, and how    *)
(* that memory survives an upgrade.  A launch stamps the hash of the class *)
(* on its group; IsDrifted compares stamp and class; the hash has had      *)
(* three generations, and the nodeclass controller                         *)
(* (pkg/controllers/nodeclass/controller.go) re-stamps older groups, one   *)
(* patch at a time, from cached copies, while users edit the class and     *)
(* core evaluates drift.                                                   *)
(*                                                                         *)
(* One class, which is not being deleted and has its finalizer.  A hash is *)
(* what was hashed: no two configurations collide.  Conditions other than  *)
(* Ready and LabelsIgnored, events and messages are left out, and so are   *)
(* the fields of frozenHashGeneration: labels are the only field so far.   *)
(***************************************************************************)
EXTENDS Integers

CONSTANTS
    Names,          \* of groups, and of the claims that own them
    Labels,
    Delivered,      \* the labels ValidateNodeClassLabel accepts
    Legacy,         \* the others that v0.12.0 accepted
    Configurations, \* the specs users write
    MaxEdits,       \* bound on the edits of the class
    Nobody, NoSpec

\* labels are key/value pairs; declared tells `labels: {}` from no labels.
Spec == {s \in [labels : SUBSET Labels, declared : BOOLEAN] :
            s.labels # {} => s.declared}

ASSUME LabelAssumption ==
    /\ Delivered \subseteq Labels
    /\ Legacy \subseteq Labels \ Delivered

ASSUME ConfigurationAssumption ==
    /\ Configurations \subseteq Spec
    /\ NoSpec \notin Spec
    /\ Nobody \notin Names
    /\ MaxEdits \in Nat

-----------------------------------------------------------------------------
(***************************************************************************)
(* The generations of the hash (pkg/apis/v1alpha1/clevernodeclass.go).     *)
(***************************************************************************)

\* "newer" is a generation this controller does not know.
Versions == {"v1", "v2", "v3", "newer"}

Labelled(labels) == [labels |-> labels, declared |-> labels # {}]

\* What each generation may have stamped on a group built from spec.
hashV1(spec) == IF spec.labels = {} THEN {s \in Spec : s.labels = {}} ELSE {spec}

hashV2(spec) == Labelled(spec.labels)

Hash(spec) == Labelled(spec.labels \cap Delivered)

Stamp(version, spec) ==
    IF version = "v1" THEN spec ELSE IF version = "v2" THEN hashV2(spec) ELSE Hash(spec)

\* Mutant of HashMatches: every stamp is compared with today's hash.
HashMatchesToday(group, spec) == group.hash = Hash(spec)

HashMatches(group, spec) ==
    IF group.version = "v1" THEN group.hash \in hashV1(spec)
    ELSE group.hash = Stamp(group.version, spec)

\* A group with a stamp this controller can compute.
Provable(group) == group.hash # NoSpec /\ group.version # "newer"

Drifts(group, spec) == Provable(group) /\ ~HashMatches(group, spec)

-----------------------------------------------------------------------------
VARIABLES
    class,          \* the CleverNodeClass
    classCache,     \* the informer's copy
    groups,         \* the NodeGroups
    groupsCache,
    used,           \* names of groups that exist, or have
    drifted,        \* the claims' condition Drifted
    driftedCache,
    worker          \* local state of Controller.Reconcile

objects == <<class, groups, used, drifted>>
caches == <<classCache, groupsCache, driftedCache>>
migrationVars == <<objects, caches, worker>>

Advice == {"none", "LegacyLabelKeys", "HashMigrationPending"}

\* edits is the generation, advice the reason of LabelsIgnored.
Class == [spec : Configurations, edits : 0..MaxEdits, ready : BOOLEAN,
          advice : Advice]

\* built is the configuration the group was launched with; a group without a
\* stamp has no hash.
Group == [built : Configurations \cup {NoSpec}, version : Versions,
          hash : Spec \cup {NoSpec}]

NoGroup == [built |-> NoSpec, version |-> "v1", hash |-> NoSpec]

\* What a controller of the given generation leaves behind.
StampedGroup(version, spec) ==
    [built |-> spec, version |-> version, hash |-> Stamp(version, spec)]

\* A class with any other label was not Ready, or failed its launches.
Launchable == {s \in Configurations : s.labels \subseteq Delivered \cup Legacy}

UnstampedGroup(spec) == [built |-> spec, version |-> "v1", hash |-> NoSpec]

Exists(group) == group.built # NoSpec

\* No class has been read.
NoClass == [spec |-> NoSpec, edits |-> 0, ready |-> FALSE, advice |-> "none"]

\* class is the copy this reconcile works from, todo the copies of the groups
\* it still has to re-stamp, next the one it is about to; pending tells that a
\* group keeps an older generation, or may.
Worker == [pc : {"idle", "list", "migrate"}, class : Class \cup {NoClass},
           todo : [Names -> Group], next : Names \cup {Nobody},
           served : BOOLEAN, pending : BOOLEAN]

NoGroups == [n \in Names |-> NoGroup]

HashTypeOK ==
    /\ class \in Class /\ classCache \in Class
    /\ groups \in [Names -> Group] /\ groupsCache \in [Names -> Group]
    /\ used \subseteq Names
    /\ drifted \in [Names -> BOOLEAN] /\ driftedCache \in [Names -> BOOLEAN]
    /\ worker \in Worker
    /\ worker.pc # "idle" => worker.class \in Class
    /\ worker.next # Nobody => worker.pc = "migrate" /\ Exists(worker.todo[worker.next])

Resting == [pc |-> "idle", class |-> NoClass, todo |-> NoGroups,
            next |-> Nobody, served |-> FALSE, pending |-> FALSE]

\* What other controllers have left.
Inherited == {StampedGroup(v, s) : v \in Versions, s \in Launchable}
             \cup {UnstampedGroup(s) : s \in Launchable}

\* This controller takes over a class and groups that others have stamped,
\* and claims that have drifted for them.
HashInit ==
    /\ class \in [spec : Configurations, edits : {0}, ready : BOOLEAN, advice : {"none"}]
    /\ groups \in [Names -> Inherited \cup {NoGroup}]
    /\ used = {n \in Names : Exists(groups[n])}
    /\ drifted \in [Names -> BOOLEAN]
    /\ \A n \in Names : drifted[n] => Exists(groups[n])
    /\ classCache = class /\ groupsCache = groups /\ driftedCache = drifted
    /\ worker = Resting

-----------------------------------------------------------------------------
(***************************************************************************)
(* Users, launches, terminations, the informer and core's drift check.     *)
(***************************************************************************)

\* The CRD lets no edit of the labels keep a legacy key.
Edit(spec) ==
    /\ class.edits < MaxEdits
    /\ spec # class.spec /\ spec.labels \cap Legacy = {}
    /\ class' = [class EXCEPT !.spec = spec, !.edits = @ + 1]
    /\ UNCHANGED <<groups, used, drifted, caches, worker>>

\* ResolveAndCreate: the class is read uncached, and may be edited before the
\* group is posted.  Names are fresh.
Launch(n, spec) ==
    /\ n \notin used
    /\ class.ready /\ spec \in {class.spec, classCache.spec}
    /\ used' = used \cup {n}
    /\ groups' = [groups EXCEPT ![n] = StampedGroup("v3", spec)]
    /\ UNCHANGED <<class, drifted, caches, worker>>

\* The claim is terminated and its group goes with it.
Terminate(n) ==
    /\ Exists(groups[n])
    /\ groups' = [groups EXCEPT ![n] = NoGroup]
    /\ drifted' = [drifted EXCEPT ![n] = FALSE]
    /\ UNCHANGED <<class, used, caches, worker>>

SyncClass ==
    /\ classCache # class
    /\ classCache' = class
    /\ UNCHANGED <<objects, groupsCache, driftedCache, worker>>

SyncGroup(n) ==
    /\ groupsCache[n] # groups[n]
    /\ groupsCache' = [groupsCache EXCEPT ![n] = groups[n]]
    /\ UNCHANGED <<objects, classCache, driftedCache, worker>>

SyncClaim(n) ==
    /\ driftedCache[n] # drifted[n]
    /\ driftedCache' = [driftedCache EXCEPT ![n] = drifted[n]]
    /\ UNCHANGED <<objects, classCache, groupsCache, worker>>

\* core stores what IsDrifted answers, when that is new.
Evaluate(n, answer) ==
    /\ Exists(groups[n])
    /\ drifted[n] # answer
    /\ drifted' = [drifted EXCEPT ![n] = answer]
    /\ UNCHANGED <<class, groups, used, caches, worker>>

\* Mutant of IsDrifted: only stamps of the current generation are evaluated.
IsDriftedCurrent(n) ==
    Evaluate(n, groupsCache[n].version = "v3" /\ Drifts(groupsCache[n], classCache.spec))

\* A group the cache does not hold has not drifted.
IsDrifted(n) == Evaluate(n, Drifts(groupsCache[n], classCache.spec))

-----------------------------------------------------------------------------
(***************************************************************************)
(* Controller.Reconcile.                                                   *)
(***************************************************************************)

\* An event, a requeue or the informer's resync.
Reconcile ==
    /\ worker.pc = "idle"
    /\ worker' = [Resting EXCEPT !.pc = "list", !.class = classCache]
    /\ UNCHANGED <<objects, caches>>

\* A group the controller may re-stamp, and one it counts as pending.
Migratable(group, spec) ==
    Provable(group) /\ group.version # "v3" /\ HashMatches(group, spec)

Outdated(group, spec) ==
    Provable(group) /\ group.version # "v3" /\ ~HashMatches(group, spec)

List(todo, pending) ==
    /\ worker.pc = "list"
    /\ worker' = [worker EXCEPT !.pc = "migrate", !.served = TRUE,
                                !.todo = todo, !.pending = pending]
    /\ UNCHANGED <<objects, caches>>

Only(selected) == [n \in Names |-> IF n \in selected THEN groupsCache[n] ELSE NoGroup]

\* Mutant of ListGroups: a stamp is brought up to date whether or not it
\* describes the class.
ListGroupsUnproved ==
    List(Only({n \in Names : Provable(groupsCache[n]) /\ groupsCache[n].version # "v3"}),
         FALSE)

\* Mutant of ListGroups: a stamp without a version is taken for a foreign one.
ListGroupsVersioned ==
    List(Only({n \in Names : /\ Migratable(groupsCache[n], worker.class.spec)
                             /\ groupsCache[n].version # "v1"}),
         \E n \in Names : Outdated(groupsCache[n], worker.class.spec))

\* The API is served; migrateHashVersion lists the groups of the class.
ListGroups ==
    List(Only({n \in Names : Migratable(groupsCache[n], worker.class.spec)}),
         \E n \in Names : Outdated(groupsCache[n], worker.class.spec))

\* The API is not served, or the groups cannot be listed: pendingUnknown.
ListFails ==
    /\ worker.pc = "list"
    /\ \E served \in BOOLEAN :
          worker' = [worker EXCEPT !.pc = "migrate", !.served = served, !.pending = TRUE]
    /\ UNCHANGED <<objects, caches>>

TodoWithout(n) == [worker.todo EXCEPT ![n] = NoGroup]

\* Mutant of Leave: the group stays the next one.
LeaveInPlace(n, pending) ==
    worker' = [worker EXCEPT !.todo = TodoWithout(n), !.pending = @ \/ pending]

\* The worker is done with a group.
Leave(n, pending) ==
    worker' = [worker EXCEPT !.todo = TodoWithout(n), !.next = Nobody,
                             !.pending = @ \/ pending]

\* Mutant of ReadClaim: a group that keeps its hash is not counted.
ReadClaimUncounted(n) ==
    /\ worker.next = Nobody /\ Exists(worker.todo[n])
    /\ IF driftedCache[n] THEN Leave(n, FALSE)
       ELSE worker' = [worker EXCEPT !.next = n]
    /\ UNCHANGED <<objects, caches>>

\* nodeClaimDrifted, from the cache: a replacement is not to be cancelled.
ReadClaim(n) ==
    /\ worker.next = Nobody /\ Exists(worker.todo[n])
    /\ IF driftedCache[n] THEN Leave(n, TRUE)
       ELSE worker' = [worker EXCEPT !.next = n]
    /\ UNCHANGED <<objects, caches>>

\* A merge patch without preconditions, whose answer may be lost.
PatchStamp(n) ==
    /\ worker.next = n
    /\ Exists(groups[n])
    /\ groups' = [groups EXCEPT ![n] =
          [built |-> @.built, version |-> "v3", hash |-> Hash(worker.class.spec)]]
    /\ \E lost \in BOOLEAN : Leave(n, lost)
    /\ UNCHANGED <<class, used, drifted, caches>>

\* The claim or the group cannot be read or written.  A group that is gone is
\* not counted.
GroupFails(n) ==
    /\ Exists(worker.todo[n]) /\ worker.next \in {n, Nobody}
    /\ Leave(n, worker.next = Nobody \/ Exists(groups[n]))
    /\ UNCHANGED <<objects, caches>>

Rest == worker' = Resting

\* validate and reportIgnoredLabels.
Reported(copy, served, pending) ==
    [copy EXCEPT
        !.ready = served /\ copy.spec \in Launchable,
        !.advice = IF copy.spec.labels \cap Legacy = {} THEN "none"
                   ELSE IF pending THEN "HashMigrationPending" ELSE "LegacyLabelKeys"]

\* The status patch: refused if the class has moved on since it was read.
Report ==
    /\ worker.pc = "migrate" /\ worker.todo = NoGroups
    /\ class' = IF class = worker.class
                THEN Reported(class, worker.served, worker.pending) ELSE class
    /\ Rest
    /\ UNCHANGED <<groups, used, drifted, caches>>

\* The process restarts, or the status patch fails.
Restart ==
    /\ worker.pc # "idle"
    /\ Rest
    /\ UNCHANGED <<objects, caches>>

HashNext ==
    \/ \E spec \in Configurations : Edit(spec)
    \/ \E n \in Names :
          \/ \E spec \in Configurations : Launch(n, spec)
          \/ Terminate(n) \/ SyncGroup(n) \/ SyncClaim(n)
          \/ IsDrifted(n) \/ ReadClaim(n) \/ PatchStamp(n) \/ GroupFails(n)
    \/ SyncClass \/ Reconcile \/ ListGroups \/ ListFails \/ Report \/ Restart

HashSpec == HashInit /\ [][HashNext]_migrationVars

\* core evaluates drift over and over, the watch delivers, the informer's
\* resync brings the class back, and calls succeed now and then.
FairMigration ==
    /\ HashSpec
    /\ WF_migrationVars(SyncClass) /\ WF_migrationVars(Reconcile)
    /\ SF_migrationVars(ListGroups) /\ WF_migrationVars(Report)
    /\ \A n \in Names :
          /\ WF_migrationVars(SyncGroup(n)) /\ WF_migrationVars(SyncClaim(n))
          /\ WF_migrationVars(IsDrifted(n))
          /\ WF_migrationVars(ReadClaim(n) \/ PatchStamp(n) \/ GroupFails(n))
          /\ SF_migrationVars(ReadClaim(n)) /\ SF_migrationVars(PatchStamp(n))

-----------------------------------------------------------------------------
(***************************************************************************)
(* Properties.                                                             *)
(***************************************************************************)

\* The migration never "records the node as built from a configuration it
\* never received": a stamp is always the hash, in its generation, of the
\* configuration the group was launched with.
StampsHashBuiltSpec ==
    \A n \in Names :
        groups[n].hash # NoSpec
        => groups[n].hash = Stamp(groups[n].version, groups[n].built)

\* An upgrade by itself replaces no node: a claim becomes Drifted only when
\* the labels of the class differ from those its group was launched with.
DriftMeansEdit ==
    [][\A n \in Names :
          ~drifted[n] /\ drifted'[n]
          => classCache.spec.labels # groups[n].built.labels]_migrationVars

\* "Remove them: no node drifts for it": while the class gives that advice,
\* following it makes no group drift that has not.
LegacyAdviceSafe ==
    LET followed == Labelled(class.spec.labels \ Legacy) IN
    class.advice = "LegacyLabelKeys" =>
        \A n \in Names :
            Drifts(groups[n], followed) => Drifts(groups[n], class.spec)

\* No edit is hidden by an upgrade that rolls out meanwhile: a node that does
\* not carry what the class now delivers has its claim Drifted, unless its
\* stamp proves nothing.
Diverged(n) ==
    /\ Exists(groups[n]) /\ Provable(groups[n])
    /\ Hash(groups[n].built) # Hash(class.spec)

EditsDriftNodes == \A n \in Names : Diverged(n) ~> ~Diverged(n) \/ drifted[n]

\* An older stamp that describes the class does not stay: "nodes built under
\* an older generation stop depending on its frozen implementation".
Behind(n) == Migratable(groups[n], class.spec) /\ ~drifted[n]

StampsMigrate == \A n \in Names : Behind(n) ~> ~Behind(n)

=============================================================================
