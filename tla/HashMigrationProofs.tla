------------------------ MODULE HashMigrationProofs ------------------------
(***************************************************************************)
(* Theorems about HashMigration, for any groups, labels and edits.         *)
(*                                                                         *)
(* That stamps hash what was built is not inductive: the patch writes the  *)
(* hash of a copy of the class on the strength of a copy of the group.     *)
(* StampInv adds what those copies are worth.  AdviceInv does the same for *)
(* the advice, which rests on a count made while groups come and go.       *)
(***************************************************************************)
EXTENDS HashMigration, TLAPS

\* A stamp is the hash of what was built.
WellStamped(group) ==
    group.hash # NoSpec
    => Exists(group) /\ group.hash = Stamp(group.version, group.built)

\* A copy is of the group that has, or had, that name.
CopyOf(copy, n) ==
    /\ WellStamped(copy)
    /\ Exists(copy) => n \in used
    /\ Exists(copy) /\ Exists(groups[n]) => copy.built = groups[n].built

\* A copy the worker may re-stamp its group on the strength of.
Matched(copy) ==
    worker.pc = "migrate" /\ worker.class \in Class /\ Migratable(copy, worker.class.spec)

StampInv ==
    /\ HashTypeOK
    /\ \A n \in Names :
          /\ CopyOf(groups[n], n)
          /\ CopyOf(groupsCache[n], n)
          /\ CopyOf(worker.todo[n], n)
          /\ Exists(worker.todo[n]) => Matched(worker.todo[n])

\* A group that keeps an older generation of the hash.
Old(group) == Provable(group) /\ group.version # "v3"

\* A worker that counts nothing as pending has all those still to do.
Listed(n) ==
    worker.pc = "migrate" /\ ~worker.pending /\ Old(groups[n]) => Exists(worker.todo[n])

AdviceInv ==
    /\ \A n \in Names : Old(groups[n]) => groupsCache[n] = groups[n]
    /\ \A n \in Names : Listed(n)
    /\ class.advice = "LegacyLabelKeys" /\ class.spec.labels \cap Legacy # {} =>
          \A n \in Names : ~Old(groups[n])

-----------------------------------------------------------------------------
\* Configurations that a stamp of an older generation does not tell apart have
\* the same hash today.
LEMMA MatchingHash ==
  ASSUME NEW group, NEW spec \in Spec, group.built \in Spec,
         group.version \in {"v1", "v2"},
         group.hash = Stamp(group.version, group.built),
         HashMatches(group, spec)
  PROVE  Hash(spec) = Hash(group.built)
<1>1. spec.labels = group.built.labels
  <2>1. CASE group.version = "v1"
    <3>1. group.built \in hashV1(spec)
      BY <2>1 DEF HashMatches, Stamp
    <3> QED
      BY <3>1 DEF hashV1, Spec
  <2>2. CASE group.version = "v2"
    <3>1. hashV2(group.built) = hashV2(spec)
      BY <2>2 DEF HashMatches, Stamp
    <3> QED
      BY <3>1 DEF hashV2, Labelled
  <2> QED
    BY <2>1, <2>2
<1> QED
  BY <1>1 DEF Hash

\* A stamp matches every configuration with the labels of what was built.
LEMMA SameLabelsMatch ==
  ASSUME NEW group, NEW spec \in Spec, group.built \in Spec,
         group.version \in Versions,
         group.hash = Stamp(group.version, group.built),
         spec.labels = group.built.labels
  PROVE  HashMatches(group, spec)
<1>1. CASE group.version = "v1"
  <2>1. group.built \in hashV1(spec)
    BY DEF hashV1, Spec
  <2> QED
    BY <1>1, <2>1 DEF HashMatches, Stamp
<1>2. CASE group.version = "v2"
  BY <1>2 DEF HashMatches, Stamp, hashV2
<1>3. CASE group.version \notin {"v1", "v2"}
  BY <1>3 DEF HashMatches, Stamp, Hash
<1> QED
  BY <1>1, <1>2, <1>3

\* Stamps are configurations, and what a group is built from is well stamped.
LEMMA StampType ==
  ASSUME NEW version, NEW spec \in Spec
  PROVE  Stamp(version, spec) \in Spec
  BY LabelAssumption DEF Stamp, Spec, hashV2, Hash, Labelled

LEMMA StampedGroupType ==
  ASSUME NEW version \in Versions, NEW spec \in Configurations
  PROVE  /\ StampedGroup(version, spec) \in Group
         /\ UnstampedGroup(spec) \in Group
         /\ WellStamped(StampedGroup(version, spec))
         /\ WellStamped(UnstampedGroup(spec))
<1>1. spec \in Spec /\ spec # NoSpec /\ Stamp(version, spec) \in Spec
  BY ConfigurationAssumption, StampType
<1>2. "v1" \in Versions
  BY DEF Versions
<1> QED
  BY <1>1, <1>2 DEF StampedGroup, UnstampedGroup, Group, NoGroup, WellStamped, Exists

LEMMA NoGroupType ==
  /\ NoGroup \in Group /\ ~Exists(NoGroup) /\ WellStamped(NoGroup) /\ ~Provable(NoGroup)
  /\ NoGroups \in [Names -> Group]
  /\ Resting \in Worker
  BY DEF NoGroup, Group, Exists, Versions, WellStamped, Provable, NoGroups, Resting, Worker

-----------------------------------------------------------------------------
\* At start everything inherited is well stamped and the worker rests.
LEMMA StampInit == HashInit => StampInv
<1> SUFFICES ASSUME HashInit PROVE StampInv
  OBVIOUS
<1>1. \A n \in Names : groups[n] \in Group /\ WellStamped(groups[n])
  <2> TAKE n \in Names
  <2>1. \/ groups[n] = NoGroup
        \/ \E v \in Versions, s \in Launchable : groups[n] = StampedGroup(v, s)
        \/ \E s \in Launchable : groups[n] = UnstampedGroup(s)
    BY DEF HashInit, Inherited
  <2>2. Launchable \subseteq Configurations /\ "v1" \in Versions
    BY DEF Launchable, Versions
  <2> QED
    BY <2>1, <2>2, StampedGroupType, NoGroupType
<1>2. groups \in [Names -> Group] /\ groupsCache = groups
  BY <1>1 DEF HashInit
<1>3. class \in Class
  <2>1. class.edits = 0 /\ class.edits \in 0..MaxEdits
    BY ConfigurationAssumption DEF HashInit
  <2>2. class.spec \in Configurations /\ class.ready \in BOOLEAN /\ class.advice \in Advice
    BY DEF HashInit, Advice
  <2>3. class = [spec |-> class.spec, edits |-> class.edits, ready |-> class.ready,
                 advice |-> class.advice]
    BY DEF HashInit
  <2> QED
    BY <2>1, <2>2, <2>3 DEF Class
<1>4. /\ worker = Resting /\ worker.todo = NoGroups /\ worker.next = Nobody
      /\ worker.pc = "idle"
  BY DEF HashInit, Resting
<1>5. HashTypeOK
  BY <1>2, <1>3, <1>4, NoGroupType DEF HashTypeOK, HashInit
<1>6. \A n \in Names : CopyOf(groups[n], n) /\ CopyOf(worker.todo[n], n)
                       /\ ~Exists(worker.todo[n])
  BY <1>1, <1>4, NoGroupType DEF CopyOf, HashInit, NoGroups
<1> QED
  BY <1>2, <1>5, <1>6 DEF StampInv

\* What leaving a group does to the local state.
LEMMA LeaveFacts ==
  ASSUME worker \in Worker, NEW n \in Names, NEW pending \in BOOLEAN,
         Leave(n, pending)
  PROVE  /\ worker' \in Worker /\ worker'.next = Nobody
         /\ worker'.pc = worker.pc /\ worker'.class = worker.class
         /\ worker'.todo[n] = NoGroup
         /\ \A m \in Names \ {n} : worker'.todo[m] = worker.todo[m]
         /\ worker'.pending = (worker.pending \/ pending)
<1>1. TodoWithout(n) \in [Names -> Group] /\ TodoWithout(n)[n] = NoGroup
  BY NoGroupType DEF TodoWithout, Worker
<1>2. \A m \in Names \ {n} : TodoWithout(n)[m] = worker.todo[m]
  BY DEF TodoWithout, Worker
<1> QED
  BY <1>1, <1>2 DEF Leave, Worker

\* What a list does.
LEMMA ListFacts ==
  ASSUME worker \in Worker, NEW todo \in [Names -> Group], NEW pending \in BOOLEAN,
         List(todo, pending)
  PROVE  /\ worker' \in Worker /\ worker'.next = worker.next
         /\ worker'.pc = "migrate" /\ worker'.class = worker.class
         /\ worker'.todo = todo /\ worker'.pending = pending
  BY DEF List, Worker

\* Steps that leave the groups and their cache alone, and take nothing up.
LEMMA QuietStep ==
  ASSUME StampInv, groups' = groups, groupsCache' = groupsCache, used' = used,
         \A n \in Names : \/ worker'.todo[n] = NoGroup
                          \/ /\ worker'.todo[n] = worker.todo[n]
                             /\ worker'.class = worker.class
                             /\ worker'.pc \in {worker.pc, "migrate"},
         HashTypeOK'
  PROVE  StampInv'
<1> SUFFICES ASSUME NEW n \in Names
             PROVE  /\ CopyOf(groups[n], n)'
                    /\ CopyOf(groupsCache[n], n)'
                    /\ CopyOf(worker.todo[n], n)'
                    /\ (Exists(worker.todo[n]) => Matched(worker.todo[n]))'
  BY DEF StampInv
<1>1. CopyOf(groups[n], n)' /\ CopyOf(groupsCache[n], n)'
  BY DEF StampInv, CopyOf
<1>2. CASE worker'.todo[n] = NoGroup
  BY <1>1, <1>2, NoGroupType DEF CopyOf
<1>3. CASE /\ worker'.todo[n] = worker.todo[n] /\ worker'.class = worker.class
           /\ worker'.pc \in {worker.pc, "migrate"}
  BY <1>1, <1>3 DEF StampInv, CopyOf, Matched
<1> QED
  BY <1>1, <1>2, <1>3

\* Every step keeps the types and what the copies are worth.
LEMMA StampStep == StampInv /\ [HashNext]_migrationVars => StampInv'
<1> SUFFICES ASSUME StampInv, [HashNext]_migrationVars PROVE StampInv'
  OBVIOUS
<1> USE DEF objects, caches
<1>t. HashTypeOK
  BY DEF StampInv
<1>w. worker \in Worker /\ worker.todo \in [Names -> Group]
  BY <1>t DEF HashTypeOK, Worker
<1>1. ASSUME NEW spec \in Configurations, Edit(spec) PROVE StampInv'
  <2>1. class' \in Class
    <3> DEFINE edits == class.edits + 1
    <3>1. edits \in 0..MaxEdits
      BY <1>t, <1>1, ConfigurationAssumption DEF Edit, Class, HashTypeOK
    <3>2. class' = [class EXCEPT !.spec = spec, !.edits = edits]
      BY <1>1 DEF Edit
    <3> HIDE DEF edits
    <3> QED
      BY <1>t, <3>1, <3>2 DEF Class, HashTypeOK
  <2> QED
    BY <1>t, <1>1, <2>1, QuietStep DEF Edit, HashTypeOK
<1>2. ASSUME NEW n \in Names, NEW spec \in Configurations, Launch(n, spec) PROVE StampInv'
  <2>1. "v3" \in Versions
    BY DEF Versions
  <2>2. StampedGroup("v3", spec) \in Group /\ WellStamped(StampedGroup("v3", spec))
    BY <2>1, StampedGroupType
  <2>3. /\ groups'[n] = StampedGroup("v3", spec)
        /\ \A m \in Names \ {n} : groups'[m] = groups[m]
        /\ groups' \in [Names -> Group] /\ used' = used \cup {n}
    BY <1>t, <1>2, <2>2 DEF Launch, HashTypeOK
  <2>4. HashTypeOK'
    BY <1>t, <1>2, <2>3 DEF Launch, HashTypeOK
  <2>5. ~Exists(groupsCache[n]) /\ ~Exists(worker.todo[n])
    BY <1>2 DEF StampInv, CopyOf, Launch
  <2>6. ASSUME NEW m \in Names
        PROVE  CopyOf(groups[m], m)' /\ CopyOf(groupsCache[m], m)' /\ CopyOf(worker.todo[m], m)'
    <3>1. CASE m = n
      BY <1>2, <2>2, <2>3, <2>5, <3>1 DEF StampInv, CopyOf, Launch
    <3>2. CASE m # n
      BY <1>2, <2>3, <3>2 DEF StampInv, CopyOf, Launch
    <3> QED
      BY <3>1, <3>2
  <2> QED
    BY <1>2, <2>4, <2>6 DEF StampInv, Matched, Launch
<1>3. ASSUME NEW n \in Names, Terminate(n) PROVE StampInv'
  <2>1. /\ groups'[n] = NoGroup /\ \A m \in Names \ {n} : groups'[m] = groups[m]
        /\ groups' \in [Names -> Group] /\ drifted' \in [Names -> BOOLEAN]
    BY <1>t, <1>3, NoGroupType DEF Terminate, HashTypeOK
  <2>2. HashTypeOK'
    BY <1>t, <1>3, <2>1 DEF Terminate, HashTypeOK
  <2>3. ASSUME NEW m \in Names
        PROVE  CopyOf(groups[m], m)' /\ CopyOf(groupsCache[m], m)' /\ CopyOf(worker.todo[m], m)'
    BY <1>3, <2>1, NoGroupType DEF StampInv, CopyOf, Terminate
  <2> QED
    BY <1>3, <2>2, <2>3 DEF StampInv, Matched, Terminate
<1>4. ASSUME SyncClass PROVE StampInv'
  BY <1>t, <1>4, QuietStep DEF SyncClass, HashTypeOK
<1>5. ASSUME NEW n \in Names, SyncGroup(n) PROVE StampInv'
  <2>1. /\ groupsCache'[n] = groups[n]
        /\ \A m \in Names \ {n} : groupsCache'[m] = groupsCache[m]
        /\ groupsCache' \in [Names -> Group]
    BY <1>t, <1>5 DEF SyncGroup, HashTypeOK
  <2>2. HashTypeOK'
    BY <1>t, <1>5, <2>1 DEF SyncGroup, HashTypeOK
  <2>3. ASSUME NEW m \in Names
        PROVE  CopyOf(groups[m], m)' /\ CopyOf(groupsCache[m], m)' /\ CopyOf(worker.todo[m], m)'
    BY <1>5, <2>1 DEF StampInv, CopyOf, SyncGroup
  <2> QED
    BY <1>5, <2>2, <2>3 DEF StampInv, Matched, SyncGroup
<1>6. ASSUME NEW n \in Names, SyncClaim(n) PROVE StampInv'
  BY <1>t, <1>6, QuietStep DEF SyncClaim, HashTypeOK
<1>7. ASSUME NEW n \in Names, IsDrifted(n) PROVE StampInv'
  <2>1. PICK answer : answer \in BOOLEAN /\ Evaluate(n, answer)
    BY <1>7 DEF IsDrifted, Drifts
  <2> QED
    BY <1>t, <2>1, QuietStep DEF Evaluate, HashTypeOK
<1>8. ASSUME Reconcile PROVE StampInv'
  <2>1. /\ worker'.todo = NoGroups /\ worker'.next = Nobody /\ worker' \in Worker
        /\ worker'.class \in Class
    BY <1>t, <1>8, NoGroupType DEF Reconcile, Resting, Worker, HashTypeOK
  <2> QED
    BY <1>t, <1>8, <2>1, QuietStep DEF Reconcile, HashTypeOK, NoGroups
<1>9. ASSUME ListGroups PROVE StampInv'
  <2> DEFINE selected == {n \in Names : Migratable(groupsCache[n], worker.class.spec)}
             pending == \E n \in Names : Outdated(groupsCache[n], worker.class.spec)
  <2>1. List(Only(selected), pending)
    BY <1>9 DEF ListGroups
  <2>2. /\ Only(selected) \in [Names -> Group]
        /\ \A n \in Names : IF n \in selected THEN Only(selected)[n] = groupsCache[n]
                                              ELSE Only(selected)[n] = NoGroup
    BY <1>t, NoGroupType DEF Only, HashTypeOK
  <2>3. /\ worker' \in Worker /\ worker'.next = worker.next
        /\ worker'.todo = Only(selected) /\ worker'.class = worker.class
        /\ worker'.pc = "migrate" /\ worker.pc = "list" /\ worker.next = Nobody
    <3> HIDE DEF selected
    <3>1. pending \in BOOLEAN
      OBVIOUS
    <3> HIDE DEF pending
    <3> QED
      BY <1>t, <1>w, <2>1, <2>2, <3>1, ListFacts DEF List, HashTypeOK
  <2>4. UNCHANGED <<objects, caches>>
    BY <1>9 DEF ListGroups, List
  <2>5. HashTypeOK'
    BY <1>t, <2>3, <2>4 DEF HashTypeOK
  <2>6. ASSUME NEW n \in Names
        PROVE  /\ CopyOf(worker.todo[n], n)'
               /\ (Exists(worker.todo[n]) => Matched(worker.todo[n]))'
    <3>1. CASE n \in selected
      BY <1>t, <2>2, <2>3, <2>4, <3>1 DEF StampInv, CopyOf, Matched, HashTypeOK
    <3>2. CASE n \notin selected
      BY <2>2, <2>3, <3>2, NoGroupType DEF CopyOf
    <3> QED
      BY <3>1, <3>2
  <2>7. ASSUME NEW n \in Names
        PROVE  CopyOf(groups[n], n)' /\ CopyOf(groupsCache[n], n)'
    BY <2>4 DEF StampInv, CopyOf
  <2> QED
    BY <2>5, <2>6, <2>7 DEF StampInv
<1>10. ASSUME ListFails PROVE StampInv'
  <2>1. /\ worker' \in Worker /\ worker'.next = worker.next
        /\ worker'.todo = worker.todo /\ worker'.class = worker.class
        /\ worker'.pc = "migrate" /\ worker.pc = "list"
    BY <1>w, <1>10 DEF ListFails, Worker
  <2> QED
    BY <1>t, <1>10, <2>1, QuietStep DEF ListFails, HashTypeOK
<1>11. ASSUME NEW n \in Names, ReadClaim(n) PROVE StampInv'
  <2>1. CASE driftedCache[n]
    <3>1. Leave(n, TRUE)
      BY <1>11, <2>1 DEF ReadClaim
    <3> QED
      BY <1>t, <1>w, <1>11, <3>1, LeaveFacts, QuietStep DEF ReadClaim, HashTypeOK
  <2>2. CASE ~driftedCache[n]
    <3>1. /\ worker' \in Worker /\ worker'.next = n /\ worker'.pc = worker.pc
          /\ worker'.todo = worker.todo /\ worker'.class = worker.class
      BY <1>w, <1>11, <2>2 DEF ReadClaim, Worker
    <3>2. worker.pc = "migrate" /\ Exists(worker.todo[n])
      BY <1>11 DEF ReadClaim, StampInv, Matched
    <3> QED
      BY <1>t, <1>w, <1>11, <3>1, <3>2, QuietStep DEF ReadClaim, HashTypeOK
  <2> QED
    BY <2>1, <2>2
<1>12. ASSUME NEW n \in Names, PatchStamp(n) PROVE StampInv'
  <2> DEFINE spec == worker.class.spec
             patched == [built |-> groups[n].built, version |-> "v3", hash |-> Hash(spec)]
  <2>1. PICK lost \in BOOLEAN : Leave(n, lost)
    BY <1>12 DEF PatchStamp
  <2>2. /\ worker' \in Worker /\ worker'.next = Nobody /\ worker'.class = worker.class
        /\ worker'.pc = worker.pc
        /\ worker'.todo[n] = NoGroup
        /\ \A m \in Names \ {n} : worker'.todo[m] = worker.todo[m]
    BY <1>w, <2>1, LeaveFacts
  <2>3. Hash(spec) = Hash(groups[n].built) /\ Hash(spec) \in Spec
    <3>1. Exists(worker.todo[n]) /\ Exists(groups[n]) /\ n # Nobody
      BY <1>t, <1>12, ConfigurationAssumption DEF PatchStamp, HashTypeOK
    <3>2. /\ Migratable(worker.todo[n], spec) /\ worker.todo[n].built = groups[n].built
          /\ WellStamped(worker.todo[n])
      BY <3>1 DEF StampInv, CopyOf, Matched
    <3>3. /\ worker.todo[n].built \in Spec /\ worker.todo[n].version \in {"v1", "v2"}
          /\ worker.todo[n].hash = Stamp(worker.todo[n].version, worker.todo[n].built)
      BY <1>w, <3>1, <3>2, ConfigurationAssumption
         DEF WellStamped, Migratable, Provable, Exists, Group, Versions
    <3>4. spec \in Spec
      BY <3>1, ConfigurationAssumption DEF StampInv, Matched, Class
    <3>5. Hash(spec) = Hash(worker.todo[n].built)
      <4> HIDE DEF spec
      <4> QED
        BY <3>2, <3>3, <3>4, MatchingHash DEF Migratable
    <3>6. Stamp("v3", spec) \in Spec /\ Stamp("v3", spec) = Hash(spec)
      <4> HIDE DEF spec
      <4> QED
        BY <3>4, StampType DEF Stamp
    <3> QED
      BY <3>2, <3>5, <3>6
  <2>4. patched \in Group /\ WellStamped(patched)
    BY <1>t, <1>12, <2>3 DEF PatchStamp, HashTypeOK, Group, Versions, WellStamped, Stamp, Exists
  <2>5. /\ groups'[n] = patched /\ \A m \in Names \ {n} : groups'[m] = groups[m]
        /\ groups' \in [Names -> Group]
    BY <1>t, <1>12, <2>4 DEF PatchStamp, HashTypeOK
  <2>6. HashTypeOK'
    BY <1>t, <1>12, <2>2, <2>5 DEF PatchStamp, HashTypeOK
  <2>7. patched.built = groups[n].built
    OBVIOUS
  <2> HIDE DEF patched, spec
  <2>8. ASSUME NEW m \in Names
        PROVE  /\ CopyOf(groups[m], m)' /\ CopyOf(groupsCache[m], m)'
               /\ CopyOf(worker.todo[m], m)'
               /\ (Exists(worker.todo[m]) => Matched(worker.todo[m]))'
    <3>1. CASE m = n
      BY <1>12, <2>2, <2>4, <2>5, <2>7, <3>1, NoGroupType
         DEF StampInv, CopyOf, PatchStamp, Exists
    <3>2. CASE m # n
      BY <1>12, <2>2, <2>5, <3>2 DEF StampInv, CopyOf, Matched, PatchStamp
    <3> QED
      BY <3>1, <3>2
  <2> QED
    BY <2>6, <2>8 DEF StampInv
<1>13. ASSUME NEW n \in Names, GroupFails(n) PROVE StampInv'
  <2>1. PICK pending \in BOOLEAN : Leave(n, pending)
    BY <1>13 DEF GroupFails
  <2> QED
    BY <1>t, <1>w, <1>13, <2>1, LeaveFacts, QuietStep DEF GroupFails, HashTypeOK
<1>14. ASSUME Report PROVE StampInv'
  <2>1. /\ worker'.todo = NoGroups /\ worker'.next = Nobody /\ worker' \in Worker
        /\ worker'.pc = "idle"
    BY <1>14, NoGroupType DEF Report, Rest, Resting
  <2>2. class' \in Class
    <3>1. worker.served \in BOOLEAN /\ worker.pending \in BOOLEAN
      BY <1>w DEF Worker
    <3>2. Reported(class, worker.served, worker.pending) \in Class
      BY <1>t, <3>1 DEF Reported, HashTypeOK, Class, Advice
    <3> QED
      BY <1>t, <1>14, <3>2 DEF Report, HashTypeOK
  <2> QED
    BY <1>t, <1>14, <2>1, <2>2, QuietStep DEF Report, HashTypeOK, NoGroups
<1>15. ASSUME Restart PROVE StampInv'
  <2>1. /\ worker'.todo = NoGroups /\ worker'.next = Nobody /\ worker' \in Worker
        /\ worker'.pc = "idle"
    BY <1>15, NoGroupType DEF Restart, Rest, Resting
  <2> QED
    BY <1>t, <1>15, <2>1, QuietStep DEF Restart, HashTypeOK, NoGroups
<1>16. CASE UNCHANGED migrationVars
  BY <1>t, <1>16, QuietStep DEF migrationVars, HashTypeOK
<1> QED
  BY <1>1, <1>2, <1>3, <1>4, <1>5, <1>6, <1>7, <1>8, <1>9, <1>10, <1>11, <1>12, <1>13,
     <1>14, <1>15, <1>16 DEF HashNext
-----------------------------------------------------------------------------
\* Groups that are gone keep no generation of the hash.
LEMMA OldExists ==
  ASSUME StampInv, NEW n \in Names, Old(groups[n])
  PROVE  Exists(groups[n])
  BY DEF StampInv, CopyOf, WellStamped, Old, Provable

LEMMA AdviceInit == HashInit => AdviceInv
  BY DEF HashInit, AdviceInv, Listed, Resting

\* Steps that bring no old group about, take none off the list, and leave the
\* advice alone.
LEMMA QuietAdvice ==
  ASSUME AdviceInv,
         \A n \in Names : Old(groups[n])' => /\ Old(groups[n])
                                             /\ groups'[n] = groups[n]
                                             /\ \/ groupsCache'[n] = groupsCache[n]
                                                \/ groupsCache'[n] = groups[n],
         \/ worker' = worker
         \/ worker'.pc # "migrate"
         \/ worker'.pending
         \/ /\ worker.pc = "migrate" /\ worker.pending = worker'.pending
            /\ \A n \in Names : Old(groups[n])' => worker'.todo[n] = worker.todo[n],
         class' = class \/ class'.spec.labels \cap Legacy = {}
  PROVE  AdviceInv'
<1>1. ASSUME NEW n \in Names, Old(groups[n])' PROVE groupsCache'[n] = groups'[n]
  BY <1>1 DEF AdviceInv
<1>2. ASSUME NEW n \in Names PROVE Listed(n)'
  BY DEF AdviceInv, Listed
<1>3. ASSUME class'.advice = "LegacyLabelKeys", class'.spec.labels \cap Legacy # {},
             NEW n \in Names
      PROVE  ~Old(groups[n])'
  BY <1>3 DEF AdviceInv
<1> QED
  BY <1>1, <1>2, <1>3 DEF AdviceInv

\* Every step keeps what the advice rests on.
LEMMA AdviceStep == StampInv /\ AdviceInv /\ [HashNext]_migrationVars => AdviceInv'
<1> SUFFICES ASSUME StampInv, AdviceInv, [HashNext]_migrationVars PROVE AdviceInv'
  OBVIOUS
<1> USE DEF objects, caches
<1>t. HashTypeOK
  BY DEF StampInv
<1>w. worker \in Worker
  BY <1>t DEF HashTypeOK
<1>1. ASSUME NEW spec \in Configurations, Edit(spec) PROVE AdviceInv'
  <2>1. class'.spec = spec
    BY <1>t, <1>1 DEF Edit, Class, HashTypeOK
  <2> QED
    BY <1>1, <2>1, QuietAdvice DEF Edit
<1>2. ASSUME NEW n \in Names, NEW spec \in Configurations, Launch(n, spec) PROVE AdviceInv'
  <2>1. groups'[n].version = "v3" /\ \A m \in Names \ {n} : groups'[m] = groups[m]
    BY <1>t, <1>2 DEF Launch, HashTypeOK, StampedGroup
  <2> QED
    BY <1>2, <2>1, QuietAdvice DEF Launch, Old
<1>3. ASSUME NEW n \in Names, Terminate(n) PROVE AdviceInv'
  <2>1. groups'[n] = NoGroup /\ \A m \in Names \ {n} : groups'[m] = groups[m]
    BY <1>t, <1>3 DEF Terminate, HashTypeOK
  <2> QED
    BY <1>3, <2>1, NoGroupType, QuietAdvice DEF Terminate, Old
<1>4. ASSUME SyncClass PROVE AdviceInv'
  BY <1>4, QuietAdvice DEF SyncClass
<1>5. ASSUME NEW n \in Names, SyncGroup(n) PROVE AdviceInv'
  <2>1. /\ groupsCache'[n] = groups[n]
        /\ \A m \in Names \ {n} : groupsCache'[m] = groupsCache[m]
    BY <1>t, <1>5 DEF SyncGroup, HashTypeOK
  <2> QED
    BY <1>5, <2>1, QuietAdvice DEF SyncGroup
<1>6. ASSUME NEW n \in Names, SyncClaim(n) PROVE AdviceInv'
  BY <1>6, QuietAdvice DEF SyncClaim
<1>7. ASSUME NEW n \in Names, IsDrifted(n) PROVE AdviceInv'
  BY <1>7, QuietAdvice DEF IsDrifted, Evaluate
<1>8. ASSUME Reconcile PROVE AdviceInv'
  <2>1. worker'.pc = "list"
    BY <1>8 DEF Reconcile, Resting
  <2> QED
    BY <1>8, <2>1, QuietAdvice DEF Reconcile
<1>9. ASSUME ListGroups PROVE AdviceInv'
  <2> DEFINE selected == {n \in Names : Migratable(groupsCache[n], worker.class.spec)}
             pending == \E n \in Names : Outdated(groupsCache[n], worker.class.spec)
  <2>1. List(Only(selected), pending) /\ pending \in BOOLEAN
    BY <1>9 DEF ListGroups
  <2>2. /\ Only(selected) \in [Names -> Group]
        /\ \A n \in selected : Only(selected)[n] = groupsCache[n]
    BY <1>t, NoGroupType DEF Only, HashTypeOK
  <2>3. worker'.todo = Only(selected) /\ worker'.pending = pending
    <3> HIDE DEF selected, pending
    <3> QED
      BY <1>w, <2>1, <2>2, ListFacts
  <2>4. UNCHANGED <<objects, caches>>
    BY <1>9 DEF ListGroups, List
  <2>5. ASSUME NEW n \in Names, ~worker'.pending, Old(groups[n]) PROVE Exists(worker'.todo[n])
    <3>1. groupsCache[n] = groups[n] /\ Exists(groups[n])
      BY <2>5, OldExists DEF AdviceInv
    <3>2. n \in selected
      BY <2>3, <2>5, <3>1 DEF Old, Migratable, Outdated
    <3> QED
      BY <2>2, <2>3, <3>1, <3>2
  <2>6. ASSUME NEW n \in Names PROVE Listed(n)'
    BY <2>4, <2>5 DEF Listed
  <2> QED
    BY <2>4, <2>6 DEF AdviceInv
<1>10. ASSUME ListFails PROVE AdviceInv'
  <2>1. worker'.pending
    BY <1>w, <1>10 DEF ListFails, Worker
  <2> QED
    BY <1>10, <2>1, QuietAdvice DEF ListFails
<1>11. ASSUME NEW n \in Names, ReadClaim(n) PROVE AdviceInv'
  <2>1. CASE driftedCache[n]
    <3>1. Leave(n, TRUE)
      BY <1>11, <2>1 DEF ReadClaim
    <3>2. worker'.pending
      BY <1>w, <3>1, LeaveFacts
    <3> QED
      BY <1>11, <3>2, QuietAdvice DEF ReadClaim
  <2>2. CASE ~driftedCache[n]
    <3>1. /\ worker'.pc = worker.pc /\ worker'.pending = worker.pending
          /\ worker'.todo = worker.todo
      BY <1>w, <1>11, <2>2 DEF ReadClaim, Worker
    <3> QED
      BY <1>11, <3>1, QuietAdvice DEF ReadClaim
  <2> QED
    BY <2>1, <2>2
<1>12. ASSUME NEW n \in Names, PatchStamp(n) PROVE AdviceInv'
  <2>1. PICK lost \in BOOLEAN : Leave(n, lost)
    BY <1>12 DEF PatchStamp
  <2>2. /\ worker'.pc = worker.pc /\ worker'.pending = (worker.pending \/ lost)
        /\ \A m \in Names \ {n} : worker'.todo[m] = worker.todo[m]
    BY <1>w, <2>1, LeaveFacts
  <2>3. groups'[n].version = "v3" /\ \A m \in Names \ {n} : groups'[m] = groups[m]
    BY <1>t, <1>12 DEF PatchStamp, HashTypeOK
  <2>4. worker.pc = "migrate"
    BY <1>t, <1>12, ConfigurationAssumption DEF PatchStamp, HashTypeOK
  <2>5. worker'.pending \/ worker'.pending = worker.pending
    BY <1>w, <2>2 DEF Worker
  <2> QED
    BY <1>12, <2>2, <2>3, <2>4, <2>5, QuietAdvice DEF PatchStamp, Old
<1>13. ASSUME NEW n \in Names, GroupFails(n) PROVE AdviceInv'
  <2>1. Leave(n, worker.next = Nobody \/ Exists(groups[n]))
    BY <1>13 DEF GroupFails
  <2>2. /\ worker'.pc = worker.pc
        /\ worker'.pending = (worker.pending \/ worker.next = Nobody \/ Exists(groups[n]))
        /\ \A m \in Names \ {n} : worker'.todo[m] = worker.todo[m]
    BY <1>w, <2>1, LeaveFacts
  <2>3. worker.pc = "migrate"
    BY <1>13 DEF GroupFails, StampInv, Matched
  <2>4. worker'.pending \/ (worker'.pending = worker.pending /\ ~Old(groups[n]))
    BY <1>w, <2>2, OldExists DEF Worker
  <2> QED
    BY <1>13, <2>2, <2>3, <2>4, QuietAdvice DEF GroupFails
<1>14. ASSUME Report PROVE AdviceInv'
  <2>1. worker'.pc = "idle"
    BY <1>14 DEF Report, Rest, Resting
  <2>2. ASSUME class' # class, class'.advice = "LegacyLabelKeys",
               class'.spec.labels \cap Legacy # {}, NEW n \in Names
        PROVE  ~Old(groups[n])
    <3>1. class' = Reported(class, worker.served, worker.pending)
      BY <1>14, <2>2 DEF Report
    <3>2. class'.spec = class.spec /\ ~worker.pending
      BY <1>t, <2>2, <3>1 DEF Reported, HashTypeOK, Class
    <3>3. worker.pc = "migrate" /\ ~Exists(worker.todo[n])
      BY <1>14, NoGroupType DEF Report, NoGroups
    <3> QED
      BY <3>2, <3>3 DEF AdviceInv, Listed
  <2> QED
    BY <1>14, <2>1, <2>2 DEF AdviceInv, Listed, Report
<1>15. ASSUME Restart PROVE AdviceInv'
  <2>1. worker'.pc = "idle"
    BY <1>15 DEF Restart, Rest, Resting
  <2> QED
    BY <1>15, <2>1, QuietAdvice DEF Restart
<1>16. CASE UNCHANGED migrationVars
  BY <1>16, QuietAdvice DEF migrationVars
<1> QED
  BY <1>1, <1>2, <1>3, <1>4, <1>5, <1>6, <1>7, <1>8, <1>9, <1>10, <1>11, <1>12, <1>13,
     <1>14, <1>15, <1>16 DEF HashNext

-----------------------------------------------------------------------------
LEMMA Invariance == HashSpec => [](StampInv /\ AdviceInv)
<1>1. HashInit => StampInv /\ AdviceInv
  BY StampInit, AdviceInit
<1>2. StampInv /\ AdviceInv /\ [HashNext]_migrationVars => (StampInv /\ AdviceInv)'
  BY StampStep, AdviceStep
<1> QED
  BY <1>1, <1>2, PTL DEF HashSpec

\* Type correctness: among others, the worker never patches a group that it
\* has not listed.
THEOREM MigrationTypeCorrect == HashSpec => []HashTypeOK
<1>1. StampInv => HashTypeOK
  BY DEF StampInv
<1> QED
  BY <1>1, Invariance, PTL

\* Whatever the controller patches from its caches, and however launches,
\* terminations and edits fall between, a stamp is the hash of what its group
\* was launched with.
THEOREM StampsAlwaysHashBuiltSpec == HashSpec => []StampsHashBuiltSpec
<1>1. StampInv => StampsHashBuiltSpec
  BY DEF StampInv, CopyOf, WellStamped, StampsHashBuiltSpec
<1> QED
  BY <1>1, Invariance, PTL

\* A configuration with the same labels matches the same stamps.
LEMMA SameLabelsSameMatch ==
  ASSUME NEW group, NEW s1 \in Spec, NEW s2 \in Spec, s1.labels = s2.labels,
         HashMatches(group, s1)
  PROVE  HashMatches(group, s2)
<1>1. CASE group.version = "v1"
  <2>1. s1.labels # {} => s1 = s2
    BY DEF Spec
  <2> QED
    BY <1>1, <2>1 DEF HashMatches, hashV1
<1>2. CASE group.version # "v1"
  BY <1>2 DEF HashMatches, Stamp, hashV2, Hash
<1> QED
  BY <1>1, <1>2

\* While the class says so, taking the legacy keys out makes no node drift.
THEOREM AdviceAlwaysSafe == HashSpec => []LegacyAdviceSafe
<1>1. StampInv /\ AdviceInv => LegacyAdviceSafe
  <2> SUFFICES ASSUME StampInv, AdviceInv, class.advice = "LegacyLabelKeys",
                      NEW n \in Names,
                      Drifts(groups[n], Labelled(class.spec.labels \ Legacy))
               PROVE  Drifts(groups[n], class.spec)
    BY DEF LegacyAdviceSafe
  <2> DEFINE followed == Labelled(class.spec.labels \ Legacy)
  <2>1. class.spec \in Spec /\ groups[n] \in Group
    BY ConfigurationAssumption DEF StampInv, HashTypeOK, Class
  <2>2. followed \in Spec /\ followed.labels = class.spec.labels \ Legacy
    BY <2>1 DEF Labelled, Spec
  <2>3. CASE class.spec.labels \cap Legacy = {}
    <3>1. followed.labels = class.spec.labels
      BY <2>2, <2>3
    <3>2. HashMatches(groups[n], class.spec) => HashMatches(groups[n], followed)
      <4> HIDE DEF followed
      <4> QED
        BY <2>1, <2>2, <3>1, SameLabelsSameMatch
    <3> QED
      BY <3>2 DEF Drifts
  <2>4. CASE class.spec.labels \cap Legacy # {}
    <3>1. groups[n].version = "v3"
      BY <2>4 DEF AdviceInv, Old, Drifts
    <3>2. Hash(followed) = Hash(class.spec)
      BY <2>2, LabelAssumption DEF Hash
    <3> QED
      BY <3>1, <3>2 DEF Drifts, HashMatches, Stamp
  <2> QED
    BY <2>3, <2>4
<1> QED
  BY <1>1, Invariance, PTL

\* Whatever stamps this controller inherits, a claim becomes Drifted only for
\* labels that differ from those its group was launched with.
THEOREM DriftAlwaysMeansEdit == HashSpec => DriftMeansEdit
<1>1. StampInv /\ [HashNext]_migrationVars
      => \A n \in Names : ~drifted[n] /\ drifted'[n]
                          => classCache.spec.labels # groups[n].built.labels
  <2> SUFFICES ASSUME StampInv, [HashNext]_migrationVars, NEW n \in Names,
                      ~drifted[n], drifted'[n]
               PROVE  classCache.spec.labels # groups[n].built.labels
    OBVIOUS
  <2>1. drifted' = drifted \/ \E m \in Names : Terminate(m) \/ IsDrifted(m)
    BY DEF HashNext, Edit, Launch, SyncClass, SyncGroup, SyncClaim, Reconcile, ListGroups,
           List, ListFails, ReadClaim, PatchStamp, GroupFails, Report, Restart,
           migrationVars, objects, caches
  <2>2. PICK m \in Names : Terminate(m) \/ IsDrifted(m)
    BY <2>1
  <2>3. drifted \in [Names -> BOOLEAN]
    BY DEF StampInv, HashTypeOK
  <2>4. ~Terminate(m)
    BY <2>3 DEF Terminate
  <2>5. m = n /\ Exists(groups[n]) /\ Drifts(groupsCache[n], classCache.spec)
    BY <2>2, <2>3, <2>4 DEF IsDrifted, Evaluate
  <2>6. /\ Exists(groupsCache[n]) /\ groupsCache[n].built = groups[n].built
        /\ groupsCache[n].hash = Stamp(groupsCache[n].version, groupsCache[n].built)
        /\ groupsCache[n] \in Group /\ classCache.spec \in Spec
    BY <2>5, ConfigurationAssumption
       DEF StampInv, CopyOf, WellStamped, Drifts, Provable, HashTypeOK, Class
  <2>7. groupsCache[n].built \in Spec /\ groupsCache[n].version \in Versions
    BY <2>6, ConfigurationAssumption DEF Group, Exists
  <2>8. ~HashMatches(groupsCache[n], classCache.spec)
    BY <2>5 DEF Drifts
  <2> QED
    BY <2>6, <2>7, <2>8, SameLabelsMatch
<1> QED
  BY <1>1, Invariance, PTL DEF HashSpec, DriftMeansEdit
=============================================================================
