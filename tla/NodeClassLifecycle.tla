------------------------- MODULE NodeClassLifecycle -------------------------
(***************************************************************************)
(* The life of a CleverNodeClass: the nodeclass controller                 *)
(* (pkg/controllers/nodeclass/controller.go) holds it with a finalizer,    *)
(* declares it Ready and lets it go, while launches read it                *)
(* (CloudProvider.resolveLaunch) and claims come and go.                   *)
(*                                                                         *)
(* One class name, which can be created again once the class is gone, one  *)
(* worker reconciling it, and one informer cache per process, of classes   *)
(* and of claims, from which both the controller and core work.  The hash  *)
(* migration is the subject of HashMigration, the rest of a launch that of *)
(* NodeGroupLaunch.  A call that fails has landed or never will.           *)
(***************************************************************************)
EXTENDS Naturals

CONSTANTS
    Names,      \* of NodeClaims that reference the class
    MaxClasses  \* bound on the classes created under the name

ASSUME ClassAssumption == MaxClasses \in Nat

VARIABLES
    class,          \* the CleverNodeClass
    classes,        \* how many have been created
    apiServed,      \* the NodeGroup API answers
    claims,         \* the NodeClaim of each name
    groups,         \* the NodeGroup of each name, as the class it is built from
    cachedClass,    \* the informer's copies
    cachedClaims,
    queued,         \* the class is in the controller's queue, or will be
    work,           \* local state of Controller.Reconcile
    launch          \* local state of CloudProvider.Create, by claim

cluster == <<class, classes, apiServed, claims, groups>>
controller == <<cachedClass, cachedClaims, queued, work>>
classVars == <<cluster, controller, launch>>

\* uid 0 stands for none.  valid is what validate makes of spec.labels.
Class == [uid : 0..MaxClasses, valid : BOOLEAN, finalizer : BOOLEAN,
          ready : BOOLEAN, deleting : BOOLEAN]

NoClass == [uid |-> 0, valid |-> FALSE, finalizer |-> FALSE, ready |-> FALSE,
            deleting |-> FALSE]

\* A launched claim has a provider ID, and its group goes before it.
ClaimStates == {"none", "wanted", "launched", "deleting", "terminating"}

\* copy is the class in hand; ready and served, what its conditions will say.
Work == [pc : {"idle", "adding", "probing", "patching", "listing", "removing"},
         copy : Class, ready : BOOLEAN, served : BOOLEAN]

At(pc, copy) == [pc |-> pc, copy |-> copy, ready |-> FALSE, served |-> FALSE]

Rest == At("idle", NoClass)

Launch == [pc : {"idle", "checking", "resolving", "posting"}, class : 0..MaxClasses]

Idle == [pc |-> "idle", class |-> 0]

Exists(n) == claims[n] # "none"

ClassTypeOK ==
    /\ class \in Class /\ classes \in 0..MaxClasses /\ apiServed \in BOOLEAN
    /\ claims \in [Names -> ClaimStates] /\ groups \in [Names -> 0..MaxClasses]
    /\ cachedClass \in Class /\ cachedClaims \subseteq Names
    /\ queued \in BOOLEAN /\ work \in Work
    /\ launch \in [Names -> Launch]

ClassInit ==
    /\ class = NoClass /\ classes = 0 /\ apiServed \in BOOLEAN
    /\ claims = [n \in Names |-> "none"] /\ groups = [n \in Names |-> 0]
    /\ cachedClass = NoClass /\ cachedClaims = {}
    /\ queued = FALSE /\ work = Rest
    /\ launch = [n \in Names |-> Idle]

-----------------------------------------------------------------------------
(***************************************************************************)
(* Users, the API server and the watches.                                  *)
(***************************************************************************)

CreateClass(valid) ==
    /\ class = NoClass /\ classes < MaxClasses
    /\ classes' = classes + 1
    /\ class' = [uid |-> classes + 1, valid |-> valid, finalizer |-> FALSE,
                  ready |-> FALSE, deleting |-> FALSE]
    /\ UNCHANGED <<apiServed, claims, groups, controller, launch>>

EditClass ==
    /\ class # NoClass /\ ~class.deleting
    /\ class' = [class EXCEPT !.valid = ~class.valid]
    /\ UNCHANGED <<classes, apiServed, claims, groups, controller, launch>>

\* A finalizer holds what is deleted.
DeleteClass ==
    /\ class # NoClass /\ ~class.deleting
    /\ class' = IF class.finalizer THEN [class EXCEPT !.deleting = TRUE] ELSE NoClass
    /\ UNCHANGED <<classes, apiServed, claims, groups, controller, launch>>

ApiChanges ==
    /\ apiServed' = ~apiServed
    /\ UNCHANGED <<class, classes, claims, groups, controller, launch>>

\* The event that brings the new version queues the class.
SyncClass ==
    /\ cachedClass # class
    /\ cachedClass' = class
    /\ queued' = TRUE
    /\ UNCHANGED <<cluster, cachedClaims, work, launch>>

SyncClaim(n) ==
    /\ (n \in cachedClaims) # Exists(n)
    /\ cachedClaims' = IF Exists(n) THEN cachedClaims \cup {n} ELSE cachedClaims \ {n}
    /\ UNCHANGED <<cluster, cachedClass, queued, work, launch>>

-----------------------------------------------------------------------------
(***************************************************************************)
(* Reconcile.                                                              *)
(***************************************************************************)

\* Reconcile returns; again says whether it asks to run again, after an error
\* or a delay.
Return(again) == work' = Rest /\ queued' = (queued \/ again)

\* The class is read from the cache.
Reconcile ==
    /\ queued /\ work = Rest
    /\ queued' = FALSE
    /\ work' = IF cachedClass = NoClass \/ (cachedClass.deleting /\ ~cachedClass.finalizer)
               THEN Rest
               ELSE At(IF cachedClass.deleting THEN "listing"
                       ELSE IF cachedClass.finalizer THEN "probing" ELSE "adding",
                       cachedClass)
    /\ UNCHANGED <<cluster, cachedClass, cachedClaims, launch>>

\* A call fails: an error, and another try.  What it wrote is not in hand.
CallFails ==
    /\ work.pc \notin {"idle", "probing"}
    /\ Return(TRUE)
    /\ UNCHANGED <<cluster, cachedClass, cachedClaims, launch>>

\* A merge patch, of whatever has the name; none is not an error.
AddFinalizer ==
    /\ work.pc = "adding"
    /\ IF class = NoClass
       THEN Return(FALSE) /\ UNCHANGED class
       ELSE /\ class' = [class EXCEPT !.finalizer = TRUE]
            /\ \/ work' = At("probing", class') /\ UNCHANGED queued
               \/ Return(TRUE)
    /\ UNCHANGED <<classes, apiServed, claims, groups, cachedClass, cachedClaims, launch>>

\* Mutant of Probe: an API that is not served is not probed again.
ProbeOnce ==
    /\ work.pc = "probing"
    /\ LET ready == work.copy.valid /\ apiServed
       IN  IF ready = work.copy.ready
           THEN Return(FALSE)
           ELSE /\ work' = [pc |-> "patching", copy |-> work.copy, ready |-> ready,
                             served |-> TRUE]
                /\ UNCHANGED queued
    /\ UNCHANGED <<cluster, cachedClass, cachedClaims, launch>>

\* validate and the list of NodeGroups; an API that is not served is probed
\* again in a minute.
Probe ==
    /\ work.pc = "probing"
    /\ LET ready == work.copy.valid /\ apiServed
       IN  IF ready = work.copy.ready
           THEN Return(~apiServed)
           ELSE /\ work' = [pc |-> "patching", copy |-> work.copy, ready |-> ready,
                             served |-> apiServed]
                /\ UNCHANGED queued
    /\ UNCHANGED <<cluster, cachedClass, cachedClaims, launch>>

\* The optimistic lock: the status is only written over the version in hand.
\* A version is taken to be what it holds.
PatchStatus ==
    /\ work.pc = "patching"
    /\ IF class = work.copy
       THEN /\ class' = [class EXCEPT !.ready = work.ready]
            /\ Return(~work.served) \/ Return(TRUE)
       ELSE Return(class # NoClass) /\ UNCHANGED class
    /\ UNCHANGED <<classes, apiServed, claims, groups, cachedClass, cachedClaims, launch>>

\* Mutant of ListClaims: the wait for the claims is not timed.
ListClaimsOnce ==
    /\ work.pc = "listing"
    /\ IF cachedClaims = {}
       THEN work' = At("removing", work.copy) /\ UNCHANGED queued
       ELSE Return(FALSE)
    /\ UNCHANGED <<cluster, cachedClass, cachedClaims, launch>>

\* finalize: the claims in the cache are looked at again in 30 seconds.
ListClaims ==
    /\ work.pc = "listing"
    /\ IF cachedClaims = {}
       THEN work' = At("removing", work.copy) /\ UNCHANGED queued
       ELSE Return(TRUE)
    /\ UNCHANGED <<cluster, cachedClass, cachedClaims, launch>>

\* A merge patch again; it lets go of a class that is being deleted.
RemoveFinalizer ==
    /\ work.pc = "removing"
    /\ class' = IF class.deleting THEN NoClass ELSE [class EXCEPT !.finalizer = FALSE]
    /\ \E again \in BOOLEAN : Return(again)
    /\ UNCHANGED <<classes, apiServed, claims, groups, cachedClass, cachedClaims, launch>>

-----------------------------------------------------------------------------
(***************************************************************************)
(* core and the launches.                                                  *)
(***************************************************************************)

Goto(n, pc, uid) == launch' = [launch EXCEPT ![n] = [pc |-> pc, class |-> uid]]

Becomes(n, state) == claims' = [claims EXCEPT ![n] = state]

CreateClaim(n) ==
    /\ ~Exists(n) /\ groups[n] = 0
    /\ Becomes(n, "wanted")
    /\ UNCHANGED <<class, classes, apiServed, groups, controller, launch>>

DeleteClaim(n) ==
    /\ claims[n] \in {"wanted", "launched"}
    /\ Becomes(n, IF claims[n] = "launched" THEN "terminating" ELSE "deleting")
    /\ UNCHANGED <<class, classes, apiServed, groups, controller, launch>>

\* core launches a claim it has in its cache.
Create(n) ==
    /\ n \in cachedClaims
    /\ claims[n] = "wanted" /\ launch[n] = Idle
    /\ Goto(n, "checking", 0)
    /\ UNCHANGED <<cluster, controller>>

\* checkNodeClaimWanted
CheckClaim(n) ==
    /\ launch[n].pc = "checking"
    /\ IF claims[n] = "wanted" THEN Goto(n, "resolving", 0) ELSE Goto(n, "idle", 0)
    /\ UNCHANGED <<cluster, controller>>

\* Mutant of Launchable: "Readiness conditions survive deletion".
LaunchableReady == class.ready

\* The class, read uncached, is Ready and not terminating.
Launchable == class.ready /\ ~class.deleting

\* resolveLaunch; a class that cannot be launched from ends the claim.
ResolveClass(n) ==
    /\ launch[n].pc = "resolving"
    /\ IF Launchable
       THEN Goto(n, "posting", class.uid) /\ UNCHANGED claims
       ELSE /\ Goto(n, "idle", 0)
            /\ claims' = IF claims[n] = "wanted" THEN [claims EXCEPT ![n] = "deleting"] ELSE claims
    /\ UNCHANGED <<class, classes, apiServed, groups, controller>>

\* The group is created or adopted, and core stores the launch.
Launched(n) ==
    /\ launch[n].pc = "posting"
    /\ groups' = [groups EXCEPT ![n] = IF @ = 0 THEN launch[n].class ELSE @]
    /\ Becomes(n, IF claims[n] = "wanted" THEN "launched" ELSE "terminating")
    /\ Goto(n, "idle", 0)
    /\ UNCHANGED <<class, classes, apiServed, controller>>

\* The launch fails, before the group is created or after.
LaunchFails(n) ==
    /\ launch[n].pc # "idle"
    /\ Goto(n, "idle", 0)
    /\ groups' \in {groups, IF launch[n].pc = "posting" /\ groups[n] = 0
                            THEN [groups EXCEPT ![n] = launch[n].class] ELSE groups}
    /\ UNCHANGED <<class, classes, apiServed, claims, controller>>

\* core deletes the group of a launched claim before it releases the claim.
Terminate(n) ==
    /\ claims[n] = "terminating" /\ launch[n] = Idle
    /\ IF groups[n] # 0
       THEN groups' = [groups EXCEPT ![n] = 0] /\ UNCHANGED claims
       ELSE Becomes(n, "none") /\ UNCHANGED groups
    /\ UNCHANGED <<class, classes, apiServed, controller, launch>>

\* Without a provider ID core deletes no group.
Release(n) ==
    /\ claims[n] = "deleting" /\ launch[n] = Idle
    /\ Becomes(n, "none")
    /\ UNCHANGED <<class, classes, apiServed, groups, controller, launch>>

\* The garbage collector reaps the group of no claim, the quota engine any.
GroupGoes(n) ==
    /\ groups[n] # 0
    /\ groups' = [groups EXCEPT ![n] = 0]
    /\ UNCHANGED <<class, classes, apiServed, claims, controller, launch>>

\* The caches are filled before anything runs.
RestartProcess ==
    /\ cachedClass' = class
    /\ cachedClaims' = {n \in Names : Exists(n)}
    /\ queued' = TRUE
    /\ work' = Rest
    /\ launch' = [n \in Names |-> Idle]
    /\ UNCHANGED cluster

-----------------------------------------------------------------------------
ControllerStep ==
    Reconcile \/ CallFails \/ AddFinalizer \/ Probe \/ PatchStatus \/ ListClaims
    \/ RemoveFinalizer

ClaimStep(n) ==
    CreateClaim(n) \/ DeleteClaim(n) \/ SyncClaim(n)
    \/ Create(n) \/ CheckClaim(n) \/ ResolveClass(n) \/ Launched(n) \/ LaunchFails(n)
    \/ Terminate(n) \/ Release(n) \/ GroupGoes(n)

ClassNext ==
    \/ \E valid \in BOOLEAN : CreateClass(valid)
    \/ EditClass \/ DeleteClass \/ ApiChanges \/ SyncClass
    \/ ControllerStep
    \/ \E n \in Names : ClaimStep(n)
    \/ RestartProcess

ClassSpec == ClassInit /\ [][ClassNext]_classVars

\* The watches deliver; the queue is served; the process stays up long enough
\* for a reconcile; and a call succeeds in the end, with its answer.
FairClass ==
    /\ ClassSpec
    /\ WF_classVars(SyncClass)
    /\ \A n \in Names : WF_classVars(SyncClaim(n))
    /\ SF_classVars(Reconcile)
    /\ SF_classVars(AddFinalizer /\ work'.pc = "probing")
    /\ SF_classVars(Probe) /\ SF_classVars(PatchStatus)
    /\ SF_classVars(ListClaims) /\ SF_classVars(RemoveFinalizer)

-----------------------------------------------------------------------------
(***************************************************************************)
(* Properties.                                                             *)
(***************************************************************************)

\* "finalize blocks NodeClass deletion while NodeClaims still reference it",
\* of the claims that matter: the class a launch has resolved, or the group of
\* a claim is built from, stays, under its finalizer, although the claims are
\* listed in a cache and the finalizer removed by name.
ClassOutlivesMachines ==
    \A n \in Names :
        /\ launch[n].pc = "posting" /\ Exists(n) =>
              class.finalizer /\ class.uid = launch[n].class
        /\ groups[n] # 0 /\ Exists(n) =>
              class.finalizer /\ class.uid = groups[n]

\* A class that is deleted goes, once no claim references it any more: the
\* departure of the last claim is no event on the class.
ClassesFinalized ==
    <>[](\A n \in Names : ~Exists(n)) => (class.deleting ~> ~class.deleting)

\* "a transient discovery failure ... would park the NodeClass NotReady": once
\* the API is served, a valid class becomes Ready and stays so, whatever
\* conflicts its status writes have met.
ClassesBecomeReady ==
    <>[](class # NoClass /\ class.valid /\ ~class.deleting /\ apiServed)
    => <>[]class.ready

=============================================================================
