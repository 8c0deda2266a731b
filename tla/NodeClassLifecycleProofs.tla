----------------------- MODULE NodeClassLifecycleProofs -----------------------
(***************************************************************************)
(* The class outlives its machines (NodeClassLifecycle), for any claims    *)
(* and any number of classes.                                              *)
(***************************************************************************)
EXTENDS NodeClassLifecycle, TLAPS

\* A class that finalize would let go of.
Going(c) == c.deleting /\ c.finalizer

\* A claim that needs the class.
Pinned(n) == Exists(n) /\ (launch[n].pc = "posting" \/ groups[n] # 0)

\* Only a class under its finalizer is declared Ready.
ReadyIsHeld ==
    /\ class.ready => class.finalizer
    /\ work.pc \in {"probing", "patching"} => work.copy.finalizer

\* No launch begins from a class that finalize is looking at, or would look at
\* if it ran on what the cache shows: what has replaced it, if anything, is not
\* Ready before the cache has shown it.
GoingIsNotLaunchable ==
    /\ work.pc \in {"listing", "removing"} => ~Launchable
    /\ Going(cachedClass) => ~Launchable
    /\ Going(cachedClass) /\ work.pc \in {"adding", "probing", "patching"} => class.deleting

\* The cache shows every claim that a launch has taken up.
LaunchedAreCached ==
    \A n \in Names :
        /\ launch[n].pc # "idle" => Exists(n)
        /\ launch[n].pc # "idle" => n \in cachedClaims
        /\ groups[n] # 0 /\ Exists(n) => n \in cachedClaims

\* finalize goes on only if no claim needs the class, and none will.
RemovalIsSafe == work.pc = "removing" => \A n \in Names : ~Pinned(n)

Safe ==
    /\ ReadyIsHeld /\ GoingIsNotLaunchable /\ LaunchedAreCached /\ RemovalIsSafe
    /\ ClassOutlivesMachines

\* That the class stays is not inductive: the finalizer is removed by name, on
\* an answer of the cache.  ClassInv adds what that answer is worth.
ClassInv == ClassTypeOK /\ Safe

-----------------------------------------------------------------------------
(***************************************************************************)
(* Types.                                                                  *)
(***************************************************************************)

\* What is written of a class is a class.
LEMMA ClassWritten ==
  ASSUME NEW c \in Class, NEW flag \in BOOLEAN
  PROVE  /\ [c EXCEPT !.valid = flag] \in Class
         /\ [c EXCEPT !.finalizer = flag] \in Class
         /\ [c EXCEPT !.ready = flag] \in Class
         /\ [c EXCEPT !.deleting = flag] \in Class
<1>1. [c EXCEPT !.valid = flag] \in Class
  BY DEF Class
<1>2. [c EXCEPT !.finalizer = flag] \in Class
  BY DEF Class
<1>3. [c EXCEPT !.ready = flag] \in Class
  BY DEF Class
<1>4. [c EXCEPT !.deleting = flag] \in Class
  BY DEF Class
<1> QED
  BY <1>1, <1>2, <1>3, <1>4

\* A class is made of flags, and none is one.
LEMMA ClassParts ==
  /\ \A c \in Class : c.valid \in BOOLEAN /\ c.uid \in 0..MaxClasses
  /\ NoClass \in Class
  BY ClassAssumption DEF Class, NoClass

\* What the worker turns to.
LEMMA WorkParts ==
  /\ \A w \in Work : w.copy \in Class /\ w.ready \in BOOLEAN /\ w.served \in BOOLEAN
  /\ Rest \in Work
  /\ \A pc \in {"adding", "probing", "listing", "removing"}, c \in Class : At(pc, c) \in Work
  BY ClassParts DEF Work, Rest, At

\* Where a reconcile returns.
LEMMA Returned ==
  ASSUME NEW again \in BOOLEAN, queued \in BOOLEAN, Return(again)
  PROVE  queued' \in BOOLEAN /\ work' \in Work
  BY WorkParts DEF Return

\* Where a launch goes.
LEMMA Gone ==
  ASSUME launch \in [Names -> Launch], NEW n \in Names,
         NEW pc \in {"idle", "checking", "resolving", "posting"}, NEW uid \in 0..MaxClasses,
         Goto(n, pc, uid)
  PROVE  launch' \in [Names -> Launch]
  BY DEF Goto, Launch

\* What becomes of a claim.
LEMMA Became ==
  ASSUME claims \in [Names -> ClaimStates], NEW n \in Names, NEW state \in ClaimStates,
         Becomes(n, state)
  PROVE  claims' \in [Names -> ClaimStates]
  BY DEF Becomes

\* The controller keeps the types.
LEMMA ControllerTypes ==
  ASSUME ClassTypeOK, ControllerStep
  PROVE  ClassTypeOK'
<1> USE ClassAssumption, ClassParts, WorkParts, Returned
    DEF ClassTypeOK, cluster
<1>1. CASE Reconcile
  BY <1>1 DEF Reconcile
<1>2. CASE CallFails
  BY <1>2 DEF CallFails
<1>3. CASE AddFinalizer
  <2>1. CASE class = NoClass
    BY <1>3, <2>1 DEF AddFinalizer
  <2>2. CASE class # NoClass
    <3>1. class' \in Class
      BY <1>3, <2>2, ClassWritten DEF AddFinalizer
    <3>2. queued' \in BOOLEAN /\ work' \in Work
      BY <1>3, <2>2, <3>1 DEF AddFinalizer
    <3> QED
      BY <1>3, <3>1, <3>2 DEF AddFinalizer
  <2> QED
    BY <2>1, <2>2
<1>4. CASE Probe
  <2>1. (work.copy.valid /\ apiServed) \in BOOLEAN
    BY ClassParts
  <2>2. \A ready \in BOOLEAN :
          [pc |-> "patching", copy |-> work.copy, ready |-> ready, served |-> apiServed] \in Work
    BY DEF Work
  <2>3. CASE (work.copy.valid /\ apiServed) = work.copy.ready
    BY <1>4, <2>3 DEF Probe
  <2>4. CASE (work.copy.valid /\ apiServed) # work.copy.ready
    BY <1>4, <2>1, <2>2, <2>4 DEF Probe
  <2> QED
    BY <2>3, <2>4
<1>5. CASE PatchStatus
  <2>1. class' \in Class
    BY <1>5, ClassWritten DEF PatchStatus
  <2>2. queued' \in BOOLEAN /\ work' \in Work
    BY <1>5 DEF PatchStatus
  <2> QED
    BY <1>5, <2>1, <2>2 DEF PatchStatus
<1>6. CASE ListClaims
  <2>1. queued' \in BOOLEAN /\ work' \in Work
    BY <1>6 DEF ListClaims
  <2> QED
    BY <1>6, <2>1 DEF ListClaims
<1>7. CASE RemoveFinalizer
  <2>1. class' \in Class
    BY <1>7, ClassWritten DEF RemoveFinalizer
  <2>2. queued' \in BOOLEAN /\ work' \in Work
    BY <1>7 DEF RemoveFinalizer
  <2> QED
    BY <1>7, <2>1, <2>2 DEF RemoveFinalizer
<1> QED
  BY <1>1, <1>2, <1>3, <1>4, <1>5, <1>6, <1>7 DEF ControllerStep

\* So do core and the launches.
LEMMA ClaimTypes ==
  ASSUME ClassTypeOK, NEW n \in Names, ClaimStep(n)
  PROVE  ClassTypeOK'
<1> USE ClassAssumption, ClassParts, Gone, Became DEF ClassTypeOK, cluster, controller
<1>1. CASE CreateClaim(n)
  BY <1>1 DEF CreateClaim, ClaimStates
<1>2. CASE DeleteClaim(n)
  BY <1>2 DEF DeleteClaim, ClaimStates
<1>3. CASE SyncClaim(n)
  BY <1>3 DEF SyncClaim
<1>4. CASE Create(n)
  BY <1>4 DEF Create
<1>5. CASE CheckClaim(n)
  BY <1>5 DEF CheckClaim
<1>6. CASE ResolveClass(n)
  <2>1. launch' \in [Names -> Launch]
    BY <1>6 DEF ResolveClass
  <2>2. claims' \in [Names -> ClaimStates]
    BY <1>6 DEF ResolveClass, ClaimStates
  <2> QED
    BY <1>6, <2>1, <2>2 DEF ResolveClass
<1>7. CASE Launched(n)
  <2>1. launch[n].class \in 0..MaxClasses
    BY DEF Launch
  <2>2. launch' \in [Names -> Launch] /\ claims' \in [Names -> ClaimStates]
    BY <1>7 DEF Launched, ClaimStates
  <2> QED
    BY <1>7, <2>1, <2>2 DEF Launched
<1>8. CASE LaunchFails(n)
  <2>1. launch[n].class \in 0..MaxClasses
    BY DEF Launch
  <2>2. launch' \in [Names -> Launch]
    BY <1>8 DEF LaunchFails
  <2> QED
    BY <1>8, <2>1, <2>2 DEF LaunchFails
<1>9. CASE Terminate(n)
  BY <1>9 DEF Terminate, ClaimStates
<1>10. CASE Release(n)
  BY <1>10 DEF Release, ClaimStates
<1>11. CASE GroupGoes(n)
  BY <1>11 DEF GroupGoes
<1> QED
  BY <1>1, <1>2, <1>3, <1>4, <1>5, <1>6, <1>7, <1>8, <1>9, <1>10, <1>11 DEF ClaimStep

\* And everyone else.
LEMMA TypeStep ==
  ASSUME ClassTypeOK, [ClassNext]_classVars
  PROVE  ClassTypeOK'
<1> USE ClassAssumption, ClassParts DEF ClassTypeOK, cluster, controller
<1>1. ASSUME NEW valid \in BOOLEAN, CreateClass(valid)
      PROVE  ClassTypeOK'
  BY <1>1 DEF CreateClass, Class
<1>2. CASE EditClass
  BY <1>2, ClassWritten DEF EditClass
<1>3. CASE DeleteClass
  BY <1>3, ClassWritten DEF DeleteClass
<1>4. CASE ApiChanges
  BY <1>4 DEF ApiChanges
<1>5. CASE SyncClass
  BY <1>5 DEF SyncClass
<1>6. CASE RestartProcess
  BY <1>6, WorkParts DEF RestartProcess, Launch, Idle
<1>7. CASE UNCHANGED classVars
  BY <1>7 DEF classVars
<1> QED
  BY <1>1, <1>2, <1>3, <1>4, <1>5, <1>6, <1>7, ControllerTypes, ClaimTypes DEF ClassNext

\* A cluster without the class.
LEMMA TypeInit == ClassInit => ClassTypeOK
<1> SUFFICES ASSUME ClassInit PROVE ClassTypeOK
  OBVIOUS
<1>1. /\ class \in Class /\ classes \in 0..MaxClasses /\ apiServed \in BOOLEAN
      /\ cachedClass \in Class
  BY ClassAssumption, ClassParts DEF ClassInit
<1>2. claims \in [Names -> ClaimStates] /\ groups \in [Names -> 0..MaxClasses]
  BY ClassAssumption DEF ClassInit, ClaimStates
<1>3. cachedClaims \subseteq Names /\ queued \in BOOLEAN /\ work \in Work
  BY WorkParts DEF ClassInit
<1>4. launch \in [Names -> Launch]
  BY ClassAssumption DEF ClassInit, Launch, Idle
<1> QED
  BY <1>1, <1>2, <1>3, <1>4 DEF ClassTypeOK

-----------------------------------------------------------------------------
(***************************************************************************)
(* The invariant.                                                          *)
(***************************************************************************)

\* The controller keeps it.
LEMMA ControllerSafe ==
  ASSUME ClassInv, ControllerStep
  PROVE  Safe'
<1> USE DEF ClassInv, ClassTypeOK, cluster, Return, At, Rest, Class, NoClass, Exists,
            Safe, ReadyIsHeld, GoingIsNotLaunchable, LaunchedAreCached, RemovalIsSafe,
            ClassOutlivesMachines, Going, Pinned, Launchable
<1>1. CASE Reconcile
  BY <1>1 DEF Reconcile
<1>2. CASE CallFails
  BY <1>2 DEF CallFails
<1>3. CASE AddFinalizer
  BY <1>3 DEF AddFinalizer
<1>4. CASE Probe
  BY <1>4 DEF Probe
<1>5. CASE PatchStatus
  BY <1>5 DEF PatchStatus
<1>6. CASE ListClaims
  BY <1>6 DEF ListClaims
<1>7. CASE RemoveFinalizer
  BY <1>7 DEF RemoveFinalizer
<1> QED
  BY <1>1, <1>2, <1>3, <1>4, <1>5, <1>6, <1>7 DEF ControllerStep

\* So do core and the launches.
LEMMA ClaimSafe ==
  ASSUME ClassInv, NEW n \in Names, ClaimStep(n)
  PROVE  Safe'
<1> USE DEF ClassInv, ClassTypeOK, cluster, controller, Goto, Becomes, Exists, Idle, Launch, NoClass,
            Safe, ReadyIsHeld, GoingIsNotLaunchable, LaunchedAreCached, RemovalIsSafe,
            ClassOutlivesMachines, Going, Pinned, Launchable, ClaimStates
<1>1. CASE CreateClaim(n)
  BY <1>1 DEF CreateClaim
<1>2. CASE DeleteClaim(n)
  BY <1>2 DEF DeleteClaim
<1>3. CASE SyncClaim(n)
  BY <1>3 DEF SyncClaim
<1>4. CASE Create(n)
  BY <1>4 DEF Create
<1>5. CASE CheckClaim(n)
  BY <1>5 DEF CheckClaim
<1>6. CASE ResolveClass(n)
  BY <1>6 DEF ResolveClass
<1>7. CASE Launched(n)
  BY <1>7 DEF Launched
<1>8. CASE LaunchFails(n)
  BY <1>8 DEF LaunchFails
<1>9. CASE Terminate(n)
  BY <1>9 DEF Terminate
<1>10. CASE Release(n)
  BY <1>10 DEF Release
<1>11. CASE GroupGoes(n)
  BY <1>11 DEF GroupGoes
<1> QED
  BY <1>1, <1>2, <1>3, <1>4, <1>5, <1>6, <1>7, <1>8, <1>9, <1>10, <1>11 DEF ClaimStep

\* And everyone else.
LEMMA SafeStep ==
  ASSUME ClassInv, [ClassNext]_classVars
  PROVE  Safe'
<1> USE DEF ClassInv, ClassTypeOK, cluster, controller, Exists, Idle, Class, NoClass, Rest, At,
            Safe, ReadyIsHeld, GoingIsNotLaunchable, LaunchedAreCached, RemovalIsSafe,
            ClassOutlivesMachines, Going, Pinned, Launchable
<1>1. ASSUME NEW valid \in BOOLEAN, CreateClass(valid)
      PROVE  Safe'
  BY <1>1 DEF CreateClass
<1>2. CASE EditClass
  BY <1>2 DEF EditClass
<1>3. CASE DeleteClass
  BY <1>3 DEF DeleteClass
<1>4. CASE ApiChanges
  BY <1>4 DEF ApiChanges
<1>5. CASE SyncClass
  BY <1>5 DEF SyncClass
<1>6. CASE RestartProcess
  BY <1>6 DEF RestartProcess
<1>7. CASE UNCHANGED classVars
  BY <1>7 DEF classVars
<1> QED
  BY <1>1, <1>2, <1>3, <1>4, <1>5, <1>6, <1>7, ControllerSafe, ClaimSafe DEF ClassNext

\* Nothing needs a class that was never there.
LEMMA InvInit == ClassInit => ClassInv
<1> SUFFICES ASSUME ClassInit PROVE ClassInv
  OBVIOUS
<1>1. Safe
  BY DEF ClassInit, NoClass, Rest, At, Idle, Exists, Safe, ReadyIsHeld, GoingIsNotLaunchable,
         LaunchedAreCached, RemovalIsSafe, ClassOutlivesMachines, Going, Launchable
<1> QED
  BY <1>1, TypeInit DEF ClassInv

LEMMA InvStep == ClassInv /\ [ClassNext]_classVars => ClassInv'
<1> SUFFICES ASSUME ClassInv, [ClassNext]_classVars PROVE ClassInv'
  OBVIOUS
<1>1. ClassTypeOK'
  BY TypeStep DEF ClassInv
<1>2. Safe'
  BY SafeStep
<1> QED
  BY <1>1, <1>2 DEF ClassInv

-----------------------------------------------------------------------------
(***************************************************************************)
(* Theorems.                                                               *)
(***************************************************************************)

\* The model of Reconcile, the launches and core is well typed.
THEOREM ClassTypeCorrect == ClassSpec => []ClassTypeOK
<1>1. ClassTypeOK /\ [ClassNext]_classVars => ClassTypeOK'
  BY TypeStep
<1> QED
  BY TypeInit, <1>1, PTL DEF ClassSpec

\* The class a launch has resolved, or the group of a claim is built from,
\* stays under its finalizer, whatever Reconcile reads late and patches by
\* name.
THEOREM ClassAlwaysOutlivesMachines == ClassSpec => []ClassOutlivesMachines
<1>1. ClassSpec => []ClassInv
  BY InvInit, InvStep, PTL DEF ClassSpec
<1>2. ClassInv => ClassOutlivesMachines
  BY DEF ClassInv, Safe
<1> QED
  BY <1>1, <1>2, PTL

=============================================================================
