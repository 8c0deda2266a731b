--------------------------- MODULE RefusalMemory ---------------------------
(***************************************************************************)
(* What the NodeGroup provider remembers of refused launches               *)
(* (pkg/providers/nodegroup/nodegroup.go, the fields guarded by            *)
(* Provider.mu): the organisation quota's rejections and the flavors held  *)
(* out after a refusal by the operator or at admission.  It is the only    *)
(* channel back to the scheduler, which keeps no memory of its own.        *)
(*                                                                         *)
(* Both tables hold at most one entry per flavor, stamped with the clock   *)
(* and with a sequence number.  A call that will forget entries takes the  *)
(* sequence number before its request (its mark) and forgets only what was *)
(* recorded up to it.  The marks of the calls in flight are local          *)
(* variables of Provider.Delete and Provider.ResolveAndCreate; here they   *)
(* are functions of the caller.                                            *)
(*                                                                         *)
(* Specified alone, callers may use the memory in any order.               *)
(* NodeGroupLaunch extends this module and conjoins these actions with the *)
(* steps of the launches and deletions that make the calls.                *)
(***************************************************************************)
EXTENDS Catalogue

CONSTANTS
    Callers,        \* concurrent calls into the provider
    QuotaBackoff,   \* how long a quota rejection covers its own flavor
    flavorBackoff,  \* how long a refusal holds its flavor out
    MaxTime,        \* bound on the clock
    MaxRejections,  \* bound on the quota rejections recorded by a process
    MaxHoldOuts     \* bound on the hold-outs recorded by a process

ASSUME BackoffAssumption ==
    QuotaBackoff \in Nat \ {0} /\ flavorBackoff \in Nat \ {0}

ASSUME BoundAssumption == {MaxTime, MaxRejections, MaxHoldOuts} \subseteq Nat

VARIABLES
    now,                \* the provider's clock
    quotaRejections,    \* the last quota rejection of each flavor
    quotaRejectionSeq,  \* sequence number of the last quota rejection
    rejectedFlavors,    \* the hold-out of each refused flavor
    holdOutSeq,         \* sequence number of the last hold-out
    deleteMark,         \* quotaRejectionMark of the DELETE a caller has sent
    launchMark          \* holdOutMark of the launch a caller is making

tables == <<quotaRejections, quotaRejectionSeq, rejectedFlavors, holdOutSeq>>
memory == <<now, tables, deleteMark, launchMark>>

Entry == [flavor : Flavors, at : Nat, seq : Nat]

\* The mark of a caller with no call in flight; every entry is above it.
NoMark == -1

MemoryTypeOK ==
    /\ now \in Nat
    /\ quotaRejections \subseteq Entry
    /\ rejectedFlavors \subseteq Entry
    /\ quotaRejectionSeq \in Nat
    /\ holdOutSeq \in Nat
    /\ deleteMark \in [Callers -> Nat \cup {NoMark}]
    /\ launchMark \in [Callers -> Nat \cup {NoMark}]

-----------------------------------------------------------------------------
(***************************************************************************)
(* Which flavors are unavailable.                                          *)
(***************************************************************************)

\* Mutant of Covers: the sizes are compared the wrong way round.
CoversTheSmaller(r, f) == r.flavor = f \/ AtLeast(r.flavor, f)

\* Mutant of CoveredUntil: one window for all.
CoveredOneWindow(r, f) == r.at + QuotaBackoff

\* Quota rejection r says something about flavor f ...
Covers(r, f) == r.flavor = f \/ AtLeast(f, r.flavor)

\* ... until then: the larger flavors wait twice as long as r's own.
CoveredUntil(r, f) ==
    r.at + IF r.flavor = f THEN QuotaBackoff ELSE 2 * QuotaBackoff

\* The quota rejections in force that keep f unavailable.
Covering(f) ==
    {r \in quotaRejections : Covers(r, f) /\ now < CoveredUntil(r, f)}

QuotaUnavailable(f) == Covering(f) # {}

\* The hold-out of f, while it is in force.
HoldingOut(f) ==
    {h \in rejectedFlavors : h.flavor = f /\ now - h.at < flavorBackoff}

Unavailable(f) == HoldingOut(f) # {} \/ QuotaUnavailable(f)

-----------------------------------------------------------------------------
(***************************************************************************)
(* The operations.                                                         *)
(***************************************************************************)

\* A map assignment: the entry replaces the flavor's previous one.
Put(table, entry) == {e \in table : e.flavor # entry.flavor} \cup {entry}

MemoryInit ==
    /\ now = 0
    /\ quotaRejections = {}
    /\ quotaRejectionSeq = 0
    /\ rejectedFlavors = {}
    /\ holdOutSeq = 0
    /\ deleteMark = [c \in Callers |-> NoMark]
    /\ launchMark = [c \in Callers |-> NoMark]

recordQuotaRejection(f) ==
    /\ quotaRejectionSeq < MaxRejections
    /\ quotaRejectionSeq' = quotaRejectionSeq + 1
    /\ quotaRejections' =
          Put(quotaRejections, [flavor |-> f, at |-> now, seq |-> quotaRejectionSeq'])
    /\ UNCHANGED <<rejectedFlavors, holdOutSeq>>

recordFlavorRejection(f) ==
    /\ holdOutSeq < MaxHoldOuts
    /\ holdOutSeq' = holdOutSeq + 1
    /\ rejectedFlavors' =
          Put(rejectedFlavors, [flavor |-> f, at |-> now, seq |-> holdOutSeq'])
    /\ UNCHANGED <<quotaRejections, quotaRejectionSeq>>

\* Mutant of clearQuotaRejections: an empty table starts counting anew.
clearQuotaRejectionsAndSeq(mark) ==
    /\ quotaRejections' = {r \in quotaRejections : r.seq > mark}
    /\ quotaRejectionSeq' = IF quotaRejections' = {} THEN 0 ELSE quotaRejectionSeq
    /\ UNCHANGED <<rejectedFlavors, holdOutSeq>>

clearQuotaRejections(mark) ==
    /\ quotaRejections' = {r \in quotaRejections : r.seq > mark}
    /\ UNCHANGED <<quotaRejectionSeq, rejectedFlavors, holdOutSeq>>

\* Mutant of clearFlavorRejection: an acceptance answers every refusal.
clearFlavorRejectionAnyTime(f, mark) ==
    /\ rejectedFlavors' = {h \in rejectedFlavors : h.flavor # f}
    /\ UNCHANGED <<quotaRejections, quotaRejectionSeq, holdOutSeq>>

clearFlavorRejection(f, mark) ==
    /\ rejectedFlavors' = {h \in rejectedFlavors : h.flavor # f \/ h.seq > mark}
    /\ UNCHANGED <<quotaRejections, quotaRejectionSeq, holdOutSeq>>

\* Provider.Delete: the mark is taken before the API call, ...
SendDelete(c) ==
    /\ deleteMark[c] = NoMark
    /\ deleteMark' = [deleteMark EXCEPT ![c] = quotaRejectionSeq]
    /\ UNCHANGED <<now, tables, launchMark>>

\* Mutant of DeleteClears: the mark is taken when the answer comes.
DeleteClearsAll(c) ==
    /\ deleteMark[c] # NoMark
    /\ clearQuotaRejections(quotaRejectionSeq)
    /\ deleteMark' = [deleteMark EXCEPT ![c] = NoMark]
    /\ UNCHANGED <<now, launchMark>>

\* ... and an accepted DELETE of a group that may hold capacity clears what
\* was known at the mark.
DeleteClears(c) ==
    /\ deleteMark[c] # NoMark
    /\ clearQuotaRejections(deleteMark[c])
    /\ deleteMark' = [deleteMark EXCEPT ![c] = NoMark]
    /\ UNCHANGED <<now, launchMark>>

\* An error, or a refused group that never synced, keeps the backoff.
DeleteKeeps(c) ==
    /\ deleteMark[c] # NoMark
    /\ deleteMark' = [deleteMark EXCEPT ![c] = NoMark]
    /\ UNCHANGED <<now, tables, launchMark>>

\* ResolveAndCreate: the mark is taken just before the create call.
MarkLaunch(c) ==
    /\ launchMark[c] = NoMark
    /\ launchMark' = [launchMark EXCEPT ![c] = holdOutSeq]
    /\ UNCHANGED <<now, tables, deleteMark>>

\* The operator acknowledged a group of flavor f, or it was already Ready.
LaunchAccepted(c, f) ==
    /\ launchMark[c] # NoMark
    /\ clearFlavorRejection(f, launchMark[c])
    /\ launchMark' = [launchMark EXCEPT ![c] = NoMark]
    /\ UNCHANGED <<now, deleteMark>>

\* The launch ends without a verdict on its flavor.
LaunchEnds(c) ==
    /\ launchMark[c] # NoMark
    /\ launchMark' = [launchMark EXCEPT ![c] = NoMark]
    /\ UNCHANGED <<now, tables, deleteMark>>

\* A refusal ends the launch: by the operator, or at admission.
LaunchRefused(c, f) ==
    /\ launchMark[c] # NoMark
    /\ recordFlavorRejection(f)
    /\ launchMark' = [launchMark EXCEPT ![c] = NoMark]
    /\ UNCHANGED <<now, deleteMark>>

\* A vanished group is recorded as a quota rejection and ends the launch.
LaunchVanished(c, f) ==
    /\ launchMark[c] # NoMark
    /\ recordQuotaRejection(f)
    /\ launchMark' = [launchMark EXCEPT ![c] = NoMark]
    /\ UNCHANGED <<now, deleteMark>>

\* The acceptance poll records a quota rejection before it frees the group,
\* RecordLateRefusal records either kind at any time.
QuotaRejected(f) ==
    recordQuotaRejection(f) /\ UNCHANGED <<now, deleteMark, launchMark>>

FlavorRefused(f) ==
    recordFlavorRejection(f) /\ UNCHANGED <<now, deleteMark, launchMark>>

Tick ==
    /\ now < MaxTime
    /\ now' = now + 1
    /\ UNCHANGED <<tables, deleteMark, launchMark>>

\* Mutant of Restart: the counters start from "no mark".
RestartFromNoMark ==
    /\ quotaRejections' = {}
    /\ quotaRejectionSeq' = NoMark
    /\ rejectedFlavors' = {}
    /\ holdOutSeq' = NoMark
    /\ deleteMark' = [c \in Callers |-> NoMark]
    /\ launchMark' = [c \in Callers |-> NoMark]
    /\ UNCHANGED now

\* The memory and the calls in flight die with the process.
Restart ==
    /\ quotaRejections' = {}
    /\ quotaRejectionSeq' = 0
    /\ rejectedFlavors' = {}
    /\ holdOutSeq' = 0
    /\ deleteMark' = [c \in Callers |-> NoMark]
    /\ launchMark' = [c \in Callers |-> NoMark]
    /\ UNCHANGED now

CallerStep(c) ==
    \/ SendDelete(c) \/ DeleteClears(c) \/ DeleteKeeps(c)
    \/ MarkLaunch(c) \/ LaunchEnds(c)
    \/ \E f \in Flavors : LaunchAccepted(c, f) \/ LaunchRefused(c, f)
                          \/ LaunchVanished(c, f)

MemoryNext ==
    \/ \E c \in Callers : CallerStep(c)
    \/ \E f \in Flavors : QuotaRejected(f) \/ FlavorRefused(f)
    \/ Tick
    \/ Restart

MemorySpec == MemoryInit /\ [][MemoryNext]_memory

-----------------------------------------------------------------------------
(***************************************************************************)
(* Properties.                                                             *)
(***************************************************************************)

\* The sequence numbers of a table order its entries, one per flavor, and no
\* entry or mark is ahead of the counter: clearQuotaRejections and
\* clearFlavorRejection compare them to tell what a request cannot have
\* answered.
Ordered(table, last) ==
    /\ \A e \in table : e.seq \in 1..last /\ e.at <= now
    /\ \A e, d \in table : e.flavor = d.flavor \/ e.seq = d.seq => e = d

SequencesOrder ==
    /\ Ordered(quotaRejections, quotaRejectionSeq)
    /\ Ordered(rejectedFlavors, holdOutSeq)
    /\ \A c \in Callers :
          deleteMark[c] <= quotaRejectionSeq /\ launchMark[c] <= holdOutSeq

\* "capacity it cannot fit rejected into cannot fit a flavor at least as large
\* either": whatever sequence of rejections, accepted DELETEs and expiries led
\* here, a flavor larger than one the quota keeps unavailable is unavailable
\* too.  (Flavors of equal size do not shadow each other: each is covered by
\* its own rejection for one window and by the other's for two.)
LargerFlavorsWait ==
    \A f, g \in Flavors :
        Larger(g, f) /\ QuotaUnavailable(f) => QuotaUnavailable(g)

\* The promise of quotaRejection.coverage: time alone reopens a flavor held by
\* smaller ones' rejections only after one of those, the cheaper probe, has
\* already been available for some time.
ReopensAfterProbe(g) ==
    /\ now' > now
    /\ \E r \in Covering(g) : r.flavor # g
    /\ ~QuotaUnavailable(g)'
    => \E r \in Covering(g) : Larger(g, r.flavor) /\ ~QuotaUnavailable(r.flavor)

ProbeReopensFirst == [][\A g \in Flavors : ReopensAfterProbe(g)]_memory

\* Both tables are ledgers: an accepted DELETE never forgets a quota rejection
\* recorded after it was sent, nor an accepted launch a hold-out recorded after
\* its create call, and nothing else forgets any.
Remembered(table) == {[flavor |-> e.flavor, at |-> e.at] : e \in table}

After(table, mark) == {e \in table : e.seq > mark}

QuotaLedger == INSTANCE RefusalLedger WITH
    ledger <- Remembered(quotaRejections),
    inFlight <- {c \in Callers : deleteMark[c] # NoMark},
    kept <- [c \in Callers |-> Remembered(After(quotaRejections, deleteMark[c]))]

HoldOutLedger == INSTANCE RefusalLedger WITH
    ledger <- Remembered(rejectedFlavors),
    inFlight <- {c \in Callers : launchMark[c] # NoMark},
    kept <- [c \in Callers |-> Remembered(After(rejectedFlavors, launchMark[c]))]

QuotaRejectionsLedger == QuotaLedger!Spec
HoldOutsLedger == HoldOutLedger!Spec

=============================================================================
