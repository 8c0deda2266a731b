------------------------ MODULE RefusalMemoryProofs ------------------------
(***************************************************************************)
(* Theorems about RefusalMemory, for every catalogue, every number of      *)
(* callers and every backoff.                                              *)
(***************************************************************************)
EXTENDS RefusalMemory, WellFoundedInduction, TLAPS

(***************************************************************************)
(* Lemmas about the operators.                                             *)
(***************************************************************************)

\* Being at least as large is transitive, as the sizes are numbers.
LEMMA AtLeastTransitive ==
    ASSUME NEW f, NEW g, NEW h, AtLeast(f, g), AtLeast(g, h)
    PROVE  AtLeast(f, h)
  <1>1. /\ Sizing[f] \in [cpu : Nat, memory : Nat]
        /\ Sizing[g] \in [cpu : Nat, memory : Nat]
        /\ Sizing[h] \in [cpu : Nat, memory : Nat]
    BY SizingAssumption DEF AtLeast
  <1> QED BY <1>1 DEF AtLeast

\* A table keeps one entry per flavor and ordered sequence numbers when the
\* next entry is put in it.
LEMMA PutKeepsOrder ==
    ASSUME NEW table, NEW last \in Nat, NEW f, now \in Nat,
           \A e \in table : e.seq \in Nat,
           Ordered(table, last)
    PROVE  Ordered(Put(table, [flavor |-> f, at |-> now, seq |-> last + 1]), last + 1)
  BY DEF Ordered, Put

-----------------------------------------------------------------------------
(***************************************************************************)
(* Type correctness.                                                       *)
(***************************************************************************)

LEMMA MemoryTypeInit == MemoryInit => MemoryTypeOK
  BY DEF MemoryInit, MemoryTypeOK, NoMark

LEMMA MemoryTypeStep == MemoryTypeOK /\ [MemoryNext]_memory => MemoryTypeOK'
<1> SUFFICES ASSUME MemoryTypeOK, [MemoryNext]_memory PROVE MemoryTypeOK'
  OBVIOUS
<1> USE DEF MemoryTypeOK, Entry, NoMark
<1>1. ASSUME NEW f \in Flavors, recordQuotaRejection(f) \/ recordFlavorRejection(f),
             UNCHANGED now, deleteMark' \in [Callers -> Nat \cup {NoMark}],
             launchMark' \in [Callers -> Nat \cup {NoMark}]
      PROVE  MemoryTypeOK'
  BY <1>1 DEF recordQuotaRejection, recordFlavorRejection, Put
<1>2. ASSUME NEW c \in Callers, CallerStep(c) PROVE MemoryTypeOK'
  <2>1. CASE SendDelete(c)
    BY <2>1 DEF SendDelete, tables
  <2>2. CASE DeleteClears(c)
    BY <2>2 DEF DeleteClears, clearQuotaRejections
  <2>3. CASE DeleteKeeps(c)
    BY <2>3 DEF DeleteKeeps, tables
  <2>4. CASE MarkLaunch(c)
    BY <2>4 DEF MarkLaunch, tables
  <2>5. CASE LaunchEnds(c)
    BY <2>5 DEF LaunchEnds, tables
  <2>6. ASSUME NEW f \in Flavors, LaunchAccepted(c, f) PROVE MemoryTypeOK'
    BY <2>6 DEF LaunchAccepted, clearFlavorRejection
  <2>7. ASSUME NEW f \in Flavors, LaunchRefused(c, f) PROVE MemoryTypeOK'
    BY <2>7, <1>1 DEF LaunchRefused
  <2>8. ASSUME NEW f \in Flavors, LaunchVanished(c, f) PROVE MemoryTypeOK'
    BY <2>8, <1>1 DEF LaunchVanished
  <2> QED BY <1>2, <2>1, <2>2, <2>3, <2>4, <2>5, <2>6, <2>7, <2>8 DEF CallerStep
<1>3. ASSUME NEW f \in Flavors, QuotaRejected(f) \/ FlavorRefused(f)
      PROVE  MemoryTypeOK'
  BY <1>3, <1>1 DEF QuotaRejected, FlavorRefused
<1>4. CASE Tick
  BY <1>4 DEF Tick, tables
<1>5. CASE Restart
  BY <1>5 DEF Restart
<1>6. CASE UNCHANGED memory
  BY <1>6 DEF memory, tables
<1> QED BY <1>2, <1>3, <1>4, <1>5, <1>6 DEF MemoryNext

\* The tables, counters and marks of the memory of refusals are what the
\* fields of Provider are.
THEOREM MemoryTypeCorrect == MemorySpec => []MemoryTypeOK
  BY MemoryTypeInit, MemoryTypeStep, PTL DEF MemorySpec

-----------------------------------------------------------------------------
(***************************************************************************)
(* The order of the sequence numbers.  With the types it is inductive.     *)
(***************************************************************************)

MemoryInv == MemoryTypeOK /\ SequencesOrder

LEMMA MemoryInvInit == MemoryInit => MemoryInv
  BY MemoryTypeInit DEF MemoryInit, MemoryInv, SequencesOrder, Ordered, NoMark

\* Forgetting entries, and the passing of time, keep a table in order.
LEMMA FewerKeepsOrder ==
    ASSUME NEW table, NEW fewer \in SUBSET table, NEW last, Ordered(table, last),
           now' = now
    PROVE  Ordered(fewer, last)'
  BY DEF Ordered

LEMMA RecordKeepsOrder ==
    ASSUME MemoryInv, NEW f \in Flavors, UNCHANGED now,
           recordQuotaRejection(f) \/ recordFlavorRejection(f)
    PROVE  /\ Ordered(quotaRejections, quotaRejectionSeq)'
           /\ Ordered(rejectedFlavors, holdOutSeq)'
           /\ quotaRejectionSeq' \in Nat /\ quotaRejectionSeq' >= quotaRejectionSeq
           /\ holdOutSeq' \in Nat /\ holdOutSeq' >= holdOutSeq
<1> USE DEF MemoryInv, MemoryTypeOK, SequencesOrder
<1>1. CASE recordQuotaRejection(f)
  <2>1. Ordered(Put(quotaRejections, [flavor |-> f, at |-> now, seq |-> quotaRejectionSeq + 1]),
                quotaRejectionSeq + 1)
    BY PutKeepsOrder DEF Entry
  <2> QED BY <1>1, <2>1 DEF recordQuotaRejection, Ordered
<1>2. CASE recordFlavorRejection(f)
  <2>1. Ordered(Put(rejectedFlavors, [flavor |-> f, at |-> now, seq |-> holdOutSeq + 1]),
                holdOutSeq + 1)
    BY PutKeepsOrder DEF Entry
  <2> QED BY <1>2, <2>1 DEF recordFlavorRejection, Ordered
<1> QED BY <1>1, <1>2

LEMMA MemoryInvStep == MemoryInv /\ [MemoryNext]_memory => MemoryInv'
<1> SUFFICES ASSUME MemoryInv, [MemoryNext]_memory PROVE SequencesOrder'
  BY MemoryTypeStep DEF MemoryInv
<1>t. MemoryTypeOK'
  BY MemoryTypeStep DEF MemoryInv
<1> USE DEF NoMark
<1>1. ASSUME NEW f \in Flavors, recordQuotaRejection(f) \/ recordFlavorRejection(f),
             UNCHANGED now, UNCHANGED deleteMark,
             \A c \in Callers : launchMark'[c] \in {launchMark[c], NoMark}
      PROVE  SequencesOrder'
  <2>1. /\ Ordered(quotaRejections, quotaRejectionSeq)'
        /\ Ordered(rejectedFlavors, holdOutSeq)'
        /\ quotaRejectionSeq' \in Nat /\ quotaRejectionSeq' >= quotaRejectionSeq
        /\ holdOutSeq' \in Nat /\ holdOutSeq' >= holdOutSeq
    BY <1>1, RecordKeepsOrder
  <2> QED BY <1>1, <2>1 DEF SequencesOrder, MemoryInv, MemoryTypeOK
<1>2. ASSUME NEW c \in Callers, CallerStep(c) PROVE SequencesOrder'
  <2> USE DEF MemoryInv, MemoryTypeOK
  <2>1. CASE SendDelete(c)
    BY <2>1 DEF SendDelete, tables, SequencesOrder, Ordered
  <2>2. CASE DeleteClears(c)
    <3>1. Ordered(quotaRejections, quotaRejectionSeq)'
      BY <2>2, FewerKeepsOrder DEF DeleteClears, clearQuotaRejections, SequencesOrder, Ordered
    <3> QED BY <2>2, <3>1 DEF DeleteClears, clearQuotaRejections, SequencesOrder, Ordered
  <2>3. CASE DeleteKeeps(c)
    BY <2>3 DEF DeleteKeeps, tables, SequencesOrder, Ordered
  <2>4. CASE MarkLaunch(c)
    BY <2>4 DEF MarkLaunch, tables, SequencesOrder, Ordered
  <2>5. CASE LaunchEnds(c)
    BY <2>5 DEF LaunchEnds, tables, SequencesOrder, Ordered
  <2>6. ASSUME NEW f \in Flavors, LaunchAccepted(c, f) PROVE SequencesOrder'
    BY <2>6 DEF LaunchAccepted, clearFlavorRejection, SequencesOrder, Ordered
  <2>7. ASSUME NEW f \in Flavors, LaunchRefused(c, f) PROVE SequencesOrder'
    BY <2>7, <1>1 DEF LaunchRefused
  <2>8. ASSUME NEW f \in Flavors, LaunchVanished(c, f) PROVE SequencesOrder'
    BY <2>8, <1>1 DEF LaunchVanished
  <2> QED BY <1>2, <2>1, <2>2, <2>3, <2>4, <2>5, <2>6, <2>7, <2>8 DEF CallerStep
<1>3. ASSUME NEW f \in Flavors, QuotaRejected(f) \/ FlavorRefused(f)
      PROVE  SequencesOrder'
  BY <1>3, <1>1 DEF QuotaRejected, FlavorRefused
<1>4. CASE Tick
  BY <1>4 DEF Tick, tables, SequencesOrder, Ordered, MemoryInv, MemoryTypeOK, Entry
<1>5. CASE Restart
  BY <1>5 DEF Restart, SequencesOrder, Ordered
<1>6. CASE UNCHANGED memory
  BY <1>6 DEF memory, tables, SequencesOrder, Ordered, MemoryInv
<1> QED BY <1>2, <1>3, <1>4, <1>5, <1>6 DEF MemoryNext

\* Sequence numbers order the entries of each table, and no mark is ahead.
THEOREM SequencesAlwaysOrder == MemorySpec => []SequencesOrder
<1>1. MemoryInv => SequencesOrder
  BY DEF MemoryInv
<1> QED BY <1>1, MemoryInvInit, MemoryInvStep, PTL DEF MemorySpec

-----------------------------------------------------------------------------
(***************************************************************************)
(* Coverage.                                                               *)
(***************************************************************************)

LEMMA CoversTheLarger ==
    ASSUME MemoryTypeOK, NEW f \in Flavors, NEW g \in Flavors, Larger(g, f),
           NEW r \in Covering(f)
    PROVE  r \in Covering(g)
<1>1. AtLeast(g, r.flavor) /\ r.flavor # g
  <2>1. CASE r.flavor = f
    BY <2>1 DEF Larger
  <2>2. CASE r.flavor # f
    <3>1. AtLeast(f, r.flavor)
      BY <2>2 DEF Covering, Covers
    <3> QED BY <3>1, AtLeastTransitive DEF Larger
  <2> QED BY <2>1, <2>2
<1>2. r.at \in Nat /\ now \in Nat
  BY DEF MemoryTypeOK, Entry, Covering
<1>3. now < CoveredUntil(r, f)
  BY DEF Covering
<1>4. CoveredUntil(r, f) <= CoveredUntil(r, g)
  BY <1>1, <1>2, BackoffAssumption DEF CoveredUntil
<1>5. now < CoveredUntil(r, g)
  BY <1>1, <1>2, <1>3, BackoffAssumption DEF CoveredUntil
<1> QED BY <1>1, <1>5 DEF Covering, Covers

\* Whatever was rejected, cleared or expired, in any order, a flavor larger
\* than an unavailable one is unavailable.
THEOREM LargerFlavorsAlwaysWait == MemorySpec => []LargerFlavorsWait
<1>1. MemoryTypeOK => LargerFlavorsWait
  BY CoversTheLarger DEF LargerFlavorsWait, QuotaUnavailable
<1> QED BY <1>1, MemoryTypeCorrect, PTL

-----------------------------------------------------------------------------
(***************************************************************************)
(* The tables implement the ledgers.  First, lemmas about a table in order *)
(* and the marks of the callers: what each of them keeps after a step.     *)
(***************************************************************************)

\* No entry is below the mark of a caller with no call in flight.
LEMMA AllAfterNoMark ==
    ASSUME NEW table, NEW last \in Nat, Ordered(table, last)
    PROVE  After(table, NoMark) = table
  BY DEF Ordered, After, NoMark

\* Nothing is after a mark that has just been taken.
LEMMA NoneAfterLast ==
    ASSUME NEW table, NEW last \in Nat, Ordered(table, last)
    PROVE  Remembered(After(table, last)) = {}
<1>1. After(table, last) = {}
  BY DEF Ordered, After
<1> QED BY <1>1 DEF Remembered

\* An entry put in the table is after every mark.
LEMMA RememberedPut ==
    ASSUME NEW table, NEW f, NEW t, NEW last \in Nat, NEW mark \in Nat \cup {NoMark},
           mark <= last
    PROVE  Remembered(After(Put(table, [flavor |-> f, at |-> t, seq |-> last + 1]), mark))
             = {e \in Remembered(After(table, mark)) : e.flavor # f}
                 \cup {[flavor |-> f, at |-> t]}
<1> DEFINE new == [flavor |-> f, at |-> t, seq |-> last + 1]
<1>1. new.seq > mark
  BY DEF NoMark
<1>2. After(Put(table, new), mark) = {e \in After(table, mark) : e.flavor # f} \cup {new}
  BY <1>1 DEF After, Put
<1> QED BY <1>2 DEF Remembered

Marks(marks, last) ==
    /\ marks \in [Callers -> Nat \cup {NoMark}]
    /\ \A c \in Callers : marks[c] <= last

\* The table and what the callers keep of it after a refusal of f is recorded,
\* which may end the calls of some, ...
Recorded(table, marks, f, t, later, laterMarks) ==
    LET others(rest) == {e \in rest : e.flavor # f}
        new == [flavor |-> f, at |-> t]
    IN  /\ Remembered(later) = others(Remembered(table)) \cup {new}
        /\ \A c \in Callers :
              Remembered(After(later, laterMarks[c]))
                = IF laterMarks[c] # NoMark
                    THEN others(Remembered(After(table, marks[c]))) \cup {new}
                    ELSE Remembered(later)

\* ... and after c's answer releases the flavors in S recorded up to its mark.
Forgotten(table, marks, c, S, later, laterMarks) ==
    /\ Remembered(later)
         = {e \in Remembered(table) : e.flavor \notin S
                                      \/ e \in Remembered(After(table, marks[c]))}
    /\ \A d \in Callers :
          Remembered(After(later, laterMarks[d]))
            = IF laterMarks[d] # NoMark
                THEN Remembered(After(table, marks[d])) \cap Remembered(later)
                ELSE Remembered(later)

Left(table, S, mark) == {e \in table : e.flavor \notin S \/ e.seq > mark}

LEMMA PutInLedger ==
    ASSUME NEW table, NEW last \in Nat, Ordered(table, last),
           NEW marks, Marks(marks, last),
           NEW f, NEW t, NEW later,
           later = Put(table, [flavor |-> f, at |-> t, seq |-> last + 1]),
           NEW laterMarks, \A c \in Callers : laterMarks[c] \in {marks[c], NoMark}
    PROVE  Recorded(table, marks, f, t, later, laterMarks)
<1>1. /\ After(table, NoMark) = table
      /\ After(later, NoMark) = later
  BY DEF Ordered, After, Put, NoMark
<1>2. Remembered(later) = {e \in Remembered(table) : e.flavor # f}
                             \cup {[flavor |-> f, at |-> t]}
  <2>1. Remembered(After(later, NoMark))
          = {e \in Remembered(After(table, NoMark)) : e.flavor # f}
              \cup {[flavor |-> f, at |-> t]}
    BY RememberedPut DEF NoMark
  <2> QED BY <1>1, <2>1
<1>3. ASSUME NEW c \in Callers, laterMarks[c] # NoMark
      PROVE  Remembered(After(later, laterMarks[c]))
               = {e \in Remembered(After(table, marks[c])) : e.flavor # f}
                   \cup {[flavor |-> f, at |-> t]}
  <2>1. laterMarks[c] = marks[c] /\ marks[c] \in Nat \cup {NoMark} /\ marks[c] <= last
    BY <1>3 DEF Marks
  <2> QED BY <2>1, RememberedPut DEF NoMark
<1> QED BY <1>1, <1>2, <1>3 DEF Recorded

LEMMA ForgetInLedger ==
    ASSUME NEW table, NEW last \in Nat, Ordered(table, last),
           NEW marks, Marks(marks, last),
           NEW c \in Callers, marks[c] # NoMark,
           NEW S, NEW later,
           later = Left(table, S, marks[c]),
           NEW laterMarks, laterMarks = [marks EXCEPT ![c] = NoMark]
    PROVE  Forgotten(table, marks, c, S, later, laterMarks)
<1> USE DEF Left
<1>1. \A e, d \in table : e.flavor = d.flavor => e = d
  BY DEF Ordered
<1>2. Remembered(later)
        = {e \in Remembered(table) : e.flavor \notin S
                                     \/ e \in Remembered(After(table, marks[c]))}
  BY <1>1 DEF Remembered, After
<1>3. ASSUME NEW d \in Callers
      PROVE  Remembered(After(later, marks[d]))
               = Remembered(After(table, marks[d])) \cap Remembered(later)
  <2>1. ASSUME NEW e \in After(table, marks[d]), NEW b \in later, e.flavor = b.flavor
        PROVE  e \in After(later, marks[d])
    BY <1>1, <2>1 DEF After
  <2> QED BY <2>1 DEF Remembered, After
<1>4. After(later, NoMark) = later
  BY DEF Ordered, After, NoMark
<1>5. ASSUME NEW d \in Callers
      PROVE  laterMarks[d] = IF d = c THEN NoMark ELSE marks[d]
  BY DEF Marks
<1> QED BY <1>2, <1>3, <1>4, <1>5 DEF Forgotten

LEMMA MarksInOrder ==
    ASSUME MemoryInv
    PROVE  /\ Marks(deleteMark, quotaRejectionSeq) /\ Marks(launchMark, holdOutSeq)
           /\ Ordered(quotaRejections, quotaRejectionSeq) /\ quotaRejectionSeq \in Nat
           /\ Ordered(rejectedFlavors, holdOutSeq) /\ holdOutSeq \in Nat
  BY DEF MemoryInv, MemoryTypeOK, SequencesOrder, Marks

-----------------------------------------------------------------------------
(***************************************************************************)
(* The quota rejections.                                                   *)
(***************************************************************************)

LEMMA QuotaLedgerInit == MemoryInit => QuotaLedger!Init
  BY DEF MemoryInit, QuotaLedger!Init, Remembered, After

LEMMA QuotaRecorded ==
    ASSUME MemoryInv, NEW f \in Flavors, recordQuotaRejection(f),
           UNCHANGED <<now, deleteMark>>
    PROVE  QuotaLedger!Record(f, {})
<1>1. \A c \in Callers : deleteMark'[c] \in {deleteMark[c], NoMark}
  OBVIOUS
<1>2. quotaRejections' = Put(quotaRejections,
          [flavor |-> f, at |-> now, seq |-> quotaRejectionSeq + 1])
  BY DEF recordQuotaRejection
<1>3. Recorded(quotaRejections, deleteMark, f, now, quotaRejections', deleteMark')
  BY <1>1, <1>2, MarksInOrder, PutInLedger
<1> QED BY <1>3 DEF Recorded, QuotaLedger!Record, QuotaLedger!Keeping

LEMMA QuotaForgotten ==
    ASSUME MemoryInv, NEW c \in Callers, NEW S \in SUBSET Flavors,
           deleteMark[c] # NoMark,
           deleteMark' = [deleteMark EXCEPT ![c] = NoMark],
           UNCHANGED now,
           quotaRejections' = Left(quotaRejections, S, deleteMark[c])
    PROVE  QuotaLedger!Forget(c, S)
<1>1. Forgotten(quotaRejections, deleteMark, c, S, quotaRejections', deleteMark')
  BY MarksInOrder, ForgetInLedger
<1>2. {d \in Callers : deleteMark'[d] # NoMark} = {d \in Callers : deleteMark[d] # NoMark} \ {c}
  BY DEF MemoryInv, MemoryTypeOK
<1> QED BY <1>1, <1>2 DEF Forgotten, QuotaLedger!Forget, QuotaLedger!Keeping

LEMMA QuotaBegun ==
    ASSUME MemoryInv, NEW c \in Callers, SendDelete(c)
    PROVE  QuotaLedger!Begin(c)
<1>1. Remembered(After(quotaRejections, quotaRejectionSeq)) = {}
  BY MarksInOrder, NoneAfterLast
<1>2. quotaRejectionSeq # NoMark
  BY MarksInOrder DEF NoMark
<1>3. /\ deleteMark[c] = NoMark
      /\ deleteMark' = [deleteMark EXCEPT ![c] = quotaRejectionSeq]
      /\ UNCHANGED <<now, quotaRejections>>
  BY DEF SendDelete, tables
<1>4. \A d \in Callers : deleteMark'[d] = IF d = c THEN quotaRejectionSeq ELSE deleteMark[d]
  BY <1>3 DEF MemoryInv, MemoryTypeOK
<1>5. {d \in Callers : deleteMark'[d] # NoMark}
        = {d \in Callers : deleteMark[d] # NoMark} \cup {c}
  BY <1>2, <1>4
<1>6. \A d \in Callers : Remembered(After(quotaRejections', deleteMark'[d]))
        = IF d = c THEN {} ELSE Remembered(After(quotaRejections, deleteMark[d]))
  BY <1>1, <1>3, <1>4
<1> QED BY <1>3, <1>5, <1>6 DEF QuotaLedger!Begin

LEMMA QuotaLedgerStep ==
    ASSUME MemoryInv, [MemoryNext]_memory
    PROVE  [QuotaLedger!Next]_(QuotaLedger!vars)
<1>0. ASSUME UNCHANGED <<now, quotaRejections, deleteMark>>
      PROVE  UNCHANGED QuotaLedger!vars
  BY <1>0 DEF QuotaLedger!vars
<1>1. ASSUME NEW c \in Callers, CallerStep(c) PROVE [QuotaLedger!Next]_(QuotaLedger!vars)
  <2>1. CASE SendDelete(c)
    BY <2>1, QuotaBegun DEF QuotaLedger!Next
  <2>2. CASE DeleteClears(c)
    <3>1. QuotaLedger!Forget(c, Flavors)
      <4>1. quotaRejections' = Left(quotaRejections, Flavors, deleteMark[c])
        BY <2>2 DEF Left, DeleteClears, clearQuotaRejections, MemoryInv, MemoryTypeOK, Entry
      <4> QED BY <2>2, <4>1, QuotaForgotten DEF DeleteClears
    <3> QED BY <3>1 DEF QuotaLedger!Next
  <2>3. CASE DeleteKeeps(c)
    <3>1. PICK S \in SUBSET Flavors : S = {}
      OBVIOUS
    <3>2. quotaRejections' = Left(quotaRejections, S, deleteMark[c])
      BY <2>3, <3>1 DEF DeleteKeeps, tables, Left
    <3>3. QuotaLedger!Forget(c, S)
      BY <2>3, <3>2, QuotaForgotten DEF DeleteKeeps
    <3> QED BY <3>3 DEF QuotaLedger!Next
  <2>4. ASSUME NEW f \in Flavors, LaunchVanished(c, f)
        PROVE  [QuotaLedger!Next]_(QuotaLedger!vars)
    <3>1. QuotaLedger!Record(f, {})
      BY <2>4, QuotaRecorded DEF LaunchVanished
    <3> QED BY <3>1 DEF QuotaLedger!Next
  <2>5. CASE MarkLaunch(c) \/ LaunchEnds(c)
    BY <2>5, <1>0 DEF MarkLaunch, LaunchEnds, tables
  <2>6. ASSUME NEW f \in Flavors, LaunchAccepted(c, f) \/ LaunchRefused(c, f)
        PROVE  [QuotaLedger!Next]_(QuotaLedger!vars)
    BY <2>6, <1>0 DEF LaunchAccepted, LaunchRefused, clearFlavorRejection,
                      recordFlavorRejection
  <2> QED BY <1>1, <2>1, <2>2, <2>3, <2>4, <2>5, <2>6 DEF CallerStep
<1>2. ASSUME NEW f \in Flavors, QuotaRejected(f) PROVE QuotaLedger!Next
  BY <1>2, QuotaRecorded DEF QuotaRejected, QuotaLedger!Next
<1>3. ASSUME NEW f \in Flavors, FlavorRefused(f) PROVE UNCHANGED QuotaLedger!vars
  BY <1>3, <1>0 DEF FlavorRefused, recordFlavorRejection
<1>4. CASE Tick
  <2>1. QuotaLedger!Tick
    BY <1>4 DEF Tick, tables, QuotaLedger!Tick
  <2> QED BY <2>1 DEF QuotaLedger!Next
<1>5. CASE Restart
  <2>1. QuotaLedger!Lose
    BY <1>5 DEF Restart, QuotaLedger!Lose, Remembered, After
  <2> QED BY <2>1 DEF QuotaLedger!Next
<1>6. CASE UNCHANGED memory
  BY <1>6, <1>0 DEF memory, tables
<1> QED BY <1>1, <1>2, <1>3, <1>4, <1>5, <1>6 DEF MemoryNext

\* The quota rejections are a ledger: an accepted DELETE forgets none that was
\* recorded after it was sent, and only such a DELETE forgets any.
THEOREM QuotaRejectionsImplementLedger == MemorySpec => QuotaRejectionsLedger
<1>1. MemoryInv /\ [MemoryNext]_memory => [QuotaLedger!Next]_(QuotaLedger!vars)
  BY QuotaLedgerStep
<1> QED BY <1>1, QuotaLedgerInit, MemoryInvInit, MemoryInvStep, PTL
        DEF MemorySpec, QuotaRejectionsLedger, QuotaLedger!Spec

-----------------------------------------------------------------------------
(***************************************************************************)
(* The hold-outs.                                                          *)
(***************************************************************************)

LEMMA HoldOutLedgerInit == MemoryInit => HoldOutLedger!Init
  BY DEF MemoryInit, HoldOutLedger!Init, Remembered, After

LEMMA HoldOutRecorded ==
    ASSUME MemoryInv, NEW f \in Flavors, recordFlavorRejection(f), UNCHANGED now,
           NEW ended \in SUBSET {c \in Callers : launchMark[c] # NoMark},
           launchMark' = [c \in Callers |-> IF c \in ended THEN NoMark ELSE launchMark[c]]
    PROVE  HoldOutLedger!Record(f, ended)
<1>1. \A c \in Callers : launchMark'[c] \in {launchMark[c], NoMark}
  OBVIOUS
<1>2. rejectedFlavors' = Put(rejectedFlavors,
          [flavor |-> f, at |-> now, seq |-> holdOutSeq + 1])
  BY DEF recordFlavorRejection
<1>3. Recorded(rejectedFlavors, launchMark, f, now, rejectedFlavors', launchMark')
  BY <1>1, <1>2, MarksInOrder, PutInLedger
<1>4. {c \in Callers : launchMark'[c] # NoMark}
        = {c \in Callers : launchMark[c] # NoMark} \ ended
  OBVIOUS
<1> QED BY <1>3, <1>4 DEF Recorded, HoldOutLedger!Record, HoldOutLedger!Keeping

LEMMA HoldOutForgotten ==
    ASSUME MemoryInv, NEW c \in Callers, NEW S \in SUBSET Flavors,
           launchMark[c] # NoMark,
           launchMark' = [launchMark EXCEPT ![c] = NoMark],
           UNCHANGED now,
           rejectedFlavors' = Left(rejectedFlavors, S, launchMark[c])
    PROVE  HoldOutLedger!Forget(c, S)
<1>1. Forgotten(rejectedFlavors, launchMark, c, S, rejectedFlavors', launchMark')
  BY MarksInOrder, ForgetInLedger
<1>2. {d \in Callers : launchMark'[d] # NoMark} = {d \in Callers : launchMark[d] # NoMark} \ {c}
  BY DEF MemoryInv, MemoryTypeOK
<1> QED BY <1>1, <1>2 DEF Forgotten, HoldOutLedger!Forget, HoldOutLedger!Keeping

LEMMA HoldOutBegun ==
    ASSUME MemoryInv, NEW c \in Callers, MarkLaunch(c)
    PROVE  HoldOutLedger!Begin(c)
<1>1. Remembered(After(rejectedFlavors, holdOutSeq)) = {}
  BY MarksInOrder, NoneAfterLast
<1>2. holdOutSeq # NoMark
  BY MarksInOrder DEF NoMark
<1>3. /\ launchMark[c] = NoMark
      /\ launchMark' = [launchMark EXCEPT ![c] = holdOutSeq]
      /\ UNCHANGED <<now, rejectedFlavors>>
  BY DEF MarkLaunch, tables
<1>4. \A d \in Callers : launchMark'[d] = IF d = c THEN holdOutSeq ELSE launchMark[d]
  BY <1>3 DEF MemoryInv, MemoryTypeOK
<1>5. {d \in Callers : launchMark'[d] # NoMark}
        = {d \in Callers : launchMark[d] # NoMark} \cup {c}
  BY <1>2, <1>4
<1>6. \A d \in Callers : Remembered(After(rejectedFlavors', launchMark'[d]))
        = IF d = c THEN {} ELSE Remembered(After(rejectedFlavors, launchMark[d]))
  BY <1>1, <1>3, <1>4
<1> QED BY <1>3, <1>5, <1>6 DEF HoldOutLedger!Begin

LEMMA HoldOutLedgerStep ==
    ASSUME MemoryInv, [MemoryNext]_memory
    PROVE  [HoldOutLedger!Next]_(HoldOutLedger!vars)
<1>0. ASSUME UNCHANGED <<now, rejectedFlavors, launchMark>>
      PROVE  UNCHANGED HoldOutLedger!vars
  BY <1>0 DEF HoldOutLedger!vars
<1>t. launchMark \in [Callers -> Nat \cup {NoMark}]
  BY DEF MemoryInv, MemoryTypeOK
\* A launch that ends without a verdict releases nothing.
<1>e. ASSUME NEW c \in Callers, launchMark[c] # NoMark,
             launchMark' = [launchMark EXCEPT ![c] = NoMark],
             UNCHANGED <<now, rejectedFlavors>>
      PROVE  HoldOutLedger!Next
  <2>1. PICK S \in SUBSET Flavors : S = {}
    OBVIOUS
  <2>2. rejectedFlavors' = Left(rejectedFlavors, S, launchMark[c])
    BY <1>e, <2>1 DEF Left
  <2>3. HoldOutLedger!Forget(c, S)
    BY <1>e, <2>2, HoldOutForgotten
  <2> QED BY <2>3 DEF HoldOutLedger!Next
<1>1. ASSUME NEW c \in Callers, CallerStep(c)
      PROVE  [HoldOutLedger!Next]_(HoldOutLedger!vars)
  <2>1. CASE MarkLaunch(c)
    BY <2>1, HoldOutBegun DEF HoldOutLedger!Next
  <2>2. CASE LaunchEnds(c)
    BY <2>2, <1>e DEF LaunchEnds, tables
  <2>3. ASSUME NEW f \in Flavors, LaunchAccepted(c, f) PROVE HoldOutLedger!Next
    <3>1. rejectedFlavors' = Left(rejectedFlavors, {f}, launchMark[c])
      BY <2>3 DEF LaunchAccepted, clearFlavorRejection, Left
    <3>2. HoldOutLedger!Forget(c, {f})
      BY <2>3, <3>1, HoldOutForgotten DEF LaunchAccepted
    <3> QED BY <3>2 DEF HoldOutLedger!Next
  <2>4. ASSUME NEW f \in Flavors, LaunchRefused(c, f) PROVE HoldOutLedger!Next
    <3>1. launchMark' = [d \in Callers |-> IF d \in {c} THEN NoMark ELSE launchMark[d]]
      BY <2>4, <1>t DEF LaunchRefused
    <3>2. HoldOutLedger!Record(f, {c})
      BY <2>4, <3>1, HoldOutRecorded DEF LaunchRefused
    <3> QED BY <3>2 DEF HoldOutLedger!Next
  <2>5. ASSUME NEW f \in Flavors, LaunchVanished(c, f) PROVE HoldOutLedger!Next
    BY <2>5, <1>e DEF LaunchVanished, recordQuotaRejection
  <2>6. CASE SendDelete(c) \/ DeleteClears(c) \/ DeleteKeeps(c)
    BY <2>6, <1>0 DEF SendDelete, DeleteClears, DeleteKeeps, clearQuotaRejections, tables
  <2> QED BY <1>1, <2>1, <2>2, <2>3, <2>4, <2>5, <2>6 DEF CallerStep
<1>2. ASSUME NEW f \in Flavors, FlavorRefused(f) PROVE HoldOutLedger!Next
  <2>1. PICK ended \in SUBSET {c \in Callers : launchMark[c] # NoMark} : ended = {}
    OBVIOUS
  <2>2. launchMark' = [c \in Callers |-> IF c \in ended THEN NoMark ELSE launchMark[c]]
    BY <1>2, <1>t, <2>1 DEF FlavorRefused
  <2>3. HoldOutLedger!Record(f, ended)
    BY <1>2, <2>2, HoldOutRecorded DEF FlavorRefused
  <2> QED BY <2>3 DEF HoldOutLedger!Next
<1>3. ASSUME NEW f \in Flavors, QuotaRejected(f) PROVE UNCHANGED HoldOutLedger!vars
  BY <1>3, <1>0 DEF QuotaRejected, recordQuotaRejection
<1>4. CASE Tick
  <2>1. HoldOutLedger!Tick
    BY <1>4 DEF Tick, tables, HoldOutLedger!Tick
  <2> QED BY <2>1 DEF HoldOutLedger!Next
<1>5. CASE Restart
  <2>1. HoldOutLedger!Lose
    BY <1>5 DEF Restart, HoldOutLedger!Lose, Remembered, After
  <2> QED BY <2>1 DEF HoldOutLedger!Next
<1>6. CASE UNCHANGED memory
  BY <1>6, <1>0 DEF memory, tables
<1> QED BY <1>1, <1>2, <1>3, <1>4, <1>5, <1>6 DEF MemoryNext

\* The hold-outs are a ledger: an accepted launch forgets none that was
\* recorded after its create call, and nothing else forgets any.
THEOREM HoldOutsImplementLedger == MemorySpec => HoldOutsLedger
<1>1. MemoryInv /\ [MemoryNext]_memory => [HoldOutLedger!Next]_(HoldOutLedger!vars)
  BY HoldOutLedgerStep
<1> QED BY <1>1, HoldOutLedgerInit, MemoryInvInit, MemoryInvStep, PTL
        DEF MemorySpec, HoldOutsLedger, HoldOutLedger!Spec


-----------------------------------------------------------------------------
(***************************************************************************)
(* The probe.                                                              *)
(***************************************************************************)

\* A set of numbers has a least one.
LEMMA LeastExists ==
    ASSUME NEW T \in SUBSET Nat, T # {}
    PROVE  \E x \in T : \A y \in T : x <= y
<1> DEFINE R == OpToRel(<, Nat)
<1>1. IsWellFoundedOn(R, Nat)
  BY NatLessThanWellFounded
<1>2. \A x, y \in Nat : y < x => <<y, x>> \in R
  BY DEF OpToRel
<1> HIDE DEF R
<1>3. PICK x \in T : \A y \in T : ~ (<<y, x>> \in R)
  BY <1>1, WFMin
<1>4. \A y \in T : ~(y < x)
  BY <1>2, <1>3
<1> QED BY <1>4

\* No two flavors are of one size, as in the built-in catalogue.
SizesDiffer == \A f, g \in Flavors : AtLeast(f, g) /\ AtLeast(g, f) => f = g

Magnitude(f) == Sizing[f].cpu + Sizing[f].memory

LEMMA LargerIsGreater ==
    ASSUME NEW f, NEW g, Larger(f, g)
    PROVE  Magnitude(f) \in Nat /\ Magnitude(g) \in Nat /\ Magnitude(g) < Magnitude(f)
<1>1. /\ Sizing[f] \in [cpu : Nat, memory : Nat]
      /\ Sizing[g] \in [cpu : Nat, memory : Nat]
  BY SizingAssumption DEF Larger, AtLeast
<1> QED BY <1>1 DEF Larger, AtLeast, Magnitude

\* Of the rejections that keep g waiting when the clock reopens it, take one of
\* the smallest flavor, r.  Its own window has long passed, and a rejection that
\* covers it is one of a smaller flavor that would keep g waiting as well.
LEMMA TickReopensAfterProbe ==
    ASSUME MemoryInv, SizesDiffer, Tick, NEW g \in Flavors,
           \E r \in Covering(g) : r.flavor # g,
           ~QuotaUnavailable(g)'
    PROVE  \E r \in Covering(g) : Larger(g, r.flavor) /\ ~QuotaUnavailable(r.flavor)
<1> DEFINE others == {r \in Covering(g) : r.flavor # g}
<1>t. /\ now \in Nat /\ now' = now + 1 /\ quotaRejections' = quotaRejections
      /\ \A r \in quotaRejections : r.flavor \in Flavors /\ r.at \in Nat
      /\ QuotaBackoff \in Nat /\ QuotaBackoff > 0
  BY BackoffAssumption DEF MemoryInv, MemoryTypeOK, Entry, Tick, tables
<1>1. \A r \in others : /\ r \in quotaRejections /\ AtLeast(g, r.flavor)
                        /\ now < r.at + 2 * QuotaBackoff
  BY DEF Covering, Covers, CoveredUntil
<1>2. \A r \in others : r.at + 2 * QuotaBackoff = now + 1
  <2> SUFFICES ASSUME NEW r \in others PROVE r.at + 2 * QuotaBackoff = now + 1
    OBVIOUS
  <2>1. r \notin Covering(g)'
    BY DEF QuotaUnavailable
  <2>2. ~(now' < r.at + 2 * QuotaBackoff)
    BY <1>t, <1>1, <2>1 DEF Covering, Covers, CoveredUntil
  <2> QED BY <1>t, <1>1, <2>2
<1>3. \A r \in others : Larger(g, r.flavor)
  BY <1>t, <1>1 DEF Larger, SizesDiffer
<1>4. PICK r \in others : \A q \in others : Magnitude(r.flavor) <= Magnitude(q.flavor)
  <2> DEFINE T == {Magnitude(r.flavor) : r \in others}
  <2>1. T \in SUBSET Nat /\ T # {}
    BY <1>3, LargerIsGreater
  <2>2. PICK x \in T : \A y \in T : x <= y
    BY <2>1, LeastExists
  <2> QED BY <2>2
<1>5. ASSUME NEW q \in Covering(r.flavor) PROVE FALSE
  <2>q. /\ q \in quotaRejections /\ Covers(q, r.flavor)
        /\ now < CoveredUntil(q, r.flavor)
    BY <1>5 DEF Covering
  <2>1. CASE q.flavor = r.flavor
    <3>1. q = r
      BY <1>1, <2>q, <2>1 DEF MemoryInv, SequencesOrder, Ordered
    <3>2. now < r.at + QuotaBackoff
      BY <2>q, <3>1 DEF CoveredUntil
    <3> QED BY <1>t, <1>1, <1>2, <3>2
  <2>2. CASE q.flavor # r.flavor
    <3>1. AtLeast(r.flavor, q.flavor) /\ now < q.at + 2 * QuotaBackoff
      BY <2>q, <2>2 DEF Covers, CoveredUntil
    <3>2. Larger(r.flavor, q.flavor)
      BY <1>t, <1>1, <2>q, <2>2, <3>1 DEF Larger, SizesDiffer
    <3>3. AtLeast(g, q.flavor)
      BY <1>1, <3>1, AtLeastTransitive
    <3>4. q.flavor # g
      BY <1>3, <3>1 DEF Larger
    <3>5. q \in others
      BY <2>q, <3>1, <3>3, <3>4 DEF Covering, Covers, CoveredUntil
    <3> QED BY <1>4, <3>2, <3>5, LargerIsGreater
  <2> QED BY <2>1, <2>2
<1> QED BY <1>3, <1>5 DEF QuotaUnavailable

\* "the larger flavors wait twice as long": with a catalogue in which no two
\* flavors are of one size, time alone reopens a flavor that smaller ones'
\* rejections have closed only after a smaller one, the cheaper probe, has been
\* available.
THEOREM ProbesReopenFirst == SizesDiffer => (MemorySpec => ProbeReopensFirst)
<1> SUFFICES ASSUME SizesDiffer PROVE MemorySpec => ProbeReopensFirst
  OBVIOUS
<1>1. ASSUME MemoryInv, [MemoryNext]_memory, NEW g \in Flavors
      PROVE  ReopensAfterProbe(g)
  <2>1. CASE now' > now
    <3>1. Tick
      <4>1. now \in Nat
        BY <1>1 DEF MemoryInv, MemoryTypeOK
      <4>2. Tick \/ now' = now
        BY <1>1 DEF MemoryNext, CallerStep, SendDelete, DeleteClears, DeleteKeeps,
           MarkLaunch, LaunchEnds, LaunchAccepted, LaunchRefused, LaunchVanished,
           QuotaRejected, FlavorRefused, Restart, memory
      <4> QED BY <2>1, <4>1, <4>2
    <3> QED BY <1>1, <3>1, TickReopensAfterProbe DEF ReopensAfterProbe
  <2> QED BY <2>1 DEF ReopensAfterProbe
<1>2. MemoryInv /\ [MemoryNext]_memory => \A g \in Flavors : ReopensAfterProbe(g)
  BY <1>1
<1> QED BY <1>2, MemoryInvInit, MemoryInvStep, PTL DEF MemorySpec, ProbeReopensFirst

=============================================================================
