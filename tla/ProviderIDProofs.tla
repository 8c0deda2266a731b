-------------------------- MODULE ProviderIDProofs --------------------------
(***************************************************************************)
(* Theorems about ProviderID, for any nodes and groups.                    *)
(*                                                                         *)
(* Uniqueness is not inductive: between its list and its patch the worker  *)
(* relies on what the list said.  PIDInv adds that, for both answers.      *)
(***************************************************************************)
EXTENDS ProviderID, TLAPS

\* What the worker has been told still holds when it patches: no sibling has
\* the ID, or the node is not the one that has it.
AnswersHold ==
    /\ worker.pc = "stamp" => ~Taken(worker.node)
    /\ worker.pc = "strip" => ~nodes[worker.node].stamped

PIDInv == PIDTypeOK /\ UniqueProviderID /\ AnswersHold

-----------------------------------------------------------------------------
\* At start no node is there and the worker rests.
LEMMA InvInit == PIDInit => PIDInv
  BY ProviderIDAssumption
     DEF PIDInit, PIDInv, PIDTypeOK, UniqueProviderID, AnswersHold, Node,
         Absent, Worker, Resting

\* What a write to one node leaves.
LEMMA NodeWritten ==
  ASSUME nodes \in [Nodes -> Node], NEW x \in Nodes, NEW node \in Node,
         Write(x, node)
  PROVE  /\ nodes' \in [Nodes -> Node]
         /\ nodes'[x] = node
         /\ \A y \in Nodes \ {x} : nodes'[y] = nodes[y]
  BY DEF Write

\* The nodes the steps write are nodes.
LEMMA NodeParts ==
  ASSUME NEW node \in Node
  PROVE  /\ node.stamped \in BOOLEAN /\ node.pool \in BOOLEAN
         /\ Absent \in Node
         /\ \A p \in BOOLEAN : [present |-> TRUE, stamped |-> FALSE, pool |-> p] \in Node
         /\ [node EXCEPT !.pool = TRUE] \in Node
         /\ [node EXCEPT !.pool = FALSE] \in Node
         /\ [node EXCEPT !.stamped = TRUE] \in Node
  BY DEF Node, Absent

\* The steps that stamp no node: what they write.
LEMMA NoneStamped ==
  ASSUME nodes \in [Nodes -> Node], NEW x \in Nodes,
         Join(x) \/ Leave(x) \/ Register(x) \/ Strip(x)
  PROVE  /\ nodes' \in [Nodes -> Node]
         /\ \A y \in Nodes : nodes'[y].stamped => nodes[y].stamped
<1>0. nodes[x] \in Node
  OBVIOUS
<1>1. CASE Join(x)
  <2>1. PICK p \in BOOLEAN : Write(x, [present |-> TRUE, stamped |-> FALSE, pool |-> p])
    BY <1>1 DEF Join
  <2>2. [present |-> TRUE, stamped |-> FALSE, pool |-> p] \in Node
    BY <1>0, NodeParts
  <2> QED
    BY <2>1, <2>2, NodeWritten
<1>2. CASE Leave(x)
  <2>1. Write(x, Absent) /\ Absent \in Node
    BY <1>0, <1>2, NodeParts DEF Leave
  <2> QED
    BY <2>1, NodeWritten DEF Absent
<1>3. CASE Register(x)
  <2>1. [nodes[x] EXCEPT !.pool = TRUE] \in Node
    BY <1>0, NodeParts
  <2>2. [nodes[x] EXCEPT !.pool = TRUE].stamped = nodes[x].stamped
    BY <1>0 DEF Node
  <2> QED
    BY <1>3, <2>1, <2>2, NodeWritten DEF Register
<1>4. CASE Strip(x)
  <2>1. [nodes[x] EXCEPT !.pool = FALSE] \in Node
    BY <1>0, NodeParts
  <2>2. [nodes[x] EXCEPT !.pool = FALSE].stamped = nodes[x].stamped
    BY <1>0 DEF Node
  <2> QED
    BY <1>4, <2>1, <2>2, NodeWritten DEF Strip
<1> QED
  BY <1>1, <1>2, <1>3, <1>4

\* The step that stamps one.
LEMMA OneStamped ==
  ASSUME nodes \in [Nodes -> Node], NEW x \in Nodes, Stamp(x)
  PROVE  /\ nodes' \in [Nodes -> Node]
         /\ nodes'[x].pool = nodes[x].pool
         /\ \A y \in Nodes \ {x} : nodes'[y] = nodes[y]
<1>1. nodes[x] \in Node /\ [nodes[x] EXCEPT !.stamped = TRUE] \in Node
  BY NodeParts
<1>2. [nodes[x] EXCEPT !.stamped = TRUE].pool = nodes[x].pool
  BY <1>1 DEF Node
<1> QED
  BY <1>1, <1>2, NodeWritten DEF Stamp

-----------------------------------------------------------------------------
\* Every step keeps the types.
LEMMA TypeStep == PIDTypeOK /\ [PIDNext]_pidVars => PIDTypeOK'
<1> USE ProviderIDAssumption DEF PIDTypeOK
<1> SUFFICES ASSUME PIDTypeOK, [PIDNext]_pidVars PROVE PIDTypeOK'
  OBVIOUS
<1>1. ASSUME NEW x \in Nodes, Join(x) \/ Leave(x) \/ Register(x) PROVE PIDTypeOK'
  <2>1. UNCHANGED <<cached, worker>>
    BY <1>1 DEF Join, Leave, Register
  <2> QED
    BY <1>1, <2>1, NoneStamped
<1>2. ASSUME NEW x \in Nodes, SyncNode(x) PROVE PIDTypeOK'
  BY <1>2 DEF SyncNode
<1>3. ASSUME NEW x \in Nodes, Reconcile(x) PROVE PIDTypeOK'
  <2>1. cached[x].pool \in BOOLEAN
    BY NodeParts
  <2> QED
    BY <1>3, <2>1 DEF Reconcile, Worker
<1>4. ASSUME NEW x \in Nodes, ListSiblings(x) PROVE PIDTypeOK'
  BY <1>4 DEF ListSiblings, Listed, Resting, Worker
<1>5. ASSUME NEW x \in Nodes, Strip(x) PROVE PIDTypeOK'
  <2>1. worker' = Resting /\ UNCHANGED cached
    BY <1>5 DEF Strip, Rest
  <2> QED
    BY <1>5, <2>1, NoneStamped DEF Resting, Worker
<1>6. ASSUME NEW x \in Nodes, Stamp(x) PROVE PIDTypeOK'
  <2>1. worker' = Resting /\ UNCHANGED cached
    BY <1>6 DEF Stamp, Rest
  <2> QED
    BY <1>6, <2>1, OneStamped DEF Resting, Worker
<1>7. CASE ReconcileFails
  BY <1>7 DEF ReconcileFails, Rest, Resting, Worker
<1>8. CASE UNCHANGED pidVars
  BY <1>8 DEF pidVars
<1> QED
  BY <1>1, <1>2, <1>3, <1>4, <1>5, <1>6, <1>7, <1>8 DEF PIDNext

\* Every step keeps the invariant.
LEMMA InvStep == PIDInv /\ [PIDNext]_pidVars => PIDInv'
<1> SUFFICES ASSUME PIDInv, [PIDNext]_pidVars
             PROVE  UniqueProviderID' /\ AnswersHold'
  BY TypeStep DEF PIDInv
<1> USE DEF PIDInv
<1>0. nodes \in [Nodes -> Node]
  BY DEF PIDTypeOK
<1>1. ASSUME NEW x \in Nodes, Join(x) \/ Leave(x) \/ Register(x)
      PROVE  UniqueProviderID' /\ AnswersHold'
  <2>1. UNCHANGED worker
    BY <1>1 DEF Join, Leave, Register
  <2>2. \A y \in Nodes : nodes'[y].stamped => nodes[y].stamped
    BY <1>0, <1>1, NoneStamped
  <2>3. worker.pc \in {"stamp", "strip"} => worker.node \in Nodes
    BY DEF PIDTypeOK
  <2> QED
    BY <2>1, <2>2, <2>3 DEF UniqueProviderID, AnswersHold, Taken, Siblings
<1>2. CASE UNCHANGED <<nodes, worker>>
  BY <1>2 DEF UniqueProviderID, AnswersHold, Taken
<1>3. ASSUME NEW x \in Nodes, Reconcile(x)
      PROVE  UniqueProviderID' /\ AnswersHold'
  BY <1>3 DEF Reconcile, UniqueProviderID, AnswersHold
<1>4. ASSUME NEW x \in Nodes, ListSiblings(x)
      PROVE  UniqueProviderID' /\ AnswersHold'
  <2>1. UNCHANGED nodes /\ worker.node = x
    BY <1>4 DEF ListSiblings, Listed
  <2>2. UniqueProviderID'
    BY <2>1 DEF UniqueProviderID
  <2>3. worker'.pc = "stamp" => worker'.node = x /\ ~Taken(x)
    BY <1>4, <2>1 DEF ListSiblings, Listed, Resting, PIDTypeOK, Worker
  <2>4. worker'.pc = "strip" => worker'.node = x /\ Taken(x)
    BY <1>4, <2>1 DEF ListSiblings, Listed, Resting, PIDTypeOK, Worker
  <2>5. Taken(x) => ~nodes[x].stamped
    BY DEF Taken, Siblings, UniqueProviderID
  <2> QED
    BY <2>1, <2>2, <2>3, <2>4, <2>5 DEF AnswersHold, Taken
<1>5. ASSUME NEW x \in Nodes, Stamp(x)
      PROVE  UniqueProviderID' /\ AnswersHold'
  <2>1. worker' = Resting /\ ~Taken(x)
    BY <1>5 DEF Stamp, Rest, AnswersHold
  <2>2. \A y \in Nodes \ {x} : nodes'[y] = nodes[y]
    BY <1>0, <1>5, OneStamped
  <2>3. UniqueProviderID'
    BY <2>1, <2>2 DEF UniqueProviderID, Taken, Siblings
  <2> QED
    BY <2>1, <2>3 DEF AnswersHold, Resting
<1>6. ASSUME NEW x \in Nodes, Strip(x)
      PROVE  UniqueProviderID' /\ AnswersHold'
  <2>1. worker' = Resting
    BY <1>6 DEF Strip, Rest
  <2>2. \A y \in Nodes : nodes'[y].stamped => nodes[y].stamped
    BY <1>0, <1>6, NoneStamped
  <2> QED
    BY <2>1, <2>2 DEF Resting, UniqueProviderID, AnswersHold
<1>7. CASE ReconcileFails
  BY <1>7 DEF ReconcileFails, Rest, Resting, UniqueProviderID, AnswersHold
<1> QED
  BY <1>1, <1>2, <1>3, <1>4, <1>5, <1>6, <1>7
     DEF PIDNext, SyncNode, pidVars

\* The invariant holds throughout.
LEMMA InvAlways == PIDSpec => []PIDInv
  BY InvInit, InvStep, PTL DEF PIDSpec

-----------------------------------------------------------------------------
\* The nodes, the copies and the worker keep their types, and the worker is
\* only ever busy with nodes of managed groups.
THEOREM PIDTypeCorrect == PIDSpec => []PIDTypeOK
  BY InvAlways, PTL DEF PIDInv

\* No two nodes of a group ever carry its provider ID, however many machines
\* join, in whatever order they come and go, and however stale the cache.
THEOREM ProviderIDsUnique == PIDSpec => []UniqueProviderID
  BY InvAlways, PTL DEF PIDInv

\* No step takes the pool's label from the node that holds the ID.
LEMMA HolderStep ==
  ASSUME PIDInv, [PIDNext]_pidVars, NEW x \in Nodes,
         nodes[x].stamped, nodes[x].pool, nodes'[x].stamped
  PROVE  nodes'[x].pool
<1>0. nodes \in [Nodes -> Node] /\ nodes[x] \in Node
  BY DEF PIDInv, PIDTypeOK
<1>1. ASSUME NEW y \in Nodes, Join(y) PROVE nodes'[x].pool
  <2>1. PICK p \in BOOLEAN : Write(y, [present |-> TRUE, stamped |-> FALSE, pool |-> p])
    BY <1>1 DEF Join
  <2>2. [present |-> TRUE, stamped |-> FALSE, pool |-> p] \in Node
    BY <1>0, NodeParts
  <2> QED
    BY <1>0, <2>1, <2>2, NodeWritten
<1>2. ASSUME NEW y \in Nodes, Leave(y) PROVE nodes'[x].pool
  <2>1. Write(y, Absent) /\ Absent \in Node
    BY <1>0, <1>2, NodeParts DEF Leave
  <2> QED
    BY <1>0, <2>1, NodeWritten DEF Absent
<1>3. ASSUME NEW y \in Nodes, Register(y) PROVE nodes'[x].pool
  <2>1. nodes[y] \in Node /\ [nodes[y] EXCEPT !.pool = TRUE] \in Node
    BY <1>0, NodeParts
  <2>2. [nodes[y] EXCEPT !.pool = TRUE].pool
    BY <2>1 DEF Node
  <2> QED
    BY <1>0, <1>3, <2>1, <2>2, NodeWritten DEF Register
<1>4. ASSUME NEW y \in Nodes, Stamp(y) PROVE nodes'[x].pool
  BY <1>0, <1>4, OneStamped
<1>5. ASSUME NEW y \in Nodes, Strip(y) PROVE nodes'[x].pool
  <2>1. x # y
    BY <1>5 DEF Strip, PIDInv, AnswersHold
  <2>2. nodes[y] \in Node /\ [nodes[y] EXCEPT !.pool = FALSE] \in Node
    BY <1>0, NodeParts
  <2> QED
    BY <1>0, <1>5, <2>1, <2>2, NodeWritten DEF Strip
<1>6. CASE UNCHANGED nodes
  BY <1>6
<1> QED
  BY <1>1, <1>2, <1>3, <1>4, <1>5, <1>6
     DEF PIDNext, SyncNode, Reconcile, ListSiblings, Listed, ReconcileFails, pidVars

\* The holder of the ID keeps karpenter.sh/nodepool.
THEOREM HoldersKeepPool == PIDSpec => HolderKeepsPool
<1>1. PIDInv /\ [PIDNext]_pidVars =>
        [\A x \in Nodes : nodes[x].stamped /\ nodes[x].pool /\ nodes'[x].stamped
                            => nodes'[x].pool]_pidVars
  BY HolderStep
<1> QED
  BY <1>1, InvAlways, PTL DEF PIDSpec, HolderKeepsPool

=============================================================================
