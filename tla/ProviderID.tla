----------------------------- MODULE ProviderID -----------------------------
(***************************************************************************)
(* The providerid controller (pkg/controllers/providerid/controller.go).   *)
(* It stamps the provider ID, which names the NodeGroup, on the node that  *)
(* joins for it.  Something outside karpenter can resize a group; then one *)
(* node carries the ID and the others stay inert, which includes losing    *)
(* the label karpenter.sh/nodepool an old group may have given them.       *)
(*                                                                         *)
(* One worker reconciles one node at a time, from the informer's copy of   *)
(* the node; only the siblings are read from the API server.  The log's    *)
(* deduplication is left out.                                              *)
(***************************************************************************)
EXTENDS Integers

CONSTANTS
    Nodes,      \* names of nodes
    NodeGroups,
    GroupOf,    \* the group each node carries the name of
    Managed,    \* the groups karpenter has created
    NoNode

ASSUME ProviderIDAssumption ==
    /\ GroupOf \in [Nodes -> NodeGroups]
    /\ Managed \subseteq NodeGroups
    /\ NoNode \notin Nodes

VARIABLES
    nodes,      \* the Node objects
    cached,     \* the informer's copies
    worker      \* local state of Controller.Reconcile

pidVars == <<nodes, cached, worker>>

\* stamped: spec.providerID is that of the node's group.  pool: the node
\* carries karpenter.sh/nodepool.
Node == [present : BOOLEAN, stamped : BOOLEAN, pool : BOOLEAN]

Absent == [present |-> FALSE, stamped |-> FALSE, pool |-> FALSE]

\* pool is the label on the copy the worker has read.
Worker == [pc : {"idle", "list", "stamp", "strip"}, node : Nodes \cup {NoNode},
           pool : BOOLEAN]

Resting == [pc |-> "idle", node |-> NoNode, pool |-> FALSE]

PIDTypeOK ==
    /\ nodes \in [Nodes -> Node]
    /\ cached \in [Nodes -> Node]
    /\ worker \in Worker
    /\ worker.pc # "idle" => worker.node \in Nodes /\ GroupOf[worker.node] \in Managed

PIDInit ==
    /\ nodes = [x \in Nodes |-> Absent]
    /\ cached = nodes
    /\ worker = Resting

ManagedNodes == {x \in Nodes : GroupOf[x] \in Managed}

Siblings(x) == {y \in Nodes \ {x} : GroupOf[y] = GroupOf[x]}

\* Another node of the group carries the ID.
Taken(x) == \E y \in Siblings(x) : nodes[y].stamped

-----------------------------------------------------------------------------
(***************************************************************************)
(* The platform, core and the informer.                                    *)
(***************************************************************************)

\* The object of one node is written.
Write(x, node) == nodes' = [nodes EXCEPT ![x] = node]

\* A machine joins; the group's immutable labels may include the pool's.
Join(x) ==
    /\ ~nodes[x].present
    /\ \E p \in BOOLEAN : Write(x, [present |-> TRUE, stamped |-> FALSE, pool |-> p])
    /\ UNCHANGED <<cached, worker>>

Leave(x) ==
    /\ nodes[x].present
    /\ Write(x, Absent)
    /\ UNCHANGED <<cached, worker>>

\* core registers the node it finds by its ID, and syncs its labels.
Register(x) ==
    /\ nodes[x].stamped /\ ~nodes[x].pool
    /\ Write(x, [nodes[x] EXCEPT !.pool = TRUE])
    /\ UNCHANGED <<cached, worker>>

SyncNode(x) ==
    /\ cached[x] # nodes[x]
    /\ cached' = [cached EXCEPT ![x] = nodes[x]]
    /\ UNCHANGED <<nodes, worker>>

-----------------------------------------------------------------------------
(***************************************************************************)
(* Controller.Reconcile.                                                   *)
(***************************************************************************)

\* Mutant of Reconcile: users' groups are stamped too.
ReconcileAny(x) ==
    /\ worker.pc = "idle"
    /\ cached[x].present /\ ~cached[x].stamped
    /\ worker' = [pc |-> "list", node |-> x, pool |-> cached[x].pool]
    /\ UNCHANGED <<nodes, cached>>

\* An event on a node without an ID, of a managed group.
Reconcile(x) ==
    /\ worker.pc = "idle"
    /\ cached[x].present /\ ~cached[x].stamped
    /\ GroupOf[x] \in Managed
    /\ worker' = [pc |-> "list", node |-> x, pool |-> cached[x].pool]
    /\ UNCHANGED <<nodes, cached>>

Rest == worker' = Resting

\* The worker learns whether the ID is taken.
Listed(x, taken) ==
    /\ worker.pc = "list" /\ worker.node = x
    /\ worker' = IF ~taken THEN [worker EXCEPT !.pc = "stamp"]
                 ELSE IF worker.pool THEN [worker EXCEPT !.pc = "strip"] ELSE Resting
    /\ UNCHANGED <<nodes, cached>>

\* Mutant of ListSiblings: the siblings are read from the cache.
ListSiblingsCached(x) == Listed(x, \E y \in Siblings(x) : cached[y].stamped)

\* Mutant of ListSiblings: the node counts as its own sibling.
ListSiblingsItself(x) == Listed(x, Taken(x) \/ nodes[x].stamped)

\* Mutant of ListSiblings: a group of several nodes is not stamped at all.
ListSiblingsResized(x) == Listed(x, \E y \in Siblings(x) : nodes[y].present)

\* Mutant of ListSiblings: a node refused the ID is left as it is.
ListSiblingsOnly(x) ==
    /\ worker.pc = "list" /\ worker.node = x
    /\ worker' = IF ~Taken(x) THEN [worker EXCEPT !.pc = "stamp"] ELSE Resting
    /\ UNCHANGED <<nodes, cached>>

\* The uncached list of the group's nodes.
ListSiblings(x) == Listed(x, Taken(x))

\* The patch sets the ID only, on whatever node now has that name; its answer
\* may be lost.
Stamp(x) ==
    /\ worker.pc = "stamp" /\ worker.node = x
    /\ nodes[x].present
    /\ Write(x, [nodes[x] EXCEPT !.stamped = TRUE])
    /\ Rest
    /\ UNCHANGED cached

\* stripNodePoolLabel: a merge patch that removes only that key.
Strip(x) ==
    /\ worker.pc = "strip" /\ worker.node = x
    /\ nodes[x].present
    /\ Write(x, [nodes[x] EXCEPT !.pool = FALSE])
    /\ Rest
    /\ UNCHANGED cached

\* A read or a patch fails, or the process restarts.
ReconcileFails ==
    /\ worker.pc # "idle"
    /\ Rest
    /\ UNCHANGED <<nodes, cached>>

PIDNext ==
    \/ \E x \in Nodes :
          \/ Join(x) \/ Leave(x) \/ Register(x) \/ SyncNode(x)
          \/ Reconcile(x) \/ ListSiblings(x) \/ Stamp(x) \/ Strip(x)
    \/ ReconcileFails

PIDSpec == PIDInit /\ [][PIDNext]_pidVars

\* A kubelet keeps updating its node, so events keep coming; calls return
\* and succeed now and then, and the watch delivers.
FairPID ==
    /\ PIDSpec
    /\ WF_pidVars(ReconcileFails)
    /\ \A x \in ManagedNodes :
          /\ WF_pidVars(SyncNode(x)) /\ SF_pidVars(Reconcile(x))
          /\ SF_pidVars(ListSiblings(x)) /\ SF_pidVars(Stamp(x)) /\ SF_pidVars(Strip(x))

-----------------------------------------------------------------------------
(***************************************************************************)
(* Properties.                                                             *)
(***************************************************************************)

\* "exactly one node keeps the ID and the extras are left inert": two nodes on
\* one provider ID would make core delete the claim and every VM of the group.
UniqueProviderID ==
    \A x, y \in Nodes :
        nodes[x].stamped /\ nodes[y].stamped /\ GroupOf[x] = GroupOf[y] => x = y

\* "the node holding the provider ID got the label from core's registration
\* sync and keeps it": however stale the copy that was reconciled.
HolderKeepsPool ==
    [][\A x \in Nodes :
          nodes[x].stamped /\ nodes[x].pool /\ nodes'[x].stamped
          => nodes'[x].pool]_pidVars

\* A node whose group has no holder of the ID gets it, or one of its siblings
\* does: a group is never left without because it was resized.
Unserved(x) ==
    nodes[x].present /\ ~nodes[x].stamped /\ ~Taken(x)

NodesServed == \A x \in ManagedNodes : Unserved(x) ~> ~Unserved(x)

\* A node refused the ID does not keep karpenter.sh/nodepool, which would keep
\* core's cluster state from syncing.
Wedging(x) ==
    nodes[x].present /\ ~nodes[x].stamped /\ nodes[x].pool /\ Taken(x)

ExtrasStripped == \A x \in ManagedNodes : Wedging(x) ~> ~Wedging(x)

=============================================================================
