--------------------------- MODULE MCDiskPromise ---------------------------
(***************************************************************************)
(* An instance of DiskPromise, whose figures keep the proportions of the   *)
(* real ones.                                                              *)
(***************************************************************************)
EXTENDS DiskPromise, TLC

CONSTANTS Small, Large, node, stranger, g, empty, users

Seed == [f \in {Small} |-> [cpu |-> 4, memory |-> 44]]

\* Small's memory is pinned.
Pins == [f \in {Small} |-> [cpu |-> 0, memory |-> 40]]

NewDisk == [capacity |-> 20, allocatable |-> 18]
OldDisk == [capacity |-> 8, allocatable |-> 7]

\* A user's node, and a managed group that has no node yet.
Named == [n \in Nodes |-> IF n = stranger THEN users ELSE g]
GroupFlavors == [x \in {g, empty, users} |-> IF x = g THEN Small ELSE Large]

Report(memory, allocatable, pods, disk) ==
    [capacity |-> [cpu |-> 4, memory |-> memory, pods |-> pods]
                  @@ ("ephemeral-storage" :> disk.capacity),
     allocatable |-> [cpu |-> 4, memory |-> allocatable, pods |-> pods]
                  @@ ("ephemeral-storage" :> disk.allocatable)]

\* An old worker; a new one on another image, with less memory and a smaller
\* reserve; one whose disk is neither the old one nor the new one; an allocatable
\* that only the previous report makes plausible; too few pods; an inconsistent
\* report.
Reported == {Report(37, 29, 11, OldDisk),
             Report(37, 29, 11, [capacity |-> 19, allocatable |-> 17]),
             Report(40, 28, 11, [capacity |-> 12, allocatable |-> 11]),
             Report(40, 26, 11, NewDisk), Report(40, 30, 9, NewDisk),
             Report(40, 30, 11, [capacity |-> 18, allocatable |-> 19])}

Hosts == {[capacity |-> 30, allocatable |-> 27], [capacity |-> 10, allocatable |-> 9],
          [capacity |-> 30, allocatable |-> 31]}
=============================================================================
