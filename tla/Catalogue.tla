----------------------------- MODULE Catalogue -----------------------------
(***************************************************************************)
(* What the rest of the provider asks of the flavor catalogue              *)
(* (pkg/providers/instancetype/instancetype.go): the sizes a quota         *)
(* rejection compares, and which flavors the NodeGroup API admits.         *)
(* The catalogue is fixed at start-up, so both are constants.              *)
(***************************************************************************)
EXTENDS Integers

CONSTANTS
    Flavors,    \* flavor names
    Sizing      \* sizes of the flavors the catalogue can size

ASSUME SizingAssumption ==
    /\ DOMAIN Sizing \subseteq Flavors
    /\ \A f \in DOMAIN Sizing : Sizing[f] \in [cpu : Nat, memory : Nat]

\* Whatever capacity g does not fit in, f does not fit in either.  Never true
\* of a flavor the catalogue cannot size.
AtLeast(f, g) ==
    /\ {f, g} \subseteq DOMAIN Sizing
    /\ Sizing[f].cpu >= Sizing[g].cpu
    /\ Sizing[f].memory >= Sizing[g].memory

\* At least as large, and not the same size.
Larger(f, g) == AtLeast(f, g) /\ ~AtLeast(g, f)

=============================================================================
