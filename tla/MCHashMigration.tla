-------------------------- MODULE MCHashMigration --------------------------
(***************************************************************************)
(* Instance of HashMigration.                                              *)
(***************************************************************************)
EXTENDS HashMigration

CONSTANTS a, team, partOf, malformed

Write(labels) == [labels |-> labels, declared |-> TRUE]

\* With a key that is delivered and a legacy one or one that fails validation
\* beside it, and without labels in the two ways.
Written == {Write({team, partOf}), Write({team, malformed}),
            Write({}), [labels |-> {}, declared |-> FALSE]}
=============================================================================
