-------------------------- MODULE MCRepositoryXL --------------------------
(* Small instances of RepositoryXL for TLC.                                *)
EXTENDS RepositoryXL, TLC

CONSTANTS a, b

\* b is built on a.
Layers == [i \in IDs |-> IF i = a THEN {} ELSE {a}]

Symmetric ==
    Permutations(Wrappers) \cup Permutations(Cells) \cup Permutations(Ranges)
=============================================================================
