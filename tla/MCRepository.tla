--------------------------- MODULE MCRepository ---------------------------
(* Small instances of Repository with Serialization for TLC.               *)
EXTENDS Serialization, TLC

CONSTANTS a, b, c

\* b is built on a, c on a, on b or on both.
Layers == [i \in IDs |-> IF i = a THEN {} ELSE IF i = b THEN {a} ELSE {a, b}]

\* Clients save a and then what may be built on it.
Pairs == {<<a, b>>}

Symmetric == Permutations(Wrappers)
=============================================================================
