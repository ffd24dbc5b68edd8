--------------------------- MODULE MCLazyObject ---------------------------
(* Graphs of lazy objects for TLC.                                         *)
EXTENDS LazyObject

CONSTANTS q1, A, B, C, h1, e1

\* One quote feeds A and B, C reads both, an eager observer reads C: the
\* graph in which notification order matters.  B may read A too, C the quote
\* itself, and the eager observer one of the inner objects.
Diamonds ==
    {[n \in Readers |-> IF n = A THEN {q1} ELSE IF n = B THEN b
                        ELSE IF n = C THEN {A, B} \cup c ELSE {C} \cup e] :
        b \in {{q1}, {q1, A}}, c \in {{}, {q1}}, e \in {{}, {A}, {B}}}

\* C reads A, and through a handle A again, the quote or nothing.
Linked ==
    {[n \in Readers |-> IF n = A THEN {q1} ELSE IF n = C THEN c ELSE {C} \cup e] :
        c \in {{h1}, {A, h1}}, e \in {{}, {h1}}}
=============================================================================
