---------------------------- MODULE ObjectStore ----------------------------
(***************************************************************************)
(* What the object repository promises its clients, whatever wrappers,     *)
(* flags and registrations it keeps to do so: a store of formulas.  Under  *)
(* an ID there is the formula its object was built from, own arguments and *)
(* the IDs of precedents, and retrieving an ID evaluates the formula, with *)
(* those of its precedents, as they are then.                              *)
(***************************************************************************)

CONSTANTS
    IDs,  \* object IDs
    Args, \* the arguments of a formula that are not precedents
    None  \* no formula, no answer

VARIABLES
    formulas, \* the formula stored under an ID
    returned  \* the answer of the last call: None, or an ID and its value

vars == <<formulas, returned>>

Formulas == [arg : Args, precs : SUBSET IDs]

\* The precedents of ID i now.
Precedents(i) == IF formulas[i] = None THEN {} ELSE formulas[i].precs

\* The IDs the value of i depends on: the smallest set that holds i and the
\* precedents of its members.
Ancestry(i) ==
    {j \in IDs : \A T \in SUBSET IDs :
        i \in T /\ (\A k \in T : Precedents(k) \subseteq T) => j \in T}

\* All that i depends on is there.
Defined(i) == \A j \in Ancestry(i) : formulas[j] # None

\* The value of i is told by the arguments that went into it.
Value(i) == [j \in IDs |-> IF j \in Ancestry(i) THEN {formulas[j].arg} ELSE {}]

-----------------------------------------------------------------------------
\* A formula whose precedents all have values is stored, or takes the place of
\* another.
Store(i, f) ==
    /\ formulas' = [formulas EXCEPT ![i] = f]
    /\ \A p \in f.precs : Defined(p)
    /\ UNCHANGED returned

\* Formulas are deleted, of which no other makes use.
Delete(D) ==
    /\ formulas' = [i \in IDs |-> IF i \in D THEN None ELSE formulas[i]]
    /\ \A i \in IDs \ D : Precedents(i) \cap D = {}
    /\ returned' = None

\* A call returns the value of i.
Retrieve(i) ==
    /\ UNCHANGED formulas
    /\ Defined(i)
    /\ returned' = [id |-> i, state |-> Value(i)]

\* A call begins, or fails, and changes nothing.
Forget ==
    /\ returned' = None
    /\ UNCHANGED formulas

Init ==
    /\ formulas = [i \in IDs |-> None]
    /\ returned = None

Next ==
    \/ Forget
    \/ \E i \in IDs, f \in Formulas : Store(i, f)
    \/ \E D \in SUBSET IDs : Delete(D)
    \/ \E i \in IDs : Retrieve(i)

Spec == Init /\ [][Next]_vars
=============================================================================
