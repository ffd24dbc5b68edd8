---------------------------- MODULE Repository ----------------------------
(***************************************************************************)
(* The object repository of ObjectHandler (and of reposit, its renamed     *)
(* copy): ObjectHandler/oh/repository.cpp, objectwrapper.hpp and           *)
(* serializationfactory.cpp.                                               *)
(*                                                                         *)
(* The repository maps an ID to an ObjectWrapper, which holds an Object    *)
(* built from arguments, some of which are the IDs of other objects, its   *)
(* precedents.  A wrapper observes the wrappers of its precedents: when    *)
(* one of them changes it becomes dirty, and so do the wrappers that       *)
(* observe it.  A dirty object is recreated from its arguments when it is  *)
(* next retrieved, which first retrieves, and may recreate, its precedents.*)
(*                                                                         *)
(* Wrappers are heap objects of their own: deleting an ID drops the map's  *)
(* reference only, and the wrapper lives on while dependents observe it.   *)
(* The state of an Object is abstracted to its provenance: for every ID,   *)
(* the own arguments of the objects under that ID that went into it.       *)
(***************************************************************************)
EXTENDS Naturals, Sequences

CONSTANTS
    IDs,        \* object IDs
    Wrappers,   \* heap addresses of ObjectWrappers
    Args,       \* the arguments of an object that are not precedents
    None,       \* an ID that is not in the map, a wrapper with no object
    Below,      \* Below[i]: the precedents clients give an object stored as i
    Permanents, \* the IDs under which clients store permanent objects
    MayDeleteUsed \* clients delete objects that others have as precedents

ASSUME BelowAssumption ==
    /\ Below \in [IDs -> SUBSET IDs]
    /\ Permanents \subseteq IDs
    /\ None \notin Wrappers
    /\ MayDeleteUsed \in BOOLEAN

VARIABLES
    objectMap,   \* Repository::objectMap_
    object,      \* ObjectWrapper::object_, with its ValueObject
    dirty,       \* ObjectWrapper::dirty_
    observables, \* Observer::observables_ of a wrapper; Observable::observers_
                 \* is its inverse (ObserverPattern!RegistrationsAgree)
    calls,       \* the call stack: what is being built, innermost first
    returned     \* what the last call returned: None, or an ID and its object

vars == <<objectMap, object, dirty, observables, calls, returned>>

-----------------------------------------------------------------------------
Provenances == [IDs -> SUBSET Args]
Nothing == [i \in IDs |-> {}]
Merge(r, s) == [i \in IDs |-> r[i] \cup s[i]]
Own(id, arg) == [i \in IDs |-> IF i = id THEN {arg} ELSE {}]

\* An Object with its ValueObject: ID, own arguments, the precedents among the
\* arguments, those of them listed (ValueObject::precedentIDs_), and its state.
Objects == [id : IDs, arg : Args, precs : SUBSET IDs, listed : SUBSET IDs, state : Provenances]

\* The store of formulas that the repository implements (ObjectStore) has some of
\* its own.
Formulas == [arg : Args, precs : SUBSET IDs]

ASSUME NoneAssumption == None \notin Objects \cup Formulas

Stored == {i \in IDs : objectMap[i] # None}
Exists(i) == objectMap[i] # None
ObjectOf(i) == object[objectMap[i]]

\* The smallest set that holds Seed and whatever is next to its members.
Closure(S, Seed, next) ==
    {x \in S : \A T \in SUBSET S :
        Seed \subseteq T /\ (\A y \in T : next[y] \subseteq T) => x \in T}

ObserversOf(w) == {x \in Wrappers : w \in observables[x]}

\* Mutant: update() does not pass the notification on.
DirectDependents(w) == ObserversOf(w)

\* The wrappers that update() makes dirty when w notifies its observers: each
\* passes the notification on before it sets its own flag.
Dependents(w) ==
    Closure(Wrappers, ObserversOf(w), [x \in Wrappers |-> ObserversOf(x)])

\* Mutant: the map does not own its wrappers, only observers do.
LiveIfObserved(map, obs) == {w \in Wrappers : \E x \in Wrappers : w \in obs[x]}

\* Mutant: wrappers are never destroyed.
LiveForever(map, obs) == Wrappers

\* The wrappers that shared pointers keep alive: those in map, and those they
\* observe.
Live(map, obs) == Closure(Wrappers, {map[i] : i \in IDs} \ {None}, obs)

\* The map becomes map and the registrations obs; wrappers that nothing holds
\* any more are destroyed, which undoes their registrations.
Rebind(map, obs, objs) ==
    LET live == Live(map, obs)
    IN  /\ objectMap' = map
        /\ observables' = [x \in Wrappers |-> IF x \in live THEN obs[x] ELSE {}]
        /\ object' = [x \in Wrappers |-> IF x \in live THEN objs[x] ELSE None]

Idle == calls = <<>>
Throw == calls' = <<>> /\ returned' = None

-----------------------------------------------------------------------------
(* Retrieval.                                                              *)

Frame(op, id, arg, precs, left, overwrite) ==
    [op |-> op, id |-> id, arg |-> arg, precs |-> precs, listed |-> precs, left |-> left,
     state |-> Nothing, overwrite |-> overwrite]

\* A client function retrieves object i.
Retrieve(i) ==
    /\ Idle
    /\ calls' = <<Frame("retrieve", i, None, {}, {i}, FALSE)>>
    /\ returned' = None
    /\ UNCHANGED <<objectMap, object, dirty, observables>>

\* A client function builds an object: it retrieves the precedents, constructs
\* the object and stores it under ID i.
Create(i, arg, precs, overwrite) ==
    /\ Idle
    /\ precs \subseteq Below[i]
    /\ calls' = <<Frame("create", i, arg, precs, precs, overwrite)>>
    /\ returned' = None
    /\ UNCHANGED <<objectMap, object, dirty, observables>>

Top == calls[1]
Running(op) == ~Idle /\ Top.op = op

\* Repository::retrieveObjectImpl for an object the running function needs.
\* An unknown ID throws through all the frames, none of which changes anything
\* on the way out; a dirty object is first recreated.
retrieveObjectImpl(p) ==
    /\ ~Idle
    /\ p \in Top.left
    /\ \/ ~Exists(p) /\ Throw
       \/ /\ Exists(p) /\ dirty[objectMap[p]]
          /\ LET o == ObjectOf(p)
             IN  calls' = <<[Frame("recreate", p, o.arg, o.precs, o.precs, FALSE)
                             EXCEPT !.listed = o.listed]>> \o calls
          /\ UNCHANGED returned
       \/ /\ Exists(p) /\ ~dirty[objectMap[p]]
          /\ calls' = <<[Top EXCEPT !.left = @ \ {p},
                                    !.state = Merge(@, ObjectOf(p).state)]>> \o Tail(calls)
          /\ UNCHANGED returned
    /\ UNCHANGED <<objectMap, object, dirty, observables>>

\* What the creator of the top frame has built.
Built == [id |-> Top.id, arg |-> Top.arg, precs |-> Top.precs, listed |-> Top.listed,
          state |-> Merge(Own(Top.id, Top.arg), Top.state)]

\* ObjectWrapper::recreate, once the creator has all the precedents.
recreate ==
    /\ Running("recreate") /\ Top.left = {}
    /\ LET w == objectMap[Top.id]
       IN  /\ object' = [object EXCEPT ![w] = Built]
           /\ dirty' = [dirty EXCEPT ![w] = FALSE]
    /\ calls' = Tail(calls)
    /\ UNCHANGED <<objectMap, observables, returned>>

RetrieveEnd ==
    /\ Running("retrieve") /\ Top.left = {}
    /\ calls' = <<>>
    /\ returned' = [id |-> Top.id, state |-> Top.state]
    /\ UNCHANGED <<objectMap, object, dirty, observables>>

-----------------------------------------------------------------------------
(* Storing and deleting.                                                   *)

\* Mutant: the dependents are not notified.
ResetSilently(w) == [x \in Wrappers |-> x # w /\ dirty[x]]

\* ObjectWrapper::reset: the dependents of w become dirty, w itself is not.
Reset(w) == [x \in Wrappers |-> x # w /\ (dirty[x] \/ x \in Dependents(w))]

\* Mutant: the registrations of the replaced object stay.
RegisteredToo(map, w, precs) ==
    [observables EXCEPT ![w] = @ \cup {map[p] : p \in precs}]

\* Repository::registerObserver: w observes the wrappers of its precedents only.
Registered(map, w, precs) == [observables EXCEPT ![w] = {map[p] : p \in precs}]

\* Repository::storeObject of the object just built.
storeObject ==
    /\ Running("create") /\ Top.left = {}
    /\ IF Exists(Top.id)
       THEN IF Top.overwrite
            THEN LET w == objectMap[Top.id]
                 IN  /\ dirty' = Reset(w)
                     /\ Rebind(objectMap, Registered(objectMap, w, Top.listed),
                               [object EXCEPT ![w] = Built])
                     /\ calls' = Tail(calls)
                     /\ UNCHANGED returned
            ELSE Throw /\ UNCHANGED <<objectMap, object, dirty, observables>>
       ELSE \E w \in Wrappers :
               LET map == [objectMap EXCEPT ![Top.id] = w]
               IN  /\ object[w] = None
                   /\ dirty' = [dirty EXCEPT ![w] = FALSE]
                   /\ Rebind(map, Registered(map, w, Top.listed),
                             [object EXCEPT ![w] = Built])
                   /\ calls' = Tail(calls)
                   /\ UNCHANGED returned

\* The IDs in D may go: unless clients delete freely, no other object on the heap
\* has them as precedents, neither one that is stored nor one that others keep
\* alive.
Deletable(D) ==
    \/ MayDeleteUsed
    \/ \A w \in Wrappers \ {objectMap[i] : i \in D} :
          object[w] # None => object[w].precs \cap D = {}

Erase(D) ==
    Rebind([i \in IDs |-> IF i \in D THEN None ELSE objectMap[i]], observables, object)

\* deleteObject(list): IDs are deleted in order until one is unknown, which
\* throws.  A list of one is deleteObject(id).
deleteObject(list) ==
    /\ Idle
    /\ LET done == {k \in DOMAIN list : \A j \in 1..k : Exists(list[j])}
           gone == {list[k] : k \in done}
       IN  Deletable(gone) /\ Erase(gone)
    /\ returned' = None
    /\ UNCHANGED <<dirty, calls>>

deleteAllObjects(deletePermanent) ==
    /\ Idle
    /\ LET gone == IF deletePermanent THEN Stored ELSE Stored \ Permanents
       IN  Deletable(gone) /\ Erase(gone)
    /\ returned' = None
    /\ UNCHANGED <<dirty, calls>>

-----------------------------------------------------------------------------
Init ==
    /\ objectMap = [i \in IDs |-> None]
    /\ object = [w \in Wrappers |-> None]
    /\ dirty = [w \in Wrappers |-> FALSE]
    /\ observables = [w \in Wrappers |-> {}]
    /\ calls = <<>>
    /\ returned = None

\* Lists of one ID or of two different ones.
Lists == {<<i>> : i \in IDs} \cup {l \in IDs \X IDs : l[1] # l[2]}

Next ==
    \/ \E i \in IDs : Retrieve(i)
    \/ \E i \in IDs, arg \in Args, precs \in SUBSET IDs, overwrite \in BOOLEAN :
          Create(i, arg, precs, overwrite)
    \/ \E p \in IDs : retrieveObjectImpl(p)
    \/ recreate
    \/ RetrieveEnd
    \/ storeObject
    \/ \E list \in Lists : deleteObject(list)
    \/ \E deletePermanent \in BOOLEAN : deleteAllObjects(deletePermanent)

Spec == Init /\ [][Next]_vars

-----------------------------------------------------------------------------
\* Types, and no ID leads to a wrapper that has been destroyed or that holds an
\* object stored under another ID.
TypeOK ==
    /\ objectMap \in [IDs -> Wrappers \cup {None}]
    /\ object \in [Wrappers -> Objects \cup {None}]
    /\ dirty \in [Wrappers -> BOOLEAN]
    /\ observables \in [Wrappers -> SUBSET Wrappers]
    /\ \A i \in Stored : ObjectOf(i) # None /\ ObjectOf(i).id = i

\* The repository as its clients see it: the formulas its objects come from.
FormulaOf(i) ==
    IF Exists(i) THEN [arg |-> ObjectOf(i).arg, precs |-> ObjectOf(i).precs] ELSE None
Abstract == INSTANCE ObjectStore WITH formulas <- [i \in IDs |-> FormulaOf(i)]

\* Recreation on demand cannot be told from evaluation: between them, dirty
\* flags, wrappers, their registrations and their lifetimes make the repository
\* a store of formulas, whatever is overwritten, recreated half way or deleted
\* (dependents first).
ImplementsStore == Abstract!Spec

\* "Before returning the reference ... the ObjectWrapper ensures that the state of
\* the Object is updated as necessary to reflect any changes in its precedents"
\* (objectwrapper.hpp:37-39): what a retrieval returns is what building the
\* object and its precedents from scratch would give, when that is possible.
RetrieveIsCurrent ==
    returned # None /\ Abstract!Defined(returned.id) =>
        returned.state = Abstract!Value(returned.id)

\* Every stored object observes exactly the wrappers now stored under the IDs of
\* its precedents, so that a change of one of them always finds it
\* (objectwrapper.hpp:42-44).
ObservesPrecedents ==
    \A i \in Stored :
        /\ ObjectOf(i).precs \subseteq Stored
        /\ observables[objectMap[i]] = {objectMap[p] : p \in ObjectOf(i).precs}

\* "False means the Object is up to date" (objectwrapper.hpp:86): an object that
\* is not dirty has no dirty precedent and agrees with the state of each.
CleanIsCurrent ==
    \A i \in Stored : ~dirty[objectMap[i]] =>
        LET o == ObjectOf(i)
        IN  /\ \A p \in o.precs : Exists(p) /\ ~dirty[objectMap[p]]
            /\ \A j \in IDs :
                  o.state[j] = Own(i, o.arg)[j] \cup UNION {ObjectOf(p).state[j] : p \in o.precs}

\* Deletion leaves nothing behind: every wrapper on the heap is the one stored
\* under its object's ID ("There is a 1:1 relationship between Object and
\* ObjectWrapper instances", objectwrapper.hpp:40).
NoHiddenWrapper ==
    \A w \in Wrappers : object[w] # None => objectMap[object[w].id] = w
=============================================================================
