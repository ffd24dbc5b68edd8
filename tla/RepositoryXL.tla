--------------------------- MODULE RepositoryXL ---------------------------
(***************************************************************************)
(* The repository in Excel: ObjectHandler/ohxl/repositoryxl.cpp,           *)
(* callingrange.cpp and objectwrapperxl.cpp, on top of Repository.         *)
(*                                                                         *)
(* A worksheet formula that stores an object does so from a cell.  The     *)
(* first time, the cell gets a hidden Excel name, the key of a             *)
(* CallingRange, which lists the objects that reside in the cell.  Deleting*)
(* the cell breaks the name; collectGarbage looks for ranges with broken   *)
(* names and deletes the objects that reside there.  Objects and ranges    *)
(* refer to each other: the range by ID and weak pointer, the wrapper by a *)
(* shared pointer, and its destructor strikes its ID off the list.         *)
(*                                                                         *)
(* Keys are used once (getKeyCount); Ranges bounds their number.           *)
(***************************************************************************)
EXTENDS Repository

CONSTANTS
    Cells,  \* the cells of the workbook
    Ranges, \* the keys getKeyCount can give, the heap addresses of CallingRanges
    VBA     \* a call from VBA, and the key of its CallingRange

ASSUME CellsAssumption ==
    /\ None \notin Ranges \cup {VBA}
    /\ VBA \notin Ranges \cup Cells
    /\ IDs \cap (Ranges \cup {VBA}) = {}

VARIABLES
    callingRanges, \* the keys in callingRanges_
    residents,     \* CallingRange::residentObjects_
    caller,        \* ObjectWrapperXL::callingRange_
    cellName,      \* Excel: the hidden name of a cell, None if it has none
    used,          \* the keys below CallingRange::keyCount_
    from           \* FunctionCall::instance(): where the running call comes from

varsXL == <<objectMap, object, dirty, observables, calls, returned,
            callingRanges, residents, caller, cellName, used, from>>
excel == <<callingRanges, residents, caller, cellName, used, from>>

AllRanges == Ranges \cup {VBA}

-----------------------------------------------------------------------------
(* Ranges and what resides in them.                                        *)

\* CallingRange::valid: the name still leads to a cell.
valid(r) == r = VBA \/ \E c \in Cells : cellName[c] = r

\* The weak pointer of a resident leads to a permanent object.
IsPermanent(w) == object[w] # None /\ object[w].id \in Permanents

\* Mutant: the destructor of a wrapper does not strike its ID off.
Forgotten(dying, callers, entries) == entries

\* ~ObjectWrapperXL of the wrappers in dying: each strikes its ID off the list of
\* its calling range, whoever is listed there.
Unregistered(dying, callers, entries) ==
    [r \in AllRanges |-> [i \in IDs |->
        IF \E w \in dying : callers[w] = r /\ object[w].id = i THEN None ELSE entries[r][i]]]

\* Mutant: ~CallingRange leaves the name in the workbook.
StillNamed(names, alive) == names

\* ~CallingRange: a range that nothing refers to takes its name back from Excel.
Named(names, alive) == [c \in Cells |-> IF names[c] \in alive THEN names[c] ELSE None]

\* The destructors that run when the wrappers have become object' and the listed
\* ranges callingRanges'.
Settle(callers, entries, names) ==
    LET dying == {w \in Wrappers : object[w] # None /\ object'[w] = None}
    IN  /\ caller' = [w \in Wrappers |-> IF w \in dying THEN None ELSE callers[w]]
        /\ residents' = Unregistered(dying, callers, entries)
        /\ cellName' = Named(names, callingRanges' \cup {caller'[w] : w \in Wrappers})

-----------------------------------------------------------------------------
(* Calls from cells and from VBA.                                          *)

RetrieveXL(i, c) == Retrieve(i) /\ from' = c /\ UNCHANGED <<callingRanges, residents, caller, cellName, used>>

CreateXL(i, arg, precs, overwrite, c) ==
    /\ Create(i, arg, precs, overwrite)
    /\ from' = c
    /\ UNCHANGED <<callingRanges, residents, caller, cellName, used>>

\* FunctionCall::callerName
callerName == IF from = VBA THEN VBA ELSE cellName[from]

\* RepositoryXL::getCallingRange: the ranges it can return; none if it throws,
\* because the name is unknown or no key is left.
getCallingRange ==
    IF callerName = None THEN Ranges \ used
    ELSE IF callerName = VBA THEN {VBA}
    ELSE {callerName} \cap callingRanges

\* The state getCallingRange leaves when it returns r.
Enter(r) ==
    /\ callingRanges' = callingRanges \cup {r}
    /\ used' = used \cup ({r} \cap Ranges)

NamesWith(r) == [c \in Cells |-> IF c = from THEN r ELSE cellName[c]]

\* Mutant: a wrapper that changes range is not registered with the new one.
MovesSilently(w, r) ==
    [s \in AllRanges |-> [i \in IDs |->
        IF s = r /\ i = Top.id /\ caller[w] = None THEN w
        ELSE IF s = caller[w] /\ i = Top.id THEN None ELSE residents[s][i]]]

\* registerObject, after resetCaller has left the range the wrapper was in.
Resides(w, r) ==
    [s \in AllRanges |-> [i \in IDs |->
        IF s = r /\ i = Top.id THEN w
        ELSE IF s = caller[w] /\ i = Top.id THEN None ELSE residents[s][i]]]

\* RepositoryXL::storeObject of the object just built, in calling range r and
\* wrapper w.  It is new to the map ...
StoreNew(w) ==
    /\ ~Exists(Top.id) /\ object[w] = None
    /\ LET map == [objectMap EXCEPT ![Top.id] = w]
       IN  Rebind(map, Registered(map, w, Top.listed), [object EXCEPT ![w] = Built])
    /\ dirty' = [dirty EXCEPT ![w] = FALSE]

\* ... or replaces the object there.  The flag matters only to another cell.
StoreOver(w, r) ==
    /\ objectMap[Top.id] = w
    /\ caller[w] = r \/ Top.overwrite
    /\ Rebind(objectMap, Registered(objectMap, w, Top.listed), [object EXCEPT ![w] = Built])
    /\ dirty' = Reset(w)

storeObjectXL ==
    /\ Running("create") /\ Top.left = {}
    /\ \/ \E r \in getCallingRange, w \in Wrappers :
             /\ StoreNew(w) \/ StoreOver(w, r)
             /\ Enter(r)
             /\ Settle([caller EXCEPT ![w] = r], Resides(w, r), NamesWith(r))
             /\ calls' = <<>>
             /\ UNCHANGED returned
       \/ \E r \in getCallingRange :        \* "Cannot create object with ID"
             /\ Exists(Top.id) /\ caller[objectMap[Top.id]] # r /\ ~Top.overwrite
             /\ Enter(r)
             /\ cellName' = NamesWith(r)
             /\ Throw
             /\ UNCHANGED <<objectMap, object, dirty, observables, residents, caller>>
       \/ /\ getCallingRange = {}           \* "No calling range named"
          /\ Throw
          /\ UNCHANGED <<objectMap, object, dirty, observables, callingRanges, residents,
                         caller, cellName, used>>
    /\ UNCHANGED from

\* Deletion through the interface of Repository, with the destructors of ohxl.
Deleting(Del) ==
    /\ Del
    /\ UNCHANGED <<callingRanges, used, from>>
    /\ Settle(caller, residents, cellName)

-----------------------------------------------------------------------------
(* Garbage collection.  It goes through the ranges one at a time; left are *)
(* those it has yet to look at, at is the one it clears, done are the      *)
(* residents it has been past there.                                       *)

GarbageFrame(deletePermanent, left, at, done) ==
    [op |-> "gc", deletePermanent |-> deletePermanent, left |-> left, at |-> at, done |-> done]

collectGarbage(deletePermanent) ==
    /\ Idle
    /\ calls' = <<GarbageFrame(deletePermanent, callingRanges, None, {})>>
    /\ returned' = None
    /\ UNCHANGED <<objectMap, object, dirty, observables, excel>>

Collecting == Running("gc")
InRange == Collecting /\ Top.at # None

\* Mutant: a range is cleared whether it is valid or not.
VisitBlindly(r) ==
    /\ Collecting /\ Top.at = None /\ r \in Top.left
    /\ calls' = <<GarbageFrame(Top.deletePermanent, Top.left \ {r}, r, {})>>
    /\ UNCHANGED <<objectMap, object, dirty, observables, returned, excel>>

\* The loop of collectGarbage comes to range r.
Visit(r) ==
    /\ Collecting /\ Top.at = None /\ r \in Top.left
    /\ calls' = <<GarbageFrame(Top.deletePermanent, Top.left \ {r},
                               IF valid(r) THEN None ELSE r, {})>>
    /\ UNCHANGED <<objectMap, object, dirty, observables, returned, excel>>

\* Mutant: permanent objects are kept whatever the caller asked for.
SparedAlways(i) == IsPermanent(residents[Top.at][i])

\* A permanent resident stays unless the caller asked for it to go.
Spared(i) == ~Top.deletePermanent /\ IsPermanent(residents[Top.at][i])

\* CallingRange::clearResidentObjects comes to the entry of ID i.  An ID the
\* repository does not know throws out of the collection.
ClearResident(i) ==
    /\ InRange /\ i \notin Top.done /\ residents[Top.at][i] # None
    /\ \/ /\ Spared(i)
          /\ calls' = <<[Top EXCEPT !.done = @ \cup {i}]>>
          /\ UNCHANGED <<objectMap, object, observables, returned, excel>>
       \/ /\ ~Spared(i)
          /\ IF Exists(i)
             THEN /\ Erase({i})
                  /\ UNCHANGED <<callingRanges, used, from, returned>>
                  /\ Settle(caller,
                            IF Top.deletePermanent THEN residents
                            ELSE [residents EXCEPT ![Top.at][i] = None],
                            cellName)
                  /\ calls' = <<[Top EXCEPT !.done = @ \cup {i}]>>
             ELSE Throw /\ UNCHANGED <<objectMap, object, observables, excel>>
    /\ UNCHANGED dirty

\* The range has been cleared; an empty one is dropped.
Leave ==
    /\ InRange
    /\ \A i \in IDs \ Top.done : residents[Top.at][i] = None
    /\ LET entries == IF Top.deletePermanent
                      THEN [residents EXCEPT ![Top.at] = [i \in IDs |-> None]] ELSE residents
           empty == \A i \in IDs : entries[Top.at][i] = None
       IN  /\ callingRanges' = IF empty THEN callingRanges \ {Top.at} ELSE callingRanges
           /\ UNCHANGED <<objectMap, object>>
           /\ Settle(caller, entries, cellName)
    /\ calls' = <<[Top EXCEPT !.at = None, !.done = {}]>>
    /\ UNCHANGED <<dirty, observables, returned, used, from>>

Collected == Collecting /\ Top.at = None /\ Top.left = {}

CollectEnd ==
    /\ Collected
    /\ calls' = <<>>
    /\ UNCHANGED <<objectMap, object, dirty, observables, returned, excel>>

\* RepositoryXL::clear, when the add-in is closed.
clear ==
    /\ Idle
    /\ Rebind([i \in IDs |-> None], observables, object)
    /\ callingRanges' = {}
    /\ Settle(caller, residents, cellName)
    /\ returned' = None
    /\ UNCHANGED <<dirty, calls, used, from>>

\* Excel: the user deletes a cell, and the one that takes its place has no name.
DeleteCell(c) ==
    /\ Idle
    /\ cellName[c] # None
    /\ cellName' = [cellName EXCEPT ![c] = None]
    /\ returned' = None
    /\ UNCHANGED <<objectMap, object, dirty, observables, calls, callingRanges,
                   residents, caller, used, from>>

-----------------------------------------------------------------------------
InitXL ==
    /\ Init
    /\ callingRanges = {}
    /\ residents = [r \in AllRanges |-> [i \in IDs |-> None]]
    /\ caller = [w \in Wrappers |-> None]
    /\ cellName = [c \in Cells |-> None]
    /\ used = {}
    /\ from = VBA

NextXL ==
    \/ \E i \in IDs, c \in Cells \cup {VBA} : RetrieveXL(i, c)
    \/ \E i \in IDs, arg \in Args, precs \in SUBSET IDs, overwrite \in BOOLEAN, c \in Cells \cup {VBA} :
          CreateXL(i, arg, precs, overwrite, c)
    \/ \E p \in IDs : retrieveObjectImpl(p) /\ UNCHANGED excel
    \/ recreate /\ UNCHANGED excel
    \/ RetrieveEnd /\ UNCHANGED excel
    \/ storeObjectXL
    \/ \E list \in Lists : Deleting(deleteObject(list))
    \/ \E deletePermanent \in BOOLEAN : Deleting(deleteAllObjects(deletePermanent))
    \/ \E deletePermanent \in BOOLEAN : collectGarbage(deletePermanent)
    \/ \E r \in AllRanges : Visit(r)
    \/ \E i \in IDs : ClearResident(i)
    \/ Leave
    \/ CollectEnd
    \/ clear
    \/ \E c \in Cells : DeleteCell(c)

SpecXL == InitXL /\ [][NextXL]_varsXL

-----------------------------------------------------------------------------
\* A call from a cell with a hidden name finds its calling range: "No calling
\* range named" (repositoryxl.cpp:227) is not thrown.
NamesResolve == \A c \in Cells : cellName[c] # None => cellName[c] \in callingRanges

\* Every object resides, under its ID and with its own wrapper, in the range its
\* wrapper calls its own, and garbage collection goes through that range.
ResidesWhereStored ==
    Idle => \A i \in Stored :
        LET r == caller[objectMap[i]]
        IN  r \in callingRanges /\ residents[r][i] = objectMap[i]

\* Every resident is in the repository, under the ID it resides as: garbage
\* collection does not throw half way (callingrange.cpp:91, repository.cpp:124).
ResidentsAreStored ==
    Idle => \A r \in callingRanges, i \in IDs :
        residents[r][i] # None => objectMap[i] = residents[r][i]

\* Garbage collection deletes "objects orphaned by the deletion of the calling
\* cell" (repositoryxl.hpp:102) and no other.
OnlyOrphansCollected ==
    [][Collecting => \A i \in IDs :
          Exists(i) /\ objectMap'[i] = None => ~valid(caller[objectMap[i]])]_varsXL

\* It deletes "all objects" so orphaned, except permanent ones unless asked to.
OrphansCollected ==
    Collected => \A i \in Stored :
        valid(caller[objectMap[i]]) \/ (i \in Permanents /\ ~Top.deletePermanent)
=============================================================================
