--------------------------- MODULE Serialization ---------------------------
(***************************************************************************)
(* Saving objects of the repository to a file and loading them again:      *)
(* ObjectHandler/oh/serializationfactory.cpp and processor.hpp, on top of  *)
(* Repository.                                                             *)
(*                                                                         *)
(* What is written is the ValueObject: ID and arguments, the IDs of        *)
(* precedents among them, but not the list of precedents it keeps for the  *)
(* registration of its wrapper.  Loading builds the objects one after the  *)
(* other, through the creator of their class, and stops at the first that  *)
(* fails.  The creators that gensrc generates list the precedents again    *)
(* (stub.serialization.creator); the one written by hand in the example,   *)
(* createAccount, does not.                                                *)
(***************************************************************************)
EXTENDS Repository

CONSTANTS
    Saves,    \* the lists of different IDs that clients save
    Generated \* the IDs of objects whose creator is generated

ASSUME SavesAssumption ==
    /\ \A list \in Saves : /\ list \in Seq(IDs)
                            /\ \A k, n \in DOMAIN list : list[k] = list[n] => k = n
    /\ Generated \subseteq IDs

VARIABLE file \* the ValueObjects in the file, <<>> if there is none

varsS == <<objectMap, object, dirty, observables, calls, returned, file>>

ValueObject(o) == [id |-> o.id, arg |-> o.arg, precs |-> o.precs]

\* SerializationFactory::saveObject retrieves the objects, which may recreate
\* them or throw, before it looks at the file.
saveObject(list, forceOverwrite) ==
    /\ Idle
    /\ calls' = <<Frame("save", None, list, {}, {list[k] : k \in DOMAIN list}, forceOverwrite)>>
    /\ returned' = None
    /\ UNCHANGED <<objectMap, object, dirty, observables, file>>

SaveEnd ==
    /\ Running("save") /\ Top.left = {}
    /\ calls' = <<>>
    /\ file' = IF file # <<>> /\ ~Top.overwrite THEN file
               ELSE [k \in DOMAIN Top.arg |-> ValueObject(ObjectOf(Top.arg[k]))]
    /\ UNCHANGED <<objectMap, object, dirty, observables, returned>>

\* loadObject opens the file, which must be there.
loadObject(overwriteExisting) ==
    /\ Idle
    /\ file # <<>>
    /\ calls' = <<Frame("load", None, file, {}, {}, overwriteExisting)>>
    /\ returned' = None
    /\ UNCHANGED <<objectMap, object, dirty, observables, file>>

\* The precedents that the creator of v lists for the registration of its wrapper.
Relisted(v) == IF v.id \in Generated THEN v.precs ELSE {}

\* Mutant: an object whose ID is in the repository is passed over.
RestoreIfNew ==
    /\ Running("load") /\ Top.arg # <<>>
    /\ LET v == Head(Top.arg)
           item == [Frame("create", v.id, v.arg, v.precs, v.precs, Top.overwrite)
                    EXCEPT !.listed = Relisted(v)]
           rest == <<[Top EXCEPT !.arg = Tail(@)]>>
       IN  calls' = IF Exists(v.id) THEN rest ELSE <<item>> \o rest
    /\ UNCHANGED <<objectMap, object, dirty, observables, returned, file>>

\* Processor::process of the next ValueObject: its creator retrieves the
\* precedents and may list them, storeObject stores what it has built.
restoreObject ==
    /\ Running("load") /\ Top.arg # <<>>
    /\ LET v == Head(Top.arg)
           item == [Frame("create", v.id, v.arg, v.precs, v.precs, Top.overwrite)
                    EXCEPT !.listed = Relisted(v)]
       IN  calls' = <<item, [Top EXCEPT !.arg = Tail(@)]>>
    /\ UNCHANGED <<objectMap, object, dirty, observables, returned, file>>

\* All are loaded; the default postProcess does nothing.
LoadEnd ==
    /\ Running("load") /\ Top.arg = <<>>
    /\ calls' = <<>>
    /\ UNCHANGED <<objectMap, object, dirty, observables, returned, file>>

InitS == Init /\ file = <<>>

NextS ==
    \/ Next /\ UNCHANGED file
    \/ \E list \in Saves, forceOverwrite \in BOOLEAN : saveObject(list, forceOverwrite)
    \/ SaveEnd
    \/ \E overwriteExisting \in BOOLEAN : loadObject(overwriteExisting)
    \/ restoreObject
    \/ LoadEnd

SpecS == InitS /\ [][NextS]_varsS

-----------------------------------------------------------------------------
\* A load that is not broken off by an exception leaves the repository with
\* every object of the file, built from the arguments saved there, whatever was
\* stored under their IDs before.
LoadRestores ==
    [][Running("load") /\ calls' = <<>> /\ Top.arg = <<>> =>
         \A k \in DOMAIN file :
            FormulaOf(file[k].id) = [arg |-> file[k].arg, precs |-> file[k].precs]]_varsS
=============================================================================
