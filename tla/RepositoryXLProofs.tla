------------------------ MODULE RepositoryXLProofs ------------------------
(***************************************************************************)
(* Proofs about RepositoryXL, for any sets of IDs, wrappers, cells and     *)
(* keys: hidden names, calling ranges and their residents agree with the   *)
(* repository, and garbage collection deletes the orphans and only them.   *)
(***************************************************************************)
EXTENDS RepositoryXL, RepositoryProofs

-----------------------------------------------------------------------------
(* The invariant.                                                          *)

\* A function called from a cell or from VBA; or a collection of garbage, which
\* calls nobody and is called by nobody.
Commands == Args \cup {None}
GarbageFrames ==
    [op : {"gc"}, deletePermanent : BOOLEAN, left : SUBSET AllRanges, at : AllRanges \cup {None},
     done : SUBSET IDs]
StackXL ==
    \/ StackInv(Commands, calls, objectMap, object)
    \/ \E g \in GarbageFrames : calls = <<g>>

\* Types; keys that have been given once are used, and lead to their ranges.
ExcelTypes ==
    /\ callingRanges \subseteq AllRanges /\ callingRanges \cap Ranges \subseteq used
    /\ residents \in [AllRanges -> [IDs -> Wrappers \cup {None}]]
    /\ caller \in [Wrappers -> AllRanges \cup {None}]
    /\ cellName \in [Cells -> Ranges \cup {None}]
    /\ used \subseteq Ranges
    /\ from \in Cells \cup {VBA}
    /\ \A w \in Wrappers : caller[w] \in Ranges => caller[w] \in used

\* A wrapper holds an object as long as it has a calling range, and observes
\* wrappers of precedents only.
HeapInv ==
    \A w \in Wrappers :
        /\ object[w] = None <=> caller[w] = None
        /\ object[w] = None => observables[w] = {}
        /\ \A x \in observables[w] : object[x] # None /\ object[x].id \in object[w].precs

\* A wrapper that others keep alive and the map does not have was collected with
\* a range that is gone for good, and no object of its ID will be stored there.
HiddenInv ==
    \A w \in Wrappers : object[w] # None /\ objectMap[object[w].id] # w =>
        /\ ~valid(caller[w])
        /\ object[w].id \in Stored => caller[objectMap[object[w].id]] # caller[w]

\* Objects reside in the range their wrapper names ...
ResidesInv ==
    \A i \in Stored :
        /\ caller[objectMap[i]] \in callingRanges
        /\ residents[caller[objectMap[i]]][i] = objectMap[i]

\* ... and nobody else does, but for those that a collection has been past.
Passed(r, i) == Collecting /\ Top.at = r /\ Top.deletePermanent /\ i \in Top.done
ResidentInv ==
    \A r \in AllRanges, i \in IDs : residents[r][i] # None /\ ~Passed(r, i) =>
        i \in Stored /\ objectMap[i] = residents[r][i] /\ caller[objectMap[i]] = r

\* A collection is in a range whose name is broken, has left nothing there that
\* should go, and nothing in the ranges it has been through.
Kept(i) == i \in Permanents /\ ~Top.deletePermanent
GarbageInv ==
    Collecting =>
        /\ Top.at # None => ~valid(Top.at)
        /\ \A i \in Top.done : i \in Stored => Kept(i)
        /\ \A i \in Stored : LET r == caller[objectMap[i]]
                             IN  r \in Top.left \/ r = Top.at \/ valid(r) \/ Kept(i)

\* All but the stack and what depends on it.
CoreInv ==
    /\ TypeOK /\ ListedInv /\ ExcelTypes /\ NamesResolve
    /\ HeapInv /\ HiddenInv /\ ResidesInv

InvXL == CoreInv /\ StackXL /\ ResidentInv /\ GarbageInv

-----------------------------------------------------------------------------
(* The stack.                                                              *)

\* A stack of functions that retrieve and build collects nothing.
LEMMA NotGarbage ==
    ASSUME NEW s, NEW m, NEW o, StackInv(Commands, s, m, o)
    PROVE  ~(s # <<>> /\ s[1].op = "gc")
<1> SUFFICES ASSUME s # <<>> PROVE s[1].op # "gc"
  OBVIOUS
<1>1. s[1] \in Frames(Commands)
  BY PopFacts DEF StackInv
<1> QED
  BY <1>1 DEF Frames, Ops

\* A collection is alone on the stack.
LEMMA GarbageTop ==
    ASSUME StackXL, Collecting
    PROVE  Top \in GarbageFrames /\ calls = <<Top>> /\ calls # <<>>
<1>1. ~StackInv(Commands, calls, objectMap, object)
  BY NotGarbage DEF Collecting, Running, Idle, Top
<1>2. PICK g \in GarbageFrames : calls = <<g>>
  BY <1>1 DEF StackXL
<1>3. <<g>>[1] = g /\ <<g>> # <<>>
  OBVIOUS
<1> QED
  BY <1>2, <1>3 DEF Top

LEMMA PlainStack ==
    ASSUME StackXL, ~Collecting
    PROVE  StackInv(Commands, calls, objectMap, object)
<1> SUFFICES ASSUME NEW g \in GarbageFrames, calls = <<g>> PROVE FALSE
  BY DEF StackXL
<1>1. <<g>>[1] = g /\ <<g>> # <<>> /\ g.op = "gc"
  BY DEF GarbageFrames
<1> QED
  BY <1>1 DEF Collecting, Running, Idle, Top

\* While nothing is collected, nothing is excepted.
LEMMA PlainNextStack ==
    ASSUME StackInv(Commands, calls', objectMap', object')
    PROVE  StackXL' /\ ~Collecting' /\ GarbageInv' /\ \A r, i : ~Passed(r, i)'
<1>1. ~Collecting'
  BY NotGarbage DEF Collecting, Running, Idle, Top
<1> QED
  BY <1>1 DEF StackXL, GarbageInv, Passed

-----------------------------------------------------------------------------
(* Steps that leave the map, the registrations and Excel alone.            *)

LEMMA CoreSteady ==
    ASSUME CoreInv, TypeOK', ListedInv',
           UNCHANGED <<objectMap, observables, callingRanges, residents, caller, cellName, used>>,
           from' \in Cells \cup {VBA},
           \A w \in Wrappers :
              /\ object'[w] = None <=> object[w] = None
              /\ object[w] # None => object'[w].id = object[w].id /\ object'[w].precs = object[w].precs
    PROVE  CoreInv'
<1>1. Stored' = Stored /\ \A r : valid(r)' <=> valid(r)
  BY DEF Stored, valid
<1>2. ExcelTypes' /\ NamesResolve'
  BY DEF CoreInv, ExcelTypes, NamesResolve
<1>3. observables \in [Wrappers -> SUBSET Wrappers]
  BY DEF CoreInv, TypeOK
<1>4. HeapInv'
  BY <1>3 DEF CoreInv, HeapInv
<1>5. HiddenInv'
  BY <1>1 DEF CoreInv, HiddenInv
<1>6. ResidesInv'
  BY <1>1 DEF CoreInv, ResidesInv
<1> QED
  BY <1>2, <1>4, <1>5, <1>6 DEF CoreInv

LEMMA ResidentSteady ==
    ASSUME ResidentInv, UNCHANGED <<objectMap, residents, caller>>,
           \A r \in AllRanges, i \in IDs : Passed(r, i) => Passed(r, i)'
    PROVE  ResidentInv'
<1>1. Stored' = Stored
  BY DEF Stored
<1> QED
  BY <1>1 DEF ResidentInv

\* A step of a function that retrieves and builds.
LEMMA PlainStep ==
    ASSUME InvXL, ~Collecting, BaseInv(Commands)',
           UNCHANGED <<objectMap, observables, callingRanges, residents, caller, cellName, used>>,
           from' \in Cells \cup {VBA},
           \A w \in Wrappers :
              /\ object'[w] = None <=> object[w] = None
              /\ object[w] # None => object'[w].id = object[w].id /\ object'[w].precs = object[w].precs
    PROVE  InvXL'
<1>1. TypeOK' /\ ListedInv' /\ StackInv(Commands, calls', objectMap', object')
  BY DEF BaseInv
<1>2. CoreInv'
  BY <1>1, CoreSteady DEF InvXL
<1>3. StackXL' /\ GarbageInv'
  BY <1>1, PlainNextStack
<1>4. ResidentInv'
  BY ResidentSteady DEF InvXL, Passed
<1> QED
  BY <1>2, <1>3, <1>4 DEF InvXL

LEMMA PlainBase ==
    ASSUME InvXL, ~Collecting
    PROVE  BaseInv(Commands)
  BY PlainStack DEF InvXL, CoreInv, BaseInv

LEMMA IdlePlain ==
    ASSUME Idle PROVE ~Collecting
  BY DEF Collecting, Running

LEMMA StepRetrieve ==
    ASSUME InvXL, NEW i \in IDs, NEW c \in Cells \cup {VBA}, RetrieveXL(i, c)
    PROVE  InvXL'
<1>1. Retrieve(i) /\ from' = c /\ UNCHANGED <<callingRanges, residents, caller, cellName, used>>
      /\ UNCHANGED <<objectMap, object, observables>> /\ Idle
  BY DEF RetrieveXL, Retrieve
<1>2. ~Collecting /\ BaseInv(Commands)
  BY <1>1, IdlePlain, PlainBase
<1>3. BaseInv(Commands)'
  BY <1>1, <1>2, BaseRetrieve DEF Commands
<1> QED
  BY <1>1, <1>2, <1>3, PlainStep

LEMMA StepCreate ==
    ASSUME InvXL, NEW i \in IDs, NEW arg \in Args, NEW precs \in SUBSET IDs,
           NEW overwrite \in BOOLEAN, NEW c \in Cells \cup {VBA},
           CreateXL(i, arg, precs, overwrite, c)
    PROVE  InvXL'
<1>1. Create(i, arg, precs, overwrite) /\ from' = c
      /\ UNCHANGED <<callingRanges, residents, caller, cellName, used>>
      /\ UNCHANGED <<objectMap, object, observables>> /\ Idle
  BY DEF CreateXL, Create
<1>2. ~Collecting /\ BaseInv(Commands)
  BY <1>1, IdlePlain, PlainBase
<1>3. BaseInv(Commands)'
  BY <1>1, <1>2, BaseCreate DEF Commands
<1> QED
  BY <1>1, <1>2, <1>3, PlainStep

\* A collection does not retrieve objects: what it has left are ranges.
LEMMA StepRetrieveImpl ==
    ASSUME InvXL, NEW p \in IDs, retrieveObjectImpl(p), UNCHANGED excel
    PROVE  InvXL'
<1>1. ~Idle /\ p \in Top.left /\ UNCHANGED <<objectMap, object, observables>>
  BY RetrieveCases
<1>2. ~Collecting
  <2> SUFFICES ASSUME Collecting PROVE FALSE
    OBVIOUS
  <2>1. Top \in GarbageFrames
    BY GarbageTop DEF InvXL
  <2>2. p \in AllRanges
    BY <1>1, <2>1 DEF GarbageFrames
  <2> QED
    BY <2>2, CellsAssumption DEF AllRanges
<1>3. BaseInv(Commands)'
  BY <1>2, PlainBase, BaseRetrieveImpl DEF Commands
<1>4. from' \in Cells \cup {VBA}
  BY DEF excel, InvXL, CoreInv, ExcelTypes
<1> QED
  BY <1>1, <1>2, <1>3, <1>4, PlainStep DEF excel

LEMMA StepRetrieveEnd ==
    ASSUME InvXL, RetrieveEnd, UNCHANGED excel
    PROVE  InvXL'
<1>1. ~Collecting /\ UNCHANGED <<objectMap, object, observables>>
  BY DEF RetrieveEnd, Collecting, Running
<1>2. BaseInv(Commands)'
  BY <1>1, PlainBase, BaseRetrieveEnd
<1>3. from' \in Cells \cup {VBA}
  BY DEF excel, InvXL, CoreInv, ExcelTypes
<1> QED
  BY <1>1, <1>2, <1>3, PlainStep DEF excel

LEMMA StepRecreate ==
    ASSUME InvXL, recreate, UNCHANGED excel
    PROVE  InvXL'
<1>1. ~Collecting
  BY DEF recreate, Collecting, Running
<1>2. BaseInv(Commands)
  BY <1>1, PlainBase
<1>3. BaseInv(Commands)' /\ UNCHANGED <<objectMap, observables>>
  BY <1>2, BaseRecreate DEF recreate
<1>4. \A w \in Wrappers :
         /\ object'[w] = None <=> object[w] = None
         /\ object[w] # None => object'[w].id = object[w].id /\ object'[w].precs = object[w].precs
  BY <1>2, RecreateFacts
<1>5. from' \in Cells \cup {VBA}
  BY DEF excel, InvXL, CoreInv, ExcelTypes
<1> QED
  BY <1>1, <1>3, <1>4, <1>5, PlainStep DEF excel

-----------------------------------------------------------------------------
(* Steps of a collection that delete nothing.                              *)

LEMMA GarbageNext ==
    ASSUME NEW g \in GarbageFrames, calls' = <<g>>
    PROVE  StackXL' /\ Collecting' /\ Top' = g
<1>1. <<g>>[1] = g /\ <<g>> # <<>> /\ g.op = "gc"
  BY DEF GarbageFrames
<1> QED
  BY <1>1 DEF StackXL, Collecting, Running, Idle, Top

LEMMA GarbageFrameFacts ==
    ASSUME NEW d \in BOOLEAN, NEW left \in SUBSET AllRanges, NEW at \in AllRanges \cup {None},
           NEW done \in SUBSET IDs
    PROVE  LET g == GarbageFrame(d, left, at, done)
           IN  g \in GarbageFrames /\ (g.deletePermanent <=> d) /\ g.left = left /\ g.at = at
               /\ g.done = done
  BY DEF GarbageFrame, GarbageFrames

\* The frame of a collection that has been past the resident of ID i.
LEMMA PastFacts ==
    ASSUME NEW g \in GarbageFrames, NEW i \in IDs
    PROVE  LET h == [g EXCEPT !.done = @ \cup {i}]
           IN  h \in GarbageFrames /\ (h.deletePermanent <=> g.deletePermanent) /\ h.left = g.left
               /\ h.at = g.at /\ h.done = g.done \cup {i}
  BY DEF GarbageFrames

LEMMA LeaveFacts ==
    ASSUME NEW g \in GarbageFrames
    PROVE  LET h == [g EXCEPT !.at = None, !.done = {}]
           IN  h \in GarbageFrames /\ (h.deletePermanent <=> g.deletePermanent) /\ h.left = g.left
               /\ h.at = None /\ h.done = {}
  BY DEF GarbageFrames

LEMMA NoneNoRange == None \notin AllRanges
  BY CellsAssumption DEF AllRanges

LEMMA CoreSame ==
    ASSUME CoreInv, UNCHANGED <<objectMap, object, dirty, observables, excel>>
    PROVE  CoreInv' /\ Stored' = Stored /\ \A r : valid(r)' <=> valid(r)
<1>1. TypeOK' /\ ListedInv'
  BY DEF CoreInv, TypeOK, ListedInv, Stored, ObjectOf
<1>2. CoreInv'
  BY <1>1, CoreSteady DEF excel, CoreInv, ExcelTypes
<1> QED
  BY <1>2 DEF Stored, valid, excel

LEMMA StepCollect ==
    ASSUME InvXL, NEW d \in BOOLEAN, collectGarbage(d)
    PROVE  InvXL'
<1> PICK g : g = GarbageFrame(d, callingRanges, None, {})
  OBVIOUS
<1>1. g \in GarbageFrames /\ g.left = callingRanges /\ g.at = None /\ g.done = {}
  BY GarbageFrameFacts DEF InvXL, CoreInv, ExcelTypes
<1>2. Idle /\ calls' = <<g>> /\ UNCHANGED <<objectMap, object, dirty, observables, excel>>
  BY DEF collectGarbage
<1>3. StackXL' /\ Top' = g
  BY <1>1, <1>2, GarbageNext
<1>4. CoreInv' /\ Stored' = Stored
  BY <1>2, CoreSame DEF InvXL
<1>5. ResidentInv'
  BY <1>2, IdlePlain, ResidentSteady DEF InvXL, Passed, excel
<1>6. GarbageInv'
  <2>1. \A i \in Stored : caller[objectMap[i]] \in callingRanges
    BY DEF InvXL, CoreInv, ResidesInv
  <2> QED
    BY <1>1, <1>2, <1>3, <1>4, <2>1 DEF GarbageInv, excel
<1> QED
  BY <1>3, <1>4, <1>5, <1>6 DEF InvXL

\* A range whose name is not broken is left alone.
LEMMA StepVisit ==
    ASSUME InvXL, NEW r \in AllRanges, Visit(r)
    PROVE  InvXL'
<1> PICK t : t = Top
  OBVIOUS
<1> PICK g : g = GarbageFrame(t.deletePermanent, t.left \ {r}, IF valid(r) THEN None ELSE r, {})
  OBVIOUS
<1>1. /\ Collecting /\ t.at = None /\ r \in t.left /\ calls' = <<g>>
      /\ UNCHANGED <<objectMap, object, dirty, observables, excel>>
  BY DEF Visit
<1>2. t \in GarbageFrames
  BY <1>1, GarbageTop DEF InvXL
<1>3. t.deletePermanent \in BOOLEAN /\ t.left \ {r} \in SUBSET AllRanges
  BY <1>2 DEF GarbageFrames
<1>4. /\ g \in GarbageFrames /\ (g.deletePermanent <=> t.deletePermanent)
      /\ g.left = t.left \ {r} /\ g.at = (IF valid(r) THEN None ELSE r) /\ g.done = {}
  BY <1>3, GarbageFrameFacts
<1>5. StackXL' /\ Top' = g
  BY <1>1, <1>4, GarbageNext
<1>6. CoreInv' /\ Stored' = Stored /\ \A s : valid(s)' <=> valid(s)
  BY <1>1, CoreSame DEF InvXL
<1>7. ResidentInv'
  BY <1>1, NoneNoRange, ResidentSteady DEF InvXL, Passed, excel
<1>8. GarbageInv'
  <2>1. g.at # None => ~valid(g.at)
    BY <1>4
  <2>2. ASSUME NEW i \in Stored
        PROVE  LET s == caller[objectMap[i]]
               IN  s \in g.left \/ s = g.at \/ valid(s) \/ (i \in Permanents /\ ~g.deletePermanent)
    <3> PICK s : s = caller[objectMap[i]]
      OBVIOUS
    <3>1. s \in t.left \/ s = t.at \/ valid(s) \/ (i \in Permanents /\ ~t.deletePermanent)
      BY <1>1 DEF InvXL, GarbageInv, Kept
    <3>2. objectMap[i] \in Wrappers /\ object[objectMap[i]] # None
      BY DEF InvXL, CoreInv, TypeOK, Stored, ObjectOf
    <3>3. s # None
      BY <3>2 DEF InvXL, CoreInv, HeapInv
    <3> QED
      BY <1>1, <1>4, <3>1, <3>3
  <2> QED
    BY <1>1, <1>4, <1>5, <1>6, <2>1, <2>2 DEF GarbageInv, Kept, excel
<1> QED
  BY <1>5, <1>6, <1>7, <1>8 DEF InvXL

LEMMA StepCollectEnd ==
    ASSUME InvXL, CollectEnd
    PROVE  InvXL'
<1>1. Top.at = None /\ calls' = <<>> /\ UNCHANGED <<objectMap, object, dirty, observables, excel>>
  BY DEF CollectEnd, Collected
<1>2. StackXL' /\ GarbageInv'
  BY <1>1, EmptyStack, PlainNextStack
<1>3. CoreInv'
  BY <1>1, CoreSame DEF InvXL
<1>4. ResidentInv'
  BY <1>1, NoneNoRange, ResidentSteady DEF InvXL, Passed, excel
<1> QED
  BY <1>2, <1>3, <1>4 DEF InvXL

\* Excel breaks a name: nothing becomes valid.
LEMMA StepDeleteCell ==
    ASSUME InvXL, NEW c \in Cells, DeleteCell(c)
    PROVE  InvXL'
<1>1. Idle /\ cellName' = [cellName EXCEPT ![c] = None]
      /\ UNCHANGED <<objectMap, object, dirty, observables, calls, callingRanges, residents, caller, used, from>>
  BY DEF DeleteCell
<1>2. cellName \in [Cells -> Ranges \cup {None}]
  BY DEF InvXL, CoreInv, ExcelTypes
<1>3. cellName' \in [Cells -> Ranges \cup {None}] /\ \A b \in Cells : cellName'[b] \in {cellName[b], None}
  BY <1>1, <1>2
<1>4. TypeOK' /\ ListedInv' /\ Stored' = Stored
  BY <1>1 DEF InvXL, CoreInv, TypeOK, ListedInv, Stored, ObjectOf
<1>5. ExcelTypes' /\ NamesResolve'
  BY <1>1, <1>3 DEF InvXL, CoreInv, ExcelTypes, NamesResolve
<1>6. HeapInv' /\ ResidesInv'
  BY <1>1, <1>4 DEF InvXL, CoreInv, HeapInv, ResidesInv
<1>7. HiddenInv'
  <2>1. \A w \in Wrappers : object[w] # None => caller[w] \in AllRanges
    BY DEF InvXL, CoreInv, HeapInv, ExcelTypes
  <2>2. \A r \in AllRanges : valid(r)' => valid(r)
    BY <1>3, NoneNoRange DEF valid
  <2> QED
    BY <1>1, <1>4, <2>1, <2>2 DEF InvXL, CoreInv, HiddenInv
<1>8. ResidentInv'
  BY <1>1, IdlePlain, ResidentSteady DEF InvXL, Passed
<1>9. StackInv(Commands, calls', objectMap', object')
  BY <1>1, IdlePlain, PlainStack DEF InvXL
<1> QED
  BY <1>4, <1>5, <1>6, <1>7, <1>8, <1>9, PlainNextStack DEF InvXL, CoreInv

-----------------------------------------------------------------------------
(* Deleting.                                                               *)

\* The wrappers that are left observe what they did, and none of it is lost.
LEMMA EraseHeap ==
    ASSUME CoreInv, NEW D \in SUBSET IDs, Erase(D), dirty' = dirty
    PROVE  /\ TypeOK' /\ ListedInv' /\ Stored' = Stored \ D
           /\ \A i \in IDs : objectMap'[i] = IF i \in D THEN None ELSE objectMap[i]
           /\ \A i \in Stored \ D : object'[objectMap[i]] = object[objectMap[i]]
           /\ \A w \in Wrappers : object'[w] \in {object[w], None}
           /\ \A w \in Wrappers : object'[w] = None => observables'[w] = {}
           /\ \A w \in Wrappers : object'[w] # None =>
                 observables'[w] = observables[w] /\ \A x \in observables[w] : object'[x] # None
<1> PICK map : map = [i \in IDs |-> IF i \in D THEN None ELSE objectMap[i]]
  OBVIOUS
<1>1. TypeOK /\ ListedInv /\ HeapInv
  BY DEF CoreInv
<1>2. /\ TypeOK' /\ ListedInv' /\ Stored' = Stored \ D
      /\ \A i \in Stored \ D : objectMap'[i] = objectMap[i] /\ ObjectOf(i)' = ObjectOf(i)
  BY <1>1, EraseFacts
<1> PICK live : live = Live(map, observables)
  OBVIOUS
<1>3. /\ objectMap' = map
      /\ observables' = [x \in Wrappers |-> IF x \in live THEN observables[x] ELSE {}]
      /\ object' = [x \in Wrappers |-> IF x \in live THEN object[x] ELSE None]
  BY DEF Erase, Rebind
<1>4. observables \in [Wrappers -> SUBSET Wrappers]
  BY <1>1 DEF TypeOK
<1>5. \A w \in live : observables[w] \subseteq live
  <2> PICK seed : seed = {map[i] : i \in IDs} \ {None}
    OBVIOUS
  <2>1. live = Closure(Wrappers, seed, observables)
    BY DEF Live
  <2>2. live \subseteq Wrappers
    BY <2>1 DEF Closure
  <2> QED
    BY <1>4, <2>1, <2>2, ClosureStep
<1>6. \A w \in Wrappers : object'[w] \in {object[w], None}
  BY <1>3
<1>7. ASSUME NEW w \in Wrappers, object'[w] = None PROVE observables'[w] = {}
  BY <1>1, <1>3, <1>7 DEF HeapInv
<1>8. ASSUME NEW w \in Wrappers, object'[w] # None
      PROVE  observables'[w] = observables[w] /\ \A x \in observables[w] : object'[x] # None
  <2>1. w \in live /\ observables'[w] = observables[w]
    BY <1>3, <1>8
  <2>2. \A x \in observables[w] : x \in live /\ x \in Wrappers /\ object[x] # None
    BY <1>1, <1>4, <1>5, <2>1 DEF HeapInv
  <2> QED
    BY <1>3, <2>1, <2>2
<1>9. \A i \in Stored \ D : object'[objectMap[i]] = object[objectMap[i]]
  BY <1>2 DEF ObjectOf
<1> QED
  BY <1>2, <1>3, <1>6, <1>7, <1>8, <1>9

\* What clients delete goes at once, as no object on the heap is built on it.
LEMMA DeletedDie ==
    ASSUME CoreInv, ~MayDeleteUsed, NEW D \in SUBSET IDs, Deletable(D), Erase(D)
    PROVE  \A i \in Stored \cap D : object'[objectMap[i]] = None
<1> PICK map : map = [i \in IDs |-> IF i \in D THEN None ELSE objectMap[i]]
  OBVIOUS
<1> PICK gone : gone = {objectMap[i] : i \in D}
  OBVIOUS
<1> DEFINE T == Wrappers \ gone
<1>1. TypeOK /\ HeapInv
  BY DEF CoreInv
<1>2. \A w \in T : object[w] # None => object[w].precs \cap D = {}
  BY DEF Deletable
<1>3. /\ \A i \in Stored : objectMap[i] \in Wrappers /\ object[objectMap[i]].id = i
      /\ \A i, j \in Stored : objectMap[i] = objectMap[j] => i = j
  BY <1>1, StoredFacts DEF ObjectOf
<1>4. {map[i] : i \in IDs} \ {None} \subseteq T
  <2> SUFFICES ASSUME NEW i \in IDs, map[i] # None PROVE map[i] \in T
    OBVIOUS
  <2>1. i \notin D /\ map[i] = objectMap[i] /\ i \in Stored
    BY DEF Stored
  <2>2. ASSUME NEW j \in D, objectMap[j] = objectMap[i] PROVE FALSE
    <3>1. j \in Stored
      BY <2>1, <2>2 DEF Stored
    <3> QED
      BY <1>3, <2>1, <2>2, <3>1
  <2> QED
    BY <1>3, <2>1, <2>2
<1>5. \A y \in T : observables[y] \subseteq T
  <2> SUFFICES ASSUME NEW y \in T, NEW x \in observables[y] PROVE x \in T
    OBVIOUS
  <2>1. x \in Wrappers /\ object[y] # None /\ object[x].id \in object[y].precs
    BY <1>1 DEF HeapInv, TypeOK
  <2>2. object[x].id \notin D
    BY <1>2, <2>1
  <2>3. ASSUME NEW j \in D, x = objectMap[j] PROVE FALSE
    <3>1. j \in Stored
      BY <2>1, <2>3, BelowAssumption DEF Stored
    <3> QED
      BY <1>3, <2>2, <2>3, <3>1
  <2> QED
    BY <2>1, <2>3
<1>6. Live(map, observables) \subseteq T
  <2>1. T \subseteq Wrappers
    OBVIOUS
  <2> HIDE DEF T
  <2> QED
    BY <1>4, <1>5, <2>1, ClosureLeast DEF Live
<1>7. object' = [x \in Wrappers |-> IF x \in Live(map, observables) THEN object[x] ELSE None]
  BY DEF Erase, Rebind
<1>8. \A i \in Stored \cap D : objectMap[i] \in Wrappers /\ objectMap[i] \notin T
  BY <1>3
<1> QED
  BY <1>6, <1>7, <1>8

\* The destructors: a wrapper that dies loses its range and strikes its ID off.
LEMMA SettleFacts ==
    ASSUME NEW callers \in [Wrappers -> AllRanges \cup {None}],
           NEW entries \in [AllRanges -> [IDs -> Wrappers \cup {None}]],
           NEW names \in [Cells -> Ranges \cup {None}], Settle(callers, entries, names)
    PROVE  /\ caller' \in [Wrappers -> AllRanges \cup {None}]
           /\ \A w \in Wrappers :
                 caller'[w] = IF object[w] # None /\ object'[w] = None THEN None ELSE callers[w]
           /\ residents' \in [AllRanges -> [IDs -> Wrappers \cup {None}]]
           /\ \A r \in AllRanges, i \in IDs : residents'[r][i] =
                 IF \E w \in Wrappers : /\ object[w] # None /\ object'[w] = None
                                        /\ callers[w] = r /\ object[w].id = i
                 THEN None ELSE entries[r][i]
           /\ cellName' \in [Cells -> Ranges \cup {None}]
           /\ \A c \in Cells : cellName'[c] \in {names[c], None}
           /\ (\A c \in Cells : names[c] # None => names[c] \in callingRanges') => cellName' = names
<1> PICK dying : dying = {w \in Wrappers : object[w] # None /\ object'[w] = None}
  OBVIOUS
<1>1. /\ caller' = [w \in Wrappers |-> IF w \in dying THEN None ELSE callers[w]]
      /\ residents' = Unregistered(dying, callers, entries)
      /\ cellName' = Named(names, callingRanges' \cup {caller'[w] : w \in Wrappers})
  BY DEF Settle
<1>2. /\ caller' \in [Wrappers -> AllRanges \cup {None}]
      /\ \A w \in Wrappers :
            caller'[w] = IF object[w] # None /\ object'[w] = None THEN None ELSE callers[w]
  BY <1>1
<1>3. residents' = [r \in AllRanges |-> [i \in IDs |->
         IF \E w \in dying : callers[w] = r /\ object[w].id = i THEN None ELSE entries[r][i]]]
  BY <1>1 DEF Unregistered
<1>4. residents' \in [AllRanges -> [IDs -> Wrappers \cup {None}]]
  BY <1>3
<1>5. \A r \in AllRanges, i \in IDs : residents'[r][i] =
         IF \E w \in Wrappers : /\ object[w] # None /\ object'[w] = None
                                /\ callers[w] = r /\ object[w].id = i
         THEN None ELSE entries[r][i]
  BY <1>3
<1>6. cellName' = [c \in Cells |-> IF names[c] \in callingRanges' \cup {caller'[w] : w \in Wrappers}
                                   THEN names[c] ELSE None]
  BY <1>1 DEF Named
<1>7. /\ cellName' \in [Cells -> Ranges \cup {None}]
      /\ \A c \in Cells : cellName'[c] \in {names[c], None}
  BY <1>6
<1>8. ASSUME \A c \in Cells : names[c] # None => names[c] \in callingRanges'
      PROVE  cellName' = names
  <2>1. \A c \in Cells : cellName'[c] = names[c]
    BY <1>6, <1>8
  <2> QED
    BY <1>7, <2>1
<1> QED
  BY <1>2, <1>4, <1>5, <1>7, <1>8

\* Deletion keeps the core of the invariant when the wrappers of what is deleted
\* die or were in ranges with broken names.
LEMMA EraseXL ==
    ASSUME CoreInv, NEW D \in SUBSET IDs, Erase(D), UNCHANGED <<dirty, callingRanges, used, from>>,
           NEW entries \in [AllRanges -> [IDs -> Wrappers \cup {None}]],
           Settle(caller, entries, cellName),
           \A i \in Stored \cap D : object'[objectMap[i]] = None \/ ~valid(caller[objectMap[i]]),
           \A i \in Stored \ D :
              entries[caller[objectMap[i]]][i] = residents[caller[objectMap[i]]][i]
    PROVE  /\ CoreInv' /\ Stored' = Stored \ D /\ cellName' = cellName
           /\ \A i \in Stored \ D : objectMap'[i] = objectMap[i]
                                    /\ caller'[objectMap[i]] = caller[objectMap[i]]
<1>1. /\ TypeOK' /\ ListedInv' /\ Stored' = Stored \ D
      /\ \A i \in IDs : objectMap'[i] = IF i \in D THEN None ELSE objectMap[i]
      /\ \A i \in Stored \ D : object'[objectMap[i]] = object[objectMap[i]]
      /\ \A w \in Wrappers : object'[w] \in {object[w], None}
      /\ \A w \in Wrappers : object'[w] = None => observables'[w] = {}
      /\ \A w \in Wrappers : object'[w] # None =>
            observables'[w] = observables[w] /\ \A x \in observables[w] : object'[x] # None
  BY EraseHeap
<1>2. /\ TypeOK /\ ExcelTypes /\ NamesResolve /\ HeapInv /\ HiddenInv /\ ResidesInv
  BY DEF CoreInv
<1>3. /\ caller \in [Wrappers -> AllRanges \cup {None}]
      /\ cellName \in [Cells -> Ranges \cup {None}]
  BY <1>2 DEF ExcelTypes
<1>4. /\ caller' \in [Wrappers -> AllRanges \cup {None}]
      /\ \A w \in Wrappers :
            caller'[w] = IF object[w] # None /\ object'[w] = None THEN None ELSE caller[w]
      /\ residents' \in [AllRanges -> [IDs -> Wrappers \cup {None}]]
      /\ \A r \in AllRanges, i \in IDs : residents'[r][i] =
            IF \E w \in Wrappers : /\ object[w] # None /\ object'[w] = None
                                   /\ caller[w] = r /\ object[w].id = i
            THEN None ELSE entries[r][i]
      /\ cellName' = cellName
  <2>1. \A c \in Cells : cellName[c] # None => cellName[c] \in callingRanges'
    BY <1>2 DEF NamesResolve
  <2> QED
    BY <1>3, <2>1, SettleFacts
<1>5. \A i \in Stored : objectMap[i] \in Wrappers /\ object[objectMap[i]] # None
                        /\ object[objectMap[i]].id = i /\ i \in IDs
  BY <1>2 DEF TypeOK, Stored, ObjectOf
<1>6. \A i \in Stored \ D : objectMap'[i] = objectMap[i]
                            /\ caller'[objectMap[i]] = caller[objectMap[i]]
  BY <1>1, <1>4, <1>5
<1>7. ExcelTypes' /\ NamesResolve'
  <2>1. \A w \in Wrappers : caller'[w] \in Ranges => caller'[w] \in used
    BY <1>2, <1>4, NoneNoRange DEF ExcelTypes, AllRanges
  <2> QED
    BY <1>2, <1>4, <2>1 DEF ExcelTypes, NamesResolve
<1>8. HeapInv'
  <2> SUFFICES ASSUME NEW w \in Wrappers
               PROVE  /\ object'[w] = None <=> caller'[w] = None
                      /\ object'[w] = None => observables'[w] = {}
                      /\ \A x \in observables'[w] :
                            object'[x] # None /\ object'[x].id \in object'[w].precs
    BY DEF HeapInv
  <2>1. object'[w] = None <=> caller'[w] = None
    BY <1>1, <1>2, <1>4 DEF HeapInv
  <2>2. ASSUME NEW x \in observables'[w]
        PROVE  object'[x] # None /\ object'[x].id \in object'[w].precs
    <3>1. object'[w] # None /\ x \in observables[w] /\ object'[x] # None /\ object'[w] = object[w]
      BY <1>1, <2>2
    <3>2. x \in Wrappers /\ object[x].id \in object[w].precs
      BY <1>2, <3>1 DEF HeapInv, TypeOK
    <3> QED
      BY <1>1, <3>1, <3>2
  <2> QED
    BY <1>1, <2>1, <2>2
<1>9. HiddenInv'
  <2> SUFFICES ASSUME NEW w \in Wrappers, object'[w] # None, objectMap'[object'[w].id] # w
               PROVE  /\ ~valid(caller'[w])
                      /\ object'[w].id \in Stored' => caller'[objectMap'[object'[w].id]] # caller'[w]
    BY <1>4 DEF HiddenInv, valid
  <2> PICK i : i = object[w].id
    OBVIOUS
  <2>1. object'[w] = object[w] /\ caller'[w] = caller[w] /\ object[w] # None
    BY <1>1, <1>4
  <2>2. i \in IDs
    BY <1>2, <2>1 DEF TypeOK, Objects
  <2>3. CASE objectMap[i] # w
    <3>1. ~valid(caller[w]) /\ (i \in Stored => caller[objectMap[i]] # caller[w])
      BY <1>2, <2>1, <2>3 DEF HiddenInv
    <3> QED
      BY <1>1, <1>6, <2>1, <3>1
  <2>4. CASE objectMap[i] = w
    <3>1. i \in D /\ i \in Stored
      BY <1>1, <2>1, <2>2, <2>4, BelowAssumption DEF Stored
    <3> QED
      BY <1>1, <2>1, <2>4, <3>1
  <2> QED
    BY <2>3, <2>4
<1>10. ResidesInv'
  <2> SUFFICES ASSUME NEW i \in Stored \ D
               PROVE  /\ caller'[objectMap'[i]] \in callingRanges'
                      /\ residents'[caller'[objectMap'[i]]][i] = objectMap'[i]
    BY <1>1 DEF ResidesInv
  <2> PICK u : u = objectMap[i]
    OBVIOUS
  <2>1. /\ caller[u] \in callingRanges /\ residents[caller[u]][i] = u
        /\ caller[u] \in AllRanges /\ object'[u] = object[u] /\ object[u] # None
    BY <1>1, <1>2, <1>5 DEF ResidesInv, ExcelTypes
  <2>2. ASSUME NEW w \in Wrappers, object[w] # None, object'[w] = None, caller[w] = caller[u],
               object[w].id = i
        PROVE  FALSE
    <3>1. w # u
      BY <2>1, <2>2
    <3> QED
      BY <1>2, <2>2, <3>1 DEF HiddenInv
  <2>3. residents'[caller[u]][i] = entries[caller[u]][i]
    BY <1>4, <1>5, <2>1, <2>2
  <2> QED
    BY <1>6, <2>1, <2>3
<1> QED
  BY <1>1, <1>4, <1>6, <1>7, <1>8, <1>9, <1>10 DEF CoreInv

LEMMA StepDelete ==
    ASSUME InvXL, ~MayDeleteUsed,
           \/ \E list \in Lists : Deleting(deleteObject(list))
           \/ \E deletePermanent \in BOOLEAN : Deleting(deleteAllObjects(deletePermanent))
    PROVE  InvXL'
<1>1. UNCHANGED <<callingRanges, used, from>> /\ Settle(caller, residents, cellName)
  BY DEF Deleting
<1>2. \/ \E list \in Lists : deleteObject(list)
      \/ \E deletePermanent \in BOOLEAN : deleteAllObjects(deletePermanent)
  BY DEF Deleting
<1>3. Idle /\ UNCHANGED <<dirty, calls>>
  BY <1>2, DeletesErase
<1>4. PICK D \in SUBSET IDs : Deletable(D) /\ Erase(D)
  BY <1>2, DeletesErase
<1>5. CoreInv /\ ~Collecting /\ ResidentInv
  BY <1>3, IdlePlain DEF InvXL
<1>6. \A i \in Stored \cap D : object'[objectMap[i]] = None
  BY <1>4, <1>5, DeletedDie
<1>7. /\ residents \in [AllRanges -> [IDs -> Wrappers \cup {None}]]
      /\ caller \in [Wrappers -> AllRanges \cup {None}]
      /\ cellName \in [Cells -> Ranges \cup {None}]
  BY <1>5 DEF CoreInv, ExcelTypes
<1>8. /\ CoreInv' /\ Stored' = Stored \ D
      /\ \A i \in Stored \ D : objectMap'[i] = objectMap[i]
                               /\ caller'[objectMap[i]] = caller[objectMap[i]]
  BY <1>1, <1>3, <1>4, <1>5, <1>6, <1>7, EraseXL
<1>9. calls' = <<>>
  BY <1>3 DEF Idle
<1>10. StackXL' /\ GarbageInv' /\ \A r, i : ~Passed(r, i)'
  BY <1>9, EmptyStack, PlainNextStack
<1>11. ResidentInv'
  <2> SUFFICES ASSUME NEW r \in AllRanges, NEW i \in IDs, residents'[r][i] # None
               PROVE  i \in Stored' /\ objectMap'[i] = residents'[r][i] /\ caller'[objectMap'[i]] = r
    BY DEF ResidentInv
  <2>1. \A s \in AllRanges, j \in IDs : residents'[s][j] =
            IF \E w \in Wrappers : /\ object[w] # None /\ object'[w] = None
                                   /\ caller[w] = s /\ object[w].id = j
            THEN None ELSE residents[s][j]
    BY <1>1, <1>7, SettleFacts
  <2>2. residents'[r][i] = residents[r][i]
        /\ ~\E w \in Wrappers : /\ object[w] # None /\ object'[w] = None
                                /\ caller[w] = r /\ object[w].id = i
    BY <2>1
  <2>3. i \in Stored /\ objectMap[i] = residents[r][i] /\ caller[objectMap[i]] = r
    BY <1>5, <2>2 DEF ResidentInv, Passed
  <2>4. objectMap[i] \in Wrappers /\ object[objectMap[i]] # None /\ object[objectMap[i]].id = i
    BY <1>5, <2>3 DEF CoreInv, TypeOK, Stored, ObjectOf
  <2>5. i \notin D
    BY <1>6, <2>2, <2>3, <2>4
  <2> QED
    BY <1>8, <2>2, <2>3, <2>5
<1> QED
  BY <1>8, <1>10, <1>11 DEF InvXL

-----------------------------------------------------------------------------
(* Collecting.                                                             *)

\* A resident that a collection has yet to come to is the object stored under its
\* ID, and its range is the one that is cleared.
LEMMA ResidentFacts ==
    ASSUME InvXL, InRange, NEW i \in IDs, i \notin Top.done, residents[Top.at][i] # None
    PROVE  /\ Top \in GarbageFrames /\ Top.at \in AllRanges /\ ~valid(Top.at)
           /\ i \in Stored /\ objectMap[i] = residents[Top.at][i]
           /\ caller[objectMap[i]] = Top.at /\ object[objectMap[i]].id = i
           /\ object[objectMap[i]] # None
<1>1. Collecting /\ Top.at # None
  BY DEF InRange
<1>2. Top \in GarbageFrames
  BY <1>1, GarbageTop DEF InvXL
<1>3. Top.at \in AllRanges /\ ~valid(Top.at)
  BY <1>1, <1>2 DEF GarbageFrames, InvXL, GarbageInv
<1>4. i \in Stored /\ objectMap[i] = residents[Top.at][i] /\ caller[objectMap[i]] = Top.at
  BY <1>3 DEF InvXL, ResidentInv, Passed
<1> QED
  BY <1>2, <1>3, <1>4 DEF InvXL, CoreInv, TypeOK, ObjectOf

LEMMA ClearSpared ==
    ASSUME InvXL, InRange, NEW i \in IDs, i \notin Top.done, residents[Top.at][i] # None,
           Spared(i), calls' = <<[Top EXCEPT !.done = @ \cup {i}]>>,
           UNCHANGED <<objectMap, object, dirty, observables, excel>>
    PROVE  InvXL'
<1> PICK t : t = Top
  OBVIOUS
<1> PICK h : h = [t EXCEPT !.done = @ \cup {i}]
  OBVIOUS
<1>1. /\ t \in GarbageFrames /\ ~valid(t.at) /\ i \in Stored
      /\ objectMap[i] = residents[t.at][i] /\ object[objectMap[i]].id = i /\ Collecting
  BY ResidentFacts DEF InRange
<1>2. /\ h \in GarbageFrames /\ (h.deletePermanent <=> t.deletePermanent) /\ h.left = t.left
      /\ h.at = t.at /\ h.done = t.done \cup {i}
  BY <1>1, PastFacts
<1>3. StackXL' /\ Top' = h /\ Collecting'
  BY <1>2, GarbageNext
<1>4. CoreInv' /\ Stored' = Stored /\ \A r : valid(r)' <=> valid(r)
  BY CoreSame DEF InvXL
<1>5. ResidentInv'
  <2>1. \A r \in AllRanges, j \in IDs : Passed(r, j) => Passed(r, j)'
    BY <1>2, <1>3 DEF Passed
  <2> QED
    BY <2>1, ResidentSteady DEF InvXL, excel
<1>6. GarbageInv'
  <2>1. i \in Permanents /\ ~t.deletePermanent
    BY <1>1 DEF Spared, IsPermanent
  <2>2. /\ h.at # None => ~valid(h.at)
        /\ \A j \in h.done : j \in Stored => j \in Permanents /\ ~h.deletePermanent
        /\ \A j \in Stored : LET r == caller[objectMap[j]]
                             IN  \/ r \in h.left \/ r = h.at \/ valid(r)
                                 \/ j \in Permanents /\ ~h.deletePermanent
    BY <1>1, <1>2, <2>1 DEF InvXL, GarbageInv, Kept
  <2> QED
    BY <1>3, <1>4, <2>2 DEF GarbageInv, Kept, excel
<1> QED
  BY <1>3, <1>4, <1>5, <1>6 DEF InvXL

LEMMA ClearErased ==
    ASSUME InvXL, InRange, NEW i \in IDs, i \notin Top.done, residents[Top.at][i] # None,
           Erase({i}), UNCHANGED <<dirty, callingRanges, used, from>>,
           NEW entries \in [AllRanges -> [IDs -> Wrappers \cup {None}]],
           \A r \in AllRanges, j \in IDs : r # Top.at \/ j # i => entries[r][j] = residents[r][j],
           ~Top.deletePermanent => entries[Top.at][i] = None,
           Settle(caller, entries, cellName),
           calls' = <<[Top EXCEPT !.done = @ \cup {i}]>>
    PROVE  InvXL'
<1> PICK t : t = Top
  OBVIOUS
<1> PICK h : h = [t EXCEPT !.done = @ \cup {i}]
  OBVIOUS
<1>1. /\ t \in GarbageFrames /\ t.at \in AllRanges /\ ~valid(t.at) /\ i \in Stored
      /\ objectMap[i] = residents[t.at][i] /\ caller[objectMap[i]] = t.at /\ Collecting
  BY ResidentFacts DEF InRange
<1>2. /\ h \in GarbageFrames /\ (h.deletePermanent <=> t.deletePermanent) /\ h.left = t.left
      /\ h.at = t.at /\ h.done = t.done \cup {i}
  BY <1>1, PastFacts
<1>3. StackXL' /\ Top' = h /\ Collecting'
  BY <1>2, GarbageNext
<1>4. /\ residents \in [AllRanges -> [IDs -> Wrappers \cup {None}]]
      /\ caller \in [Wrappers -> AllRanges \cup {None}]
      /\ cellName \in [Cells -> Ranges \cup {None}]
      /\ CoreInv /\ ResidentInv /\ GarbageInv
  BY DEF InvXL, CoreInv, ExcelTypes
<1>5. /\ \A r \in AllRanges, j \in IDs : r # t.at \/ j # i => entries[r][j] = residents[r][j]
      /\ ~t.deletePermanent => entries[t.at][i] = None
  OBVIOUS
<1>6. \A j \in Stored \ {i} :
         entries[caller[objectMap[j]]][j] = residents[caller[objectMap[j]]][j]
  <2> TAKE j \in Stored \ {i}
  <2>1. caller[objectMap[j]] \in AllRanges /\ j \in IDs
    BY <1>4 DEF CoreInv, ResidesInv, ExcelTypes, Stored
  <2> QED
    BY <1>5, <2>1
<1>8. /\ CoreInv' /\ Stored' = Stored \ {i} /\ cellName' = cellName
      /\ \A j \in Stored \ {i} : objectMap'[j] = objectMap[j]
                                 /\ caller'[objectMap[j]] = caller[objectMap[j]]
  <2>1. {i} \in SUBSET IDs /\ \A j \in Stored \cap {i} : ~valid(caller[objectMap[j]])
    BY <1>1
  <2> QED
    BY <1>4, <1>6, <2>1, EraseXL
<1>9. ResidentInv'
  <2> SUFFICES ASSUME NEW r \in AllRanges, NEW j \in IDs, residents'[r][j] # None, ~Passed(r, j)'
               PROVE  j \in Stored' /\ objectMap'[j] = residents'[r][j] /\ caller'[objectMap'[j]] = r
    BY DEF ResidentInv
  <2>0. \A s \in AllRanges, k \in IDs : residents'[s][k] =
           IF \E w \in Wrappers : /\ object[w] # None /\ object'[w] = None
                                  /\ caller[w] = s /\ object[w].id = k
           THEN None ELSE entries[s][k]
    BY <1>4, SettleFacts
  <2>1. residents'[r][j] = entries[r][j]
    BY <2>0
  <2>2. ~(r = t.at /\ t.deletePermanent /\ j \in t.done \cup {i})
    BY <1>2, <1>3 DEF Passed
  <2>3. r # t.at \/ j # i
    BY <1>5, <2>1, <2>2
  <2>4. residents'[r][j] = residents[r][j] /\ ~Passed(r, j)
    BY <1>5, <2>1, <2>2, <2>3 DEF Passed
  <2>5. j \in Stored /\ objectMap[j] = residents[r][j] /\ caller[objectMap[j]] = r
    BY <1>4, <2>4 DEF ResidentInv
  <2>6. j # i
    BY <1>1, <2>3, <2>5
  <2> QED
    BY <1>8, <2>4, <2>5, <2>6
<1>10. GarbageInv'
  <2>1. \A r : valid(r)' <=> valid(r)
    BY <1>8 DEF valid
  <2>2. \A j \in h.done : j \in Stored \ {i} => j \in Permanents /\ ~h.deletePermanent
    BY <1>1, <1>2, <1>4 DEF GarbageInv, Kept
  <2>3. \A j \in Stored \ {i} : LET r == caller'[objectMap'[j]]
                                IN  \/ r \in h.left \/ r = h.at \/ valid(r)
                                    \/ j \in Permanents /\ ~h.deletePermanent
    BY <1>1, <1>2, <1>4, <1>8 DEF GarbageInv, Kept
  <2> QED
    BY <1>1, <1>2, <1>3, <1>8, <2>1, <2>2, <2>3 DEF GarbageInv, Kept
<1> QED
  BY <1>3, <1>8, <1>9, <1>10 DEF InvXL

\* An entry whose ID is unknown, which would throw, is never met.
LEMMA StepClearResident ==
    ASSUME InvXL, NEW i \in IDs, ClearResident(i)
    PROVE  InvXL'
<1>1. InRange /\ i \notin Top.done /\ residents[Top.at][i] # None /\ dirty' = dirty
  BY DEF ClearResident
<1>2. Exists(i)
  BY <1>1, ResidentFacts DEF Exists, Stored
<1>3. CASE Spared(i)
  BY <1>1, <1>3, ClearSpared DEF ClearResident
<1>4. CASE ~Spared(i)
  <2> PICK entries : entries = IF Top.deletePermanent THEN residents
                               ELSE [residents EXCEPT ![Top.at][i] = None]
    OBVIOUS
  <2>1. /\ residents \in [AllRanges -> [IDs -> Wrappers \cup {None}]] /\ Top.at \in AllRanges
    BY <1>1, ResidentFacts DEF InvXL, CoreInv, ExcelTypes
  <2>2. /\ entries \in [AllRanges -> [IDs -> Wrappers \cup {None}]]
        /\ \A r \in AllRanges, j \in IDs : r # Top.at \/ j # i => entries[r][j] = residents[r][j]
        /\ ~Top.deletePermanent => entries[Top.at][i] = None
    BY <2>1
  <2>3. /\ Erase({i}) /\ UNCHANGED <<callingRanges, used, from>>
        /\ Settle(caller, entries, cellName) /\ calls' = <<[Top EXCEPT !.done = @ \cup {i}]>>
    BY <1>2, <1>4 DEF ClearResident
  <2> QED
    BY <1>1, <2>2, <2>3, ClearErased
<1> QED
  BY <1>3, <1>4

\* What resides in a cleared range is there to stay, and the range with it.
LEMMA LeaveCleared ==
    ASSUME InvXL, InRange,
           \A i \in IDs \ Top.done : residents[Top.at][i] = None,
           NEW entries \in [AllRanges -> [IDs -> Wrappers \cup {None}]],
           \A r \in AllRanges, i \in IDs :
              r # Top.at \/ ~Top.deletePermanent => entries[r][i] = residents[r][i],
           Top.deletePermanent => \A i \in IDs : entries[Top.at][i] = None,
           callingRanges' = IF \A i \in IDs : entries[Top.at][i] = None
                            THEN callingRanges \ {Top.at} ELSE callingRanges,
           UNCHANGED <<objectMap, object, dirty, observables, used, from>>,
           calls' = <<[Top EXCEPT !.at = None, !.done = {}]>>,
           Settle(caller, entries, cellName)
    PROVE  InvXL'
<1> PICK t : t = Top
  OBVIOUS
<1> PICK h : h = [t EXCEPT !.at = None, !.done = {}]
  OBVIOUS
<1>1. /\ Collecting /\ t.at # None
      /\ \A i \in IDs \ t.done : residents[t.at][i] = None
      /\ UNCHANGED <<objectMap, object, dirty, observables, used, from>>
      /\ calls' = <<h>>
  BY DEF InRange
<1>2. callingRanges' = IF \A i \in IDs : entries[t.at][i] = None
                       THEN callingRanges \ {t.at} ELSE callingRanges
  OBVIOUS
<1>3. t \in GarbageFrames /\ t.at \in AllRanges
  <2>1. t \in GarbageFrames
    BY <1>1, GarbageTop DEF InvXL
  <2> QED
    BY <1>1, <2>1 DEF GarbageFrames
<1>4. /\ h \in GarbageFrames /\ (h.deletePermanent <=> t.deletePermanent) /\ h.left = t.left
      /\ h.at = None /\ h.done = {}
  BY <1>3, LeaveFacts
<1>5. StackXL' /\ Top' = h /\ Collecting'
  BY <1>1, <1>4, GarbageNext
<1>6. /\ TypeOK /\ ListedInv /\ ExcelTypes /\ NamesResolve /\ HeapInv /\ HiddenInv /\ ResidesInv
      /\ ResidentInv /\ GarbageInv
  BY DEF InvXL, CoreInv
<1>7. /\ residents \in [AllRanges -> [IDs -> Wrappers \cup {None}]]
      /\ caller \in [Wrappers -> AllRanges \cup {None}]
      /\ cellName \in [Cells -> Ranges \cup {None}]
      /\ ~valid(t.at)
  BY <1>1, <1>6 DEF ExcelTypes, GarbageInv
<1>8. /\ \A r \in AllRanges, i \in IDs : r # t.at \/ ~t.deletePermanent => entries[r][i] = residents[r][i]
      /\ t.deletePermanent => \A i \in IDs : entries[t.at][i] = None
  OBVIOUS
<1>9. /\ \A w \in Wrappers : caller'[w] = caller[w]
      /\ caller' \in [Wrappers -> AllRanges \cup {None}]
      /\ residents' \in [AllRanges -> [IDs -> Wrappers \cup {None}]]
      /\ \A r \in AllRanges, i \in IDs : residents'[r][i] = entries[r][i]
  <2>1. ~\E w \in Wrappers : object[w] # None /\ object'[w] = None
    BY <1>1
  <2>2. \A s \in AllRanges, k \in IDs : residents'[s][k] =
           IF \E w \in Wrappers : /\ object[w] # None /\ object'[w] = None
                                  /\ caller[w] = s /\ object[w].id = k
           THEN None ELSE entries[s][k]
    BY <1>7, SettleFacts
  <2>3. /\ caller' \in [Wrappers -> AllRanges \cup {None}]
        /\ \A w \in Wrappers :
              caller'[w] = IF object[w] # None /\ object'[w] = None THEN None ELSE caller[w]
        /\ residents' \in [AllRanges -> [IDs -> Wrappers \cup {None}]]
    BY <1>7, SettleFacts
  <2> QED
    BY <2>1, <2>2, <2>3
<1>10. \A c \in Cells : cellName[c] # None => cellName[c] \in callingRanges'
  BY <1>2, <1>6, <1>7 DEF NamesResolve, valid
<1>11. cellName' = cellName /\ NamesResolve'
  BY <1>7, <1>10, SettleFacts DEF NamesResolve
<1>12. Stored' = Stored /\ \A r : valid(r)' <=> valid(r)
  BY <1>1, <1>11 DEF Stored, valid
<1>13. \A i \in Stored : /\ i \in IDs /\ objectMap[i] \in Wrappers /\ objectMap[i] # None
                         /\ caller[objectMap[i]] \in AllRanges
                         /\ caller'[objectMap[i]] = caller[objectMap[i]]
  BY <1>6, <1>9 DEF TypeOK, Stored, ResidesInv, ExcelTypes
<1>14. \A i \in Stored : caller[objectMap[i]] = t.at => i \in Permanents /\ ~t.deletePermanent
  BY <1>1, <1>6, <1>13 DEF ResidesInv, GarbageInv, Kept
<1>15. TypeOK' /\ ListedInv'
  BY <1>1, <1>6 DEF TypeOK, ListedInv, Stored, ObjectOf
<1>16. ExcelTypes'
  BY <1>1, <1>2, <1>6, <1>9, <1>11 DEF ExcelTypes
<1>17. HeapInv'
  BY <1>1, <1>6, <1>9 DEF HeapInv
<1>18. HiddenInv'
  BY <1>1, <1>6, <1>9, <1>12, <1>13 DEF HiddenInv
<1>19. ResidesInv'
  <2> SUFFICES ASSUME NEW i \in Stored
               PROVE  /\ caller[objectMap[i]] \in callingRanges'
                      /\ residents'[caller[objectMap[i]]][i] = objectMap[i]
    BY <1>1, <1>12, <1>13 DEF ResidesInv
  <2>1. /\ caller[objectMap[i]] \in callingRanges
        /\ residents[caller[objectMap[i]]][i] = objectMap[i]
    BY <1>6 DEF ResidesInv
  <2>2. entries[caller[objectMap[i]]][i] = objectMap[i]
    BY <1>8, <1>13, <1>14, <2>1
  <2> QED
    BY <1>2, <1>9, <1>13, <2>1, <2>2
<1>20. ResidentInv'
  <2> SUFFICES ASSUME NEW r \in AllRanges, NEW i \in IDs, residents'[r][i] # None
               PROVE  i \in Stored /\ objectMap[i] = residents'[r][i] /\ caller'[objectMap[i]] = r
    BY <1>1, <1>12 DEF ResidentInv
  <2>1. entries[r][i] # None /\ residents'[r][i] = entries[r][i]
    BY <1>9
  <2>2. r # t.at \/ ~t.deletePermanent
    BY <1>8, <2>1
  <2>3. residents[r][i] = residents'[r][i] /\ ~Passed(r, i)
    BY <1>8, <2>1, <2>2 DEF Passed
  <2> QED
    BY <1>6, <1>13, <2>3 DEF ResidentInv
<1>21. GarbageInv'
  <2>1. \A i \in Stored : LET r == caller'[objectMap[i]]
                          IN  \/ r \in h.left \/ r = h.at \/ valid(r)
                              \/ i \in Permanents /\ ~h.deletePermanent
    BY <1>1, <1>4, <1>6, <1>13, <1>14 DEF GarbageInv, Kept
  <2> QED
    BY <1>1, <1>4, <1>5, <1>12, <2>1 DEF GarbageInv, Kept
<1> QED
  BY <1>5, <1>11, <1>15, <1>16, <1>17, <1>18, <1>19, <1>20, <1>21 DEF InvXL, CoreInv

LEMMA StepLeave ==
    ASSUME InvXL, Leave
    PROVE  InvXL'
<1> PICK entries : entries = IF Top.deletePermanent
                             THEN [residents EXCEPT ![Top.at] = [i \in IDs |-> None]] ELSE residents
  OBVIOUS
<1>1. InRange /\ Top \in GarbageFrames /\ Top.at \in AllRanges
  <2>1. InRange /\ Collecting /\ Top.at # None
    BY DEF Leave, InRange
  <2>2. Top \in GarbageFrames
    BY <2>1, GarbageTop DEF InvXL
  <2> QED
    BY <2>1, <2>2 DEF GarbageFrames
<1>2. residents \in [AllRanges -> [IDs -> Wrappers \cup {None}]]
  BY DEF InvXL, CoreInv, ExcelTypes
<1>3. /\ entries \in [AllRanges -> [IDs -> Wrappers \cup {None}]]
      /\ \A r \in AllRanges, i \in IDs :
            r # Top.at \/ ~Top.deletePermanent => entries[r][i] = residents[r][i]
      /\ Top.deletePermanent => \A i \in IDs : entries[Top.at][i] = None
  BY <1>1, <1>2
<1>4. /\ \A i \in IDs \ Top.done : residents[Top.at][i] = None
      /\ callingRanges' = IF \A i \in IDs : entries[Top.at][i] = None
                          THEN callingRanges \ {Top.at} ELSE callingRanges
      /\ UNCHANGED <<objectMap, object, dirty, observables, used, from>>
      /\ calls' = <<[Top EXCEPT !.at = None, !.done = {}]>>
      /\ Settle(caller, entries, cellName)
  BY DEF Leave
<1> QED
  BY <1>1, <1>3, <1>4, LeaveCleared

\* Closing the add-in destroys every wrapper, whoever observed it, and every
\* range.
LEMMA StepClear ==
    ASSUME InvXL, clear
    PROVE  InvXL'
<1> PICK map : map = [i \in IDs |-> None]
  OBVIOUS
<1>1. /\ Idle /\ Rebind(map, observables, object) /\ callingRanges' = {}
      /\ Settle(caller, residents, cellName) /\ UNCHANGED <<dirty, calls, used, from>>
  BY DEF clear
<1>2. Live(map, observables) = {}
  <2>1. {map[i] : i \in IDs} \ {None} = {}
    OBVIOUS
  <2>2. Live(map, observables) \subseteq {}
    BY <2>1, ClosureLeast DEF Live
  <2> QED
    BY <2>2
<1>3. objectMap' = map /\ observables' = [x \in Wrappers |-> {}] /\ object' = [x \in Wrappers |-> None]
  BY <1>1, <1>2 DEF Rebind
<1>4. /\ residents \in [AllRanges -> [IDs -> Wrappers \cup {None}]]
      /\ caller \in [Wrappers -> AllRanges \cup {None}]
      /\ cellName \in [Cells -> Ranges \cup {None}]
      /\ TypeOK /\ HeapInv /\ ResidentInv /\ ExcelTypes /\ ~Collecting
  BY <1>1, IdlePlain DEF InvXL, CoreInv, ExcelTypes
<1>5. /\ caller' \in [Wrappers -> AllRanges \cup {None}]
      /\ \A w \in Wrappers :
            caller'[w] = IF object[w] # None /\ object'[w] = None THEN None ELSE caller[w]
      /\ residents' \in [AllRanges -> [IDs -> Wrappers \cup {None}]]
      /\ \A r \in AllRanges, i \in IDs : residents'[r][i] =
            IF \E w \in Wrappers : /\ object[w] # None /\ object'[w] = None
                                   /\ caller[w] = r /\ object[w].id = i
            THEN None ELSE residents[r][i]
      /\ cellName' \in [Cells -> Ranges \cup {None}]
  BY <1>1, <1>4, SettleFacts
<1>6. \A w \in Wrappers : caller'[w] = None
  BY <1>3, <1>4, <1>5 DEF HeapInv
<1>7. \A c \in Cells : cellName'[c] = None
  <2>1. cellName' = Named(cellName, callingRanges' \cup {caller'[w] : w \in Wrappers})
    BY <1>1 DEF Settle
  <2>2. \A x \in callingRanges' \cup {caller'[w] : w \in Wrappers} : x = None
    BY <1>1, <1>6
  <2> QED
    BY <2>1, <2>2 DEF Named
<1>8. Stored' = {}
  BY <1>3 DEF Stored
<1>9. TypeOK' /\ ListedInv'
  BY <1>1, <1>3, <1>4, <1>8 DEF TypeOK, ListedInv
<1>10. ExcelTypes' /\ NamesResolve'
  BY <1>1, <1>4, <1>5, <1>6, <1>7, NoneNoRange DEF ExcelTypes, NamesResolve, AllRanges
<1>11. HeapInv' /\ HiddenInv' /\ ResidesInv'
  BY <1>3, <1>6, <1>8 DEF HeapInv, HiddenInv, ResidesInv
<1>12. ResidentInv'
  <2> SUFFICES ASSUME NEW r \in AllRanges, NEW i \in IDs PROVE residents'[r][i] = None
    BY DEF ResidentInv
  <2>1. CASE residents[r][i] = None
    BY <1>5, <2>1
  <2>2. CASE residents[r][i] # None
    <3>1. i \in Stored /\ caller[objectMap[i]] = r
      BY <1>4, <2>2 DEF ResidentInv, Passed
    <3>2. objectMap[i] \in Wrappers /\ object[objectMap[i]] # None /\ object[objectMap[i]].id = i
      BY <1>4, <3>1 DEF TypeOK, Stored, ObjectOf
    <3> QED
      BY <1>3, <1>5, <3>1, <3>2
  <2> QED
    BY <2>1, <2>2
<1>13. StackXL' /\ GarbageInv'
  BY <1>1, EmptyStack, PlainNextStack DEF Idle
<1> QED
  BY <1>9, <1>10, <1>11, <1>12, <1>13 DEF InvXL, CoreInv

-----------------------------------------------------------------------------
(* Storing.                                                                *)

\* The range a call stores in is one that its cell has, or a new one: no wrapper
\* that the map has lost is in it.
LEMMA CallFacts ==
    ASSUME CoreInv, NEW r \in getCallingRange, Enter(r)
    PROVE  /\ r \in AllRanges
           /\ \A x \in Wrappers : object[x] # None /\ objectMap[object[x].id] # x => caller[x] # r
           /\ NamesWith(r) \in [Cells -> Ranges \cup {None}]
           /\ \A c \in Cells : NamesWith(r)[c] # None => NamesWith(r)[c] \in callingRanges'
           /\ \A c \in Cells : NamesWith(r)[c] \in {r, cellName[c]}
           /\ callingRanges' \subseteq AllRanges /\ callingRanges' \cap Ranges \subseteq used'
           /\ used' \subseteq Ranges /\ used \subseteq used' /\ callingRanges \subseteq callingRanges'
           /\ r \in callingRanges' /\ (r \in Ranges => r \in used')
<1>1. /\ callingRanges \subseteq AllRanges /\ callingRanges \cap Ranges \subseteq used
      /\ caller \in [Wrappers -> AllRanges \cup {None}]
      /\ cellName \in [Cells -> Ranges \cup {None}]
      /\ used \subseteq Ranges /\ from \in Cells \cup {VBA}
      /\ \A x \in Wrappers : caller[x] \in Ranges => caller[x] \in used
      /\ NamesResolve /\ HiddenInv
  BY DEF CoreInv, ExcelTypes
<1>2. VBA \notin Ranges /\ VBA \notin Cells /\ None # VBA /\ None \notin Ranges
  BY CellsAssumption
<1>3. CASE from = VBA
  <2>1. r = VBA
    BY <1>2, <1>3 DEF getCallingRange, callerName
  <2>2. NamesWith(r) = cellName
    BY <1>1, <1>2, <1>3 DEF NamesWith
  <2>3. callingRanges' = callingRanges \cup {VBA} /\ used' = used
    BY <1>2, <2>1 DEF Enter
  <2>4. valid(r)
    BY <2>1 DEF valid
  <2>5. \A x \in Wrappers : object[x] # None /\ objectMap[object[x].id] # x => caller[x] # r
    BY <1>1, <2>4 DEF HiddenInv
  <2> QED
    BY <1>1, <1>2, <2>1, <2>2, <2>3, <2>5 DEF NamesResolve, AllRanges
<1>4. CASE from # VBA
  <2>1. from \in Cells /\ callerName = cellName[from]
    BY <1>1, <1>4 DEF callerName
  <2>2. r \in Ranges /\ (r \in Ranges \ used \/ r = cellName[from])
    BY <1>1, <1>2, <2>1 DEF getCallingRange
  <2>3. callingRanges' = callingRanges \cup {r} /\ used' = used \cup {r}
    BY <2>2 DEF Enter
  <2>4. ASSUME NEW x \in Wrappers, object[x] # None, objectMap[object[x].id] # x
        PROVE  caller[x] # r
    <3>1. ~valid(caller[x])
      BY <1>1, <2>4 DEF HiddenInv
    <3>2. CASE r \in Ranges \ used
      BY <1>1, <3>2
    <3>3. CASE r = cellName[from]
      BY <2>1, <3>1, <3>3 DEF valid
    <3> QED
      BY <2>2, <3>2, <3>3
  <2>5. /\ NamesWith(r) \in [Cells -> Ranges \cup {None}]
        /\ \A c \in Cells : NamesWith(r)[c] = IF c = from THEN r ELSE cellName[c]
    BY <1>1, <2>2 DEF NamesWith
  <2> QED
    BY <1>1, <1>2, <2>2, <2>3, <2>4, <2>5 DEF NamesResolve, AllRanges
<1> QED
  BY <1>3, <1>4

\* The heap when the object just built is put into wrapper w: what it observes is
\* there, and so is what the other wrappers observe.
LEMMA InstallHeap ==
    ASSUME CoreInv, BaseInv(Commands), Running("create"), Top.left = {}, NEW map, NEW w,
           Install(map, w), dirty' \in [Wrappers -> BOOLEAN],
           object[w] = None \/ object[w].id = Top.id
    PROVE  /\ TypeOK' /\ ListedInv' /\ objectMap' = map /\ Stored' = Stored \cup {Top.id}
           /\ object'[w] = Built /\ Built # None /\ Built.id = Top.id
           /\ \A i \in Stored \ {Top.id} : object'[objectMap[i]] = object[objectMap[i]]
           /\ \A x \in Wrappers \ {w} : object'[x] \in {object[x], None}
           /\ \A x \in Wrappers : object'[x] = None => observables'[x] = {}
           /\ \A x \in Wrappers : \A y \in observables'[x] :
                 object'[y] # None /\ object'[y].id \in object'[x].precs
<1> PICK id : id = Top.id
  OBVIOUS
<1> PICK b : b = Built
  OBVIOUS
<1> PICK listed : listed = Top.listed
  OBVIOUS
<1>1. /\ id \in IDs /\ Top.precs \subseteq Stored /\ listed \subseteq b.precs /\ listed \subseteq Stored
      /\ b \in Objects /\ b # None /\ b.id = id
  BY CreatorFacts
<1>2. /\ TypeOK' /\ ListedInv' /\ objectMap' = map
      /\ Keys(map) = Stored \cup {id} /\ object'[w] = b
      /\ \A i \in Keys(map) \ {id} : object'[map[i]] = ObjectOf(i)
  BY InstallFacts
<1>3. /\ w \in Wrappers /\ map \in [IDs -> Wrappers \cup {None}] /\ map[id] = w
      /\ \A i \in IDs \ {id} : map[i] = objectMap[i] /\ map[i] # w
      /\ Rebind(map, Registered(map, w, listed), [object EXCEPT ![w] = b])
  BY DEF Install
<1>4. TypeOK /\ HeapInv
  BY DEF CoreInv
<1>5. \A i \in Stored : /\ i \in IDs /\ objectMap[i] \in Wrappers /\ objectMap[i] # None
                        /\ object[objectMap[i]] # None /\ object[objectMap[i]].id = i
  BY <1>4, BelowAssumption DEF TypeOK, Stored, ObjectOf
<1>6. Stored' = Stored \cup {id}
  BY <1>2 DEF Stored, Keys
<1>7. \A i \in Stored \ {id} : object'[objectMap[i]] = object[objectMap[i]]
  BY <1>2, <1>3, <1>5 DEF ObjectOf
<1> PICK obs : obs = Registered(map, w, listed)
  OBVIOUS
<1> PICK live : live = Live(map, obs)
  OBVIOUS
<1>8. {map[p] : p \in listed} \subseteq Wrappers
  BY <1>1, <1>3, <1>5
<1>9. /\ obs \in [Wrappers -> SUBSET Wrappers]
      /\ obs[w] = {map[p] : p \in listed}
      /\ \A x \in Wrappers \ {w} : obs[x] = observables[x]
  <2>1. obs = [observables EXCEPT ![w] = {map[p] : p \in listed}]
    BY DEF Registered
  <2> QED
    BY <1>3, <1>4, <1>8, <2>1 DEF TypeOK
<1>10. /\ observables' = [x \in Wrappers |-> IF x \in live THEN obs[x] ELSE {}]
       /\ object' = [x \in Wrappers |-> IF x \in live THEN [object EXCEPT ![w] = b][x] ELSE None]
  BY <1>3 DEF Rebind
<1>11. object \in [Wrappers -> Objects \cup {None}]
  BY <1>4 DEF TypeOK
<1>12. \A x \in Wrappers \ {w} : object'[x] = IF x \in live THEN object[x] ELSE None
  BY <1>10, <1>11
<1>13. \A x \in live : x \in Wrappers /\ obs[x] \subseteq live
  <2> PICK seed : seed = {map[i] : i \in IDs} \ {None}
    OBVIOUS
  <2>1. live = Closure(Wrappers, seed, obs)
    BY DEF Live
  <2>2. live \subseteq Wrappers
    BY <2>1 DEF Closure
  <2> QED
    BY <1>9, <2>1, <2>2, ClosureStep
<1>14. ASSUME NEW x \in Wrappers, object'[x] = None PROVE observables'[x] = {}
  <2>1. x # w
    BY <1>1, <1>2, <1>14
  <2>2. CASE x \in live
    BY <1>4, <1>9, <1>10, <1>12, <1>14, <2>1, <2>2 DEF HeapInv
  <2>3. CASE x \notin live
    BY <1>10, <2>3
  <2> QED
    BY <2>2, <2>3
<1>15. ASSUME NEW x \in Wrappers, NEW y \in observables'[x]
       PROVE  object'[y] # None /\ object'[y].id \in object'[x].precs
  <2>1. x \in live /\ y \in obs[x] /\ y \in live /\ y \in Wrappers
    BY <1>10, <1>13, <1>15
  <2>2. CASE x = w
    <3>1. PICK p \in listed : y = map[p]
      BY <1>9, <2>1, <2>2
    <3>2. CASE p = id
      BY <1>1, <1>2, <1>3, <2>2, <3>1, <3>2
    <3>3. CASE p # id
      <4>1. p \in Stored \ {id} /\ y = objectMap[p]
        BY <1>1, <1>3, <1>5, <3>1, <3>3
      <4>2. object'[y] = object[y] /\ object[y] # None /\ object[y].id = p
        BY <1>5, <1>7, <4>1
      <4> QED
        BY <1>1, <1>2, <2>2, <4>2
    <3> QED
      BY <3>2, <3>3
  <2>3. CASE x # w
    <3>1. y \in observables[x] /\ object'[x] = object[x]
      BY <1>9, <1>12, <2>1, <2>3
    <3>2. object[y] # None /\ object[y].id \in object[x].precs
      BY <1>4, <3>1 DEF HeapInv
    <3>3. object'[y] # None /\ object'[y].id = object[y].id
      BY <1>1, <1>2, <1>12, <2>1, <3>2
    <3> QED
      BY <3>1, <3>2, <3>3
  <2> QED
    BY <2>2, <2>3
<1> QED
  BY <1>1, <1>2, <1>6, <1>7, <1>12, <1>14, <1>15

\* Storing: the object moves into range r, and whatever dies of it was listed
\* elsewhere.
LEMMA StoreInstalled ==
    ASSUME InvXL, BaseInv(Commands), ~Collecting, Running("create"), Top.left = {},
           NEW map, NEW w, Install(map, w),
           dirty' \in [Wrappers -> BOOLEAN], object[w] = None \/ object[w].id = Top.id,
           Top.id \in Stored => objectMap[Top.id] = w,
           NEW r \in getCallingRange, Enter(r),
           NEW callers, callers = [caller EXCEPT ![w] = r], NEW entries, entries = Resides(w, r),
           NEW names, names = NamesWith(r), Settle(callers, entries, names),
           calls' = <<>>, from' = from
    PROVE  InvXL'
<1> PICK id : id = Top.id
  OBVIOUS
<1> PICK b : b = Built
  OBVIOUS
<1>1. /\ CoreInv /\ TypeOK /\ ExcelTypes /\ HeapInv /\ HiddenInv /\ ResidesInv /\ ResidentInv
      /\ caller \in [Wrappers -> AllRanges \cup {None}]
      /\ residents \in [AllRanges -> [IDs -> Wrappers \cup {None}]]
      /\ from \in Cells \cup {VBA}
      /\ \A x \in Wrappers : caller[x] \in Ranges => caller[x] \in used
  BY DEF InvXL, CoreInv, ExcelTypes
<1>2. /\ r \in AllRanges
      /\ \A x \in Wrappers : object[x] # None /\ objectMap[object[x].id] # x => caller[x] # r
      /\ names \in [Cells -> Ranges \cup {None}]
      /\ \A c \in Cells : names[c] # None => names[c] \in callingRanges'
      /\ \A c \in Cells : names[c] \in {r, cellName[c]}
      /\ callingRanges' \subseteq AllRanges /\ callingRanges' \cap Ranges \subseteq used'
      /\ used' \subseteq Ranges /\ used \subseteq used' /\ callingRanges \subseteq callingRanges'
      /\ r \in callingRanges' /\ (r \in Ranges => r \in used')
  BY <1>1, CallFacts
<1>3. /\ TypeOK' /\ ListedInv' /\ objectMap' = map /\ Stored' = Stored \cup {id}
      /\ object'[w] = b /\ b # None /\ b.id = id
      /\ \A i \in Stored \ {id} : object'[objectMap[i]] = object[objectMap[i]]
      /\ \A x \in Wrappers \ {w} : object'[x] \in {object[x], None}
      /\ \A x \in Wrappers : object'[x] = None => observables'[x] = {}
      /\ \A x \in Wrappers : \A y \in observables'[x] :
            object'[y] # None /\ object'[y].id \in object'[x].precs
  BY <1>1, InstallHeap
<1>4. /\ w \in Wrappers /\ map[id] = w /\ id \in IDs
      /\ \A i \in IDs \ {id} : map[i] = objectMap[i] /\ map[i] # w
  BY CreatorFacts DEF Install
<1>5. /\ callers \in [Wrappers -> AllRanges \cup {None}]
      /\ callers[w] = r /\ \A x \in Wrappers \ {w} : callers[x] = caller[x]
  BY <1>1, <1>2, <1>4
<1>6. /\ entries \in [AllRanges -> [IDs -> Wrappers \cup {None}]]
      /\ entries[r][id] = w
      /\ \A s \in AllRanges : s # r => entries[s][id] = IF s = caller[w] THEN None ELSE residents[s][id]
      /\ \A s \in AllRanges, i \in IDs : i # id => entries[s][i] = residents[s][i]
  <2>1. entries = [s \in AllRanges |-> [i \in IDs |->
           IF s = r /\ i = id THEN w
           ELSE IF s = caller[w] /\ i = id THEN None ELSE residents[s][i]]]
    BY DEF Resides
  <2> QED
    BY <1>1, <1>2, <1>4, <2>1
<1>7. /\ caller' \in [Wrappers -> AllRanges \cup {None}]
      /\ \A x \in Wrappers :
            caller'[x] = IF object[x] # None /\ object'[x] = None THEN None ELSE callers[x]
  BY <1>2, <1>5, <1>6, SettleFacts
<1>8. /\ residents' \in [AllRanges -> [IDs -> Wrappers \cup {None}]]
      /\ \A s \in AllRanges, i \in IDs : residents'[s][i] =
            IF \E x \in Wrappers : /\ object[x] # None /\ object'[x] = None
                                   /\ callers[x] = s /\ object[x].id = i
            THEN None ELSE entries[s][i]
  <2>1. /\ callers \in [Wrappers -> AllRanges \cup {None}]
        /\ entries \in [AllRanges -> [IDs -> Wrappers \cup {None}]]
        /\ names \in [Cells -> Ranges \cup {None}]
        /\ Settle(callers, entries, names)
    BY <1>2, <1>5, <1>6
  <2> QED
    BY ONLY <2>1, SettleFacts
<1>9. cellName' = names
  BY <1>2, <1>5, <1>6, SettleFacts
<1>10. \A i \in Stored : /\ i \in IDs /\ objectMap[i] \in Wrappers /\ objectMap[i] # None
                         /\ object[objectMap[i]] # None /\ object[objectMap[i]].id = i
                         /\ caller[objectMap[i]] \in AllRanges
  BY <1>1, BelowAssumption DEF TypeOK, Stored, ObjectOf, ResidesInv, ExcelTypes
<1>11. caller'[w] = r
  BY <1>3, <1>4, <1>5, <1>7
<1>12. \A i \in Stored \ {id} : /\ objectMap'[i] = objectMap[i] /\ objectMap[i] # w
                                /\ caller'[objectMap[i]] = caller[objectMap[i]]
  BY <1>3, <1>4, <1>5, <1>7, <1>10
<1>13. \A x \in Wrappers \ {w} : object'[x] # None => object'[x] = object[x] /\ caller'[x] = caller[x]
  BY <1>3, <1>5, <1>7
<1>14. \A x \in Wrappers \ {w} : object[x] # None /\ object[x].id = id => objectMap[id] # x
  BY <1>4, <1>10, BelowAssumption DEF Stored
<1>15. ASSUME NEW x \in Wrappers, object[x] # None, object'[x] = None
       PROVE  /\ x # w /\ callers[x] = caller[x] /\ objectMap[object[x].id] # x
              /\ caller[x] # r
              /\ object[x].id \in Stored => caller[objectMap[object[x].id]] # caller[x]
  <2>1. x # w
    BY <1>3, <1>15
  <2>2. object[x].id \in IDs
    BY <1>1, <1>15 DEF TypeOK, Objects
  <2>3. objectMap[object[x].id] # x
    <3>1. CASE object[x].id = id
      BY <1>14, <1>15, <2>1, <3>1
    <3>2. CASE object[x].id # id
      <4>1. ASSUME objectMap[object[x].id] = x PROVE FALSE
        <5>1. object[x].id \in Stored
          BY <2>2, <4>1, BelowAssumption DEF Stored
        <5> QED
          BY <1>3, <1>15, <3>2, <4>1, <5>1
      <4> QED
        BY <4>1
    <3> QED
      BY <3>1, <3>2
  <2> QED
    BY <1>1, <1>2, <1>5, <1>15, <2>1, <2>3 DEF HiddenInv
<1>16. ExcelTypes' /\ NamesResolve'
  <2>1. \A x \in Wrappers : caller'[x] \in Ranges => caller'[x] \in used'
    BY <1>1, <1>2, <1>5, <1>7, NoneNoRange DEF AllRanges
  <2>2. from' \in Cells \cup {VBA}
    BY <1>1
  <2> QED
    BY <1>2, <1>7, <1>8, <1>9, <2>1, <2>2 DEF ExcelTypes, NamesResolve
<1>17. HeapInv'
  <2>1. \A x \in Wrappers : object'[x] = None <=> caller'[x] = None
    <3> TAKE x \in Wrappers
    <3>1. CASE x = w
      BY <1>2, <1>3, <1>11, <3>1, NoneNoRange
    <3>2. CASE x # w
      BY <1>1, <1>3, <1>5, <1>7, <3>2 DEF HeapInv
    <3> QED
      BY <3>1, <3>2
  <2> QED
    BY <1>3, <2>1 DEF HeapInv
<1>18. HiddenInv'
  <2> SUFFICES ASSUME NEW x \in Wrappers, object'[x] # None, objectMap'[object'[x].id] # x
               PROVE  /\ ~(caller'[x] = VBA \/ \E c \in Cells : cellName'[c] = caller'[x])
                      /\ object'[x].id \in Stored' => caller'[objectMap'[object'[x].id]] # caller'[x]
    BY DEF HiddenInv, valid
  <2> PICK k : k = object[x].id
    OBVIOUS
  <2>1. x # w
    BY <1>3, <1>4
  <2>2. object'[x] = object[x] /\ caller'[x] = caller[x] /\ object[x] # None
    BY <1>13, <2>1
  <2>3. k \in IDs
    BY <1>1, <2>2 DEF TypeOK, Objects
  <2>4. objectMap[k] # x
    BY <1>3, <1>4, <1>14, <2>1, <2>2, <2>3
  <2>5. /\ ~valid(caller[x]) /\ caller[x] # r
        /\ k \in Stored => caller[objectMap[k]] # caller[x]
    BY <1>1, <1>2, <2>2, <2>4 DEF HiddenInv
  <2>6. \A c \in Cells : cellName'[c] # caller[x]
    BY <1>2, <1>9, <2>5 DEF valid
  <2>7. ~(caller'[x] = VBA \/ \E c \in Cells : cellName'[c] = caller'[x])
    BY <2>2, <2>5, <2>6 DEF valid
  <2>8. k \in Stored' => caller'[objectMap'[k]] # caller[x]
    <3>1. CASE k = id
      BY <1>3, <1>4, <1>11, <2>5, <3>1
    <3>2. CASE k # id
      BY <1>3, <1>12, <2>5, <3>2
    <3> QED
      BY <3>1, <3>2
  <2> QED
    BY <2>2, <2>7, <2>8
<1>19. ResidesInv'
  <2> SUFFICES ASSUME NEW i \in Stored \cup {id}
               PROVE  /\ caller'[objectMap'[i]] \in callingRanges'
                      /\ residents'[caller'[objectMap'[i]]][i] = objectMap'[i]
    BY <1>3 DEF ResidesInv
  <2>1. CASE i = id
    <3>1. ~\E x \in Wrappers : /\ object[x] # None /\ object'[x] = None
                               /\ callers[x] = r /\ object[x].id = id
      BY <1>15
    <3>2. residents'[r][id] = w
      BY <1>2, <1>4, <1>6, <1>8, <3>1
    <3> QED
      BY <1>2, <1>3, <1>4, <1>11, <2>1, <3>2
  <2>2. CASE i # id
    <3> PICK s : s = caller[objectMap[i]]
      OBVIOUS
    <3>1. i \in Stored /\ i \in IDs /\ s \in callingRanges /\ residents[s][i] = objectMap[i] /\ s \in AllRanges
      BY <1>1, <1>10, <2>2 DEF ResidesInv
    <3>2. ~\E x \in Wrappers : /\ object[x] # None /\ object'[x] = None
                               /\ callers[x] = s /\ object[x].id = i
      BY <1>15, <3>1
    <3>3. residents'[s][i] = objectMap[i]
      BY <1>6, <1>8, <2>2, <3>1, <3>2
    <3> QED
      BY <1>2, <1>12, <2>2, <3>1, <3>3
  <2> QED
    BY <2>1, <2>2
<1>20. ResidentInv'
  <2> SUFFICES ASSUME NEW s \in AllRanges, NEW i \in IDs, residents'[s][i] # None
               PROVE  i \in Stored' /\ objectMap'[i] = residents'[s][i] /\ caller'[objectMap'[i]] = s
    BY DEF ResidentInv
  <2>1. residents'[s][i] = entries[s][i]
    BY <1>8
  <2>2. \A q \in AllRanges, k \in IDs : residents[q][k] # None =>
           k \in Stored /\ objectMap[k] = residents[q][k] /\ caller[objectMap[k]] = q
    BY <1>1 DEF ResidentInv, Passed
  <2>3. CASE i = id /\ s = r
    BY <1>3, <1>4, <1>6, <1>11, <2>1, <2>3
  <2>4. CASE i = id /\ s # r
    BY <1>6, <2>1, <2>2, <2>4
  <2>5. CASE i # id
    BY <1>3, <1>6, <1>12, <2>1, <2>2, <2>5
  <2> QED
    BY <2>3, <2>4, <2>5
<1>21. StackXL' /\ GarbageInv'
  BY EmptyStack, PlainNextStack
<1> QED
  BY <1>3, <1>16, <1>17, <1>18, <1>19, <1>20, <1>21 DEF InvXL, CoreInv

\* "Cannot create object with ID": the cell has a range all the same.
LEMMA StoreRefused ==
    ASSUME InvXL, ~Collecting, NEW r \in getCallingRange, Enter(r), cellName' = NamesWith(r),
           calls' = <<>>, from' = from,
           UNCHANGED <<objectMap, object, dirty, observables, residents, caller>>
    PROVE  InvXL'
<1>1. /\ CoreInv /\ ExcelTypes /\ HeapInv /\ HiddenInv /\ ResidesInv /\ ResidentInv
  BY DEF InvXL, CoreInv
<1>2. /\ r \in AllRanges
      /\ \A x \in Wrappers : object[x] # None /\ objectMap[object[x].id] # x => caller[x] # r
      /\ cellName' \in [Cells -> Ranges \cup {None}]
      /\ \A c \in Cells : cellName'[c] # None => cellName'[c] \in callingRanges'
      /\ \A c \in Cells : cellName'[c] \in {r, cellName[c]}
      /\ callingRanges' \subseteq AllRanges /\ callingRanges' \cap Ranges \subseteq used'
      /\ used' \subseteq Ranges /\ used \subseteq used' /\ callingRanges \subseteq callingRanges'
  BY <1>1, CallFacts
<1>3. TypeOK' /\ ListedInv' /\ Stored' = Stored
  BY DEF InvXL, CoreInv, TypeOK, ListedInv, Stored, ObjectOf
<1>4. ExcelTypes' /\ NamesResolve'
  BY <1>1, <1>2 DEF ExcelTypes, NamesResolve
<1>5. HeapInv' /\ ResidesInv'
  BY <1>1, <1>2, <1>3 DEF HeapInv, ResidesInv
<1>6. HiddenInv'
  BY <1>1, <1>2, <1>3 DEF HiddenInv, valid
<1>7. ResidentInv'
  BY <1>1, ResidentSteady DEF Passed
<1>8. StackXL' /\ GarbageInv'
  BY EmptyStack, PlainNextStack
<1> QED
  BY <1>3, <1>4, <1>5, <1>6, <1>7, <1>8 DEF InvXL, CoreInv

LEMMA StepStore ==
    ASSUME InvXL, storeObjectXL
    PROVE  InvXL'
<1>1. Running("create") /\ Top.left = {} /\ from' = from
  BY DEF storeObjectXL
<1>2. ~Collecting
  BY <1>1 DEF Collecting, Running
<1>3. BaseInv(Commands) /\ TypeOK
  BY <1>2, PlainBase DEF BaseInv
<1>4. Top.id \in IDs
  BY <1>1, <1>3, CreatorFacts
<1>5. ASSUME NEW r \in getCallingRange, NEW w \in Wrappers, StoreNew(w) \/ StoreOver(w, r), Enter(r),
             Settle([caller EXCEPT ![w] = r], Resides(w, r), NamesWith(r)), calls' = <<>>
      PROVE  InvXL'
  <2>1. PICK map : /\ Install(map, w) /\ dirty' \in [Wrappers -> BOOLEAN]
                   /\ object[w] = None \/ object[w].id = Top.id
                   /\ Top.id \in Stored => objectMap[Top.id] = w
    <3>1. CASE StoreNew(w)
      <4> PICK map : map = [objectMap EXCEPT ![Top.id] = w]
        OBVIOUS
      <4>1. /\ ~Exists(Top.id) /\ object[w] = None
            /\ Rebind(map, Registered(map, w, Top.listed), [object EXCEPT ![w] = Built])
            /\ dirty' = [dirty EXCEPT ![w] = FALSE]
        BY <3>1 DEF StoreNew
      <4>2. InstallNew(map, w)
        BY <1>3, <1>4, <4>1, NewInstalls
      <4> QED
        BY <1>3, <4>1, <4>2 DEF InstallNew, TypeOK
    <3>2. CASE StoreOver(w, r)
      <4>1. /\ objectMap[Top.id] = w /\ dirty' = Reset(w)
            /\ Rebind(objectMap, Registered(objectMap, w, Top.listed), [object EXCEPT ![w] = Built])
        BY <3>2 DEF StoreOver
      <4>2. Exists(Top.id) /\ Top.id \in Stored
        BY <1>4, <4>1, BelowAssumption DEF Exists, Stored
      <4>3. InstallOver(objectMap, w)
        BY <1>3, <1>4, <4>1, <4>2, OverInstalls
      <4>4. dirty' \in [Wrappers -> BOOLEAN]
        BY <4>1 DEF Reset
      <4>5. object[w].id = Top.id
        BY <1>3, <4>1, <4>2 DEF TypeOK, ObjectOf
      <4> QED
        BY <4>1, <4>3, <4>4, <4>5 DEF InstallOver
    <3> QED
      BY <1>5, <3>1, <3>2
  <2>2. PICK callers, entries, names : /\ callers = [caller EXCEPT ![w] = r]
                                       /\ entries = Resides(w, r) /\ names = NamesWith(r)
    OBVIOUS
  <2>3. Settle(callers, entries, names)
    BY <1>5, <2>2
  <2> QED
    BY <1>1, <1>2, <1>3, <1>5, <2>1, <2>2, <2>3, StoreInstalled
<1>6. ASSUME NEW r \in getCallingRange, Enter(r), cellName' = NamesWith(r), Throw,
             UNCHANGED <<objectMap, object, dirty, observables, residents, caller>>
      PROVE  InvXL'
  BY <1>1, <1>2, <1>6, StoreRefused DEF Throw
<1>7. ASSUME Throw, UNCHANGED <<objectMap, object, dirty, observables, callingRanges, residents,
                                caller, cellName, used>>
      PROVE  InvXL'
  <2>1. StackInv(Commands, calls', objectMap, object)
    BY <1>7, EmptyStack DEF Throw
  <2>2. BaseInv(Commands)'
    BY <1>3, <1>7, <2>1, BaseSteady
  <2>3. from' \in Cells \cup {VBA}
    BY <1>1 DEF InvXL, CoreInv, ExcelTypes
  <2> QED
    BY <1>2, <1>7, <2>2, <2>3, PlainStep
<1> QED
  BY <1>5, <1>6, <1>7 DEF storeObjectXL

-----------------------------------------------------------------------------
(* The invariant holds.                                                    *)

LEMMA InitInvXL == InitXL => InvXL
<1> SUFFICES ASSUME InitXL PROVE InvXL
  OBVIOUS
<1>1. BaseInv(Commands)
  BY BaseInit DEF InitXL
<1>2. Stored = {} /\ calls = <<>>
  BY DEF InitXL, Init, Stored
<1>3. StackXL /\ ~Collecting
  BY <1>1, <1>2 DEF BaseInv, StackXL, Collecting, Running, Idle
<1>4. ExcelTypes /\ NamesResolve
  BY NoneNoRange DEF InitXL, ExcelTypes, NamesResolve, AllRanges
<1>5. HeapInv /\ HiddenInv /\ ResidesInv /\ ResidentInv /\ GarbageInv
  BY <1>2, <1>3 DEF InitXL, Init, HeapInv, HiddenInv, ResidesInv, ResidentInv, GarbageInv
<1> QED
  BY <1>1, <1>3, <1>4, <1>5 DEF InvXL, CoreInv, BaseInv

LEMMA StutterXL == ASSUME InvXL, UNCHANGED varsXL PROVE InvXL'
<1>1. CoreInv'
  BY CoreSame DEF varsXL, excel, InvXL
<1>2. StackXL' /\ Stored' = Stored /\ \A r : valid(r)' <=> valid(r)
  BY DEF varsXL, InvXL, StackXL, Stored, valid
<1>3. ResidentInv'
  BY ResidentSteady DEF varsXL, InvXL, Passed, Collecting, Running, Idle, Top
<1>4. GarbageInv'
  BY <1>2 DEF varsXL, InvXL, GarbageInv, Kept, Collecting, Running, Idle, Top
<1> QED
  BY <1>1, <1>2, <1>3, <1>4 DEF InvXL

LEMMA NextInvXL == ASSUME ~MayDeleteUsed, InvXL, [NextXL]_varsXL PROVE InvXL'
<1>1. CASE \E i \in IDs, c \in Cells \cup {VBA} : RetrieveXL(i, c)
  BY <1>1, StepRetrieve
<1>2. CASE \E i \in IDs, arg \in Args, precs \in SUBSET IDs, overwrite \in BOOLEAN,
              c \in Cells \cup {VBA} : CreateXL(i, arg, precs, overwrite, c)
  BY <1>2, StepCreate
<1>3. CASE \E p \in IDs : retrieveObjectImpl(p) /\ UNCHANGED excel
  BY <1>3, StepRetrieveImpl
<1>4. CASE recreate /\ UNCHANGED excel
  BY <1>4, StepRecreate
<1>5. CASE RetrieveEnd /\ UNCHANGED excel
  BY <1>5, StepRetrieveEnd
<1>6. CASE storeObjectXL
  BY <1>6, StepStore
<1>7. CASE \/ \E list \in Lists : Deleting(deleteObject(list))
           \/ \E deletePermanent \in BOOLEAN : Deleting(deleteAllObjects(deletePermanent))
  BY <1>7, StepDelete
<1>8. CASE \E deletePermanent \in BOOLEAN : collectGarbage(deletePermanent)
  BY <1>8, StepCollect
<1>9. CASE \E r \in AllRanges : Visit(r)
  BY <1>9, StepVisit
<1>10. CASE \E i \in IDs : ClearResident(i)
  BY <1>10, StepClearResident
<1>11. CASE Leave
  BY <1>11, StepLeave
<1>12. CASE CollectEnd
  BY <1>12, StepCollectEnd
<1>13. CASE clear
  BY <1>13, StepClear
<1>14. CASE \E c \in Cells : DeleteCell(c)
  BY <1>14, StepDeleteCell
<1>15. CASE UNCHANGED varsXL
  BY <1>15, StutterXL
<1> QED
  BY <1>1, <1>2, <1>3, <1>4, <1>5, <1>6, <1>7, <1>8, <1>9, <1>10, <1>11, <1>12, <1>13, <1>14, <1>15
  DEF NextXL

LEMMA AlwaysInvXL == ASSUME ~MayDeleteUsed PROVE SpecXL => []InvXL
<1>1. InvXL /\ [NextXL]_varsXL => InvXL'
  BY NextInvXL
<1> QED
  BY <1>1, InitInvXL, PTL DEF SpecXL

-----------------------------------------------------------------------------
(* Theorems.  ~MayDeleteUsed: clients delete dependents first, as for the  *)
(* repository outside Excel; collections delete what they find.            *)

\* Whatever is stored, moved between cells, deleted and collected, the hidden name
\* of a cell leads to a calling range (RepositoryXL::getCallingRange).
THEOREM NamesAlwaysResolve == ASSUME ~MayDeleteUsed PROVE SpecXL => []NamesResolve
<1>1. InvXL => NamesResolve
  BY DEF InvXL, CoreInv
<1> QED
  BY <1>1, AlwaysInvXL, PTL

\* Between calls every object resides in the range its wrapper names, where
\* collections find it (ObjectWrapperXL::resetCaller, CallingRange::registerObject).
THEOREM ObjectsReside == ASSUME ~MayDeleteUsed PROVE SpecXL => []ResidesWhereStored
<1>1. InvXL => ResidesWhereStored
  BY DEF InvXL, CoreInv, ResidesInv, ResidesWhereStored
<1> QED
  BY <1>1, AlwaysInvXL, PTL

\* Between calls no range lists an object that is not in the repository, however
\* long others have kept its wrapper alive (~ObjectWrapperXL), so that a collection
\* never throws.
THEOREM ResidentsStayStored == ASSUME ~MayDeleteUsed PROVE SpecXL => []ResidentsAreStored
<1>1. InvXL => ResidentsAreStored
  <2> SUFFICES ASSUME InvXL, Idle, NEW r \in callingRanges, NEW i \in IDs, residents[r][i] # None
               PROVE  objectMap[i] = residents[r][i]
    BY DEF ResidentsAreStored
  <2>1. r \in AllRanges /\ ~Collecting
    BY IdlePlain DEF InvXL, CoreInv, ExcelTypes
  <2> QED
    BY <2>1 DEF InvXL, ResidentInv, Passed
<1> QED
  BY <1>1, AlwaysInvXL, PTL

\* A collection that has come to its end has left no orphan but permanent ones it
\* was to keep (RepositoryXL::collectGarbage).
THEOREM NoOrphanLeft == ASSUME ~MayDeleteUsed PROVE SpecXL => []OrphansCollected
<1>1. InvXL => OrphansCollected
  <2> SUFFICES ASSUME InvXL, Collecting, Top.at = None, Top.left = {}, NEW i \in Stored
               PROVE  valid(caller[objectMap[i]]) \/ (i \in Permanents /\ ~Top.deletePermanent)
    BY DEF OrphansCollected, Collected
  <2>1. objectMap[i] \in Wrappers /\ object[objectMap[i]] # None
    BY DEF InvXL, CoreInv, TypeOK, Stored, ObjectOf
  <2>2. caller[objectMap[i]] # None
    BY <2>1 DEF InvXL, CoreInv, HeapInv
  <2> QED
    BY <2>2 DEF InvXL, GarbageInv, Kept
<1> QED
  BY <1>1, AlwaysInvXL, PTL

\* Only ClearResident takes objects out of the map during a collection, and the
\* one it takes resides in the range that is cleared.
LEMMA CollectingDeletes ==
    ASSUME InvXL, [NextXL]_varsXL, Collecting, NEW i \in IDs, Exists(i), objectMap'[i] = None
    PROVE  ~valid(caller[objectMap[i]])
<1>1. Top.op = "gc" /\ ~Idle
  BY DEF Collecting, Running
<1>2. objectMap' # objectMap
  BY DEF Exists
<1>3. Top \in GarbageFrames
  BY GarbageTop DEF InvXL
<1>4. PICK j \in IDs : ClearResident(j)
  <2>1. ASSUME NEW p \in IDs, retrieveObjectImpl(p) PROVE FALSE
    BY <1>2, <2>1 DEF retrieveObjectImpl
  <2>2. ~recreate /\ ~RetrieveEnd /\ ~storeObjectXL
    BY <1>1 DEF recreate, RetrieveEnd, storeObjectXL, Running
  <2>3. ASSUME NEW a, NEW b, NEW c, NEW d, NEW e, RetrieveXL(a, b) \/ CreateXL(a, b, c, d, e) PROVE FALSE
    BY <1>1, <2>3 DEF RetrieveXL, CreateXL, Retrieve, Create
  <2>4. ASSUME NEW list, Deleting(deleteObject(list)) \/ Deleting(deleteAllObjects(list)) PROVE FALSE
    BY <1>1, <2>4 DEF Deleting, deleteObject, deleteAllObjects
  <2>5. ASSUME NEW a, collectGarbage(a) \/ DeleteCell(a) \/ Visit(a) PROVE FALSE
    BY <1>1, <1>2, <2>5 DEF collectGarbage, DeleteCell, Visit
  <2>6. ~Leave /\ ~CollectEnd /\ ~clear /\ ~UNCHANGED varsXL
    BY <1>1, <1>2 DEF Leave, CollectEnd, clear, varsXL
  <2> QED
    BY <2>1, <2>2, <2>3, <2>4, <2>5, <2>6 DEF NextXL
<1>5. Erase({j})
  BY <1>2, <1>4 DEF ClearResident
<1>6. objectMap' = [k \in IDs |-> IF k \in {j} THEN None ELSE objectMap[k]]
  BY <1>5 DEF Erase, Rebind
<1>7. i = j
  BY <1>6 DEF Exists
<1>8. InRange /\ j \notin Top.done /\ residents[Top.at][j] # None
  BY <1>4 DEF ClearResident
<1> QED
  BY <1>7, <1>8, ResidentFacts

\* A collection deletes no object whose cell is still there
\* (CallingRange::clearResidentObjects).
THEOREM NoneButOrphans == ASSUME ~MayDeleteUsed PROVE SpecXL => OnlyOrphansCollected
<1>1. InvXL /\ [NextXL]_varsXL =>
        [Collecting => \A i \in IDs :
            Exists(i) /\ objectMap'[i] = None => ~valid(caller[objectMap[i]])]_varsXL
  BY CollectingDeletes
<1> QED
  BY <1>1, AlwaysInvXL, PTL DEF SpecXL, OnlyOrphansCollected
===========================================================================
