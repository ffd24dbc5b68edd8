------------------------ MODULE SerializationProofs ------------------------
(***************************************************************************)
(* Proofs about Serialization, and so about Repository, for any sets of    *)
(* IDs, wrappers and arguments: the invariants of the repository, that it  *)
(* implements ObjectStore, and what a load leaves behind.                  *)
(***************************************************************************)
EXTENDS Serialization, RepositoryProofs

-----------------------------------------------------------------------------
(* Files, and the frames of saving and loading.                            *)

ValueObjects == [id : IDs, arg : Args, precs : SUBSET IDs]
Arguments == Args \cup {None} \cup Seq(IDs) \cup Seq(ValueObjects)

\* No ID is in a list of IDs, or in a file, twice.
Distinct(list) == \A k, n \in DOMAIN list : list[k] = list[n] => k = n
DistinctIDs(F) == \A k, n \in DOMAIN F : F[k].id = F[n].id => k = n

\* What was saved is there once it has been retrieved.
IOFrame(f, m) ==
    /\ f.op = "save" => /\ f.arg \in Seq(IDs) /\ Distinct(f.arg)
                        /\ \A k \in DOMAIN f.arg : f.arg[k] \in f.left \cup Keys(m)
    /\ f.op = "load" => f.arg \in Seq(ValueObjects) /\ f.left = {}

IOStack(s, m) == \A k \in 1..Len(s) : IOFrame(s[k], m)

FileInv == file \in Seq(ValueObjects) /\ DistinctIDs(file)

TypeInv == BaseInv(Arguments) /\ IOStack(calls, objectMap) /\ FileInv

\* Objects in a file, and those of it left to load, are built on earlier ones.
Descends(R, F) == \A k \in DOMAIN F : \A p \in F[k].precs : <<p, F[k].id>> \in R
FileDescends(R) ==
    /\ \A k \in 1..Len(calls) : calls[k].op = "load" => Descends(R, calls[k].arg)
    /\ Descends(R, file)

-----------------------------------------------------------------------------
(* Loading.                                                                *)

Restored(v, m, o) == v.id \in Keys(m) /\ o[m[v.id]].arg = v.arg /\ o[m[v.id]].precs = v.precs

\* How many items a load has taken from file F.
Taken(f, F) == Len(F) - Len(f.arg)

\* All that a load has taken is there, but for the one it builds now.
Loading(f, F, m, o, upTo) ==
    /\ Len(f.arg) <= Len(F)
    /\ \A k \in 1..Len(f.arg) : f.arg[k] = F[Taken(f, F) + k]
    /\ \A k \in 1..upTo : Restored(F[k], m, o)

\* A load below the top, on a stack s, and the frame above it.
Awaiting(s, n, F, m, o) ==
    /\ Taken(s[n], F) >= 1
    /\ Loading(s[n], F, m, o, Taken(s[n], F) - 1)
    /\ s[n-1].op = "create"
    /\ s[n-1].id = F[Taken(s[n], F)].id
    /\ s[n-1].arg = F[Taken(s[n], F)].arg
    /\ s[n-1].precs = F[Taken(s[n], F)].precs

LoadInv(s, F, m, o) ==
    \A n \in 1..Len(s) : s[n].op = "load" =>
        IF n = 1 THEN Loading(s[n], F, m, o, Taken(s[n], F)) ELSE Awaiting(s, n, F, m, o)

-----------------------------------------------------------------------------
(* What the steps of the repository are to a save or a load.               *)

\* A call begins or ends; or one is made, of recreate; or one more precedent is
\* there; or an object has been recreated, from the same; or stored.
Begins == \/ calls' = <<>>
          \/ \E f : calls' = <<f>> /\ f.op \notin {"save", "load"}
Calls == /\ \E f : calls' = <<f>> \o calls /\ f \in Frames(Arguments) /\ f.op = "recreate"
         /\ UNCHANGED <<objectMap, object>> /\ ~Idle /\ Top.left # {}
Receives ==
    /\ UNCHANGED <<objectMap, object>> /\ ~Idle
    /\ \E p \in Stored \cap Top.left : \E f \in Frames(Arguments) :
          /\ calls' = <<f>> \o Tail(calls)
          /\ f.op = Top.op /\ f.id = Top.id /\ f.arg = Top.arg /\ f.precs = Top.precs
          /\ f.left = Top.left \ {p}
Recreates ==
    /\ calls' = Tail(calls) /\ ~Idle /\ Top.op = "recreate"
    /\ objectMap' = objectMap
    /\ \A i \in Stored : object'[objectMap[i]].arg = object[objectMap[i]].arg
                         /\ object'[objectMap[i]].precs = object[objectMap[i]].precs
Stores ==
    /\ calls' = Tail(calls) /\ ~Idle /\ Top.op = "create"
    /\ Top.id \in IDs /\ Keys(objectMap') = Stored \cup {Top.id}
    /\ object'[objectMap'[Top.id]].arg = Top.arg /\ object'[objectMap'[Top.id]].precs = Top.precs
    /\ \A i \in Stored \ {Top.id} : object'[objectMap'[i]] = object[objectMap[i]]

LEMMA RepositorySteps ==
    ASSUME BaseInv(Arguments), Next
    PROVE  Begins \/ Calls \/ Receives \/ Recreates \/ Stores
<1>0. Args \subseteq Arguments
  BY DEF Arguments
<1>1. ASSUME NEW i \in IDs, Retrieve(i) PROVE Begins
  BY <1>1 DEF Retrieve, Frame, Begins
<1>2. ASSUME NEW i \in IDs, NEW arg \in Args, NEW precs \in SUBSET IDs,
             NEW overwrite \in BOOLEAN, Create(i, arg, precs, overwrite)
      PROVE  Begins
  BY <1>2 DEF Create, Frame, Begins
<1>3. ASSUME NEW p \in IDs, retrieveObjectImpl(p) PROVE Begins \/ Calls \/ Receives
  <2>1. ~Idle /\ p \in Top.left /\ UNCHANGED <<objectMap, object>>
    BY <1>3, RetrieveCases
  <2>2. TypeOK /\ StackInv(Arguments, calls, objectMap, object)
    BY DEF BaseInv
  <2>3. CASE calls' = <<>>
    BY <2>3 DEF Begins
  <2>4. CASE p \in Stored /\ calls' = <<RecreateOf(p)>> \o calls
    <3>1. RecreateOf(p) \in Frames(Arguments) /\ RecreateOf(p).op = "recreate"
      BY <1>0, <2>2, <2>4, RecreateOfFacts
    <3> QED
      BY <2>1, <2>4, <3>1 DEF Calls
  <2>5. CASE p \in Stored /\ calls' = <<Answered(p)>> \o Tail(calls)
    <3> PICK f : f = Answered(p)
      OBVIOUS
    <3>1. /\ f \in Frames(Arguments) /\ f.op = Top.op /\ f.id = Top.id /\ f.arg = Top.arg
          /\ f.precs = Top.precs /\ f.left = Top.left \ {p}
      BY <2>1, <2>2, <2>5, AnsweredFacts
    <3> QED
      BY <2>1, <2>5, <3>1 DEF Receives
  <2> QED
    BY <1>3, <2>3, <2>4, <2>5, RetrieveCases
<1>4. CASE recreate
  <2>1. calls' = Tail(calls)
    BY <1>4 DEF recreate
  <2>2. /\ ~Idle /\ Top.op = "recreate" /\ objectMap' = objectMap
        /\ \A i \in Stored : ObjectOf(i)'.arg = ObjectOf(i).arg
                             /\ ObjectOf(i)'.precs = ObjectOf(i).precs
    BY <1>4, RecreateFacts
  <2> QED
    BY <2>1, <2>2 DEF Recreates, ObjectOf
<1>5. CASE RetrieveEnd
  BY <1>5 DEF RetrieveEnd, Begins
<1>6. CASE storeObject
  <2>1. Running("create") /\ Top.left = {}
    BY <1>6 DEF storeObject
  <2>2. /\ Top.id \in IDs /\ TypeOK /\ ~Idle /\ Top.op = "create"
        /\ Built.arg = Top.arg /\ Built.precs = Top.precs
    BY <2>1, CreatorFacts DEF BaseInv
  <2>3. CASE calls' = <<>>
    BY <2>3 DEF Begins
  <2>4. ASSUME NEW map, NEW w, InstallNew(map, w) \/ InstallOver(map, w), calls' = Tail(calls)
        PROVE  Stores
    <3>1. Install(map, w) /\ dirty' \in [Wrappers -> BOOLEAN]
      BY <2>2, <2>4 DEF InstallNew, InstallOver, Reset, TypeOK
    <3>2. /\ objectMap' = map /\ Keys(map) = Stored \cup {Top.id} /\ object'[w] = Built
          /\ \A i \in Keys(map) \ {Top.id} : object'[map[i]] = ObjectOf(i)
      BY <2>1, <3>1, InstallFacts
    <3>3. map[Top.id] = w
      BY <3>1 DEF Install
    <3>4. \A i \in Stored \ {Top.id} : object'[map[i]] = object[objectMap[i]]
      BY <3>2 DEF ObjectOf
    <3>5. object'[map[Top.id]].arg = Top.arg /\ object'[map[Top.id]].precs = Top.precs
      BY <2>2, <3>2, <3>3
    <3> QED
      BY <2>2, <2>4, <3>2, <3>4, <3>5 DEF Stores
  <2> QED
    BY <1>6, <2>2, <2>3, <2>4, StoreCases
<1>7. CASE \/ \E list \in Lists : deleteObject(list)
           \/ \E deletePermanent \in BOOLEAN : deleteAllObjects(deletePermanent)
  BY <1>7, DeletesErase DEF Idle, Begins
<1> QED
  BY <1>1, <1>2, <1>3, <1>4, <1>5, <1>6, <1>7 DEF Next

\* The same, frame by frame.  A frame that stays has one on top of it, except
\* the one that becomes the top when another returns.
LEMMA PushIndex ==
    ASSUME StackInv(Arguments, calls, objectMap, object), NEW f \in Frames(Arguments),
           calls' = <<f>> \o calls
    PROVE  /\ Len(calls) \in Nat /\ Len(calls') = Len(calls) + 1 /\ calls'[1] = f
           /\ \A k \in 1..Len(calls') : k = 1 \/ (k - 1 \in 1..Len(calls) /\ calls'[k] = calls[k-1])
<1>1. calls \in Seq(Frames(Arguments)) /\ Len(calls) \in Nat
  BY DEF StackInv
<1>2. /\ Len(calls') = Len(calls) + 1 /\ calls'[1] = f
      /\ \A k \in 2..(Len(calls) + 1) : calls'[k] = calls[k-1]
  BY <1>1, PushFacts
<1> QED
  BY <1>1, <1>2

LEMMA PopIndex ==
    ASSUME StackInv(Arguments, calls, objectMap, object), ~Idle, calls' = Tail(calls)
    PROVE  /\ Len(calls) \in Nat \ {0} /\ Len(calls') = Len(calls) - 1
           /\ \A k \in 1..Len(calls') : k + 1 \in 2..Len(calls) /\ calls'[k] = calls[k+1]
<1>1. calls \in Seq(Frames(Arguments)) /\ calls # <<>>
  BY DEF StackInv, Idle
<1>2. /\ Len(calls) \in Nat \ {0} /\ Len(calls') = Len(calls) - 1
      /\ \A k \in 1..(Len(calls) - 1) : calls'[k] = calls[k+1]
  BY <1>1, PopFacts
<1> QED
  BY <1>2

LEMMA ReplaceIndex ==
    ASSUME StackInv(Arguments, calls, objectMap, object), ~Idle, NEW f \in Frames(Arguments),
           calls' = <<f>> \o Tail(calls)
    PROVE  /\ Len(calls) \in Nat \ {0} /\ Len(calls') = Len(calls) /\ calls'[1] = f
           /\ \A k \in 2..Len(calls) : calls'[k] = calls[k]
           /\ \A k \in 1..Len(calls') : k \in 1..Len(calls) /\ (k = 1 \/ calls'[k] = calls[k])
<1>1. calls \in Seq(Frames(Arguments)) /\ calls # <<>>
  BY DEF StackInv, Idle
<1>2. /\ Len(calls) \in Nat \ {0} /\ Len(calls') = Len(calls) /\ calls'[1] = f
      /\ \A k \in 2..Len(calls) : calls'[k] = calls[k]
  BY <1>1, PopFacts, ReplaceFacts
<1> QED
  BY <1>2

LEMMA SingleIndex ==
    ASSUME NEW f, calls' = <<f>>
    PROVE  Len(calls') = 1 /\ calls'[1] = f /\ \A k \in 1..Len(calls') : k = 1
<1>1. Len(<<f>>) = 1 /\ <<f>>[1] = f
  OBVIOUS
<1>2. \A k \in 1..1 : k = 1
  OBVIOUS
<1> QED
  BY <1>1, <1>2

\* Saves and loads have what they need through all of these.
LEMMA IONext ==
    ASSUME BaseInv(Arguments), IOStack(calls, objectMap), Next
    PROVE  IOStack(calls', objectMap')
<1>0. TypeOK /\ StackInv(Arguments, calls, objectMap, object) /\ Stored = Keys(objectMap)
  BY StoredFacts DEF BaseInv
<1>1. CASE Begins
  <2>1. CASE calls' = <<>>
    BY <2>1 DEF IOStack
  <2>2. ASSUME NEW f, calls' = <<f>>, f.op \notin {"save", "load"}
        PROVE  IOStack(calls', objectMap')
    BY <2>2, SingleIndex DEF IOStack, IOFrame
  <2> QED
    BY <1>1, <2>1, <2>2 DEF Begins
<1>2. CASE Calls
  <2>1. PICK f : calls' = <<f>> \o calls /\ f \in Frames(Arguments) /\ f.op = "recreate"
    BY <1>2 DEF Calls
  <2>2. objectMap' = objectMap
    BY <1>2 DEF Calls
  <2>3. IOFrame(f, objectMap)
    BY <2>1 DEF IOFrame
  <2> QED
    BY <1>0, <2>1, <2>2, <2>3, PushIndex DEF IOStack
<1>3. CASE Receives
  <2>1. PICK p \in Stored \cap Top.left : \E f \in Frames(Arguments) :
           /\ calls' = <<f>> \o Tail(calls)
           /\ f.op = Top.op /\ f.id = Top.id /\ f.arg = Top.arg /\ f.precs = Top.precs
           /\ f.left = Top.left \ {p}
    BY <1>3 DEF Receives
  <2>2. PICK f \in Frames(Arguments) :
           /\ calls' = <<f>> \o Tail(calls)
           /\ f.op = Top.op /\ f.id = Top.id /\ f.arg = Top.arg /\ f.precs = Top.precs
           /\ f.left = Top.left \ {p}
    BY <2>1
  <2>3. objectMap' = objectMap /\ ~Idle
    BY <1>3 DEF Receives
  <2>4. /\ Len(calls) \in Nat \ {0} /\ Len(calls') = Len(calls) /\ calls'[1] = f
        /\ \A k \in 1..Len(calls') : k \in 1..Len(calls) /\ (k = 1 \/ calls'[k] = calls[k])
    BY <1>0, <2>2, <2>3, ReplaceIndex
  <2>5. IOFrame(Top, objectMap)
    BY <2>4 DEF IOStack, Top
  <2>6. IOFrame(f, objectMap)
    BY <1>0, <2>2, <2>5 DEF IOFrame
  <2> QED
    BY <2>3, <2>4, <2>6 DEF IOStack
<1>4. CASE Recreates
  <2>1. calls' = Tail(calls) /\ ~Idle /\ objectMap' = objectMap
    BY <1>4 DEF Recreates
  <2>2. \A k \in 1..Len(calls') : k + 1 \in 1..Len(calls) /\ calls'[k] = calls[k+1]
    BY <1>0, <2>1, PopIndex
  <2> QED
    BY <2>1, <2>2 DEF IOStack
<1>5. CASE Stores
  <2>1. calls' = Tail(calls) /\ ~Idle /\ Top.op = "create"
    BY <1>5 DEF Stores
  <2>2. /\ \A k \in 1..Len(calls') : k + 1 \in 2..Len(calls) /\ calls'[k] = calls[k+1]
        /\ \A k \in 2..Len(calls) : calls[k].op = "load" /\ k \in 1..Len(calls)
    BY <1>0, <2>1, PopIndex, TopFacts
  <2> QED
    BY <2>2 DEF IOStack, IOFrame
<1> QED
  BY <1>1, <1>2, <1>3, <1>4, <1>5, RepositorySteps

-----------------------------------------------------------------------------
(* The steps of saving and loading change the stack only.                  *)

SaveFrame(list, forceOverwrite) ==
    Frame("save", None, list, {}, {list[k] : k \in DOMAIN list}, forceOverwrite)
LoadFrame(overwriteExisting) == Frame("load", None, file, {}, {}, overwriteExisting)

LEMMA SaveFrameFacts ==
    ASSUME NEW list \in Saves, NEW forceOverwrite \in BOOLEAN
    PROVE  LET f == SaveFrame(list, forceOverwrite)
           IN  /\ f \in Frames(Arguments) /\ f.op = "save" /\ f.arg = list
               /\ FrameInv(f, objectMap, object) /\ IOFrame(f, objectMap)
<1>1. list \in Seq(IDs) /\ Distinct(list) /\ \A k \in DOMAIN list : list[k] \in IDs
  BY SavesAssumption DEF Distinct
<1>2. Nothing \in Provenances
  BY DEF Nothing, Provenances
<1> DEFINE f == SaveFrame(list, forceOverwrite)
           L == {list[k] : k \in DOMAIN list}
<1>3. L \in SUBSET IDs /\ \A k \in DOMAIN list : list[k] \in L
  BY <1>1
<1>4. f = Frame("save", None, list, {}, L, forceOverwrite)
  BY DEF SaveFrame
<1> HIDE DEF L
<1>5. f \in Frames(Arguments) /\ f.op = "save" /\ f.arg = list /\ f.left = L
  BY <1>1, <1>2, <1>3, <1>4 DEF Frame, Frames, Ops, Arguments
<1> HIDE DEF f
<1>6. FrameInv(f, objectMap, object) /\ IOFrame(f, objectMap)
  BY <1>1, <1>3, <1>5 DEF FrameInv, IOFrame
<1> QED
  BY <1>5, <1>6 DEF f

LEMMA LoadFrameFacts ==
    ASSUME FileInv, NEW overwriteExisting \in BOOLEAN
    PROVE  LET f == LoadFrame(overwriteExisting)
           IN  /\ f \in Frames(Arguments) /\ f.op = "load" /\ f.arg = file
               /\ FrameInv(f, objectMap, object) /\ IOFrame(f, objectMap)
<1>1. file \in Seq(ValueObjects) /\ Nothing \in Provenances
  BY DEF FileInv, Nothing, Provenances
<1> DEFINE f == LoadFrame(overwriteExisting)
<1>2. f \in Frames(Arguments) /\ f.op = "load" /\ f.arg = file /\ f.left = {}
  BY <1>1 DEF LoadFrame, Frame, Frames, Ops, Arguments
<1> HIDE DEF f
<1>3. FrameInv(f, objectMap, object) /\ IOFrame(f, objectMap)
  BY <1>1, <1>2 DEF FrameInv, IOFrame
<1> QED
  BY <1>2, <1>3 DEF f

\* A stack of two.
LEMMA Concatenated ==
    ASSUME NEW f, NEW r
    PROVE  <<f>> \o <<r>> = <<f, r>>
<1>1. <<f>> \o <<r>> \in Seq({f, r}) /\ <<f, r>> \in Seq({f, r})
  OBVIOUS
<1>2. Len(<<f>> \o <<r>>) = 2 /\ Len(<<f, r>>) = 2
  OBVIOUS
<1>3. (<<f>> \o <<r>>)[1] = f /\ (<<f>> \o <<r>>)[2] = r
  OBVIOUS
<1>4. \A s, u \in Seq({f, r}) : Len(s) = Len(u) /\ (\A k \in 1..Len(s) : s[k] = u[k]) => s = u
  OBVIOUS
<1>5. \A k \in 1..2 : k = 1 \/ k = 2
  OBVIOUS
<1> PICK s : s = <<f>> \o <<r>>
  OBVIOUS
<1> PICK u : u = <<f, r>>
  OBVIOUS
<1>6. u[1] = f /\ u[2] = r
  OBVIOUS
<1>7. Len(s) = 2 /\ s[1] = f /\ s[2] = r
  BY <1>2, <1>3
<1>8. \A k \in 1..Len(s) : s[k] = u[k]
  BY <1>5, <1>6, <1>7
<1> QED
  BY <1>1, <1>2, <1>4, <1>8

\* The frames that restoreObject leaves.
Item ==
    [Frame("create", Head(Top.arg).id, Head(Top.arg).arg, Head(Top.arg).precs,
           Head(Top.arg).precs, Top.overwrite) EXCEPT !.listed = Relisted(Head(Top.arg))]
Rest == [Top EXCEPT !.arg = Tail(@)]

LEMMA RestoreFacts ==
    ASSUME StackInv(Arguments, calls, objectMap, object), IOStack(calls, objectMap), restoreObject
    PROVE  LET v == Head(Top.arg)
           IN  /\ ~Idle /\ Len(calls) = 1 /\ Top = calls[1] /\ Top.op = "load"
               /\ Top.arg \in Seq(ValueObjects) /\ Top.arg # <<>>
               /\ v \in ValueObjects /\ v = Top.arg[1]
               /\ calls' = <<Item>> \o <<Rest>>
               /\ UNCHANGED <<objectMap, object, dirty, observables, returned, file>>
               /\ Item \in Frames(Arguments) /\ Item.op = "create" /\ Item.id = v.id
               /\ Item.arg = v.arg /\ Item.precs = v.precs /\ Item.listed = Relisted(v)
               /\ Item.left = v.precs /\ Item.state = Nothing
               /\ Rest \in Frames(Arguments) /\ Rest.op = "load" /\ Rest.arg = Tail(Top.arg)
               /\ FrameInv(Item, objectMap, object) /\ FrameInv(Rest, objectMap, object)
               /\ IOFrame(Item, objectMap) /\ IOFrame(Rest, objectMap)
<1>1. ~Idle /\ Top.op = "load" /\ Top.arg # <<>>
      /\ UNCHANGED <<objectMap, object, dirty, observables, returned, file>>
      /\ calls' = <<Item, Rest>>
  BY DEF restoreObject, Running, Item, Rest
<1>2. Top \in Frames(Arguments) /\ calls # <<>> /\ Top = calls[1]
      /\ \A k \in 2..Len(calls) : Building(Top)
  BY <1>1, TopFacts DEF Top
<1>3. calls \in Seq(Frames(Arguments)) /\ Len(calls) \in Nat \ {0} /\ 1 \in 1..Len(calls)
  BY <1>2, PopFacts DEF StackInv
<1>4. Len(calls) = 1
  <2> SUFFICES ASSUME Len(calls) # 1 PROVE FALSE
    OBVIOUS
  <2> PICK n : n = Len(calls)
    OBVIOUS
  <2>0. n \in Nat /\ n # 0 /\ n # 1
    BY <1>3
  <2>1. 2 \in 2..Len(calls)
    BY <2>0
  <2>2. Building(Top)
    BY <1>2, <2>1
  <2> QED
    BY <1>1, <2>2 DEF Building
<1>5. Top.arg \in Seq(ValueObjects) /\ Top.left = {}
  BY <1>1, <1>2, <1>3 DEF IOStack, IOFrame
<1> PICK a : a = Top.arg
  OBVIOUS
<1> PICK v : v = Head(Top.arg)
  OBVIOUS
<1>6. v \in ValueObjects /\ v = a[1] /\ Tail(a) \in Seq(ValueObjects)
  BY <1>1, <1>5
<1>7. Nothing \in Provenances
  BY DEF Nothing, Provenances
<1>8. v.id \in IDs /\ v.arg \in Args /\ v.precs \in SUBSET IDs
  BY <1>6 DEF ValueObjects
<1> DEFINE g == Frame("create", v.id, v.arg, v.precs, v.precs, Top.overwrite)
<1>9. Top.overwrite \in BOOLEAN
  BY <1>2 DEF Frames
<1>10. /\ g \in Frames(Arguments) /\ g.op = "create" /\ g.id = v.id /\ g.arg = v.arg
       /\ g.precs = v.precs /\ g.left = v.precs /\ g.state = Nothing
  BY <1>7, <1>8, <1>9 DEF Frame, Frames, Ops, Arguments
<1> HIDE DEF g
<1> PICK l : l = Relisted(v)
  OBVIOUS
<1>0. l \in SUBSET IDs /\ l \subseteq v.precs
  BY <1>8 DEF Relisted
<1> DEFINE f == [g EXCEPT !.listed = l]
<1>11. /\ f \in Frames(Arguments) /\ f.op = "create" /\ f.id = v.id /\ f.arg = v.arg
       /\ f.precs = v.precs /\ f.left = v.precs /\ f.state = Nothing /\ f.listed = l
  BY <1>0, <1>10 DEF Frames
<1>12. f = Item
  BY DEF Item, g
<1> DEFINE r == [Top EXCEPT !.arg = Tail(a)]
<1>13. Tail(a) \in Arguments
  BY <1>6 DEF Arguments
<1>14. r \in Frames(Arguments) /\ r.op = "load" /\ r.arg = Tail(a) /\ r.left = {}
  BY <1>1, <1>2, <1>5, <1>13 DEF Frames
<1>15. r = Rest
  BY DEF Rest
<1> HIDE DEF f, r
<1>16. FrameInv(f, objectMap, object) /\ IOFrame(f, objectMap)
  BY <1>0, <1>8, <1>11 DEF FrameInv, CreateFrame, Retrieved, IOFrame
<1>17. FrameInv(r, objectMap, object) /\ IOFrame(r, objectMap)
  BY <1>6, <1>14 DEF FrameInv, IOFrame
<1>18. calls' = <<f>> \o <<r>>
  <2>1. <<f>> \o <<r>> = <<f, r>>
    BY Concatenated
  <2> QED
    BY <1>1, <1>12, <1>15, <2>1
<1> QED
  BY <1>1, <1>2, <1>4, <1>5, <1>6, <1>11, <1>12, <1>14, <1>15, <1>16, <1>17, <1>18

\* When all is retrieved, what is written are the value objects of the list.
Saved == [k \in DOMAIN Top.arg |-> ValueObject(ObjectOf(Top.arg[k]))]

LEMMA SaveEndFacts ==
    ASSUME TypeOK, StackInv(Arguments, calls, objectMap, object), IOStack(calls, objectMap), SaveEnd
    PROVE  /\ ~Idle /\ Top.op = "save" /\ calls' = <<>> /\ Top = calls[1] /\ 1 \in 1..Len(calls)
           /\ UNCHANGED <<objectMap, object, dirty, observables, returned>>
           /\ file' = file \/ file' = Saved
           /\ Saved \in Seq(ValueObjects) /\ DistinctIDs(Saved)
           /\ \A k \in DOMAIN Saved : k \in DOMAIN Top.arg /\ Top.arg[k] \in Stored
                 /\ Saved[k].id = Top.arg[k] /\ Saved[k].precs = ObjectOf(Top.arg[k]).precs
<1>1. /\ ~Idle /\ Top.op = "save" /\ calls' = <<>> /\ Top.left = {}
      /\ UNCHANGED <<objectMap, object, dirty, observables, returned>>
      /\ file' = file \/ file' = Saved
  BY DEF SaveEnd, Running, Saved
<1>2. Top = calls[1] /\ 1 \in 1..Len(calls)
  BY <1>1, PopFacts DEF StackInv, Top, Idle
<1> PICK a : a = Top.arg
  OBVIOUS
<1>3. a \in Seq(IDs) /\ Distinct(a) /\ \A k \in DOMAIN a : a[k] \in Stored
  BY <1>1, <1>2, StoredFacts DEF IOStack, IOFrame
<1>4. Len(a) \in Nat /\ DOMAIN a = 1..Len(a)
  BY <1>3
<1>5. \A k \in DOMAIN a : ObjectOf(a[k]) \in Objects /\ ObjectOf(a[k]).id = a[k]
  BY <1>3, StoredFacts
<1>6. \A k \in DOMAIN a : /\ ValueObject(ObjectOf(a[k])) \in ValueObjects
                          /\ ValueObject(ObjectOf(a[k])).id = a[k]
                          /\ ValueObject(ObjectOf(a[k])).precs = ObjectOf(a[k]).precs
  <2> TAKE k \in DOMAIN a
  <2> PICK o : o = ObjectOf(a[k])
    OBVIOUS
  <2>1. o \in Objects /\ o.id = a[k]
    BY <1>5
  <2> QED
    BY <2>1 DEF Objects, ValueObject, ValueObjects
<1>7. Saved = [k \in 1..Len(a) |-> ValueObject(ObjectOf(a[k]))]
  BY <1>4 DEF Saved
<1>8. Saved \in Seq(ValueObjects) /\ DOMAIN Saved = DOMAIN a
  BY <1>4, <1>6, <1>7
<1>9. \A k \in DOMAIN a : Saved[k].id = a[k] /\ Saved[k].precs = ObjectOf(a[k]).precs
  BY <1>4, <1>6, <1>7
<1>10. DistinctIDs(Saved)
  BY <1>3, <1>8, <1>9 DEF DistinctIDs, Distinct
<1> QED
  BY <1>1, <1>2, <1>3, <1>8, <1>9, <1>10

-----------------------------------------------------------------------------
(* Types.                                                                  *)

LEMMA TypeInit == InitS => TypeInv
<1> SUFFICES ASSUME InitS PROVE TypeInv
  OBVIOUS
<1>1. BaseInv(Arguments)
  BY BaseInit DEF InitS
<1>2. IOStack(calls, objectMap)
  BY DEF InitS, Init, IOStack
<1>3. FileInv
  BY DEF InitS, FileInv, DistinctIDs
<1> QED
  BY <1>1, <1>2, <1>3 DEF TypeInv

LEMMA TypeNext == TypeInv /\ [NextS]_varsS => TypeInv'
<1> SUFFICES ASSUME TypeInv, [NextS]_varsS PROVE TypeInv'
  OBVIOUS
<1>0. /\ BaseInv(Arguments) /\ IOStack(calls, objectMap) /\ FileInv
      /\ TypeOK /\ StackInv(Arguments, calls, objectMap, object)
      /\ Args \subseteq Arguments /\ None \in Arguments
  BY DEF TypeInv, BaseInv, Arguments
<1>1. CASE Next /\ UNCHANGED file
  <2>1. BaseInv(Arguments)' /\ IOStack(calls', objectMap')
    BY <1>0, <1>1, BaseNext, IONext
  <2> QED
    BY <1>0, <1>1, <2>1 DEF TypeInv, FileInv
<1>2. ASSUME NEW list \in Saves, NEW forceOverwrite \in BOOLEAN, saveObject(list, forceOverwrite)
      PROVE  TypeInv'
  <2> PICK f : f = SaveFrame(list, forceOverwrite)
    OBVIOUS
  <2>1. f \in Frames(Arguments) /\ FrameInv(f, objectMap, object) /\ IOFrame(f, objectMap)
    BY SaveFrameFacts
  <2>2. calls' = <<f>> /\ UNCHANGED <<objectMap, object, dirty, observables, file>>
    BY <1>2 DEF saveObject, SaveFrame
  <2>3. BaseInv(Arguments)'
    BY <1>0, <2>1, <2>2, SingleStack, BaseSteady
  <2>4. IOStack(calls', objectMap')
    BY <2>1, <2>2, SingleIndex DEF IOStack
  <2> QED
    BY <1>0, <2>2, <2>3, <2>4 DEF TypeInv, FileInv
<1>3. CASE SaveEnd
  <2>1. /\ calls' = <<>> /\ UNCHANGED <<objectMap, object, dirty, observables>>
        /\ file' = file \/ file' = Saved
        /\ Saved \in Seq(ValueObjects) /\ DistinctIDs(Saved)
    BY <1>0, <1>3, SaveEndFacts
  <2>2. BaseInv(Arguments)'
    BY <1>0, <2>1, EmptyStack, BaseSteady
  <2>3. IOStack(calls', objectMap')
    BY <2>1 DEF IOStack
  <2>4. FileInv'
    BY <1>0, <2>1 DEF FileInv
  <2> QED
    BY <2>2, <2>3, <2>4 DEF TypeInv
<1>4. ASSUME NEW overwriteExisting \in BOOLEAN, loadObject(overwriteExisting) PROVE TypeInv'
  <2> PICK f : f = LoadFrame(overwriteExisting)
    OBVIOUS
  <2>1. f \in Frames(Arguments) /\ FrameInv(f, objectMap, object) /\ IOFrame(f, objectMap)
    BY <1>0, LoadFrameFacts
  <2>2. calls' = <<f>> /\ UNCHANGED <<objectMap, object, dirty, observables, file>>
    BY <1>4 DEF loadObject, LoadFrame
  <2>3. BaseInv(Arguments)'
    BY <1>0, <2>1, <2>2, SingleStack, BaseSteady
  <2>4. IOStack(calls', objectMap')
    BY <2>1, <2>2, SingleIndex DEF IOStack
  <2> QED
    BY <1>0, <2>2, <2>3, <2>4 DEF TypeInv, FileInv
<1>5. CASE restoreObject
  <2> PICK f : f = Item
    OBVIOUS
  <2> PICK g : g = Rest
    OBVIOUS
  <2>1. /\ calls' = <<f>> \o <<g>> /\ UNCHANGED <<objectMap, object, dirty, observables, file>>
        /\ f \in Frames(Arguments) /\ f.op = "create" /\ g \in Frames(Arguments) /\ g.op = "load"
        /\ FrameInv(f, objectMap, object) /\ FrameInv(g, objectMap, object)
        /\ IOFrame(f, objectMap) /\ IOFrame(g, objectMap)
    BY <1>0, <1>5, RestoreFacts
  <2>2. StackInv(Arguments, <<g>>, objectMap, object)
    BY <2>1, SingleStack
  <2>3. Len(<<g>>) = 1 /\ <<g>>[1] = g /\ <<g>> \in Seq(Frames(Arguments))
    BY <2>1
  <2>4. StackInv(Arguments, calls', objectMap, object)
    <3>1. Building(f) /\ \A k \in 1..Len(<<g>>) : <<g>>[k].op = "load"
      BY <2>1, <2>3 DEF Building
    <3> PICK s : s = <<g>>
      OBVIOUS
    <3>2. StackInv(Arguments, <<f>> \o s, objectMap, object)
      BY <2>1, <2>2, <3>1, PushStack
    <3> QED
      BY <2>1, <3>2
  <2>5. BaseInv(Arguments)'
    BY <1>0, <2>1, <2>4, BaseSteady
  <2>6. IOStack(calls', objectMap')
    <3>1. Len(calls') = 2 /\ calls'[1] = f /\ calls'[2] = g
      BY <2>1, <2>3, PushFacts
    <3> QED
      BY <2>1, <3>1 DEF IOStack
  <2> QED
    BY <1>0, <2>1, <2>5, <2>6 DEF TypeInv, FileInv
<1>6. CASE LoadEnd
  <2>1. calls' = <<>> /\ UNCHANGED <<objectMap, object, dirty, observables, file>>
    BY <1>6 DEF LoadEnd
  <2>2. BaseInv(Arguments)'
    BY <1>0, <2>1, EmptyStack, BaseSteady
  <2>3. IOStack(calls', objectMap')
    BY <2>1 DEF IOStack
  <2> QED
    BY <1>0, <2>1, <2>2, <2>3 DEF TypeInv, FileInv
<1>7. CASE UNCHANGED varsS
  <2>1. BaseInv(Arguments)'
    BY <1>0, <1>7, BaseStutter DEF varsS, vars
  <2> QED
    BY <1>0, <1>7, <2>1 DEF TypeInv, FileInv, varsS
<1> QED
  BY <1>1, <1>2, <1>3, <1>4, <1>5, <1>6, <1>7 DEF NextS

LEMMA TypeInvariant == SpecS => []TypeInv
  BY TypeInit, TypeNext, PTL DEF SpecS

\* No ID leads to a destroyed wrapper or to an object of another ID, whatever
\* clients delete, save and load.
THEOREM RepositoryTypeCorrect == SpecS => []TypeOK
<1>1. TypeInv => TypeOK
  BY DEF TypeInv, BaseInv
<1> QED
  BY <1>1, TypeInvariant, PTL

-----------------------------------------------------------------------------
(* Objects without precedents, in files and in memory.                     *)

\* The stack that restoreObject leaves.
LEMMA RestoredStack ==
    ASSUME TypeInv, restoreObject
    PROVE  /\ Len(calls) = 1 /\ Len(calls') = 2 /\ calls[1] = Top
           /\ calls'[1] = Item /\ calls'[2] = Rest
           /\ \A k \in 1..Len(calls') : k = 1 \/ k = 2
<1>1. /\ Len(calls) = 1 /\ Top = calls[1] /\ calls' = <<Item>> \o <<Rest>>
      /\ Item \in Frames(Arguments) /\ Rest \in Frames(Arguments)
  BY RestoreFacts DEF TypeInv, BaseInv
<1> PICK f : f = Item
  OBVIOUS
<1> PICK g : g = Rest
  OBVIOUS
<1>2. <<g>> \in Seq(Frames(Arguments)) /\ Len(<<g>>) = 1 /\ <<g>>[1] = g
  BY <1>1, SingleFacts
<1>3. Len(calls') = 2 /\ calls'[1] = f /\ calls'[2] = g
  BY <1>1, <1>2, PushFacts
<1> QED
  BY <1>1, <1>3

\* A load through the steps of the repository.
LEMMA DescendsRepository ==
    ASSUME NEW R, BaseInv(Arguments), Next,
           \A k \in 1..Len(calls) : calls[k].op = "load" => Descends(R, calls[k].arg)
    PROVE  \A k \in 1..Len(calls') : calls'[k].op = "load" => Descends(R, calls'[k].arg)
<1>0. /\ TypeOK /\ StackInv(Arguments, calls, objectMap, object)
  BY DEF BaseInv
<1>1. CASE Begins
  BY <1>1, SingleIndex DEF Begins
<1>2. CASE Calls
  <2>1. PICK f : calls' = <<f>> \o calls /\ f \in Frames(Arguments) /\ f.op = "recreate"
    BY <1>2 DEF Calls
  <2> QED
    BY <1>0, <2>1, PushIndex
<1>3. CASE Receives
  <2>1. PICK f \in Frames(Arguments) :
           calls' = <<f>> \o Tail(calls) /\ f.op = Top.op /\ f.arg = Top.arg /\ ~Idle
    BY <1>3 DEF Receives
  <2>2. /\ Len(calls) \in Nat \ {0} /\ Len(calls') = Len(calls) /\ calls'[1] = f
        /\ \A k \in 1..Len(calls') : k \in 1..Len(calls) /\ (k = 1 \/ calls'[k] = calls[k])
    BY <1>0, <2>1, ReplaceIndex
  <2>3. Top.op = "load" => Descends(R, Top.arg)
    BY <2>2 DEF Top
  <2> QED
    BY <2>1, <2>2, <2>3
<1>4. CASE Recreates \/ Stores
  <2>1. calls' = Tail(calls) /\ ~Idle
    BY <1>4 DEF Recreates, Stores
  <2>2. \A k \in 1..Len(calls') : k + 1 \in 1..Len(calls) /\ calls'[k] = calls[k+1]
    BY <1>0, <2>1, PopIndex
  <2> QED
    BY <2>2
<1> QED
  BY <1>1, <1>2, <1>3, <1>4, RepositorySteps

\* What is saved is built on earlier objects, as all objects are.
LEMMA DescendsNext ==
    ASSUME NEW R, TypeInv, FileDescends(R), ObjectsDescend(R), [NextS]_varsS
    PROVE  FileDescends(R)'
<1>0. /\ BaseInv(Arguments) /\ IOStack(calls, objectMap) /\ FileInv
      /\ TypeOK /\ StackInv(Arguments, calls, objectMap, object)
  BY DEF TypeInv, BaseInv
<1>1. CASE Next /\ UNCHANGED file
  BY <1>0, <1>1, DescendsRepository DEF FileDescends
<1>2. ASSUME NEW list \in Saves, NEW forceOverwrite \in BOOLEAN, saveObject(list, forceOverwrite)
      PROVE  FileDescends(R)'
  <2>1. calls' = <<SaveFrame(list, forceOverwrite)>> /\ file' = file
    BY <1>2 DEF saveObject, SaveFrame
  <2>2. SaveFrame(list, forceOverwrite).op = "save"
    BY SaveFrameFacts
  <2> QED
    BY <2>1, <2>2, SingleIndex DEF FileDescends
<1>3. CASE SaveEnd
  <2>1. /\ calls' = <<>>
        /\ file' = file \/ file' = Saved
        /\ \A k \in DOMAIN Saved : k \in DOMAIN Top.arg /\ Top.arg[k] \in Stored
              /\ Saved[k].id = Top.arg[k] /\ Saved[k].precs = ObjectOf(Top.arg[k]).precs
    BY <1>0, <1>3, SaveEndFacts
  <2>2. Descends(R, Saved)
    BY <2>1 DEF Descends, ObjectsDescend
  <2> QED
    BY <2>1, <2>2 DEF FileDescends
<1>4. ASSUME NEW overwriteExisting \in BOOLEAN, loadObject(overwriteExisting)
      PROVE  FileDescends(R)'
  <2>1. calls' = <<LoadFrame(overwriteExisting)>> /\ file' = file
    BY <1>4 DEF loadObject, LoadFrame
  <2>2. LoadFrame(overwriteExisting).arg = file
    BY <1>0, LoadFrameFacts
  <2> QED
    BY <2>1, <2>2, SingleIndex DEF FileDescends
<1>5. CASE restoreObject
  <2>1. /\ Top.op = "load" /\ Top.arg \in Seq(ValueObjects) /\ Top.arg # <<>> /\ file' = file
        /\ Item.op = "create" /\ Rest.op = "load" /\ Rest.arg = Tail(Top.arg)
    BY <1>0, <1>5, RestoreFacts
  <2>2. /\ Len(calls) = 1 /\ calls[1] = Top /\ calls'[1] = Item /\ calls'[2] = Rest
        /\ \A k \in 1..Len(calls') : k = 1 \/ k = 2
    BY <1>5, RestoredStack
  <2>3. Descends(R, Top.arg)
    BY <2>1, <2>2 DEF FileDescends
  <2>4. Descends(R, Rest.arg)
    <3> PICK a : a = Top.arg
      OBVIOUS
    <3>1. \A k \in DOMAIN Tail(a) : k + 1 \in DOMAIN a /\ Tail(a)[k] = a[k+1]
      BY <2>1
    <3> QED
      BY <2>1, <2>3, <3>1 DEF Descends
  <2> QED
    BY <2>1, <2>2, <2>4 DEF FileDescends
<1>6. CASE LoadEnd
  BY <1>6 DEF LoadEnd, FileDescends
<1>7. CASE UNCHANGED varsS
  BY <1>7 DEF varsS, FileDescends
<1> QED
  BY <1>1, <1>2, <1>3, <1>4, <1>5, <1>6, <1>7 DEF NextS

-----------------------------------------------------------------------------
(* Registrations and values.                                               *)

\* A generated creator lists what it retrieves.
LEMMA ListingItem ==
    ASSUME TypeInv, Generated = IDs, restoreObject
    PROVE  Item.listed = Item.precs
<1>1. /\ Head(Top.arg) \in ValueObjects
      /\ Item.precs = Head(Top.arg).precs /\ Item.listed = Relisted(Head(Top.arg))
  BY RestoreFacts DEF TypeInv, BaseInv
<1> QED
  BY <1>1 DEF Relisted, ValueObjects

\* The frame that restoreObject pushes is for an object built on earlier ones.
LEMMA DescendingItem ==
    ASSUME NEW R, TypeInv, FileDescends(R), restoreObject
    PROVE  \A p \in Item.precs : <<p, Item.id>> \in R
<1>1. /\ Top.op = "load" /\ Top.arg \in Seq(ValueObjects) /\ Top.arg # <<>>
      /\ Head(Top.arg) = Top.arg[1] /\ Len(calls) = 1 /\ Top = calls[1]
      /\ Item.precs = Head(Top.arg).precs /\ Item.id = Head(Top.arg).id
  BY RestoreFacts DEF TypeInv, BaseInv
<1>2. 1 \in DOMAIN Top.arg /\ Descends(R, Top.arg)
  BY <1>1 DEF FileDescends
<1> QED
  BY <1>1, <1>2 DEF Descends

\* A step of saving or of loading is none of the repository's.
LEMMA IOSteady ==
    ASSUME TypeInv, NextS
    PROVE  \/ Next /\ UNCHANGED file
           \/ /\ UNCHANGED <<objectMap, object, dirty, observables>>
              /\ returned' = None \/ (returned' = returned /\ calls # <<>>)
              /\ \/ calls' = <<>>
                 \/ \E f \in Frames(Arguments) : calls' = <<f>> /\ f.op \in {"save", "load"}
                 \/ restoreObject
<1>0. FileInv
  BY DEF TypeInv
<1>1. ASSUME NEW list \in Saves, NEW forceOverwrite \in BOOLEAN, saveObject(list, forceOverwrite)
      PROVE  \E f \in Frames(Arguments) : calls' = <<f>> /\ f.op \in {"save", "load"}
  <2>1. calls' = <<SaveFrame(list, forceOverwrite)>>
    BY <1>1 DEF saveObject, SaveFrame
  <2> QED
    BY <2>1, SaveFrameFacts
<1>2. ASSUME NEW overwriteExisting \in BOOLEAN, loadObject(overwriteExisting)
      PROVE  \E f \in Frames(Arguments) : calls' = <<f>> /\ f.op \in {"save", "load"}
  <2>1. calls' = <<LoadFrame(overwriteExisting)>>
    BY <1>2 DEF loadObject, LoadFrame
  <2> QED
    BY <1>0, <2>1, LoadFrameFacts
<1>3. CASE \E list \in Saves, forceOverwrite \in BOOLEAN : saveObject(list, forceOverwrite)
  BY <1>1, <1>3 DEF saveObject
<1>4. CASE SaveEnd
  BY <1>4 DEF SaveEnd, Running, Idle
<1>5. CASE \E overwriteExisting \in BOOLEAN : loadObject(overwriteExisting)
  BY <1>2, <1>5 DEF loadObject
<1>6. CASE restoreObject
  BY <1>6 DEF restoreObject, Running, Idle
<1>7. CASE LoadEnd
  BY <1>7 DEF LoadEnd, Running, Idle
<1> QED
  BY <1>3, <1>4, <1>5, <1>6, <1>7 DEF NextS

LEMMA LinkNextS ==
    ASSUME TypeInv, LinkInv, ~MayDeleteUsed, Generated = IDs, [NextS]_varsS
    PROVE  LinkInv'
<1>0. BaseInv(Arguments) /\ Args \subseteq Arguments /\ None \in Arguments /\ WrapperInv
  BY DEF TypeInv, Arguments, LinkInv
<1>1. CASE Next
  BY <1>0, <1>1, LinkNext
<1>2. ASSUME UNCHANGED <<objectMap, object, dirty, observables>>,
             \/ calls' = <<>>
             \/ \E f \in Frames(Arguments) : calls' = <<f>> /\ f.op \in {"save", "load"}
             \/ restoreObject
      PROVE  LinkInv'
  <2>1. WrapperInv'
    BY <1>0, <1>2, SteadyWrappers
  <2>2. CASE calls' = <<>>
    BY <2>1, <2>2 DEF LinkInv, ListingStack
  <2>3. CASE \E f \in Frames(Arguments) : calls' = <<f>> /\ f.op \in {"save", "load"}
    BY <2>1, <2>3, ListingSingle DEF LinkInv
  <2>4. CASE restoreObject
    <3>1. Rest.op = "load"
      BY <1>0, <2>4, RestoreFacts DEF TypeInv, BaseInv
    <3>2. calls'[1] = Item /\ calls'[2] = Rest /\ \A k \in 1..Len(calls') : k = 1 \/ k = 2
      BY <2>4, RestoredStack
    <3>3. Item.listed = Item.precs
      BY <2>4, ListingItem
    <3> QED
      BY <2>1, <3>1, <3>2, <3>3 DEF LinkInv, ListingStack
  <2> QED
    BY <1>2, <2>2, <2>3, <2>4
<1>3. CASE UNCHANGED varsS
  BY <1>0, <1>3, SteadyWrappers DEF varsS, LinkInv, ListingStack
<1> QED
  BY <1>1, <1>2, <1>3, IOSteady

LEMMA CurrencyNextS ==
    ASSUME NEW R, Orders(R), TypeInv, FileDescends(R), LinkInv, CurrencyInv(R), ~MayDeleteUsed,
           [NextS]_varsS
    PROVE  CurrencyInv(R)'
<1>0. BaseInv(Arguments) /\ Args \subseteq Arguments /\ None \in Arguments
  BY DEF TypeInv, Arguments
<1>1. CASE Next
  BY <1>0, <1>1, CurrencyNext
<1>2. ASSUME UNCHANGED <<objectMap, object, dirty, observables>>,
             returned' = None \/ (returned' = returned /\ calls # <<>>),
             \/ calls' = <<>>
             \/ \E f \in Frames(Arguments) : calls' = <<f>> /\ f.op \in {"save", "load"}
             \/ restoreObject
      PROVE  CurrencyInv(R)'
  <2>1. CASE calls' = <<>>
    BY <1>2, <2>1, CurrentEmpty, CurrencySteady
  <2>2. ASSUME NEW f \in Frames(Arguments), calls' = <<f>>, f.op \in {"save", "load"}
        PROVE  CurrencyInv(R)'
    <3>1. FrameCurrent(f, objectMap, object, dirty) /\ ~Building(f)
      BY <2>2 DEF FrameCurrent, Building
    <3>2. StackCurrent(R, calls', objectMap, object, dirty)
      BY <2>2, <3>1, CurrentSingle
    <3> QED
      BY <1>2, <3>2, CurrencySteady
  <2>3. CASE restoreObject
    <3>1. /\ Rest.op = "load" /\ Item.op = "create" /\ Item.left = Item.precs /\ Item.state = Nothing
      BY <1>0, <2>3, RestoreFacts DEF TypeInv, BaseInv
    <3>2. calls'[1] = Item /\ calls'[2] = Rest /\ \A k \in 1..Len(calls') : k = 1 \/ k = 2
      BY <2>3, RestoredStack
    <3>3. \A p \in Item.precs : <<p, Item.id>> \in R
      BY <2>3, DescendingItem
    <3>4. FrameCurrent(Item, objectMap, object, dirty)
      BY <3>1, FreshCurrent
    <3>5. FrameCurrent(Rest, objectMap, object, dirty) /\ ~Building(Rest)
      BY <3>1 DEF FrameCurrent, Building
    <3>6. StackDescends(R, calls')
      BY <3>1, <3>2, <3>3, <3>5 DEF StackDescends
    <3>7. StackCurrent(R, calls', objectMap, object, dirty)
      BY <3>2, <3>4, <3>5, <3>6 DEF StackCurrent
    <3> QED
      BY <1>2, <3>7, CurrencySteady
  <2> QED
    BY <1>2, <2>1, <2>2, <2>3
<1>3. CASE UNCHANGED varsS
  BY <1>0, <1>3, SteadyAll DEF varsS, vars
<1> QED
  BY <1>1, <1>2, <1>3, IOSteady

-----------------------------------------------------------------------------
(* Theorems.                                                               *)

\* What holds when clients delete dependents first and creators list precedents.
LinkedInv == TypeInv /\ LinkInv

LEMMA LinkedInvariant ==
    ASSUME ~MayDeleteUsed, Generated = IDs
    PROVE  SpecS => []LinkedInv
<1>1. InitS => LinkedInv
  BY TypeInit, LinkInit DEF InitS, LinkedInv
<1>2. LinkedInv /\ [NextS]_varsS => LinkedInv'
  BY TypeNext, LinkNextS DEF LinkedInv
<1> QED
  BY <1>1, <1>2, PTL DEF SpecS

\* Every stored object observes the wrappers of its precedents and no others,
\* through overwriting, recreation, deletion, exceptions half way, saving and
\* loading: if clients delete dependents first and creators list the precedents
\* of what they load, as all generated ones do.  (registerObserver, storeObject,
\* deleteObject)
THEOREM WrappersFollowPrecedents ==
    ASSUME ~MayDeleteUsed, Generated = IDs
    PROVE  SpecS => []ObservesPrecedents
<1>1. LinkedInv => ObservesPrecedents
  BY DEF LinkedInv, LinkInv, WrapperInv
<1> QED
  BY <1>1, LinkedInvariant, PTL

\* With such clients there is one wrapper for every stored object and no other
\* on the heap, so that nothing leaks.  (ObjectWrapper's lifetime)
THEOREM NoWrapperHidden ==
    ASSUME ~MayDeleteUsed, Generated = IDs
    PROVE  SpecS => []NoHiddenWrapper
<1>1. LinkedInv => NoHiddenWrapper
  BY DEF LinkedInv, LinkInv, WrapperInv
<1> QED
  BY <1>1, LinkedInvariant, PTL

\* The same, with the values of objects, when they are built on earlier ones.
CurrentInv(R) == LinkedInv /\ CurrencyInv(R) /\ FileDescends(R)

LEMMA CurrentInvariant ==
    ASSUME NEW R, Orders(R), ~MayDeleteUsed, Generated = IDs
    PROVE  SpecS => []CurrentInv(R)
<1>1. InitS => CurrentInv(R)
  BY TypeInit, LinkInit, CurrencyInit
     DEF InitS, Init, CurrentInv, LinkedInv, FileDescends, Descends
<1>2. CurrentInv(R) /\ [NextS]_varsS => CurrentInv(R)'
  <2> SUFFICES ASSUME CurrentInv(R), [NextS]_varsS PROVE CurrentInv(R)'
    OBVIOUS
  <2>1. LinkedInv'
    BY TypeNext, LinkNextS DEF CurrentInv, LinkedInv
  <2>2. CurrencyInv(R)'
    BY CurrencyNextS DEF CurrentInv, LinkedInv
  <2>3. FileDescends(R)'
    BY DescendsNext DEF CurrentInv, LinkedInv, CurrencyInv
  <2> QED
    BY <2>1, <2>2, <2>3 DEF CurrentInv
<1> QED
  BY <1>1, <1>2, PTL DEF SpecS

\* An object whose wrapper is not dirty agrees with its precedents, none of
\* which is dirty, when clients build every object on earlier ones.  (update,
\* reset and recreate of ObjectWrapper)
THEOREM CleanStaysCurrent ==
    ASSUME NEW R, Orders(R), ~MayDeleteUsed, Generated = IDs
    PROVE  SpecS => []CleanIsCurrent
<1>1. CurrentInv(R) => CleanIsCurrent
  BY DEF CurrentInv, CurrencyInv
<1> QED
  BY <1>1, CurrentInvariant, PTL

-----------------------------------------------------------------------------
(* The repository implements a store of formulas.                          *)

\* The formulas under map m with objects o.
FormulaMap(m, o) ==
    [i \in IDs |-> IF m[i] # None THEN [arg |-> o[m[i]].arg, precs |-> o[m[i]].precs] ELSE None]

LEMMA FormulaMapFacts ==
    /\ [i \in IDs |-> FormulaOf(i)] = FormulaMap(objectMap, object)
    /\ [i \in IDs |-> FormulaOf(i)]' = FormulaMap(objectMap', object')
  BY DEF FormulaOf, FormulaMap, Exists, ObjectOf

\* What ObjectStore says of formulas, said of objects.
LEMMA StoreFacts ==
    ASSUME TypeOK
    PROVE  /\ \A i \in Stored : /\ FormulaMap(objectMap, object)[i] \in Formulas
                                /\ FormulaMap(objectMap, object)[i] # None
                                /\ FormulaMap(objectMap, object)[i].arg = ObjectOf(i).arg
                                /\ FormulaMap(objectMap, object)[i].precs = ObjectOf(i).precs
           /\ \A i \in IDs \ Stored : FormulaMap(objectMap, object)[i] = None
           /\ \A i \in IDs : Abstract!Precedents(i) = PrecMap(objectMap, object)[i]
<1> DEFINE F == FormulaMap(objectMap, object)
<1>1. \A i \in Stored : /\ F[i] \in Formulas /\ F[i].arg = ObjectOf(i).arg
                        /\ F[i].precs = ObjectOf(i).precs
  <2> TAKE i \in Stored
  <2> PICK o : o = ObjectOf(i)
    OBVIOUS
  <2>1. o \in Objects /\ i \in IDs
    BY StoredFacts
  <2>2. F[i] = [arg |-> o.arg, precs |-> o.precs]
    BY <2>1 DEF FormulaMap, Stored, ObjectOf
  <2> QED
    BY <2>1, <2>2 DEF Objects, Formulas
<1>2. \A i \in IDs \ Stored : F[i] = None
  BY DEF FormulaMap, Stored
<1> HIDE DEF F
<1>3. \A i \in Stored : F[i] # None
  BY <1>1, NoneAssumption
<1>4. \A i \in IDs : Abstract!Precedents(i) = IF F[i] = None THEN {} ELSE F[i].precs
  BY FormulaMapFacts DEF Abstract!Precedents, F
<1>5. \A i \in IDs : Abstract!Precedents(i) = PrecMap(objectMap, object)[i]
  <2> TAKE i \in IDs
  <2>1. CASE i \in Stored
    BY <1>1, <1>3, <1>4, <2>1, PrecMapFacts
  <2>2. CASE i \notin Stored
    BY <1>2, <1>4, <2>2, PrecMapFacts
  <2> QED
    BY <2>1, <2>2
<1> QED
  BY <1>1, <1>2, <1>3, <1>5 DEF F

LEMMA AncestryFacts ==
    ASSUME TypeOK, NEW i \in IDs
    PROVE  Abstract!Ancestry(i) = Anc(PrecMap(objectMap, object), i)
<1> PICK P : P = PrecMap(objectMap, object)
  OBVIOUS
<1>1. \A k \in IDs : Abstract!Precedents(k) = P[k]
  BY StoreFacts
<1>2. \A T \in SUBSET IDs :
         (\A k \in T : Abstract!Precedents(k) \subseteq T) <=> (\A k \in T : P[k] \subseteq T)
  BY <1>1
<1>3. Abstract!Ancestry(i) =
        {j \in IDs : \A T \in SUBSET IDs : i \in T /\ (\A k \in T : P[k] \subseteq T) => j \in T}
  BY <1>2 DEF Abstract!Ancestry
<1>4. Anc(P, i) =
        {j \in IDs : \A T \in SUBSET IDs : {i} \subseteq T /\ (\A k \in T : P[k] \subseteq T) => j \in T}
  BY DEF Anc, Closure
<1> QED
  BY <1>3, <1>4

LEMMA DefinedFacts ==
    ASSUME TypeOK, NEW i \in IDs, Anc(PrecMap(objectMap, object), i) \subseteq Stored
    PROVE  Abstract!Defined(i) /\ Abstract!Value(i) = Worth(objectMap, object, i)
<1> DEFINE F == FormulaMap(objectMap, object)
           D == Anc(PrecMap(objectMap, object), i)
<1>1. Abstract!Ancestry(i) = D
  BY AncestryFacts
<1>2. \A j \in D : j \in IDs /\ F[j] # None /\ F[j].arg = object[objectMap[j]].arg
  BY StoreFacts DEF ObjectOf, Stored
<1>3. [k \in IDs |-> FormulaOf(k)] = F
  BY FormulaMapFacts
<1> HIDE DEF F, D
<1>4. Abstract!Defined(i)
  BY <1>1, <1>2, <1>3 DEF Abstract!Defined
<1>5. Abstract!Value(i) = [j \in IDs |-> IF j \in D THEN {F[j].arg} ELSE {}]
  BY <1>1, <1>3 DEF Abstract!Value
<1>6. Worth(objectMap, object, i) = [j \in IDs |-> IF j \in D THEN {object[objectMap[j]].arg} ELSE {}]
  BY DEF Worth, D
<1> QED
  BY <1>2, <1>4, <1>5, <1>6

\* What a retrieval has returned is the value of the object as it stands, when
\* clients build objects on earlier ones and delete dependents first, and creators
\* list precedents.  (Without the last, a loaded object does not hear of changes
\* of its precedents.)
THEOREM RetrievalsStayCurrent ==
    ASSUME NEW R, Orders(R), ~MayDeleteUsed, Generated = IDs
    PROVE  SpecS => []RetrieveIsCurrent
<1>1. ASSUME CurrentInv(R) PROVE RetrieveIsCurrent
  <2>1. TypeOK /\ ReturnedInv
    BY <1>1 DEF CurrentInv, LinkedInv, TypeInv, BaseInv, CurrencyInv
  <2> QED
    BY <2>1, DefinedFacts DEF ReturnedInv, RetrieveIsCurrent
<1> QED
  BY <1>1, CurrentInvariant, PTL

\* Steps that change no formula.
LEMMA FormulasSame ==
    ASSUME TypeOK, objectMap' = objectMap,
           \A i \in Stored : ObjectOf(i)'.arg = ObjectOf(i).arg /\ ObjectOf(i)'.precs = ObjectOf(i).precs
    PROVE  FormulaMap(objectMap', object') = FormulaMap(objectMap, object)
<1>1. \A i \in IDs : objectMap[i] # None =>
         /\ object'[objectMap'[i]].arg = object[objectMap[i]].arg
         /\ object'[objectMap'[i]].precs = object[objectMap[i]].precs
  BY DEF Stored, ObjectOf
<1> QED
  BY <1>1 DEF FormulaMap

LEMMA StoreInstalls ==
    ASSUME NEW R, BaseInv(Arguments), CurrencyInv(R), Running("create"), Top.left = {},
           NEW map, NEW w, InstallNew(map, w) \/ InstallOver(map, w), returned' = returned
    PROVE  \E i \in IDs, f \in Formulas : Abstract!Store(i, f)
<1>0. TypeOK /\ StackInv(Arguments, calls, objectMap, object)
  BY DEF BaseInv
<1> PICK i : i = Top.id
  OBVIOUS
<1> DEFINE f == [arg |-> Top.arg, precs |-> Top.precs]
           F == FormulaMap(objectMap, object)
           G == FormulaMap(objectMap', object')
<1>1. /\ ~Idle /\ calls # <<>> /\ Top.op = "create" /\ i \in IDs /\ Top.precs \subseteq Stored
      /\ Built \in Objects /\ Built.arg = Top.arg /\ Built.precs = Top.precs
  BY CreatorFacts
<1>2. f \in Formulas /\ f.precs = Top.precs
  BY <1>1 DEF Formulas, Objects
<1>3. Install(map, w) /\ dirty' \in [Wrappers -> BOOLEAN]
  BY <1>0 DEF InstallNew, InstallOver, Reset, TypeOK
<1>4. /\ objectMap' = map /\ Keys(map) = Stored \cup {i} /\ object'[w] = Built
      /\ \A k \in Keys(map) \ {i} : object'[map[k]] = ObjectOf(k)
  BY <1>3, InstallFacts
<1>5. map[i] = w /\ i \in Keys(map)
  BY <1>3, <1>4 DEF Install
<1>6. G[i] = f
  BY <1>1, <1>4, <1>5 DEF FormulaMap, Keys
<1>7. \A k \in IDs \ {i} : G[k] = F[k]
  <2> TAKE k \in IDs \ {i}
  <2>1. CASE k \in Stored
    <3>1. k \in Keys(map) \ {i}
      BY <1>4, <2>1
    <3>2. object'[map[k]] = object[objectMap[k]]
      BY <1>4, <3>1 DEF ObjectOf
    <3> QED
      BY <1>4, <2>1, <3>1, <3>2 DEF FormulaMap, Keys, Stored
  <2>2. CASE k \notin Stored
    <3>1. k \notin Keys(map)
      BY <1>4, <2>2
    <3> QED
      BY <1>4, <2>2, <3>1 DEF FormulaMap, Keys, Stored
  <2> QED
    BY <2>1, <2>2
<1>8. DOMAIN G = IDs /\ DOMAIN F = IDs /\ G = [k \in IDs |-> G[k]]
      /\ F = [k \in IDs |-> F[k]]
  BY DEF FormulaMap
<1> HIDE DEF F, G, f
<1>9. G = [F EXCEPT ![i] = f]
  BY <1>1, <1>6, <1>7, <1>8
<1>10. \A p \in f.precs : Abstract!Defined(p)
  <2> TAKE p \in f.precs
  <2>1. p \in Stored /\ p \in IDs
    BY <1>1, <1>2 DEF Stored
  <2>2. FrameCurrent(Top, objectMap, object, dirty)
    <3>1. 1 \in 1..Len(calls)
      BY <1>0, <1>1, PopFacts DEF StackInv
    <3> QED
      BY <3>1 DEF CurrencyInv, StackCurrent, Top
  <2>3. ~dirty[objectMap[p]]
    BY <1>1, <1>2, <2>2 DEF FrameCurrent, Building, Retrieved
  <2>4. Anc(PrecMap(objectMap, object), p) \subseteq Stored
    BY <1>0, <2>1, <2>3, StoredFacts DEF CurrencyInv, ValueInv, HasValue
  <2> QED
    BY <1>0, <2>1, <2>4, DefinedFacts
<1>11. Abstract!Store(i, f)
  BY <1>9, <1>10, FormulaMapFacts DEF Abstract!Store, F, G
<1> QED
  BY <1>1, <1>2, <1>11

LEMMA EraseDeletes ==
    ASSUME TypeOK, ListedInv, NEW D, Erase(D), dirty' = dirty, returned' = None,
           \A i \in Stored \ D : ObjectOf(i).precs \cap D = {}
    PROVE  \E E \in SUBSET IDs : Abstract!Delete(E)
<1> DEFINE F == FormulaMap(objectMap, object)
           G == FormulaMap(objectMap', object')
           E == D \cap IDs
<1>1. /\ Stored' = Stored \ D
      /\ \A i \in Stored \ D : objectMap'[i] = objectMap[i] /\ ObjectOf(i)' = ObjectOf(i)
  BY EraseFacts
<1>2. \A i \in IDs : G[i] = IF i \in E THEN None ELSE F[i]
  <2> TAKE i \in IDs
  <2>1. CASE i \in Stored \ D
    <3>1. /\ objectMap'[i] = objectMap[i] /\ object'[objectMap'[i]] = object[objectMap[i]]
          /\ objectMap[i] # None
      BY <1>1, <2>1 DEF ObjectOf, Stored
    <3> QED
      BY <2>1, <3>1 DEF FormulaMap
  <2>2. CASE i \notin Stored \ D
    <3>1. objectMap'[i] = None
      BY <1>1, <2>2 DEF Stored
    <3>2. i \in D \/ objectMap[i] = None
      BY <2>2 DEF Stored
    <3> QED
      BY <3>1, <3>2 DEF FormulaMap
  <2> QED
    BY <2>1, <2>2
<1>3. G = [i \in IDs |-> G[i]]
  BY DEF FormulaMap
<1> HIDE DEF F, G
<1>4. G = [i \in IDs |-> IF i \in E THEN None ELSE F[i]]
  BY <1>2, <1>3
<1>5. \A i \in IDs \ E : Abstract!Precedents(i) \cap E = {}
  <2> TAKE i \in IDs \ E
  <2>1. CASE i \in Stored
    BY <2>1, StoreFacts, PrecMapFacts
  <2>2. CASE i \notin Stored
    BY <2>2, StoreFacts, PrecMapFacts
  <2> QED
    BY <2>1, <2>2
<1>6. Abstract!Delete(E)
  <2> HIDE DEF E
  <2>1. [i \in IDs |-> FormulaOf(i)]' = [i \in IDs |-> IF i \in E THEN None ELSE [k \in IDs |-> FormulaOf(k)][i]]
    BY <1>4, FormulaMapFacts DEF F, G
  <2> QED
    BY <1>5, <2>1 DEF Abstract!Delete
<1> QED
  BY <1>6

LEMMA StoreInit ==
    ASSUME InitS
    PROVE  Abstract!Init
<1>1. FormulaMap(objectMap, object) = [i \in IDs |-> None]
  BY DEF InitS, Init, FormulaMap
<1> QED
  BY <1>1, FormulaMapFacts DEF InitS, Init, Abstract!Init

\* A step that leaves the formulas alone begins a call, fails or goes unnoticed.
LEMMA StoreSteady ==
    ASSUME FormulaMap(objectMap', object') = FormulaMap(objectMap, object),
           returned' = None \/ returned' = returned
    PROVE  [Abstract!Next]_(Abstract!vars)
<1>1. [i \in IDs |-> FormulaOf(i)]' = [i \in IDs |-> FormulaOf(i)]
  BY FormulaMapFacts
<1>2. CASE returned' = None
  BY <1>1, <1>2 DEF Abstract!Next, Abstract!Forget
<1>3. CASE returned' = returned
  BY <1>1, <1>3 DEF Abstract!vars
<1> QED
  BY <1>2, <1>3

LEMMA StoreStep ==
    ASSUME NEW R, Orders(R), ~MayDeleteUsed, CurrentInv(R), [NextS]_varsS
    PROVE  [Abstract!Next]_(Abstract!vars)
<1>0. /\ TypeInv /\ BaseInv(Arguments) /\ TypeOK /\ ListedInv
      /\ StackInv(Arguments, calls, objectMap, object) /\ CurrencyInv(R)
  BY DEF CurrentInv, LinkedInv, TypeInv, BaseInv
<1>1. ASSUME UNCHANGED <<objectMap, object>>, returned' = None \/ returned' = returned
      PROVE  [Abstract!Next]_(Abstract!vars)
  BY <1>1, StoreSteady
<1>2. CASE \E i \in IDs : Retrieve(i)
  BY <1>1, <1>2 DEF Retrieve
<1>3. CASE \E i \in IDs, arg \in Args, precs \in SUBSET IDs, overwrite \in BOOLEAN :
              Create(i, arg, precs, overwrite)
  BY <1>1, <1>3 DEF Create
<1>4. CASE \E p \in IDs : retrieveObjectImpl(p)
  BY <1>1, <1>4, RetrieveCases
<1>5. CASE recreate
  <2>1. /\ objectMap' = objectMap
        /\ \A i \in Stored : ObjectOf(i)'.arg = ObjectOf(i).arg /\ ObjectOf(i)'.precs = ObjectOf(i).precs
    BY <1>0, <1>5, RecreateFacts
  <2>2. returned' = returned
    BY <1>5 DEF recreate
  <2> QED
    BY <1>0, <2>1, <2>2, FormulasSame, StoreSteady
<1>6. CASE RetrieveEnd
  <2> PICK i : i = Top.id
    OBVIOUS
  <2>1. /\ i \in Stored /\ Anc(PrecMap(objectMap, object), i) \subseteq Stored
        /\ Top.state = Worth(objectMap, object, i)
    BY <1>0, <1>6, CurrencyRetrieveEnd
  <2>2. i \in IDs
    BY <2>1 DEF Stored
  <2>3. Abstract!Defined(i) /\ Abstract!Value(i) = Top.state
    BY <1>0, <2>1, <2>2, DefinedFacts
  <2>4. /\ returned' = [id |-> i, state |-> Abstract!Value(i)]
        /\ UNCHANGED <<objectMap, object>>
    BY <1>6, <2>3 DEF RetrieveEnd
  <2>5. Abstract!Retrieve(i)
    BY <2>3, <2>4, FormulaMapFacts DEF Abstract!Retrieve
  <2> QED
    BY <2>2, <2>5 DEF Abstract!Next
<1>7. CASE storeObject
  <2>1. Running("create") /\ Top.left = {}
    BY <1>7 DEF storeObject
  <2>2. Top.id \in IDs
    BY <1>0, <2>1, CreatorFacts
  <2>3. CASE returned' = None /\ UNCHANGED <<objectMap, object>>
    BY <1>1, <2>3
  <2>4. ASSUME NEW map, NEW w, InstallNew(map, w) \/ InstallOver(map, w), returned' = returned
        PROVE  [Abstract!Next]_(Abstract!vars)
    BY <1>0, <2>1, <2>4, StoreInstalls DEF Abstract!Next, Formulas, Abstract!Formulas
  <2> QED
    BY <1>0, <1>7, <2>2, <2>3, <2>4, StoreCases
<1>8. CASE \/ \E list \in Lists : deleteObject(list)
           \/ \E deletePermanent \in BOOLEAN : deleteAllObjects(deletePermanent)
  <2>1. PICK D \in SUBSET IDs : Deletable(D) /\ Erase(D)
    BY <1>8, DeletesErase
  <2>2. returned' = None /\ dirty' = dirty
    BY <1>8, DeletesErase
  <2>3. \E E \in SUBSET IDs : Abstract!Delete(E)
    BY <1>0, <2>1, <2>2, DeletableFacts, EraseDeletes
  <2> QED
    BY <2>3 DEF Abstract!Next
<1>9. CASE Next
  BY <1>2, <1>3, <1>4, <1>5, <1>6, <1>7, <1>8, <1>9 DEF Next
<1>10. CASE UNCHANGED varsS
  BY <1>1, <1>10 DEF varsS
<1> QED
  BY <1>0, <1>1, <1>9, <1>10, IOSteady

\* The repository, whatever flags, wrappers and registrations it keeps, is a
\* store of formulas, and every retrieval evaluates them: for clients that build
\* objects on earlier ones and delete dependents first, with creators that list
\* precedents.  (Repository, ObjectWrapper and SerializationFactory together)
THEOREM RepositoryIsStore ==
    ASSUME NEW R, Orders(R), ~MayDeleteUsed, Generated = IDs
    PROVE  SpecS => ImplementsStore
<1>1. InitS => Abstract!Init
  BY StoreInit
<1>2. CurrentInv(R) /\ [NextS]_varsS => [Abstract!Next]_(Abstract!vars)
  BY StoreStep
<1> QED
  BY <1>1, <1>2, CurrentInvariant, PTL DEF SpecS, ImplementsStore, Abstract!Spec

-----------------------------------------------------------------------------
(* What a load leaves behind.                                              *)

\* A load stands still while others run above it.
LEMMA LoadingSame ==
    ASSUME NEW f, NEW F, NEW m, NEW o, NEW n, NEW q, NEW upTo, Loading(f, F, m, o, upTo),
           \A k \in 1..upTo : Restored(F[k], m, o) => Restored(F[k], n, q)
    PROVE  Loading(f, F, n, q, upTo)
  BY DEF Loading

LEMMA LoadRepository ==
    ASSUME TypeInv, LoadInv(calls, file, objectMap, object), Next, file' = file
    PROVE  LoadInv(calls', file, objectMap', object')
<1> PICK F : F = file
  OBVIOUS
<1>0. /\ BaseInv(Arguments) /\ TypeOK /\ StackInv(Arguments, calls, objectMap, object)
      /\ Stored = Keys(objectMap) /\ IOStack(calls, objectMap)
      /\ F \in Seq(ValueObjects) /\ DistinctIDs(F)
      /\ LoadInv(calls, F, objectMap, object)
  BY StoredFacts DEF BaseInv, TypeInv, FileInv
<1>1. CASE Begins
  <2>1. CASE calls' = <<>>
    BY <2>1 DEF LoadInv
  <2>2. ASSUME NEW f, calls' = <<f>>, f.op \notin {"save", "load"}
        PROVE  LoadInv(calls', F, objectMap', object')
    BY <2>2, SingleIndex DEF LoadInv
  <2> QED
    BY <1>1, <2>1, <2>2 DEF Begins
<1>2. CASE Calls
  <2>1. PICK f : calls' = <<f>> \o calls /\ f \in Frames(Arguments) /\ f.op = "recreate"
    BY <1>2 DEF Calls
  <2>2. objectMap' = objectMap /\ object' = object /\ ~Idle /\ Top.left # {}
    BY <1>2 DEF Calls
  <2>3. /\ Len(calls) \in Nat /\ Len(calls') = Len(calls) + 1 /\ calls'[1] = f
        /\ \A k \in 1..Len(calls') : k = 1 \/ (k - 1 \in 1..Len(calls) /\ calls'[k] = calls[k-1])
    BY <1>0, <2>1, PushIndex
  <2>4. 1 \in 1..Len(calls) => calls[1].op # "load"
    BY <1>0, <2>2 DEF IOStack, IOFrame, Top
  <2>5. ASSUME NEW n \in 1..Len(calls'), calls'[n].op = "load"
        PROVE  n # 1 /\ Awaiting(calls', n, F, objectMap, object)
    <3>1. n # 1 /\ n - 1 \in 1..Len(calls) /\ calls'[n] = calls[n-1]
      BY <2>1, <2>3, <2>5
    <3>2. n - 1 # 1
      BY <2>4, <2>5, <3>1
    <3>3. n - 1 \in 1..Len(calls') /\ n - 1 - 1 \in 1..Len(calls) /\ calls'[n-1] = calls[n-1-1]
      BY <2>3, <3>1, <3>2
    <3>4. Awaiting(calls, n - 1, F, objectMap, object)
      BY <1>0, <2>5, <3>1, <3>2 DEF LoadInv
    <3> QED
      BY <3>1, <3>3, <3>4 DEF Awaiting
  <2> QED
    BY <2>2, <2>5 DEF LoadInv
<1>3. CASE Receives
  <2>1. PICK f \in Frames(Arguments) :
           /\ calls' = <<f>> \o Tail(calls)
           /\ f.op = Top.op /\ f.id = Top.id /\ f.arg = Top.arg /\ f.precs = Top.precs
    BY <1>3 DEF Receives
  <2>2. objectMap' = objectMap /\ object' = object /\ ~Idle /\ Top.left # {}
    BY <1>3 DEF Receives
  <2>3. /\ Len(calls) \in Nat \ {0} /\ Len(calls') = Len(calls) /\ calls'[1] = f
        /\ \A k \in 1..Len(calls') : k \in 1..Len(calls) /\ (k = 1 \/ calls'[k] = calls[k])
    BY <1>0, <2>1, <2>2, ReplaceIndex
  <2>4. calls[1].op # "load" /\ Top = calls[1]
    BY <1>0, <2>2, <2>3 DEF IOStack, IOFrame, Top
  <2>5. ASSUME NEW n \in 1..Len(calls'), calls'[n].op = "load"
        PROVE  n # 1 /\ Awaiting(calls', n, F, objectMap, object)
    <3>1. n # 1 /\ n \in 1..Len(calls) /\ calls'[n] = calls[n]
      BY <2>1, <2>3, <2>4, <2>5
    <3>2. Awaiting(calls, n, F, objectMap, object)
      BY <1>0, <2>5, <3>1 DEF LoadInv
    <3>3. n - 1 \in 1..Len(calls')
      BY <2>3, <3>1
    <3>4. /\ calls'[n-1].op = calls[n-1].op /\ calls'[n-1].id = calls[n-1].id
          /\ calls'[n-1].arg = calls[n-1].arg /\ calls'[n-1].precs = calls[n-1].precs
      BY <2>1, <2>3, <2>4, <3>3
    <3> QED
      BY <3>1, <3>2, <3>4 DEF Awaiting
  <2> QED
    BY <2>2, <2>5 DEF LoadInv
<1>4. CASE Recreates
  <2>1. /\ calls' = Tail(calls) /\ ~Idle /\ Top.op = "recreate" /\ objectMap' = objectMap
        /\ \A i \in Stored : object'[objectMap[i]].arg = object[objectMap[i]].arg
                             /\ object'[objectMap[i]].precs = object[objectMap[i]].precs
    BY <1>4 DEF Recreates
  <2>2. /\ Len(calls) \in Nat \ {0} /\ Len(calls') = Len(calls) - 1
        /\ \A k \in 1..Len(calls') : k + 1 \in 2..Len(calls) /\ calls'[k] = calls[k+1]
    BY <1>0, <2>1, PopIndex
  <2>3. \A v : Restored(v, objectMap, object) => Restored(v, objectMap', object')
    BY <1>0, <2>1 DEF Restored
  <2>4. ASSUME NEW n \in 1..Len(calls'), calls'[n].op = "load"
        PROVE  n # 1 /\ Awaiting(calls', n, F, objectMap', object')
    <3>1. n + 1 \in 1..Len(calls) /\ n + 1 # 1 /\ calls'[n] = calls[n+1] /\ n + 1 - 1 = n
      BY <2>2
    <3>2. Awaiting(calls, n + 1, F, objectMap, object)
      BY <1>0, <2>4, <3>1 DEF LoadInv
    <3>3. calls[n].op = "create"
      BY <3>1, <3>2 DEF Awaiting
    <3>4. n # 1
      BY <2>1, <3>3 DEF Top
    <3>5. n - 1 \in 1..Len(calls') /\ calls'[n-1] = calls[n]
      <4>1. n - 1 \in 1..Len(calls') /\ n - 1 + 1 = n
        BY <2>2, <3>4
      <4> QED
        BY <2>2, <4>1
    <3>6. Loading(calls'[n], F, objectMap', object', Taken(calls'[n], F) - 1)
      BY <2>3, <3>1, <3>2, LoadingSame DEF Awaiting
    <3> QED
      BY <3>1, <3>2, <3>4, <3>5, <3>6 DEF Awaiting
  <2> QED
    BY <2>4 DEF LoadInv
<1>5. CASE Stores
  <2>1. /\ calls' = Tail(calls) /\ ~Idle /\ Top.op = "create"
        /\ Top.id \in IDs /\ Keys(objectMap') = Stored \cup {Top.id}
        /\ object'[objectMap'[Top.id]].arg = Top.arg
        /\ object'[objectMap'[Top.id]].precs = Top.precs
        /\ \A i \in Stored \ {Top.id} : object'[objectMap'[i]] = object[objectMap[i]]
    BY <1>5 DEF Stores
  <2>2. /\ Len(calls) \in Nat \ {0} /\ Len(calls') = Len(calls) - 1
        /\ \A k \in 1..Len(calls') : k + 1 \in 2..Len(calls) /\ calls'[k] = calls[k+1]
        /\ \A k \in 2..Len(calls) : calls[k].op = "load" /\ k \in 1..Len(calls)
    BY <1>0, <2>1, PopIndex, TopFacts
  <2>3. ASSUME NEW n \in 1..Len(calls'), calls'[n].op = "load"
        PROVE  n = 1 /\ Loading(calls'[n], F, objectMap', object', Taken(calls'[n], F))
    <3>1. n + 1 \in 1..Len(calls) /\ n + 1 # 1 /\ calls'[n] = calls[n+1] /\ n + 1 - 1 = n
      BY <2>2
    <3>2. Awaiting(calls, n + 1, F, objectMap, object)
      BY <1>0, <2>3, <3>1 DEF LoadInv
    <3>3. calls[n].op = "create"
      BY <3>1, <3>2 DEF Awaiting
    <3>4. n = 1
      <4> SUFFICES ASSUME n # 1 PROVE FALSE
        OBVIOUS
      <4>1. n \in 2..Len(calls)
        BY <2>2
      <4> QED
        BY <2>2, <3>3, <4>1
    <3> PICK f : f = calls'[n]
      OBVIOUS
    <3> PICK t : t = Taken(f, F)
      OBVIOUS
    <3>5. /\ t >= 1 /\ Loading(f, F, objectMap, object, t - 1)
          /\ Top.id = F[t].id /\ Top.arg = F[t].arg /\ Top.precs = F[t].precs
      BY <3>1, <3>2, <3>4 DEF Awaiting, Top
    <3>6. Restored(F[t], objectMap', object')
      BY <2>1, <3>5 DEF Restored
    <3>7. t \in 1..Len(F) /\ Len(F) \in Nat
      <4>1. f \in Frames(Arguments) /\ f.arg \in Seq(ValueObjects)
        <5>1. f.op = "load" /\ f = calls[n+1] /\ n + 1 \in 1..Len(calls)
          BY <2>3, <3>1
        <5> QED
          BY <1>0, <5>1 DEF IOStack, IOFrame, StackInv
      <4>2. Len(f.arg) \in Nat /\ Len(F) \in Nat /\ t = Len(F) - Len(f.arg)
        BY <1>0, <4>1 DEF Taken
      <4> QED
        BY <3>5, <4>2
    <3>8. \A k \in 1..(t - 1) : Restored(F[k], objectMap, object) => Restored(F[k], objectMap', object')
      <4> TAKE k \in 1..(t - 1)
      <4> HAVE Restored(F[k], objectMap, object)
      <4>1. k \in DOMAIN F /\ t \in DOMAIN F /\ k # t
        BY <1>0, <3>7
      <4>2. F[k].id # Top.id
        BY <1>0, <3>5, <4>1 DEF DistinctIDs
      <4> QED
        BY <1>0, <2>1, <4>2 DEF Restored
    <3>9. Loading(f, F, objectMap', object', t - 1)
      BY <3>5, <3>8, LoadingSame
    <3>10. \A k \in 1..t : k \in 1..(t - 1) \/ k = t
      BY <3>7
    <3>11. Loading(f, F, objectMap', object', t)
      BY <3>6, <3>9, <3>10 DEF Loading
    <3> QED
      BY <3>4, <3>11
  <2> QED
    BY <2>3 DEF LoadInv
<1> QED
  BY <1>0, <1>1, <1>2, <1>3, <1>4, <1>5, RepositorySteps

LEMMA LoadNext ==
    ASSUME TypeInv, LoadInv(calls, file, objectMap, object), [NextS]_varsS
    PROVE  LoadInv(calls', file', objectMap', object')
<1>0. /\ BaseInv(Arguments) /\ TypeOK /\ StackInv(Arguments, calls, objectMap, object)
      /\ IOStack(calls, objectMap) /\ FileInv /\ file \in Seq(ValueObjects)
  BY DEF BaseInv, TypeInv, FileInv
<1>1. CASE Next /\ UNCHANGED file
  BY <1>1, LoadRepository
<1>2. ASSUME NEW list \in Saves, NEW forceOverwrite \in BOOLEAN, saveObject(list, forceOverwrite)
      PROVE  LoadInv(calls', file', objectMap', object')
  <2> PICK f : f = SaveFrame(list, forceOverwrite)
    OBVIOUS
  <2>1. f.op = "save"
    BY SaveFrameFacts
  <2>2. calls' = <<f>>
    BY <1>2 DEF saveObject, SaveFrame
  <2> QED
    BY <2>1, <2>2, SingleIndex DEF LoadInv
<1>3. CASE SaveEnd \/ LoadEnd
  BY <1>3 DEF SaveEnd, LoadEnd, LoadInv
<1>4. ASSUME NEW overwriteExisting \in BOOLEAN, loadObject(overwriteExisting)
      PROVE  LoadInv(calls', file', objectMap', object')
  <2> PICK f : f = LoadFrame(overwriteExisting)
    OBVIOUS
  <2>1. f.op = "load" /\ f.arg = file
    BY <1>0, LoadFrameFacts
  <2>2. calls' = <<f>> /\ file' = file
    BY <1>4 DEF loadObject, LoadFrame
  <2>3. Len(file) \in Nat /\ Taken(f, file) = 0
    BY <1>0, <2>1 DEF Taken
  <2>4. Loading(f, file, objectMap', object', 0)
    BY <2>1, <2>3 DEF Loading
  <2> QED
    BY <2>2, <2>3, <2>4, SingleIndex DEF LoadInv
<1>5. CASE restoreObject
  <2> PICK a : a = Top.arg
    OBVIOUS
  <2> PICK v : v = Head(Top.arg)
    OBVIOUS
  <2> PICK f : f = Item
    OBVIOUS
  <2> PICK g : g = Rest
    OBVIOUS
  <2>1. /\ Top.op = "load" /\ a \in Seq(ValueObjects) /\ a # <<>> /\ v = a[1]
        /\ f.op = "create" /\ f.id = v.id /\ f.arg = v.arg /\ f.precs = v.precs
        /\ g.op = "load" /\ g.arg = Tail(a)
        /\ UNCHANGED <<objectMap, object, file>>
    BY <1>0, <1>5, RestoreFacts
  <2>2. /\ Len(calls) = 1 /\ calls[1] = Top /\ calls'[1] = f /\ calls'[2] = g
        /\ \A k \in 1..Len(calls') : k = 1 \/ k = 2
    BY <1>5, RestoredStack
  <2> PICK t : t = Taken(Top, file)
    OBVIOUS
  <2>3. Loading(Top, file, objectMap, object, t)
    BY <2>1, <2>2 DEF LoadInv
  <2>4. Len(a) \in Nat \ {0} /\ Len(file) \in Nat /\ Len(Tail(a)) = Len(a) - 1
        /\ \A k \in 1..Len(Tail(a)) : Tail(a)[k] = a[k+1] /\ k + 1 \in 1..Len(a)
    BY <1>0, <2>1
  <2>5. t = Len(file) - Len(a) /\ Len(a) <= Len(file) /\ Taken(g, file) = t + 1 /\ t >= 0
    <3>0. Len(a) <= Len(file)
      BY <2>3 DEF Loading
    <3>1. t = Len(file) - Len(a)
      BY DEF Taken
    <3>2. Taken(g, file) = Len(file) - Len(Tail(a))
      BY <2>1 DEF Taken
    <3>3. Len(a) \in Nat /\ Len(file) \in Nat /\ Len(Tail(a)) = Len(a) - 1
      BY <2>4
    <3>4. \A x, y \in Nat : y - (x - 1) = (y - x) + 1 /\ (x <= y => y - x >= 0)
      OBVIOUS
    <3> QED
      BY <3>0, <3>1, <3>2, <3>3, <3>4
  <2>6. \A k \in 1..Len(a) : a[k] = file[t + k]
    BY <2>3 DEF Loading
  <2>7. v = file[t + 1]
    BY <2>1, <2>4, <2>6
  <2>8. \A k \in 1..Len(Tail(a)) : Tail(a)[k] = file[(t + 1) + k]
    <3> TAKE k \in 1..Len(Tail(a))
    <3>1. a[k+1] = file[t + (k + 1)]
      BY <2>4, <2>6
    <3>2. t + (k + 1) = (t + 1) + k
      BY <2>4, <2>5
    <3> QED
      BY <2>4, <3>1, <3>2
  <2>9. Loading(g, file, objectMap, object, t)
    <3>1. Len(g.arg) <= Len(file)
      BY <2>1, <2>4, <2>5
    <3>2. \A k \in 1..Len(g.arg) : g.arg[k] = file[Taken(g, file) + k]
      BY <2>1, <2>5, <2>8
    <3>3. \A k \in 1..t : Restored(file[k], objectMap, object)
      BY <2>3 DEF Loading
    <3> QED
      BY <3>1, <3>2, <3>3 DEF Loading
  <2>10. Taken(g, file) - 1 = t /\ Taken(g, file) >= 1
    BY <2>4, <2>5
  <2>11. Awaiting(calls', 2, file, objectMap, object)
    <3>1. /\ Taken(calls'[2], file) >= 1
          /\ Loading(calls'[2], file, objectMap, object, Taken(calls'[2], file) - 1)
      BY <2>2, <2>9, <2>10
    <3>2. file[Taken(calls'[2], file)] = v
      BY <2>2, <2>5, <2>7
    <3>3. 2 - 1 = 1
      OBVIOUS
    <3> QED
      BY <2>1, <2>2, <3>1, <3>2, <3>3 DEF Awaiting
  <2> QED
    BY <2>1, <2>2, <2>11 DEF LoadInv
<1>6. CASE UNCHANGED varsS
  BY <1>6 DEF varsS
<1> QED
  BY <1>1, <1>2, <1>3, <1>4, <1>5, <1>6 DEF NextS

\* The load's part of the invariant, as a state predicate.
LoadedInv == TypeInv /\ LoadInv(calls, file, objectMap, object)

\* A load that runs to its end leaves every object of the file in the
\* repository, built from the arguments saved there, whatever clients have
\* stored, deleted or saved before.  (Processor::process, SerializationFactory)
THEOREM LoadsRestore == SpecS => LoadRestores
<1>1. InitS => LoadedInv
  BY TypeInit DEF InitS, Init, LoadedInv, LoadInv
<1>2. LoadedInv /\ [NextS]_varsS => LoadedInv'
  BY TypeNext, LoadNext DEF LoadedInv
<1>3. ASSUME LoadedInv, Running("load"), Top.arg = <<>>, NEW k \in DOMAIN file
      PROVE  FormulaOf(file[k].id) = [arg |-> file[k].arg, precs |-> file[k].precs]
  <2>1. TypeOK /\ StackInv(Arguments, calls, objectMap, object) /\ file \in Seq(ValueObjects)
    BY <1>3 DEF LoadedInv, TypeInv, BaseInv, FileInv
  <2>2. 1 \in 1..Len(calls) /\ Top = calls[1] /\ Top.op = "load"
    BY <1>3, <2>1, PopFacts DEF StackInv, Running, Idle, Top
  <2>3. Loading(Top, file, objectMap, object, Taken(Top, file))
    BY <1>3, <2>2 DEF LoadedInv, LoadInv
  <2>4. Taken(Top, file) = Len(file) /\ k \in 1..Len(file)
    BY <1>3, <2>1 DEF Taken
  <2>5. Restored(file[k], objectMap, object)
    BY <2>3, <2>4 DEF Loading
  <2> QED
    BY <2>5 DEF Restored, FormulaOf, Exists, ObjectOf, Keys
<1>4. LoadedInv => (Running("load") /\ calls' = <<>> /\ Top.arg = <<>> =>
         \A k \in DOMAIN file :
            FormulaOf(file[k].id) = [arg |-> file[k].arg, precs |-> file[k].precs])
  BY <1>3
<1>5. LoadedInv /\ [NextS]_varsS =>
        [Running("load") /\ calls' = <<>> /\ Top.arg = <<>> =>
           \A k \in DOMAIN file :
              FormulaOf(file[k].id) = [arg |-> file[k].arg, precs |-> file[k].precs]]_varsS
  BY <1>4
<1> QED
  BY <1>1, <1>2, <1>5, PTL DEF SpecS, LoadRestores
=============================================================================
