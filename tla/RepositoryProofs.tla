------------------------- MODULE RepositoryProofs -------------------------
(***************************************************************************)
(* Proofs about Repository, for any sets of IDs, wrappers and arguments.   *)
(* The actions are treated one at a time, and the frames of the call stack *)
(* may have arguments of any kind, so that SerializationProofs can use the *)
(* lemmas for the larger specification.                                    *)
(***************************************************************************)
EXTENDS Repository, TLAPS

-----------------------------------------------------------------------------
(* The call stack s while the map is m and the wrappers hold o.            *)

Ops == {"retrieve", "create", "recreate", "save", "load"}

\* Frames whose arguments are in A.
Frames(A) ==
    [op : Ops, id : IDs \cup {None}, arg : A, precs : SUBSET IDs, listed : SUBSET IDs,
     left : SUBSET IDs, state : Provenances, overwrite : BOOLEAN]

Keys(m) == {i \in IDs : m[i] # None}

\* The precedents a function has retrieved.
Retrieved(f) == f.precs \ f.left

\* The frames of functions that build objects.
Building(f) == f.op \in {"create", "recreate"}

\* What a function has retrieved is there as long as the function runs.
CreateFrame(f, m) ==
    /\ f.id \in IDs /\ f.arg \in Args
    /\ f.listed \subseteq f.precs
    /\ f.left \subseteq f.precs
    /\ Retrieved(f) \subseteq Keys(m)

\* An object is recreated from what it was built from.
RecreateFrame(f, m, o) ==
    /\ f.id \in Keys(m)
    /\ f.arg = o[m[f.id]].arg
    /\ f.precs = o[m[f.id]].precs
    /\ f.listed = o[m[f.id]].listed
    /\ f.left \subseteq f.precs
    /\ Retrieved(f) \subseteq Keys(m)

FrameInv(f, m, o) ==
    /\ f.op = "create" => CreateFrame(f, m)
    /\ f.op = "recreate" => RecreateFrame(f, m, o)
    /\ f.op = "retrieve" => f.id \in IDs /\ f.left \subseteq {f.id}

\* Others wait only for functions that build objects, and for those that store
\* them only a load.
StackInv(A, s, m, o) ==
    /\ s \in Seq(Frames(A))
    /\ \A k \in 1..Len(s) : FrameInv(s[k], m, o)
    /\ \A k, n \in 1..Len(s) : k < n =>
          Building(s[k]) /\ (s[k].op = "create" => s[n].op = "load")

ListedInv == \A w \in Wrappers : object[w] # None => object[w].listed \subseteq object[w].precs

BaseInv(A) == TypeOK /\ ListedInv /\ StackInv(A, calls, objectMap, object)

-----------------------------------------------------------------------------
(* Closures.                                                               *)

\* A closure holds its seed and whatever is next to its members.
LEMMA ClosureHolds ==
    ASSUME NEW S, NEW Seed, NEW next, Seed \subseteq S
    PROVE  /\ Closure(S, Seed, next) \subseteq S
           /\ Seed \subseteq Closure(S, Seed, next)
  BY DEF Closure

LEMMA ClosureStep ==
    ASSUME NEW S, NEW Seed, NEW next, NEW y \in Closure(S, Seed, next), next[y] \subseteq S
    PROVE  next[y] \subseteq Closure(S, Seed, next)
  BY DEF Closure

\* It lies in every set that does so.
LEMMA ClosureLeast ==
    ASSUME NEW S, NEW Seed, NEW next, NEW T, T \subseteq S, Seed \subseteq T,
           \A y \in T : next[y] \subseteq T
    PROVE  Closure(S, Seed, next) \subseteq T
  BY DEF Closure

-----------------------------------------------------------------------------
(* Pushing, popping and replacing the head of a sequence.                  *)

\* A call: the new frame comes first and every other one moves down by one.
LEMMA PushFacts ==
    ASSUME NEW S, NEW s \in Seq(S), NEW f \in S
    PROVE  /\ <<f>> \o s \in Seq(S)
           /\ Len(<<f>> \o s) = Len(s) + 1
           /\ (<<f>> \o s)[1] = f
           /\ \A i \in 2..(Len(s) + 1) : (<<f>> \o s)[i] = s[i-1]
  OBVIOUS

\* A return: every frame but the first moves up by one.
LEMMA PopFacts ==
    ASSUME NEW S, NEW s \in Seq(S), s # <<>>
    PROVE  /\ Len(s) \in Nat \ {0} /\ s[1] \in S
           /\ Tail(s) \in Seq(S)
           /\ Len(Tail(s)) = Len(s) - 1
           /\ \A i \in 1..(Len(s) - 1) : Tail(s)[i] = s[i + 1]
  OBVIOUS

\* A step within the top frame.
LEMMA ReplaceFacts ==
    ASSUME NEW S, NEW s \in Seq(S), s # <<>>, NEW f \in S
    PROVE  /\ <<f>> \o Tail(s) \in Seq(S)
           /\ Len(<<f>> \o Tail(s)) = Len(s)
           /\ (<<f>> \o Tail(s))[1] = f
           /\ \A i \in 2..Len(s) : (<<f>> \o Tail(s))[i] = s[i]
  OBVIOUS

\* A call by a client.
LEMMA SingleFacts ==
    ASSUME NEW S, NEW f \in S
    PROVE  <<f>> \in Seq(S) /\ Len(<<f>>) = 1 /\ <<f>>[1] = f
  OBVIOUS

-----------------------------------------------------------------------------
(* The stack through the steps.                                            *)

\* Nobody is on an empty stack.
LEMMA EmptyStack ==
    ASSUME NEW A, NEW m, NEW o
    PROVE  StackInv(A, <<>>, m, o)
  BY DEF StackInv

LEMMA SingleStack ==
    ASSUME NEW A, NEW m, NEW o, NEW f \in Frames(A), FrameInv(f, m, o)
    PROVE  StackInv(A, <<f>>, m, o)
<1>1. <<f>> \in Seq(Frames(A)) /\ Len(<<f>>) = 1 /\ <<f>>[1] = f
  BY SingleFacts
<1> QED
  BY <1>1 DEF StackInv

\* A function that stores nothing may be called by any.
LEMMA PushStack ==
    ASSUME NEW A, NEW m, NEW o, NEW s, StackInv(A, s, m, o),
           NEW f \in Frames(A), FrameInv(f, m, o), Building(f),
           f.op = "create" => \A k \in 1..Len(s) : s[k].op = "load"
    PROVE  StackInv(A, <<f>> \o s, m, o)
<1>1. s \in Seq(Frames(A)) /\ Len(s) \in Nat
  BY DEF StackInv
<1>2. /\ <<f>> \o s \in Seq(Frames(A))
      /\ Len(<<f>> \o s) = Len(s) + 1
      /\ (<<f>> \o s)[1] = f
      /\ \A i \in 2..(Len(s) + 1) : (<<f>> \o s)[i] = s[i-1]
  BY <1>1, PushFacts
<1> DEFINE t == <<f>> \o s
<1> HIDE DEF t
<1>3. t \in Seq(Frames(A)) /\ Len(t) = Len(s) + 1 /\ t[1] = f
      /\ \A i \in 2..(Len(s) + 1) : t[i] = s[i-1]
  BY <1>2 DEF t
<1>4. \A i \in 1..Len(t) : i = 1 \/ (i - 1 \in 1..Len(s) /\ t[i] = s[i-1])
  BY <1>1, <1>3
<1>5. \A i \in 1..Len(t) : FrameInv(t[i], m, o)
  BY <1>3, <1>4 DEF StackInv
<1>6. \A k, n \in 1..Len(t) : k < n =>
         Building(t[k]) /\ (t[k].op = "create" => t[n].op = "load")
  <2> TAKE k, n \in 1..Len(t)
  <2> HAVE k < n
  <2>1. n - 1 \in 1..Len(s) /\ t[n] = s[n-1]
    BY <1>1, <1>3, <1>4
  <2>2. CASE k = 1
    BY <2>1, <2>2, <1>3
  <2>3. CASE k # 1
    <3>1. k - 1 \in 1..Len(s) /\ t[k] = s[k-1] /\ k - 1 < n - 1
      BY <1>1, <1>4, <2>3, <1>3
    <3> QED
      BY <3>1, <2>1 DEF StackInv
  <2> QED
    BY <2>2, <2>3
<1> QED
  BY <1>3, <1>5, <1>6 DEF StackInv, t

LEMMA PopStack ==
    ASSUME NEW A, NEW m, NEW o, NEW s, StackInv(A, s, m, o), s # <<>>
    PROVE  StackInv(A, Tail(s), m, o)
<1>1. s \in Seq(Frames(A)) /\ Len(s) \in Nat
  BY DEF StackInv
<1> DEFINE t == Tail(s)
<1> HIDE DEF t
<1>2. t \in Seq(Frames(A)) /\ Len(t) = Len(s) - 1 /\ Len(s) # 0
      /\ \A i \in 1..(Len(s) - 1) : t[i] = s[i+1]
  BY <1>1, PopFacts DEF t
<1>3. \A i \in 1..Len(t) : i + 1 \in 1..Len(s) /\ t[i] = s[i+1]
  BY <1>1, <1>2
<1>4. \A i \in 1..Len(t) : FrameInv(t[i], m, o)
  BY <1>3 DEF StackInv
<1>5. \A k, n \in 1..Len(t) : k < n =>
         Building(t[k]) /\ (t[k].op = "create" => t[n].op = "load")
  <2> TAKE k, n \in 1..Len(t)
  <2> HAVE k < n
  <2>1. k + 1 < n + 1
    BY <1>1, <1>2
  <2> QED
    BY <2>1, <1>3 DEF StackInv
<1> QED
  BY <1>2, <1>4, <1>5 DEF StackInv, t

LEMMA ReplaceStack ==
    ASSUME NEW A, NEW m, NEW o, NEW s, StackInv(A, s, m, o), s # <<>>,
           NEW f \in Frames(A), FrameInv(f, m, o), f.op = s[1].op
    PROVE  StackInv(A, <<f>> \o Tail(s), m, o)
<1>1. s \in Seq(Frames(A)) /\ Len(s) \in Nat
  BY DEF StackInv
<1> DEFINE t == <<f>> \o Tail(s)
<1> HIDE DEF t
<1>2. t \in Seq(Frames(A)) /\ Len(t) = Len(s) /\ t[1] = f
      /\ \A i \in 2..Len(s) : t[i] = s[i]
  BY <1>1, ReplaceFacts DEF t
<1>3. \A i \in 1..Len(t) : i \in 1..Len(s) /\ t[i].op = s[i].op /\ (i = 1 \/ t[i] = s[i])
  BY <1>1, <1>2
<1>4. \A i \in 1..Len(t) : FrameInv(t[i], m, o)
  BY <1>2, <1>3 DEF StackInv
<1>5. \A k, n \in 1..Len(t) : k < n =>
         Building(t[k]) /\ (t[k].op = "create" => t[n].op = "load")
  BY <1>3 DEF StackInv, Building
<1> QED
  BY <1>2, <1>4, <1>5 DEF StackInv, t

-----------------------------------------------------------------------------
(* Types, frames and destroyed wrappers: for all clients.                  *)

LEMMA StoredFacts ==
    ASSUME TypeOK
    PROVE  /\ Stored = Keys(objectMap)
           /\ \A i \in Stored : /\ i \in IDs /\ objectMap[i] \in Wrappers
                                /\ ObjectOf(i) \in Objects /\ ObjectOf(i).id = i
           /\ \A i, j \in Stored : objectMap[i] = objectMap[j] => i = j
  BY DEF TypeOK, Stored, Keys, ObjectOf

LEMMA TopFacts ==
    ASSUME NEW A, StackInv(A, calls, objectMap, object), ~Idle
    PROVE  Top \in Frames(A) /\ FrameInv(Top, objectMap, object) /\ calls # <<>>
           /\ \A k \in 2..Len(calls) :
                 Building(Top) /\ (Top.op = "create" => calls[k].op = "load")
<1>1. calls \in Seq(Frames(A)) /\ calls # <<>>
  BY DEF StackInv, Idle
<1>2. Len(calls) \in Nat \ {0} /\ calls[1] \in Frames(A) /\ 1 \in 1..Len(calls)
  BY <1>1, PopFacts
<1>3. \A k \in 2..Len(calls) : k \in 1..Len(calls) /\ 1 < k
  BY <1>2
<1> QED
  BY <1>1, <1>2, <1>3 DEF StackInv, Top

\* What a creator builds is an object.
LEMMA BuiltFacts ==
    ASSUME NEW A, TypeOK, ListedInv, StackInv(A, calls, objectMap, object), ~Idle,
           Top.op \in {"create", "recreate"}
    PROVE  /\ Built \in Objects /\ Built # None
           /\ Built.id = Top.id /\ Built.arg = Top.arg /\ Built.precs = Top.precs
           /\ Built.listed = Top.listed
           /\ Built.state = Merge(Own(Top.id, Top.arg), Top.state)
           /\ Built.listed \subseteq Built.precs
<1>1. Top \in Frames(A) /\ FrameInv(Top, objectMap, object)
  BY TopFacts
<1>2. Top.id \in IDs /\ Top.arg \in Args /\ Top.listed \subseteq Top.precs
  <2>1. CASE Top.op = "create"
    BY <1>1, <2>1 DEF FrameInv, CreateFrame
  <2>2. CASE Top.op = "recreate"
    <3>1. Top.id \in Stored /\ Top.arg = ObjectOf(Top.id).arg
          /\ Top.precs = ObjectOf(Top.id).precs /\ Top.listed = ObjectOf(Top.id).listed
      BY <1>1, <2>2 DEF FrameInv, RecreateFrame, Stored, Keys, ObjectOf
    <3>2. ObjectOf(Top.id) \in Objects /\ objectMap[Top.id] \in Wrappers
      BY <3>1, StoredFacts
    <3>3. ObjectOf(Top.id) # None
      BY <3>2, NoneAssumption
    <3>4. ObjectOf(Top.id).listed \subseteq ObjectOf(Top.id).precs
      BY <3>2, <3>3 DEF ListedInv, ObjectOf
    <3> QED
      BY <3>1, <3>2, <3>4 DEF Objects, Stored
  <2> QED
    BY <2>1, <2>2
<1>3. Top.precs \in SUBSET IDs /\ Top.listed \in SUBSET IDs /\ Top.state \in Provenances
  BY <1>1 DEF Frames
<1>4. Merge(Own(Top.id, Top.arg), Top.state) \in Provenances
  BY <1>2, <1>3 DEF Merge, Own, Provenances
<1>5. Built \in Objects
  BY <1>2, <1>3, <1>4 DEF Built, Objects
<1> QED
  BY <1>2, <1>5, NoneAssumption DEF Built

\* The new map, whose IDs lead to their objects, is in place, and so are they.
LEMMA RebindTypes ==
    ASSUME NEW map \in [IDs -> Wrappers \cup {None}],
           NEW obs \in [Wrappers -> SUBSET Wrappers],
           NEW objs \in [Wrappers -> Objects \cup {None}],
           \A i \in Keys(map) : objs[map[i]] # None /\ objs[map[i]].id = i,
           \A w \in Wrappers : objs[w] # None => objs[w].listed \subseteq objs[w].precs,
           dirty' \in [Wrappers -> BOOLEAN],
           Rebind(map, obs, objs)
    PROVE  /\ TypeOK' /\ ListedInv'
           /\ objectMap' = map
           /\ \A i \in Keys(map) : object'[map[i]] = objs[map[i]]
<1> DEFINE seed == {map[i] : i \in IDs} \ {None}
<1>1. seed \subseteq Wrappers
  OBVIOUS
<1> DEFINE live == Live(map, obs)
<1>2. seed \subseteq live
  BY <1>1, ClosureHolds DEF Live
<1> HIDE DEF live
<1>3. /\ objectMap' = map
      /\ observables' = [x \in Wrappers |-> IF x \in live THEN obs[x] ELSE {}]
      /\ object' = [x \in Wrappers |-> IF x \in live THEN objs[x] ELSE None]
  BY DEF Rebind, live
<1>4. \A i \in Keys(map) : map[i] \in live /\ map[i] \in Wrappers
  BY <1>2 DEF Keys
<1>5. \A i \in Keys(map) : object'[map[i]] = objs[map[i]]
  BY <1>3, <1>4
<1>6. \A i \in Stored' : i \in Keys(map)
  BY <1>3 DEF Stored, Keys
<1>7. \A i \in Stored' : ObjectOf(i)' # None /\ ObjectOf(i)'.id = i
  BY <1>3, <1>5, <1>6 DEF ObjectOf
<1>8. object' \in [Wrappers -> Objects \cup {None}]
      /\ observables' \in [Wrappers -> SUBSET Wrappers]
  BY <1>3
<1>9. TypeOK'
  BY <1>3, <1>7, <1>8 DEF TypeOK
<1>10. ListedInv'
  BY <1>3 DEF ListedInv
<1> QED
  BY <1>3, <1>5, <1>9, <1>10

-----------------------------------------------------------------------------
(* The actions that change neither map nor wrappers.                       *)

LEMMA BaseSteady ==
    ASSUME NEW A, BaseInv(A), UNCHANGED <<objectMap, object, dirty, observables>>,
           StackInv(A, calls', objectMap, object)
    PROVE  BaseInv(A)'
  BY DEF BaseInv, TypeOK, ListedInv, Stored, ObjectOf

LEMMA BaseRetrieve ==
    ASSUME NEW A, None \in A, BaseInv(A), NEW i \in IDs, Retrieve(i)
    PROVE  BaseInv(A)'
<1> DEFINE f == Frame("retrieve", i, None, {}, {i}, FALSE)
<1>1. f \in Frames(A) /\ FrameInv(f, objectMap, object)
  <2>1. Nothing \in Provenances
    BY DEF Nothing, Provenances
  <2> QED
    BY <2>1 DEF Frame, Frames, Ops, FrameInv
<1> HIDE DEF f
<1>2. StackInv(A, <<f>>, objectMap, object)
  BY <1>1, SingleStack
<1> QED
  BY <1>2, BaseSteady DEF Retrieve, f

LEMMA BaseCreate ==
    ASSUME NEW A, Args \subseteq A, BaseInv(A), NEW i \in IDs, NEW arg \in Args,
           NEW precs \in SUBSET IDs, NEW overwrite \in BOOLEAN, Create(i, arg, precs, overwrite)
    PROVE  BaseInv(A)'
<1> DEFINE f == Frame("create", i, arg, precs, precs, overwrite)
<1>1. f \in Frames(A) /\ FrameInv(f, objectMap, object)
  <2>1. Nothing \in Provenances
    BY DEF Nothing, Provenances
  <2> QED
    BY <2>1 DEF Frame, Frames, Ops, FrameInv, CreateFrame, Retrieved
<1> HIDE DEF f
<1>2. StackInv(A, <<f>>, objectMap, object)
  BY <1>1, SingleStack
<1> QED
  BY <1>2, BaseSteady DEF Create, f

\* The frame that retrieveObjectImpl pushes, and the one it leaves on top.
RecreateOf(p) ==
    [Frame("recreate", p, ObjectOf(p).arg, ObjectOf(p).precs, ObjectOf(p).precs, FALSE)
     EXCEPT !.listed = ObjectOf(p).listed]
Answered(p) ==
    [Top EXCEPT !.left = @ \ {p}, !.state = Merge(@, ObjectOf(p).state)]

LEMMA RecreateOfFacts ==
    ASSUME NEW A, Args \subseteq A, TypeOK, NEW p \in Stored
    PROVE  /\ RecreateOf(p) \in Frames(A) /\ RecreateOf(p).op = "recreate"
           /\ RecreateOf(p).id = p /\ RecreateOf(p).arg = ObjectOf(p).arg
           /\ RecreateOf(p).precs = ObjectOf(p).precs /\ RecreateOf(p).left = ObjectOf(p).precs
           /\ RecreateOf(p).listed = ObjectOf(p).listed
           /\ RecreateOf(p).state = Nothing
           /\ FrameInv(RecreateOf(p), objectMap, object)
<1>1. ObjectOf(p) \in Objects /\ p \in IDs /\ p \in Keys(objectMap)
  BY StoredFacts
<1>2. Nothing \in Provenances
  BY DEF Nothing, Provenances
<1> DEFINE o == ObjectOf(p)
<1>3. o.arg \in Args /\ o.precs \subseteq IDs /\ o.listed \subseteq IDs
  BY <1>1 DEF Objects
<1>4. o = object[objectMap[p]]
  BY DEF ObjectOf
<1> HIDE DEF o
<1> DEFINE g == Frame("recreate", p, o.arg, o.precs, o.precs, FALSE)
<1>5. /\ g \in Frames(A) /\ g.op = "recreate" /\ g.id = p /\ g.arg = o.arg /\ g.precs = o.precs
      /\ g.left = o.precs /\ g.state = Nothing
  BY <1>1, <1>2, <1>3 DEF Frame, Frames, Ops
<1> HIDE DEF g
<1> DEFINE f == [g EXCEPT !.listed = o.listed]
<1>6. f \in Frames(A)
  BY <1>3, <1>5 DEF Frames
<1>7. /\ f.op = "recreate" /\ f.id = p /\ f.arg = o.arg /\ f.precs = o.precs /\ f.left = o.precs
      /\ f.listed = o.listed /\ f.state = Nothing
  BY <1>5 DEF Frames
<1> HIDE DEF f
<1>8. FrameInv(f, objectMap, object)
  BY <1>1, <1>4, <1>7 DEF FrameInv, RecreateFrame, Retrieved
<1>9. f = RecreateOf(p)
  BY DEF f, g, RecreateOf, o
<1> QED
  BY <1>6, <1>7, <1>8, <1>9 DEF o

LEMMA AnsweredFacts ==
    ASSUME NEW A, TypeOK, StackInv(A, calls, objectMap, object), ~Idle,
           NEW p \in Stored, p \in Top.left
    PROVE  /\ Answered(p) \in Frames(A)
           /\ Answered(p).op = Top.op /\ Answered(p).id = Top.id /\ Answered(p).arg = Top.arg
           /\ Answered(p).precs = Top.precs /\ Answered(p).listed = Top.listed
           /\ Answered(p).left = Top.left \ {p}
           /\ Answered(p).state = Merge(Top.state, ObjectOf(p).state)
           /\ Answered(p).overwrite = Top.overwrite
           /\ FrameInv(Answered(p), objectMap, object)
<1>1. Top \in Frames(A) /\ FrameInv(Top, objectMap, object)
  BY TopFacts
<1>2. ObjectOf(p) \in Objects /\ p \in Keys(objectMap)
  BY StoredFacts
<1>3. ObjectOf(p).state \in Provenances
  BY <1>2 DEF Objects
<1>4. Top.state \in Provenances
  BY <1>1 DEF Frames
<1>5. Merge(Top.state, ObjectOf(p).state) \in Provenances
  BY <1>3, <1>4 DEF Merge, Provenances
<1> DEFINE f == Answered(p)
<1>6. /\ f \in Frames(A)
      /\ f.op = Top.op /\ f.id = Top.id /\ f.arg = Top.arg
      /\ f.precs = Top.precs /\ f.listed = Top.listed
      /\ f.left = Top.left \ {p}
      /\ f.state = Merge(Top.state, ObjectOf(p).state)
      /\ f.overwrite = Top.overwrite
  BY <1>1, <1>5 DEF Frames, Answered
<1> HIDE DEF f
<1>7. Retrieved(f) \subseteq Retrieved(Top) \cup {p}
  BY <1>6 DEF Retrieved
<1>8. FrameInv(f, objectMap, object)
  BY <1>1, <1>2, <1>6, <1>7 DEF FrameInv, CreateFrame, RecreateFrame
<1> QED
  BY <1>6, <1>8 DEF f

\* What retrieveObjectImpl does to the stack.
LEMMA RetrieveCases ==
    ASSUME NEW p \in IDs, retrieveObjectImpl(p)
    PROVE  /\ ~Idle /\ p \in Top.left
           /\ UNCHANGED <<objectMap, object, dirty, observables>>
           /\ \/ p \notin Stored /\ calls' = <<>> /\ returned' = None
              \/ p \in Stored /\ dirty[objectMap[p]] /\ calls' = <<RecreateOf(p)>> \o calls
                 /\ returned' = returned
              \/ p \in Stored /\ ~dirty[objectMap[p]] /\ calls' = <<Answered(p)>> \o Tail(calls)
                 /\ returned' = returned
<1> USE DEF Stored
<1>1. ~Idle /\ p \in Top.left /\ UNCHANGED <<objectMap, object, dirty, observables>>
  BY DEF retrieveObjectImpl
<1>2. CASE ~Exists(p) /\ Throw
  BY <1>1, <1>2 DEF Exists, Throw
<1>3. CASE /\ Exists(p) /\ dirty[objectMap[p]]
           /\ LET o == ObjectOf(p)
              IN  calls' = <<[Frame("recreate", p, o.arg, o.precs, o.precs, FALSE)
                             EXCEPT !.listed = o.listed]>> \o calls
           /\ UNCHANGED returned
  BY <1>1, <1>3 DEF Exists, RecreateOf
<1>4. CASE /\ Exists(p) /\ ~dirty[objectMap[p]]
           /\ calls' = <<[Top EXCEPT !.left = @ \ {p},
                                    !.state = Merge(@, ObjectOf(p).state)]>> \o Tail(calls)
           /\ UNCHANGED returned
  BY <1>1, <1>4 DEF Exists, Answered
<1> QED
  BY <1>2, <1>3, <1>4 DEF retrieveObjectImpl

LEMMA BaseRetrieveImpl ==
    ASSUME NEW A, Args \subseteq A, BaseInv(A), NEW p \in IDs, retrieveObjectImpl(p)
    PROVE  BaseInv(A)'
<1>1. ~Idle /\ p \in Top.left /\ UNCHANGED <<objectMap, object, dirty, observables>>
  BY RetrieveCases
<1>2. TypeOK /\ StackInv(A, calls, objectMap, object) /\ calls # <<>>
  BY <1>1 DEF BaseInv, Idle
<1>3. CASE calls' = <<>>
  <2>1. StackInv(A, calls', objectMap, object)
    BY <1>3, EmptyStack
  <2> QED
    BY <1>1, <2>1, BaseSteady
<1>4. CASE p \in Stored /\ calls' = <<RecreateOf(p)>> \o calls
  <2>1. RecreateOf(p) \in Frames(A) /\ RecreateOf(p).op = "recreate"
        /\ FrameInv(RecreateOf(p), objectMap, object)
    BY <1>2, <1>4, RecreateOfFacts
  <2>2. StackInv(A, <<RecreateOf(p)>> \o calls, objectMap, object)
    BY <1>2, <2>1, PushStack DEF Building
  <2> QED
    BY <1>1, <1>4, <2>2, BaseSteady
<1>5. CASE p \in Stored /\ calls' = <<Answered(p)>> \o Tail(calls)
  <2>1. Answered(p) \in Frames(A) /\ Answered(p).op = calls[1].op
        /\ FrameInv(Answered(p), objectMap, object)
    BY <1>1, <1>2, <1>5, AnsweredFacts DEF Top
  <2>2. StackInv(A, <<Answered(p)>> \o Tail(calls), objectMap, object)
    BY <1>2, <2>1, ReplaceStack
  <2> QED
    BY <1>1, <1>5, <2>2, BaseSteady
<1> QED
  BY <1>3, <1>4, <1>5, RetrieveCases

LEMMA BaseRetrieveEnd ==
    ASSUME NEW A, BaseInv(A), RetrieveEnd
    PROVE  BaseInv(A)'
  BY BaseSteady, EmptyStack DEF RetrieveEnd

-----------------------------------------------------------------------------
(* The actions that change them.                                           *)

\* A frame does not mind if objects change that are built from the same.
LEMMA FrameSame ==
    ASSUME NEW f, NEW m, NEW o, NEW n, FrameInv(f, m, o),
           \A i \in Keys(m) : /\ n[m[i]].arg = o[m[i]].arg /\ n[m[i]].precs = o[m[i]].precs
                              /\ n[m[i]].listed = o[m[i]].listed
    PROVE  FrameInv(f, m, n)
  BY DEF FrameInv, RecreateFrame

\* A load does not mind anything.
LEMMA LoadStack ==
    ASSUME NEW A, NEW m, NEW o, NEW n, NEW q, NEW s, StackInv(A, s, m, o),
           \A k \in 1..Len(s) : s[k].op = "load"
    PROVE  StackInv(A, s, n, q)
  BY DEF StackInv, FrameInv

LEMMA BaseRecreate ==
    ASSUME NEW A, BaseInv(A), recreate
    PROVE  BaseInv(A)'
<1>1. ~Idle /\ Top.op = "recreate"
  BY DEF recreate, Running
<1>2. TypeOK /\ ListedInv /\ StackInv(A, calls, objectMap, object) /\ calls # <<>>
  BY <1>1 DEF BaseInv, Idle
<1> PICK w : w = objectMap[Top.id]
  OBVIOUS
<1> PICK b : b = Built
  OBVIOUS
<1>3. FrameInv(Top, objectMap, object)
  BY <1>1, <1>2, TopFacts
<1>4. /\ b \in Objects /\ b # None /\ b.id = Top.id /\ b.arg = Top.arg /\ b.precs = Top.precs
      /\ b.listed = Top.listed /\ b.listed \subseteq b.precs
  BY <1>1, <1>2, BuiltFacts
<1>5. Top.id \in Keys(objectMap) /\ Top.id \in Stored
  BY <1>1, <1>3 DEF FrameInv, RecreateFrame, Stored, Keys
<1>6. w \in Wrappers
  BY <1>2, <1>5, StoredFacts
<1>7. /\ b.arg = object[w].arg /\ b.precs = object[w].precs /\ b.listed = object[w].listed
  BY <1>1, <1>3, <1>4 DEF FrameInv, RecreateFrame
<1>8. /\ object' = [object EXCEPT ![w] = b] /\ dirty' = [dirty EXCEPT ![w] = FALSE]
      /\ calls' = Tail(calls) /\ UNCHANGED <<objectMap, observables>>
  BY DEF recreate
<1>9. \A i \in Stored : objectMap[i] = w => i = Top.id
  BY <1>2, <1>5, StoredFacts
<1>10. TypeOK'
  <2>1. object' \in [Wrappers -> Objects \cup {None}] /\ dirty' \in [Wrappers -> BOOLEAN]
    BY <1>2, <1>4, <1>8 DEF TypeOK
  <2>2. Stored' = Stored
    BY <1>8 DEF Stored
  <2>3. \A i \in Stored : ObjectOf(i)' # None /\ ObjectOf(i)'.id = i
    <3> TAKE i \in Stored
    <3>1. objectMap[i] \in Wrappers /\ object[objectMap[i]] # None
          /\ object[objectMap[i]].id = i
      BY <1>2 DEF TypeOK, ObjectOf, Stored
    <3>2. CASE objectMap[i] = w
      BY <3>2, <1>2, <1>4, <1>6, <1>8, <1>9 DEF ObjectOf, TypeOK
    <3>3. CASE objectMap[i] # w
      BY <3>1, <3>3, <1>2, <1>8 DEF ObjectOf, TypeOK
    <3> QED
      BY <3>2, <3>3
  <2> QED
    BY <1>2, <1>8, <2>1, <2>2, <2>3 DEF TypeOK
<1>11. ListedInv'
  BY <1>2, <1>4, <1>8 DEF ListedInv, TypeOK
<1>12. StackInv(A, calls', objectMap', object')
  <2>1. StackInv(A, Tail(calls), objectMap, object)
    BY <1>2, PopStack
  <2>2. \A i \in Keys(objectMap) :
          /\ object'[objectMap[i]].arg = object[objectMap[i]].arg
          /\ object'[objectMap[i]].precs = object[objectMap[i]].precs
          /\ object'[objectMap[i]].listed = object[objectMap[i]].listed
    <3> TAKE i \in Keys(objectMap)
    <3>1. objectMap[i] \in Wrappers
      BY <1>2, StoredFacts
    <3> QED
      BY <3>1, <1>2, <1>7, <1>8 DEF TypeOK
  <2>3. \A f : FrameInv(f, objectMap, object) => FrameInv(f, objectMap, object')
    BY <2>2, FrameSame
  <2> QED
    BY <1>8, <2>1, <2>3 DEF StackInv
<1> QED
  BY <1>10, <1>11, <1>12 DEF BaseInv

\* The object just built is put into wrapper w, which the map has, or from now on
\* has, for its ID.
Install(map, w) ==
    /\ w \in Wrappers
    /\ map \in [IDs -> Wrappers \cup {None}]
    /\ map[Top.id] = w
    /\ \A i \in IDs \ {Top.id} : map[i] = objectMap[i] /\ map[i] # w
    /\ Rebind(map, Registered(map, w, Top.listed), [object EXCEPT ![w] = Built])

\* Under a new ID, or in place of another object.
InstallNew(map, w) ==
    /\ Install(map, w)
    /\ Top.id \notin Stored /\ object[w] = None
    /\ dirty' = [dirty EXCEPT ![w] = FALSE]
InstallOver(map, w) ==
    /\ Install(map, w)
    /\ Top.id \in Stored /\ map = objectMap
    /\ dirty' = Reset(w)

LEMMA NewInstalls ==
    ASSUME TypeOK, Top.id \in IDs, ~Exists(Top.id), NEW w \in Wrappers, object[w] = None,
           Rebind([objectMap EXCEPT ![Top.id] = w],
                  Registered([objectMap EXCEPT ![Top.id] = w], w, Top.listed),
                  [object EXCEPT ![w] = Built]),
           dirty' = [dirty EXCEPT ![w] = FALSE]
    PROVE  InstallNew([objectMap EXCEPT ![Top.id] = w], w)
<1> DEFINE map == [objectMap EXCEPT ![Top.id] = w]
<1>1. map \in [IDs -> Wrappers \cup {None}] /\ map[Top.id] = w
      /\ \A i \in IDs \ {Top.id} : map[i] = objectMap[i]
  BY DEF TypeOK
<1>2. \A i \in IDs : objectMap[i] # w
  BY BelowAssumption DEF TypeOK, Stored, ObjectOf
<1>3. Top.id \notin Stored
  BY DEF Stored, Exists
<1> HIDE DEF map
<1>4. Rebind(map, Registered(map, w, Top.listed), [object EXCEPT ![w] = Built])
  BY DEF map
<1>5. InstallNew(map, w)
  BY <1>1, <1>2, <1>3, <1>4 DEF InstallNew, Install
<1> QED
  BY <1>5 DEF map

LEMMA OverInstalls ==
    ASSUME TypeOK, Top.id \in IDs, Exists(Top.id), NEW w, w = objectMap[Top.id],
           Rebind(objectMap, Registered(objectMap, w, Top.listed), [object EXCEPT ![w] = Built]),
           dirty' = Reset(w)
    PROVE  InstallOver(objectMap, w)
<1>1. Top.id \in Stored
  BY DEF Stored, Exists
<1>2. w \in Wrappers
  BY <1>1, StoredFacts
<1>3. \A i \in IDs \ {Top.id} : objectMap[i] # w
  BY <1>1, <1>2, StoredFacts, BelowAssumption DEF Stored
<1> QED
  BY <1>1, <1>2, <1>3 DEF InstallOver, Install, TypeOK

\* storeObject throws, or installs the object.
LEMMA StoreCases ==
    ASSUME TypeOK, Top.id \in IDs, storeObject
    PROVE  \/ calls' = <<>> /\ returned' = None /\ UNCHANGED <<objectMap, object, dirty, observables>>
           \/ /\ \E map, w : InstallNew(map, w) \/ InstallOver(map, w)
              /\ calls' = Tail(calls) /\ returned' = returned
<1>1. CASE Exists(Top.id) /\ ~Top.overwrite
  BY <1>1 DEF storeObject, Throw
<1>2. CASE Exists(Top.id) /\ Top.overwrite
  <2> PICK w : w = objectMap[Top.id]
    OBVIOUS
  <2>1. /\ dirty' = Reset(w)
        /\ Rebind(objectMap, Registered(objectMap, w, Top.listed), [object EXCEPT ![w] = Built])
        /\ calls' = Tail(calls) /\ returned' = returned
    BY <1>2 DEF storeObject
  <2>2. InstallOver(objectMap, w)
    BY <1>2, <2>1, OverInstalls
  <2> QED
    BY <2>1, <2>2
<1>3. CASE ~Exists(Top.id)
  <2>1. PICK w \in Wrappers :
           LET map == [objectMap EXCEPT ![Top.id] = w]
           IN  /\ object[w] = None
               /\ dirty' = [dirty EXCEPT ![w] = FALSE]
               /\ Rebind(map, Registered(map, w, Top.listed), [object EXCEPT ![w] = Built])
               /\ calls' = Tail(calls)
               /\ UNCHANGED returned
    BY <1>3 DEF storeObject
  <2>2. InstallNew([objectMap EXCEPT ![Top.id] = w], w)
    BY <1>3, <2>1, NewInstalls
  <2> QED
    BY <2>1, <2>2
<1> QED
  BY <1>1, <1>2, <1>3

\* What can be said of a creator that has all its precedents.
LEMMA CreatorFacts ==
    ASSUME NEW A, BaseInv(A), Running("create"), Top.left = {}
    PROVE  /\ ~Idle /\ calls # <<>> /\ Top.op = "create" /\ Top.id \in IDs
           /\ Top.precs \subseteq Stored /\ Top.listed \subseteq Top.precs
           /\ Built \in Objects /\ Built # None
           /\ Built.id = Top.id /\ Built.arg = Top.arg /\ Built.precs = Top.precs
           /\ Built.listed = Top.listed
           /\ Built.state = Merge(Own(Top.id, Top.arg), Top.state)
<1>1. ~Idle /\ Top.op = "create" /\ TypeOK /\ ListedInv /\ StackInv(A, calls, objectMap, object)
  BY DEF Running, BaseInv
<1>2. FrameInv(Top, objectMap, object) /\ calls # <<>>
  BY <1>1, TopFacts
<1>3. CreateFrame(Top, objectMap)
  BY <1>1, <1>2 DEF FrameInv
<1>4. Stored = Keys(objectMap)
  BY <1>1, StoredFacts
<1> QED
  BY <1>1, <1>2, <1>3, <1>4, BuiltFacts DEF CreateFrame, Retrieved

\* What the map leads to afterwards.
LEMMA InstallFacts ==
    ASSUME NEW A, BaseInv(A), Running("create"), Top.left = {}, NEW map, NEW w, Install(map, w),
           dirty' \in [Wrappers -> BOOLEAN]
    PROVE  /\ TypeOK' /\ ListedInv' /\ objectMap' = map
           /\ Keys(map) = Stored \cup {Top.id}
           /\ object'[w] = Built
           /\ \A i \in Keys(map) \ {Top.id} : object'[map[i]] = ObjectOf(i)
<1>1. /\ Top.id \in IDs /\ Top.precs \subseteq Stored /\ Top.listed \subseteq Top.precs
      /\ Built \in Objects /\ Built # None /\ Built.id = Top.id
      /\ Built.listed = Top.listed /\ Built.precs = Top.precs
  BY CreatorFacts
<1> PICK b : b = Built
  OBVIOUS
<1> PICK id : id = Top.id
  OBVIOUS
<1>2. TypeOK /\ ListedInv
  BY DEF BaseInv
<1>3. /\ w \in Wrappers /\ map \in [IDs -> Wrappers \cup {None}] /\ map[id] = w
      /\ \A i \in IDs \ {id} : map[i] = objectMap[i] /\ map[i] # w
  BY DEF Install
<1>4. Keys(map) = Stored \cup {id}
  BY <1>1, <1>3, BelowAssumption DEF Keys, Stored
<1> DEFINE obs == Registered(map, w, Top.listed)
           objs == [object EXCEPT ![w] = b]
<1>5. obs \in [Wrappers -> SUBSET Wrappers]
  <2>1. \A p \in Top.listed : map[p] \in Wrappers
    BY <1>1, <1>3, <1>4, BelowAssumption DEF Keys
  <2> DEFINE V == {map[p] : p \in Top.listed}
  <2>2. V \in SUBSET Wrappers
    BY <2>1
  <2>3. obs = [observables EXCEPT ![w] = V]
    BY DEF Registered
  <2> HIDE DEF V, obs
  <2> QED
    BY <1>2, <2>2, <2>3 DEF TypeOK
<1>6. objs \in [Wrappers -> Objects \cup {None}]
  BY <1>1, <1>2 DEF TypeOK
<1>7. objs[w] = b /\ \A i \in Keys(map) \ {id} : objs[map[i]] = ObjectOf(i)
  BY <1>2, <1>3, <1>4, StoredFacts DEF TypeOK, ObjectOf
<1>8. \A i \in Keys(map) : objs[map[i]] # None /\ objs[map[i]].id = i
  BY <1>1, <1>2, <1>3, <1>4, <1>7 DEF TypeOK
<1>9. \A x \in Wrappers : objs[x] # None => objs[x].listed \subseteq objs[x].precs
  BY <1>1, <1>2 DEF ListedInv, TypeOK
<1>10. Rebind(map, obs, objs)
  BY DEF Install
<1> HIDE DEF obs, objs
<1>11. TypeOK' /\ ListedInv' /\ objectMap' = map
       /\ \A i \in Keys(map) : object'[map[i]] = objs[map[i]]
  BY <1>3, <1>5, <1>6, <1>8, <1>9, <1>10, RebindTypes
<1> QED
  BY <1>3, <1>4, <1>7, <1>11

LEMMA BaseStore ==
    ASSUME NEW A, BaseInv(A), storeObject
    PROVE  BaseInv(A)'
<1>1. Running("create") /\ Top.left = {}
  BY DEF storeObject
<1>2. Top.id \in IDs /\ TypeOK /\ calls # <<>> /\ ~Idle /\ Top.op = "create"
      /\ StackInv(A, calls, objectMap, object)
  BY <1>1, CreatorFacts DEF BaseInv
<1>3. CASE calls' = <<>> /\ UNCHANGED <<objectMap, object, dirty, observables>>
  BY <1>3, BaseSteady, EmptyStack
<1>4. ASSUME NEW map, NEW w, InstallNew(map, w) \/ InstallOver(map, w), calls' = Tail(calls)
      PROVE  BaseInv(A)'
  <2>1. Install(map, w)
    BY <1>4 DEF InstallNew, InstallOver
  <2>2. dirty' \in [Wrappers -> BOOLEAN]
    BY <1>2, <1>4 DEF InstallNew, InstallOver, Reset, TypeOK
  <2>3. TypeOK' /\ ListedInv'
    BY <1>1, <2>1, <2>2, InstallFacts
  <2>4. StackInv(A, calls', objectMap', object')
    <3>1. StackInv(A, Tail(calls), objectMap, object)
      BY <1>2, PopStack
    <3>2. \A k \in 2..Len(calls) : calls[k].op = "load"
      BY <1>2, TopFacts
    <3>3. \A k \in 1..Len(Tail(calls)) : Tail(calls)[k].op = "load"
      <4>1. calls \in Seq(Frames(A))
        BY <1>2 DEF StackInv
      <4>2. /\ Len(calls) \in Nat \ {0} /\ Len(Tail(calls)) = Len(calls) - 1
            /\ \A i \in 1..(Len(calls) - 1) : Tail(calls)[i] = calls[i + 1]
        BY <4>1, <1>2, PopFacts
      <4> QED
        BY <3>2, <4>2
    <3> QED
      BY <1>4, <3>1, <3>3, LoadStack
  <2> QED
    BY <2>3, <2>4 DEF BaseInv
<1> QED
  BY <1>2, <1>3, <1>4, StoreCases

\* Deletion drops IDs from the map; the others still lead to their objects.
LEMMA EraseFacts ==
    ASSUME TypeOK, ListedInv, NEW D, Erase(D), dirty' = dirty
    PROVE  /\ TypeOK' /\ ListedInv'
           /\ Stored' = Stored \ D
           /\ \A i \in Stored \ D : objectMap'[i] = objectMap[i] /\ ObjectOf(i)' = ObjectOf(i)
<1> DEFINE map == [i \in IDs |-> IF i \in D THEN None ELSE objectMap[i]]
<1>1. map \in [IDs -> Wrappers \cup {None}]
  BY DEF TypeOK
<1>2. Keys(map) = Stored \ D /\ \A i \in Stored \ D : map[i] = objectMap[i]
  BY DEF Keys, Stored
<1>3. \A i \in Keys(map) : object[map[i]] # None /\ object[map[i]].id = i
  BY <1>2 DEF TypeOK, ObjectOf
<1>4. Rebind(map, observables, object)
  BY DEF Erase
<1> HIDE DEF map
<1>5. TypeOK' /\ ListedInv' /\ objectMap' = map
      /\ \A i \in Keys(map) : object'[map[i]] = object[map[i]]
  BY <1>1, <1>3, <1>4, RebindTypes DEF TypeOK, ListedInv
<1> QED
  BY <1>2, <1>5 DEF Stored, Keys, ObjectOf

LEMMA BaseErase ==
    ASSUME NEW A, BaseInv(A), Idle, NEW D, Erase(D), UNCHANGED <<dirty, calls>>
    PROVE  BaseInv(A)'
<1>1. TypeOK' /\ ListedInv'
  BY EraseFacts DEF BaseInv
<1>2. calls' = <<>>
  BY DEF Idle
<1>3. StackInv(A, calls', objectMap', object')
  BY <1>2, EmptyStack
<1> QED
  BY <1>1, <1>3 DEF BaseInv

\* The ID lists and flags of clients come down to sets of IDs.
LEMMA DeletesErase ==
    ASSUME \/ \E list \in Lists : deleteObject(list)
           \/ \E deletePermanent \in BOOLEAN : deleteAllObjects(deletePermanent)
    PROVE  /\ Idle /\ returned' = None /\ UNCHANGED <<dirty, calls>>
           /\ \E D \in SUBSET IDs : Deletable(D) /\ Erase(D)
<1>1. ASSUME NEW list \in Lists, deleteObject(list)
      PROVE  \E D \in SUBSET IDs : Deletable(D) /\ Erase(D)
  <2>1. \A k \in DOMAIN list : list[k] \in IDs
    BY DEF Lists
  <2> DEFINE done == {k \in DOMAIN list : \A j \in 1..k : Exists(list[j])}
             gone == {list[k] : k \in done}
  <2>2. Deletable(gone) /\ Erase(gone)
    BY <1>1 DEF deleteObject
  <2>3. gone \in SUBSET IDs
    BY <2>1
  <2> QED
    BY <2>2, <2>3
<1>2. ASSUME NEW deletePermanent \in BOOLEAN, deleteAllObjects(deletePermanent)
      PROVE  \E D \in SUBSET IDs : Deletable(D) /\ Erase(D)
  <2> DEFINE gone == IF deletePermanent THEN Stored ELSE Stored \ Permanents
  <2>1. Deletable(gone) /\ Erase(gone)
    BY <1>2 DEF deleteAllObjects
  <2>2. gone \in SUBSET IDs
    BY DEF Stored
  <2> QED
    BY <2>1, <2>2
<1> QED
  BY <1>1, <1>2 DEF deleteObject, deleteAllObjects

\* What careful clients delete is no precedent of what stays.
LEMMA DeletableFacts ==
    ASSUME TypeOK, ~MayDeleteUsed, NEW D \in SUBSET IDs, Deletable(D)
    PROVE  \A i \in Stored \ D : ObjectOf(i).precs \cap D = {}
<1> TAKE i \in Stored \ D
<1>1. objectMap[i] \in Wrappers /\ ObjectOf(i) # None
  BY StoredFacts DEF TypeOK
<1>2. \A j \in D : objectMap[j] # objectMap[i]
  BY <1>1, StoredFacts, BelowAssumption DEF Stored
<1> QED
  BY <1>1, <1>2 DEF Deletable, ObjectOf

LEMMA BaseInit == ASSUME NEW A, Init PROVE BaseInv(A)
<1>1. StackInv(A, calls, objectMap, object)
  BY EmptyStack DEF Init
<1>2. TypeOK
  BY DEF Init, TypeOK, Stored
<1>3. ListedInv
  BY DEF Init, ListedInv
<1> QED
  BY <1>1, <1>2, <1>3 DEF BaseInv

\* Every step of the repository keeps types and frames.
LEMMA BaseNext ==
    ASSUME NEW A, Args \subseteq A, None \in A, BaseInv(A), Next
    PROVE  BaseInv(A)'
<1>1. CASE \E i \in IDs : Retrieve(i)
  BY <1>1, BaseRetrieve
<1>2. CASE \E i \in IDs, arg \in Args, precs \in SUBSET IDs, overwrite \in BOOLEAN :
              Create(i, arg, precs, overwrite)
  BY <1>2, BaseCreate
<1>3. CASE \E p \in IDs : retrieveObjectImpl(p)
  BY <1>3, BaseRetrieveImpl
<1>4. CASE recreate
  BY <1>4, BaseRecreate
<1>5. CASE RetrieveEnd
  BY <1>5, BaseRetrieveEnd
<1>6. CASE storeObject
  BY <1>6, BaseStore
<1>7. CASE \/ \E list \in Lists : deleteObject(list)
           \/ \E deletePermanent \in BOOLEAN : deleteAllObjects(deletePermanent)
  BY <1>7, DeletesErase, BaseErase
<1> QED
  BY <1>1, <1>2, <1>3, <1>4, <1>5, <1>6, <1>7 DEF Next

LEMMA BaseStutter ==
    ASSUME NEW A, BaseInv(A), UNCHANGED vars
    PROVE  BaseInv(A)'
  BY DEF vars, BaseInv, TypeOK, ListedInv, Stored, ObjectOf

-----------------------------------------------------------------------------
(* Wrappers and registrations, when clients delete no object that others   *)
(* have as a precedent and every object lists its precedents.              *)

\* Registrations follow the precedents, and what is not stored is not there.
WrapperInv ==
    /\ ObservesPrecedents
    /\ NoHiddenWrapper
    /\ \A w \in Wrappers : object[w] = None => observables[w] = {}
    /\ \A w \in Wrappers : object[w] # None => object[w].listed = object[w].precs

\* What is being built lists them, too.
ListingStack == \A k \in 1..Len(calls) : calls[k].op = "create" => calls[k].listed = calls[k].precs

\* A map that holds the precedents of its objects keeps only those alive.
LEMMA RebindWrappers ==
    ASSUME NEW map \in [IDs -> Wrappers \cup {None}],
           NEW obs \in [Wrappers -> SUBSET Wrappers],
           NEW objs \in [Wrappers -> Objects \cup {None}],
           \A i \in Keys(map) :
              /\ objs[map[i]] # None /\ objs[map[i]].id = i
              /\ objs[map[i]].listed = objs[map[i]].precs
              /\ objs[map[i]].precs \subseteq Keys(map)
              /\ obs[map[i]] = {map[p] : p \in objs[map[i]].precs},
           Rebind(map, obs, objs)
    PROVE  WrapperInv' /\ \A i \in Keys(map) : observables'[map[i]] = obs[map[i]]
<1> DEFINE seed == {map[i] : i \in IDs} \ {None}
<1>1. seed \subseteq Wrappers /\ seed = {map[i] : i \in Keys(map)}
  BY DEF Keys
<1>2. \A x \in seed : obs[x] \subseteq seed
  <2> TAKE x \in seed
  <2>1. PICK i \in Keys(map) : x = map[i]
    BY <1>1
  <2>2. \A p \in objs[map[i]].precs : map[p] \in seed
    BY <1>1
  <2> QED
    BY <2>1, <2>2
<1> DEFINE live == Live(map, obs)
<1>3. live = seed
  <2>1. live = Closure(Wrappers, seed, obs)
    BY DEF Live
  <2> HIDE DEF seed, live
  <2>2. Closure(Wrappers, seed, obs) \subseteq seed
    BY <1>1, <1>2, ClosureLeast
  <2>3. seed \subseteq Closure(Wrappers, seed, obs)
    BY <1>1, ClosureHolds
  <2> QED
    BY <2>1, <2>2, <2>3
<1> HIDE DEF live
<1>4. /\ objectMap' = map
      /\ observables' = [x \in Wrappers |-> IF x \in live THEN obs[x] ELSE {}]
      /\ object' = [x \in Wrappers |-> IF x \in live THEN objs[x] ELSE None]
  BY DEF Rebind, live
<1> HIDE DEF seed
<1>5. \A i \in Keys(map) : map[i] \in live /\ map[i] \in Wrappers
  BY <1>1, <1>3
<1>6. \A x \in live : \E i \in Keys(map) : x = map[i]
  BY <1>1, <1>3
<1>7. \A i \in Keys(map) : object'[map[i]] = objs[map[i]] /\ observables'[map[i]] = obs[map[i]]
  BY <1>4, <1>5
<1>8. Stored' = Keys(map)
  BY <1>4 DEF Stored, Keys
<1>9. ObservesPrecedents'
  <2> SUFFICES ASSUME NEW i \in Stored'
               PROVE  /\ ObjectOf(i)'.precs \subseteq Stored'
                      /\ observables'[objectMap'[i]] = {objectMap'[p] : p \in ObjectOf(i)'.precs}
    BY DEF ObservesPrecedents
  <2>1. object'[map[i]] = objs[map[i]] /\ observables'[map[i]] = obs[map[i]] /\ i \in Keys(map)
    BY <1>7, <1>8
  <2>2. ObjectOf(i)' = objs[map[i]]
    BY <1>4, <2>1 DEF ObjectOf
  <2>3. objectMap' = map
    BY <1>4
  <2>4. ObjectOf(i)'.precs \subseteq Stored'
    BY <1>8, <2>1, <2>2
  <2>5. obs[map[i]] = {map[p] : p \in objs[map[i]].precs}
    BY <2>1
  <2>6. {objectMap'[p] : p \in ObjectOf(i)'.precs} = {map[p] : p \in objs[map[i]].precs}
    BY <2>2, <2>3
  <2>7. observables'[objectMap'[i]] = obs[map[i]]
    BY <2>1, <2>3
  <2> QED
    BY <2>4, <2>5, <2>6, <2>7
<1>10. \A x \in Wrappers : object'[x] # None => x \in live /\ object'[x] = objs[x]
  BY <1>4
<1>11. NoHiddenWrapper'
  <2> SUFFICES ASSUME NEW x \in Wrappers, object'[x] # None
               PROVE  objectMap'[object'[x].id] = x
    BY DEF NoHiddenWrapper
  <2>1. PICK i \in Keys(map) : x = map[i]
    BY <1>6, <1>10
  <2> QED
    BY <1>4, <1>7, <2>1
<1>12. \A x \in Wrappers : object'[x] = None => observables'[x] = {}
  <2> TAKE x \in Wrappers
  <2>1. CASE x \in live
    BY <1>6, <1>7, <2>1
  <2>2. CASE x \notin live
    BY <1>4, <2>2
  <2> QED
    BY <2>1, <2>2
<1>13. \A x \in Wrappers : object'[x] # None => object'[x].listed = object'[x].precs
  <2> TAKE x \in Wrappers
  <2> HAVE object'[x] # None
  <2>1. PICK i \in Keys(map) : x = map[i]
    BY <1>6, <1>10
  <2> QED
    BY <1>7, <2>1
<1> QED
  BY <1>7, <1>9, <1>11, <1>12, <1>13 DEF WrapperInv

\* Storing an object keeps them.
LEMMA InstallWrappers ==
    ASSUME NEW A, BaseInv(A), WrapperInv, Running("create"), Top.left = {},
           Top.listed = Top.precs, NEW map, NEW w, InstallNew(map, w) \/ InstallOver(map, w)
    PROVE  /\ WrapperInv'
           /\ observables'[w] = {map[p] : p \in Top.precs}
           /\ \A i \in Stored \ {Top.id} : observables'[objectMap[i]] = observables[objectMap[i]]
<1>1. /\ Top.id \in IDs /\ Top.precs \subseteq Stored
      /\ Built \in Objects /\ Built # None /\ Built.id = Top.id
      /\ Built.listed = Top.listed /\ Built.precs = Top.precs
  BY CreatorFacts
<1>0. Install(map, w) /\ (Top.id \in Stored => map = objectMap)
  BY DEF InstallNew, InstallOver
<1> PICK b : b = Built
  OBVIOUS
<1> PICK id : id = Top.id
  OBVIOUS
<1> PICK precs : precs = Top.precs
  OBVIOUS
<1>2. TypeOK
  BY DEF BaseInv
<1>3. /\ w \in Wrappers /\ map \in [IDs -> Wrappers \cup {None}] /\ map[id] = w
      /\ \A i \in IDs \ {id} : map[i] = objectMap[i] /\ map[i] # w
  BY <1>0 DEF Install
<1>4. Keys(map) = Stored \cup {id}
  BY <1>1, <1>3, BelowAssumption DEF Keys, Stored
<1> DEFINE V == {map[p] : p \in precs}
           obs == [observables EXCEPT ![w] = V]
           objs == [object EXCEPT ![w] = b]
<1>5. V \in SUBSET Wrappers
  BY <1>1, <1>3, <1>4, BelowAssumption DEF Keys
<1>6. Rebind(map, obs, objs)
  BY <1>0 DEF Install, Registered
<1> HIDE DEF V
<1>7. obs \in [Wrappers -> SUBSET Wrappers] /\ objs \in [Wrappers -> Objects \cup {None}]
  BY <1>1, <1>2, <1>5 DEF TypeOK
<1>8. objs[w] = b /\ obs[w] = V
      /\ \A i \in Stored \ {id} : /\ objs[map[i]] = ObjectOf(i) /\ map[i] = objectMap[i]
                                  /\ obs[map[i]] = observables[objectMap[i]]
  BY <1>2, <1>3, <1>4, StoredFacts DEF TypeOK, ObjectOf
<1> HIDE DEF obs, objs
<1>9. \A i \in Keys(map) :
         /\ objs[map[i]] # None /\ objs[map[i]].id = i
         /\ objs[map[i]].listed = objs[map[i]].precs
         /\ objs[map[i]].precs \subseteq Keys(map)
         /\ obs[map[i]] = {map[p] : p \in objs[map[i]].precs}
  <2> TAKE i \in Keys(map)
  <2>1. CASE i = id
    BY <1>1, <1>3, <1>4, <1>8, <2>1 DEF V
  <2>2. CASE i # id
    <3>1. i \in Stored /\ objs[map[i]] = ObjectOf(i) /\ map[i] = objectMap[i]
          /\ obs[map[i]] = observables[objectMap[i]]
      BY <1>4, <1>8, <2>2
    <3>2. ObjectOf(i) # None /\ ObjectOf(i).id = i /\ objectMap[i] \in Wrappers
      BY <1>2, <3>1, StoredFacts DEF TypeOK
    <3>3. ObjectOf(i).listed = ObjectOf(i).precs
      BY <3>2 DEF WrapperInv, ObjectOf
    <3>4. /\ ObjectOf(i).precs \subseteq Stored
          /\ observables[objectMap[i]] = {objectMap[p] : p \in ObjectOf(i).precs}
      BY <3>1 DEF WrapperInv, ObservesPrecedents
    <3>5. \A p \in ObjectOf(i).precs : map[p] = objectMap[p]
      <4> TAKE p \in ObjectOf(i).precs
      <4>1. p \in Stored /\ p \in IDs
        BY <3>4 DEF Stored
      <4>2. CASE p # id
        BY <1>3, <4>1, <4>2
      <4>3. CASE p = id
        BY <1>0, <4>1, <4>3
      <4> QED
        BY <4>2, <4>3
    <3>6. {map[p] : p \in ObjectOf(i).precs} = {objectMap[p] : p \in ObjectOf(i).precs}
      BY <3>5
    <3> QED
      BY <1>4, <3>1, <3>2, <3>3, <3>4, <3>6
  <2> QED
    BY <2>1, <2>2
<1>10. WrapperInv' /\ \A i \in Keys(map) : observables'[map[i]] = obs[map[i]]
  BY <1>3, <1>6, <1>7, <1>9, RebindWrappers
<1> QED
  BY <1>1, <1>3, <1>4, <1>8, <1>10 DEF V

\* Deletion keeps them if no object that stays had an ID that goes.
LEMMA EraseWrappers ==
    ASSUME TypeOK, ListedInv, WrapperInv, NEW D, Erase(D),
           \A i \in Stored \ D : ObjectOf(i).precs \cap D = {}
    PROVE  /\ WrapperInv'
           /\ \A i \in Stored \ D : observables'[objectMap[i]] = observables[objectMap[i]]
<1> DEFINE map == [i \in IDs |-> IF i \in D THEN None ELSE objectMap[i]]
<1>1. map \in [IDs -> Wrappers \cup {None}]
  BY DEF TypeOK
<1>2. Keys(map) = Stored \ D /\ \A i \in Stored \ D : map[i] = objectMap[i]
  BY DEF Keys, Stored
<1>3. Rebind(map, observables, object)
  BY DEF Erase
<1> HIDE DEF map
<1>4. \A i \in Keys(map) :
         /\ object[map[i]] # None /\ object[map[i]].id = i
         /\ object[map[i]].listed = object[map[i]].precs
         /\ object[map[i]].precs \subseteq Keys(map)
         /\ observables[map[i]] = {map[p] : p \in object[map[i]].precs}
  <2> TAKE i \in Keys(map)
  <2>1. i \in Stored \ D /\ map[i] = objectMap[i] /\ object[map[i]] = ObjectOf(i)
    BY <1>2 DEF ObjectOf
  <2>2. ObjectOf(i) # None /\ ObjectOf(i).id = i /\ objectMap[i] \in Wrappers
    BY <2>1, StoredFacts DEF TypeOK
  <2>3. ObjectOf(i).listed = ObjectOf(i).precs
    BY <2>2 DEF WrapperInv, ObjectOf
  <2>4. /\ ObjectOf(i).precs \subseteq Stored \ D
        /\ observables[objectMap[i]] = {objectMap[p] : p \in ObjectOf(i).precs}
    BY <2>1 DEF WrapperInv, ObservesPrecedents
  <2>5. \A p \in ObjectOf(i).precs : map[p] = objectMap[p]
    BY <1>2, <2>4
  <2>6. {map[p] : p \in ObjectOf(i).precs} = {objectMap[p] : p \in ObjectOf(i).precs}
    BY <2>5
  <2> QED
    BY <1>2, <2>1, <2>2, <2>3, <2>4, <2>6
<1>5. observables \in [Wrappers -> SUBSET Wrappers] /\ object \in [Wrappers -> Objects \cup {None}]
  BY DEF TypeOK
<1>6. WrapperInv' /\ \A i \in Keys(map) : observables'[map[i]] = observables[map[i]]
  BY <1>1, <1>3, <1>4, <1>5, RebindWrappers
<1> QED
  BY <1>2, <1>6

\* A recreated object has the precedents it had.
LEMMA RecreateFacts ==
    ASSUME NEW A, BaseInv(A), recreate
    PROVE  /\ Top.id \in Stored /\ Top.op = "recreate" /\ calls # <<>> /\ ~Idle
           /\ Top.precs = ObjectOf(Top.id).precs /\ Top.precs \subseteq Stored
           /\ Top.arg = ObjectOf(Top.id).arg
           /\ Stored' = Stored /\ UNCHANGED <<objectMap, observables>>
           /\ object'[objectMap[Top.id]] = Built
           /\ Built.arg = Top.arg /\ Built.precs = Top.precs /\ Built.id = Top.id
           /\ Built.listed = Top.listed /\ Built # None
           /\ Built.state = Merge(Own(Top.id, Top.arg), Top.state)
           /\ \A i \in Stored \ {Top.id} : ObjectOf(i)' = ObjectOf(i)
           /\ \A i \in Stored : /\ ObjectOf(i)'.arg = ObjectOf(i).arg
                                /\ ObjectOf(i)'.precs = ObjectOf(i).precs
           /\ \A w \in Wrappers : \/ object'[w] = object[w]
                                  \/ /\ w = objectMap[Top.id] /\ object'[w] = Built
                                     /\ object[w] # None /\ object[w].id = Top.id
                                     /\ object[w].precs = Top.precs /\ object[w].listed = Top.listed
<1>1. ~Idle /\ Top.op = "recreate" /\ Top.left = {}
  BY DEF recreate, Running
<1>2. TypeOK /\ ListedInv /\ StackInv(A, calls, objectMap, object) /\ calls # <<>>
  BY <1>1 DEF BaseInv, Idle
<1> PICK id : id = Top.id
  OBVIOUS
<1> PICK w : w = objectMap[id]
  OBVIOUS
<1> PICK b : b = Built
  OBVIOUS
<1>3. FrameInv(Top, objectMap, object)
  BY <1>1, <1>2, TopFacts
<1>4. /\ b # None /\ b.id = id /\ b.arg = Top.arg /\ b.precs = Top.precs /\ b.listed = Top.listed
      /\ b.state = Merge(Own(id, Top.arg), Top.state)
  BY <1>1, <1>2, BuiltFacts
<1>5. /\ id \in Stored /\ Top.arg = object[w].arg /\ Top.precs = object[w].precs
      /\ Top.listed = object[w].listed /\ Top.precs \subseteq Stored
  BY <1>1, <1>3 DEF FrameInv, RecreateFrame, Stored, Keys, Retrieved
<1>6. w \in Wrappers /\ object[w] # None /\ object[w].id = id
  BY <1>2, <1>5, StoredFacts DEF TypeOK, ObjectOf
<1>7. object' = [object EXCEPT ![w] = b] /\ UNCHANGED <<objectMap, observables>>
  BY DEF recreate
<1>8. \A x \in Wrappers : IF x = w THEN object'[x] = b ELSE object'[x] = object[x]
  BY <1>2, <1>7 DEF TypeOK
<1>9. Stored' = Stored
  BY <1>7 DEF Stored
<1>10. ObjectOf(id)' = b
  BY <1>6, <1>7, <1>8 DEF ObjectOf
<1>11. \A i \in Stored \ {id} : ObjectOf(i)' = ObjectOf(i)
  <2> TAKE i \in Stored \ {id}
  <2>1. objectMap[i] \in Wrappers /\ objectMap[i] # w
    BY <1>2, <1>5, StoredFacts
  <2> QED
    BY <1>7, <1>8, <2>1 DEF ObjectOf
<1>12. ObjectOf(id) = object[w]
  BY DEF ObjectOf
<1>13. \A i \in Stored : /\ ObjectOf(i)'.arg = ObjectOf(i).arg
                         /\ ObjectOf(i)'.precs = ObjectOf(i).precs
  BY <1>4, <1>5, <1>10, <1>11, <1>12
<1>14. \A x \in Wrappers : \/ object'[x] = object[x]
                            \/ /\ x = objectMap[Top.id] /\ object'[x] = Built
                               /\ object[x] # None /\ object[x].id = Top.id
                               /\ object[x].precs = Top.precs /\ object[x].listed = Top.listed
  BY <1>5, <1>6, <1>8
<1>15. /\ Top.id \in Stored /\ Top.precs = ObjectOf(Top.id).precs /\ Top.precs \subseteq Stored
       /\ Top.arg = ObjectOf(Top.id).arg
  BY <1>5, <1>12
<1>16. /\ object'[objectMap[Top.id]] = Built
       /\ \A i \in Stored \ {Top.id} : ObjectOf(i)' = ObjectOf(i)
  BY <1>6, <1>8, <1>11
<1> QED
  BY <1>1, <1>2, <1>4, <1>7, <1>9, <1>13, <1>14, <1>15, <1>16

LEMMA RecreateWrappers ==
    ASSUME NEW A, BaseInv(A), WrapperInv, recreate
    PROVE  WrapperInv'
<1>1. /\ Stored' = Stored /\ UNCHANGED <<objectMap, observables>>
      /\ \A i \in Stored : ObjectOf(i)'.precs = ObjectOf(i).precs
  BY RecreateFacts
<1>2. \A w \in Wrappers : \/ object'[w] = object[w]
                          \/ /\ object'[w] # None /\ object[w] # None
                             /\ object'[w].id = object[w].id
                             /\ object'[w].precs = object[w].precs
                             /\ object'[w].listed = object[w].listed
  BY RecreateFacts
<1>3. ObservesPrecedents'
  <2> SUFFICES ASSUME NEW i \in Stored
               PROVE  /\ ObjectOf(i)'.precs \subseteq Stored
                      /\ observables[objectMap[i]] = {objectMap[p] : p \in ObjectOf(i)'.precs}
    BY <1>1 DEF ObservesPrecedents
  <2> QED
    BY <1>1 DEF WrapperInv, ObservesPrecedents
<1>4. NoHiddenWrapper'
  <2> SUFFICES ASSUME NEW w \in Wrappers, object'[w] # None
               PROVE  objectMap'[object'[w].id] = w
    BY DEF NoHiddenWrapper
  <2>1. object[w] # None /\ object'[w].id = object[w].id
    BY <1>2
  <2>2. objectMap' = objectMap
    BY <1>1
  <2> QED
    BY <2>1, <2>2 DEF WrapperInv, NoHiddenWrapper
<1> QED
  BY <1>1, <1>2, <1>3, <1>4 DEF WrapperInv

LEMMA SteadyWrappers ==
    ASSUME WrapperInv, UNCHANGED <<objectMap, object, observables>>
    PROVE  WrapperInv'
  BY DEF WrapperInv, ObservesPrecedents, NoHiddenWrapper, Stored, ObjectOf

-----------------------------------------------------------------------------
(* What is being built lists its precedents.                               *)

LEMMA ListingSingle ==
    ASSUME NEW A, NEW f \in Frames(A), f.op = "create" => f.listed = f.precs, calls' = <<f>>
    PROVE  ListingStack'
<1>1. Len(calls') = 1 /\ calls'[1] = f
  BY SingleFacts
<1> QED
  BY <1>1 DEF ListingStack

LEMMA ListingPop ==
    ASSUME NEW A, StackInv(A, calls, objectMap, object), ListingStack, calls # <<>>,
           calls' = Tail(calls)
    PROVE  ListingStack'
<1>1. calls \in Seq(Frames(A))
  BY DEF StackInv
<1>2. /\ Len(calls) \in Nat \ {0} /\ Len(calls') = Len(calls) - 1
      /\ \A i \in 1..(Len(calls) - 1) : calls'[i] = calls[i + 1]
  BY <1>1, PopFacts
<1> QED
  BY <1>2 DEF ListingStack

LEMMA ListingRetrieve ==
    ASSUME NEW A, Args \subseteq A, BaseInv(A), ListingStack, NEW p \in IDs, retrieveObjectImpl(p)
    PROVE  ListingStack'
<1>1. ~Idle /\ p \in Top.left /\ TypeOK /\ StackInv(A, calls, objectMap, object)
      /\ calls \in Seq(Frames(A)) /\ calls # <<>>
  BY RetrieveCases DEF BaseInv, StackInv, Idle
<1>2. CASE calls' = <<>>
  BY <1>2 DEF ListingStack
<1>3. CASE p \in Stored /\ calls' = <<RecreateOf(p)>> \o calls
  <2> PICK f : f = RecreateOf(p)
    OBVIOUS
  <2>1. f \in Frames(A) /\ f.op = "recreate"
    BY <1>1, <1>3, RecreateOfFacts
  <2>2. /\ Len(calls) \in Nat /\ Len(calls') = Len(calls) + 1 /\ calls'[1] = f
        /\ \A i \in 2..(Len(calls) + 1) : calls'[i] = calls[i-1]
    BY <1>1, <1>3, <2>1, PushFacts
  <2>3. \A i \in 1..Len(calls') : i = 1 \/ (i - 1 \in 1..Len(calls) /\ calls'[i] = calls[i-1])
    BY <2>2
  <2> QED
    BY <2>1, <2>2, <2>3 DEF ListingStack
<1>4. CASE p \in Stored /\ calls' = <<Answered(p)>> \o Tail(calls)
  <2> PICK f : f = Answered(p)
    OBVIOUS
  <2>1. f \in Frames(A) /\ f.op = Top.op /\ f.listed = Top.listed /\ f.precs = Top.precs
    BY <1>1, <1>4, AnsweredFacts
  <2>2. /\ Len(calls) \in Nat \ {0} /\ Len(calls') = Len(calls) /\ calls'[1] = f
        /\ \A i \in 2..Len(calls) : calls'[i] = calls[i]
    BY <1>1, <1>4, <2>1, ReplaceFacts, PopFacts
  <2>3. Top = calls[1] /\ 1 \in 1..Len(calls)
    BY <2>2 DEF Top
  <2>4. \A i \in 1..Len(calls') : i = 1 \/ (i \in 1..Len(calls) /\ calls'[i] = calls[i])
    BY <2>2
  <2> QED
    BY <2>1, <2>2, <2>3, <2>4 DEF ListingStack
<1> QED
  BY <1>2, <1>3, <1>4, RetrieveCases

\* The wrappers and what is being built, together.
LinkInv == WrapperInv /\ ListingStack

LEMMA LinkInit == Init => LinkInv
  BY DEF Init, LinkInv, WrapperInv, ListingStack, ObservesPrecedents, NoHiddenWrapper, Stored

LEMMA LinkNext ==
    ASSUME NEW A, Args \subseteq A, None \in A, BaseInv(A), LinkInv, Next, ~MayDeleteUsed
    PROVE  LinkInv'
<1> USE DEF LinkInv
<1>0. TypeOK /\ ListedInv /\ StackInv(A, calls, objectMap, object)
  BY DEF BaseInv
<1>1. ASSUME NEW i \in IDs, Retrieve(i) PROVE LinkInv'
  <2> DEFINE f == Frame("retrieve", i, None, {}, {i}, FALSE)
  <2>1. f.op = "retrieve" /\ f \in {f}
    BY DEF Frame
  <2>2. calls' = <<f>> /\ UNCHANGED <<objectMap, object, observables>>
    BY <1>1 DEF Retrieve
  <2> HIDE DEF f
  <2>3. Len(<<f>>) = 1 /\ <<f>>[1] = f
    OBVIOUS
  <2> QED
    BY <2>1, <2>2, <2>3, SteadyWrappers DEF ListingStack
<1>2. ASSUME NEW i \in IDs, NEW arg \in Args, NEW precs \in SUBSET IDs,
             NEW overwrite \in BOOLEAN, Create(i, arg, precs, overwrite)
      PROVE  LinkInv'
  <2> DEFINE f == Frame("create", i, arg, precs, precs, overwrite)
  <2>1. f.listed = f.precs
    BY DEF Frame
  <2>2. calls' = <<f>> /\ UNCHANGED <<objectMap, object, observables>>
    BY <1>2 DEF Create
  <2> HIDE DEF f
  <2>3. Len(<<f>>) = 1 /\ <<f>>[1] = f
    OBVIOUS
  <2> QED
    BY <2>1, <2>2, <2>3, SteadyWrappers DEF ListingStack
<1>3. ASSUME NEW p \in IDs, retrieveObjectImpl(p) PROVE LinkInv'
  BY <1>3, RetrieveCases, ListingRetrieve, SteadyWrappers
<1>4. CASE recreate
  <2>1. calls # <<>> /\ calls' = Tail(calls)
    BY <1>4, RecreateFacts DEF recreate
  <2> QED
    BY <1>0, <1>4, <2>1, ListingPop, RecreateWrappers
<1>5. CASE RetrieveEnd
  BY <1>5, SteadyWrappers DEF RetrieveEnd, ListingStack
<1>6. CASE storeObject
  <2>1. Running("create") /\ Top.left = {}
    BY <1>6 DEF storeObject
  <2>2. Top.id \in IDs /\ calls # <<>> /\ Top.op = "create"
    BY <2>1, CreatorFacts
  <2>3. Top.listed = Top.precs
    <3>1. 1 \in 1..Len(calls)
      BY <1>0, <2>2, PopFacts DEF StackInv
    <3> QED
      BY <2>2, <3>1 DEF ListingStack, Top
  <2>4. CASE calls' = <<>> /\ UNCHANGED <<objectMap, object, observables>>
    BY <2>4, SteadyWrappers DEF ListingStack
  <2>5. ASSUME NEW map, NEW w, InstallNew(map, w) \/ InstallOver(map, w), calls' = Tail(calls)
        PROVE  LinkInv'
    <3>1. WrapperInv'
      BY <2>1, <2>3, <2>5, InstallWrappers
    <3> QED
      BY <1>0, <2>2, <2>5, <3>1, ListingPop
  <2> QED
    BY <1>0, <1>6, <2>2, <2>4, <2>5, StoreCases
<1>7. CASE \/ \E list \in Lists : deleteObject(list)
           \/ \E deletePermanent \in BOOLEAN : deleteAllObjects(deletePermanent)
  <2>1. calls = <<>> /\ calls' = <<>>
    BY <1>7, DeletesErase DEF Idle
  <2>2. PICK D \in SUBSET IDs : Deletable(D) /\ Erase(D)
    BY <1>7, DeletesErase
  <2>3. WrapperInv'
    BY <1>0, <2>2, DeletableFacts, EraseWrappers
  <2> QED
    BY <2>1, <2>3 DEF ListingStack
<1> QED
  BY <1>1, <1>2, <1>3, <1>4, <1>5, <1>6, <1>7 DEF Next

-----------------------------------------------------------------------------
(* Values.  The precedents of every ID, all that an ID is built on, and    *)
(* the value this gives it, with map m and objects o.                      *)

PrecMap(m, o) == [i \in IDs |-> IF m[i] = None THEN {} ELSE o[m[i]].precs]
Anc(P, i) == Closure(IDs, {i}, P)
Worth(m, o, i) == [j \in IDs |-> IF j \in Anc(PrecMap(m, o), i) THEN {o[m[j]].arg} ELSE {}]
HasValue(m, o, i) ==
    Anc(PrecMap(m, o), i) \subseteq Keys(m) /\ o[m[i]].state = Worth(m, o, i)

\* All that an ID is built on: itself, and what its precedents are built on.
LEMMA AncFacts ==
    ASSUME NEW P \in [IDs -> SUBSET IDs], NEW i \in IDs
    PROVE  /\ i \in Anc(P, i) /\ Anc(P, i) \subseteq IDs
           /\ \A k \in Anc(P, i) : P[k] \subseteq Anc(P, i)
           /\ \A T \in SUBSET IDs : i \in T /\ (\A k \in T : P[k] \subseteq T) => Anc(P, i) \subseteq T
<1>1. {i} \subseteq Anc(P, i) /\ Anc(P, i) \subseteq IDs
  BY ClosureHolds DEF Anc
<1>2. \A k \in Anc(P, i) : P[k] \subseteq Anc(P, i)
  BY <1>1, ClosureStep DEF Anc
<1>3. \A T \in SUBSET IDs : i \in T /\ (\A k \in T : P[k] \subseteq T) => Anc(P, i) \subseteq T
  BY ClosureLeast DEF Anc
<1> QED
  BY <1>1, <1>2, <1>3

LEMMA AncSplits ==
    ASSUME NEW P \in [IDs -> SUBSET IDs], NEW i \in IDs
    PROVE  Anc(P, i) = {i} \cup UNION {Anc(P, p) : p \in P[i]}
<1> DEFINE T == {i} \cup UNION {Anc(P, p) : p \in P[i]}
<1>1. \A p \in P[i] : p \in IDs /\ p \in Anc(P, p) /\ Anc(P, p) \subseteq IDs
                      /\ \A k \in Anc(P, p) : P[k] \subseteq Anc(P, p)
  BY AncFacts
<1>2. T \in SUBSET IDs /\ i \in T
  BY <1>1
<1>3. \A k \in T : P[k] \subseteq T
  BY <1>1
<1>4. \A p \in P[i] : Anc(P, p) \subseteq Anc(P, i)
  <2> TAKE p \in P[i]
  <2>1. p \in Anc(P, i) /\ Anc(P, i) \in SUBSET IDs /\ \A k \in Anc(P, i) : P[k] \subseteq Anc(P, i)
    BY AncFacts
  <2> QED
    BY <1>1, <2>1, AncFacts
<1> HIDE DEF T
<1>5. Anc(P, i) \subseteq T
  BY <1>2, <1>3, AncFacts
<1>6. i \in Anc(P, i)
  BY AncFacts
<1> QED
  BY <1>4, <1>5, <1>6 DEF T

\* A change of precedents elsewhere does not matter.
LEMMA AncSame ==
    ASSUME NEW P \in [IDs -> SUBSET IDs], NEW Q \in [IDs -> SUBSET IDs], NEW i \in IDs,
           \A k \in Anc(P, i) : P[k] = Q[k]
    PROVE  Anc(P, i) = Anc(Q, i)
<1>1. /\ i \in Anc(P, i) /\ Anc(P, i) \in SUBSET IDs
      /\ \A k \in Anc(P, i) : P[k] \subseteq Anc(P, i)
  BY AncFacts
<1>2. Anc(Q, i) \subseteq Anc(P, i)
  <2>1. \A k \in Anc(P, i) : Q[k] \subseteq Anc(P, i)
    BY <1>1
  <2> QED
    BY <1>1, <2>1, AncFacts
<1>3. Anc(P, i) \subseteq Anc(Q, i)
  <2>1. /\ i \in Anc(Q, i) /\ Anc(Q, i) \in SUBSET IDs
        /\ \A k \in Anc(Q, i) : Q[k] \subseteq Anc(Q, i)
    BY AncFacts
  <2>2. \A k \in Anc(Q, i) : P[k] \subseteq Anc(Q, i)
    BY <1>2, <2>1
  <2> QED
    BY <2>1, <2>2, AncFacts
<1> QED
  BY <1>2, <1>3

LEMMA PrecMapFacts ==
    ASSUME TypeOK
    PROVE  /\ PrecMap(objectMap, object) \in [IDs -> SUBSET IDs]
           /\ \A i \in Stored : PrecMap(objectMap, object)[i] = ObjectOf(i).precs
           /\ \A i \in IDs \ Stored : PrecMap(objectMap, object)[i] = {}
<1>1. \A i \in IDs : objectMap[i] # None => object[objectMap[i]].precs \subseteq IDs
  BY StoredFacts DEF Stored, ObjectOf, Objects
<1> QED
  BY <1>1 DEF PrecMap, Stored, ObjectOf

LEMMA PrecMapFactsNext ==
    ASSUME TypeOK'
    PROVE  /\ PrecMap(objectMap', object') \in [IDs -> SUBSET IDs]
           /\ \A i \in Stored' : PrecMap(objectMap', object')[i] = ObjectOf(i)'.precs
           /\ \A i \in IDs \ Stored' : PrecMap(objectMap', object')[i] = {}
<1>1. \A i \in IDs : objectMap'[i] # None => object'[objectMap'[i]].precs \subseteq IDs
  BY DEF Stored, ObjectOf, Objects, TypeOK
<1> QED
  BY <1>1 DEF PrecMap, Stored, ObjectOf

\* An object built from precedents that have their values has its own.
LEMMA WorthBuilt ==
    ASSUME NEW m, NEW o, NEW i \in IDs, i \in Keys(m),
           PrecMap(m, o) \in [IDs -> SUBSET IDs],
           \A p \in PrecMap(m, o)[i] : HasValue(m, o, p),
           o[m[i]].state \in Provenances,
           \A j \in IDs : o[m[i]].state[j] =
              Own(i, o[m[i]].arg)[j] \cup UNION {o[m[p]].state[j] : p \in PrecMap(m, o)[i]}
    PROVE  HasValue(m, o, i)
<1> PICK P : P = PrecMap(m, o)
  OBVIOUS
<1>1. Anc(P, i) = {i} \cup UNION {Anc(P, p) : p \in P[i]}
  BY AncSplits
<1>2. \A p \in P[i] : Anc(P, p) \subseteq Keys(m)
  BY DEF HasValue
<1>3. Anc(P, i) \subseteq Keys(m)
  BY <1>1, <1>2
<1>4. \A p \in P[i], j \in IDs : o[m[p]].state[j] = IF j \in Anc(P, p) THEN {o[m[j]].arg} ELSE {}
  BY DEF HasValue, Worth
<1>5. \A j \in IDs : o[m[i]].state[j] = Worth(m, o, i)[j]
  <2> TAKE j \in IDs
  <2>1. Own(i, o[m[i]].arg)[j] = IF j = i THEN {o[m[i]].arg} ELSE {}
    BY DEF Own
  <2> DEFINE U == UNION {o[m[p]].state[j] : p \in P[i]}
  <2>2. o[m[i]].state[j] = Own(i, o[m[i]].arg)[j] \cup U
    OBVIOUS
  <2>3. \A x : x \in U <=> \E p \in P[i] : x \in o[m[p]].state[j]
    OBVIOUS
  <2> HIDE DEF U
  <2>4. \A x : x \in U <=> x = o[m[j]].arg /\ \E p \in P[i] : j \in Anc(P, p)
    <3> TAKE x
    <3>1. \A p \in P[i] : x \in o[m[p]].state[j] <=> x = o[m[j]].arg /\ j \in Anc(P, p)
      <4> TAKE p \in P[i]
      <4>1. o[m[p]].state[j] = IF j \in Anc(P, p) THEN {o[m[j]].arg} ELSE {}
        BY <1>4
      <4>2. CASE j \in Anc(P, p)
        BY <4>1, <4>2
      <4>3. CASE j \notin Anc(P, p)
        BY <4>1, <4>3
      <4> QED
        BY <4>2, <4>3
    <3> QED
      BY <2>3, <3>1
  <2>5. j \in Anc(P, i) <=> j = i \/ \E p \in P[i] : j \in Anc(P, p)
    BY <1>1
  <2>6. Worth(m, o, i)[j] = IF j \in Anc(P, i) THEN {o[m[j]].arg} ELSE {}
    BY DEF Worth
  <2> QED
    BY <2>1, <2>2, <2>4, <2>5, <2>6
<1>6. o[m[i]].state = Worth(m, o, i)
  BY <1>5 DEF Worth, Provenances
<1> QED
  BY <1>3, <1>6 DEF HasValue

\* A value does not change if nothing does that it is built on.
LEMMA WorthSame ==
    ASSUME NEW m, NEW o, NEW n, NEW q, NEW i \in IDs, HasValue(m, o, i),
           PrecMap(m, o) \in [IDs -> SUBSET IDs], PrecMap(n, q) \in [IDs -> SUBSET IDs],
           q[n[i]].state = o[m[i]].state,
           \A j \in Anc(PrecMap(m, o), i) :
              j \in Keys(n) /\ q[n[j]].arg = o[m[j]].arg /\ PrecMap(n, q)[j] = PrecMap(m, o)[j]
    PROVE  HasValue(n, q, i)
<1> PICK P : P = PrecMap(m, o)
  OBVIOUS
<1> PICK Q : Q = PrecMap(n, q)
  OBVIOUS
<1>1. Anc(P, i) = Anc(Q, i)
  BY AncSame
<1>2. Worth(m, o, i) = Worth(n, q, i)
  BY <1>1 DEF Worth
<1> QED
  BY <1>1, <1>2 DEF HasValue

-----------------------------------------------------------------------------
(* Currency, when objects are built on earlier ones.                       *)

\* R orders the IDs so that clients build objects on earlier ones.
Orders(R) ==
    /\ \A i \in IDs : <<i, i>> \notin R
    /\ \A i, j, k \in IDs : <<i, j>> \in R /\ <<j, k>> \in R => <<i, k>> \in R
    /\ \A i \in IDs : \A p \in Below[i] : <<p, i>> \in R

\* With flags d, the precedents a function has retrieved are clean and its state
\* is theirs; what is being recreated is dirty until it has been.
FrameCurrent(f, m, o, d) ==
    /\ Building(f) =>
          /\ \A p \in Retrieved(f) : ~d[m[p]]
          /\ \A j \in IDs : f.state[j] = UNION {o[m[p]].state[j] : p \in Retrieved(f)}
    /\ f.op = "recreate" => d[m[f.id]]
    /\ f.op = "retrieve" =>
          \/ f.left = {f.id} /\ f.state = Nothing
          \/ f.left = {} /\ f.id \in Keys(m) /\ ~d[m[f.id]] /\ f.state = o[m[f.id]].state

\* Objects are built on earlier ones, and recreation goes down the order.
ObjectsDescend(R) == \A i \in Stored : \A p \in ObjectOf(i).precs : <<p, i>> \in R
StackDescends(R, s) ==
    /\ \A k \in 1..Len(s) : Building(s[k]) => \A p \in s[k].precs : <<p, s[k].id>> \in R
    /\ \A k, n \in 1..Len(s) :
          k < n /\ s[k].op = "recreate" /\ Building(s[n]) => <<s[k].id, s[n].id>> \in R

\* An answer stands until the next call begins.
ReturnedInv ==
    returned # None =>
        /\ calls = <<>>
        /\ returned.id \in IDs
        /\ Anc(PrecMap(objectMap, object), returned.id) \subseteq Stored
        /\ returned.state = Worth(objectMap, object, returned.id)

ValueInv == \A i \in Stored : ~dirty[objectMap[i]] => HasValue(objectMap, object, i)

StackCurrent(R, s, m, o, d) ==
    (\A k \in 1..Len(s) : FrameCurrent(s[k], m, o, d)) /\ StackDescends(R, s)

CurrencyInv(R) ==
    /\ StackCurrent(R, calls, objectMap, object, dirty)
    /\ ObjectsDescend(R)
    /\ CleanIsCurrent
    /\ ValueInv
    /\ ReturnedInv

LEMMA CurrentEmpty ==
    ASSUME NEW R, NEW m, NEW o, NEW d
    PROVE  StackCurrent(R, <<>>, m, o, d)
  BY DEF StackCurrent, StackDescends

LEMMA CurrentSingle ==
    ASSUME NEW R, NEW m, NEW o, NEW d, NEW f, FrameCurrent(f, m, o, d),
           Building(f) => \A p \in f.precs : <<p, f.id>> \in R
    PROVE  StackCurrent(R, <<f>>, m, o, d)
<1>1. Len(<<f>>) = 1 /\ <<f>>[1] = f
  OBVIOUS
<1> QED
  BY <1>1 DEF StackCurrent, StackDescends

\* Below a function that builds nothing there is nobody, below one that stores
\* an object nobody who builds.
LEMMA CurrentPush ==
    ASSUME NEW R, NEW A, Orders(R), NEW m, NEW o, NEW d, NEW s, StackInv(A, s, m, o), s # <<>>,
           StackCurrent(R, s, m, o, d),
           NEW f \in Frames(A), f.op = "recreate", FrameCurrent(f, m, o, d), f.id \in IDs,
           \A p \in f.precs : <<p, f.id>> \in R,
           Building(s[1]) => <<f.id, s[1].id>> \in R
    PROVE  StackCurrent(R, <<f>> \o s, m, o, d)
<1>1. s \in Seq(Frames(A)) /\ Len(s) \in Nat \ {0} /\ 1 \in 1..Len(s)
  BY PopFacts DEF StackInv
<1> DEFINE t == <<f>> \o s
<1> HIDE DEF t
<1>2. t \in Seq(Frames(A)) /\ Len(t) = Len(s) + 1 /\ t[1] = f
      /\ \A i \in 2..(Len(s) + 1) : t[i] = s[i-1]
  BY <1>1, PushFacts DEF t
<1>3. \A i \in 1..Len(t) : i = 1 \/ (i - 1 \in 1..Len(s) /\ t[i] = s[i-1])
  BY <1>1, <1>2
<1>4. \A k \in 1..Len(s) : Building(s[k]) => <<f.id, s[k].id>> \in R
  <2> TAKE k \in 1..Len(s)
  <2> HAVE Building(s[k])
  <2>1. CASE k = 1
    BY <2>1
  <2>2. CASE k # 1
    <3>1. 1 < k
      BY <1>1, <2>2
    <3>2. Building(s[1]) /\ s[1].op # "create"
      BY <1>1, <3>1 DEF StackInv, Building
    <3>3. s[1].op = "recreate"
      BY <3>2 DEF Building
    <3>4. <<s[1].id, s[k].id>> \in R /\ <<f.id, s[1].id>> \in R
      BY <1>1, <3>1, <3>2, <3>3 DEF StackCurrent, StackDescends
    <3>5. FrameInv(s[1], m, o) /\ FrameInv(s[k], m, o)
      BY <1>1 DEF StackInv
    <3>6. s[1].id \in IDs /\ s[k].id \in IDs
      BY <3>2, <3>5 DEF FrameInv, CreateFrame, RecreateFrame, Building, Keys
    <3> QED
      BY <3>4, <3>6 DEF Orders
  <2> QED
    BY <2>1, <2>2
<1>5. \A k \in 1..Len(t) : FrameCurrent(t[k], m, o, d)
  BY <1>2, <1>3 DEF StackCurrent
<1>6. \A k \in 1..Len(t) : Building(t[k]) => \A p \in t[k].precs : <<p, t[k].id>> \in R
  BY <1>2, <1>3 DEF StackCurrent, StackDescends
<1>7. \A k, n \in 1..Len(t) :
         k < n /\ t[k].op = "recreate" /\ Building(t[n]) => <<t[k].id, t[n].id>> \in R
  <2> TAKE k, n \in 1..Len(t)
  <2> HAVE k < n /\ t[k].op = "recreate" /\ Building(t[n])
  <2>1. n - 1 \in 1..Len(s) /\ t[n] = s[n-1]
    BY <1>1, <1>2, <1>3
  <2>2. CASE k = 1
    BY <1>2, <1>4, <2>1, <2>2
  <2>3. CASE k # 1
    <3>1. k - 1 \in 1..Len(s) /\ t[k] = s[k-1] /\ k - 1 < n - 1
      BY <1>1, <1>2, <1>3, <2>3
    <3> QED
      BY <2>1, <3>1 DEF StackCurrent, StackDescends
  <2> QED
    BY <2>2, <2>3
<1> QED
  BY <1>5, <1>6, <1>7 DEF StackCurrent, StackDescends, t

LEMMA CurrentReplace ==
    ASSUME NEW R, NEW A, NEW m, NEW o, NEW d, NEW s, StackInv(A, s, m, o), s # <<>>,
           StackCurrent(R, s, m, o, d),
           NEW f \in Frames(A), FrameCurrent(f, m, o, d),
           f.op = s[1].op, f.id = s[1].id, f.precs = s[1].precs
    PROVE  StackCurrent(R, <<f>> \o Tail(s), m, o, d)
<1>1. s \in Seq(Frames(A)) /\ Len(s) \in Nat \ {0}
  BY PopFacts DEF StackInv
<1> DEFINE t == <<f>> \o Tail(s)
<1> HIDE DEF t
<1>2. Len(t) = Len(s) /\ t[1] = f /\ \A i \in 2..Len(s) : t[i] = s[i]
  BY <1>1, ReplaceFacts DEF t
<1>3. \A i \in 1..Len(t) : /\ i \in 1..Len(s) /\ t[i].op = s[i].op /\ t[i].id = s[i].id
                           /\ t[i].precs = s[i].precs /\ (i = 1 \/ t[i] = s[i])
  BY <1>1, <1>2
<1>4. \A k \in 1..Len(t) : FrameCurrent(t[k], m, o, d)
  BY <1>2, <1>3 DEF StackCurrent
<1>5. StackDescends(R, t)
  BY <1>3 DEF StackCurrent, StackDescends, Building
<1> QED
  BY <1>4, <1>5 DEF StackCurrent, t

LEMMA CurrentPop ==
    ASSUME NEW R, NEW A, NEW m, NEW o, NEW d, NEW s, StackInv(A, s, m, o), s # <<>>,
           StackCurrent(R, s, m, o, d)
    PROVE  StackCurrent(R, Tail(s), m, o, d)
<1>1. s \in Seq(Frames(A))
  BY DEF StackInv
<1> DEFINE t == Tail(s)
<1> HIDE DEF t
<1>2. Len(s) \in Nat \ {0} /\ Len(t) = Len(s) - 1 /\ \A i \in 1..(Len(s) - 1) : t[i] = s[i+1]
  BY <1>1, PopFacts DEF t
<1>3. \A i \in 1..Len(t) : i + 1 \in 1..Len(s) /\ t[i] = s[i+1]
  BY <1>2
<1>4. \A k \in 1..Len(t) : FrameCurrent(t[k], m, o, d)
  BY <1>3 DEF StackCurrent
<1>5. \A k, n \in 1..Len(t) : k < n => k + 1 < n + 1
  BY <1>2
<1>6. StackDescends(R, t)
  BY <1>3, <1>5 DEF StackCurrent, StackDescends
<1> QED
  BY <1>4, <1>6 DEF StackCurrent, t

\* The steps that change only the stack.
LEMMA CurrencySteady ==
    ASSUME NEW R, CurrencyInv(R), UNCHANGED <<objectMap, object, dirty, observables>>,
           StackCurrent(R, calls', objectMap, object, dirty),
           returned' = None \/ (returned' = returned /\ calls # <<>>)
    PROVE  CurrencyInv(R)'
<1>1. returned' = None
  BY DEF CurrencyInv, ReturnedInv
<1>2. Stored' = Stored /\ \A i : ObjectOf(i)' = ObjectOf(i)
  BY DEF Stored, ObjectOf
<1>3. ObjectsDescend(R)'
  BY <1>2 DEF CurrencyInv, ObjectsDescend
<1>4. CleanIsCurrent'
  BY <1>2 DEF CurrencyInv, CleanIsCurrent, Exists
<1>5. ValueInv'
  BY <1>2 DEF CurrencyInv, ValueInv
<1>6. ReturnedInv'
  BY <1>1 DEF ReturnedInv
<1> QED
  BY <1>3, <1>4, <1>5, <1>6 DEF CurrencyInv

LEMMA CurrencyRetrieve ==
    ASSUME NEW R, CurrencyInv(R), NEW i \in IDs, Retrieve(i)
    PROVE  CurrencyInv(R)'
<1> DEFINE f == Frame("retrieve", i, None, {}, {i}, FALSE)
<1>1. f.op = "retrieve" /\ f.id = i /\ f.left = {i} /\ f.state = Nothing
  BY DEF Frame
<1>2. calls' = <<f>> /\ returned' = None /\ UNCHANGED <<objectMap, object, dirty, observables>>
  BY DEF Retrieve
<1> HIDE DEF f
<1>3. FrameCurrent(f, objectMap, object, dirty) /\ ~Building(f)
  BY <1>1 DEF FrameCurrent, Building
<1>4. StackCurrent(R, <<f>>, objectMap, object, dirty)
  BY <1>3, CurrentSingle
<1> QED
  BY <1>2, <1>4, CurrencySteady

\* A function that has retrieved nothing has no state yet.
LEMMA FreshCurrent ==
    ASSUME NEW f, f.op \in {"create", "recreate"}, f.left = f.precs, f.state = Nothing,
           f.op = "recreate" => dirty[objectMap[f.id]]
    PROVE  FrameCurrent(f, objectMap, object, dirty)
<1>1. Retrieved(f) = {}
  BY DEF Retrieved
<1>2. \A j \in IDs : f.state[j] = UNION {object[objectMap[p]].state[j] : p \in Retrieved(f)}
  BY <1>1 DEF Nothing
<1> QED
  BY <1>1, <1>2 DEF FrameCurrent

LEMMA CurrencyCreate ==
    ASSUME NEW R, Orders(R), CurrencyInv(R), NEW i \in IDs, NEW arg \in Args,
           NEW precs \in SUBSET IDs, NEW overwrite \in BOOLEAN, Create(i, arg, precs, overwrite)
    PROVE  CurrencyInv(R)'
<1> DEFINE f == Frame("create", i, arg, precs, precs, overwrite)
<1>1. f.op = "create" /\ f.id = i /\ f.left = precs /\ f.precs = precs /\ f.state = Nothing
  BY DEF Frame
<1>2. /\ calls' = <<f>> /\ returned' = None /\ UNCHANGED <<objectMap, object, dirty, observables>>
      /\ precs \subseteq Below[i]
  BY DEF Create
<1> HIDE DEF f
<1>3. FrameCurrent(f, objectMap, object, dirty)
  BY <1>1, FreshCurrent
<1>4. \A p \in f.precs : <<p, f.id>> \in R
  BY <1>1, <1>2 DEF Orders
<1>5. StackCurrent(R, <<f>>, objectMap, object, dirty)
  BY <1>3, <1>4, CurrentSingle
<1> QED
  BY <1>2, <1>5, CurrencySteady

\* The state of one more clean precedent goes into what is being built.
LEMMA AnsweredCurrent ==
    ASSUME NEW A, TypeOK, StackInv(A, calls, objectMap, object), ~Idle,
           FrameCurrent(Top, objectMap, object, dirty),
           NEW p \in Stored, p \in Top.left, ~dirty[objectMap[p]]
    PROVE  FrameCurrent(Answered(p), objectMap, object, dirty)
<1> PICK f : f = Answered(p)
  OBVIOUS
<1>1. /\ f.op = Top.op /\ f.id = Top.id /\ f.precs = Top.precs /\ f.left = Top.left \ {p}
      /\ f.state = Merge(Top.state, ObjectOf(p).state)
  BY AnsweredFacts
<1>2. FrameInv(Top, objectMap, object)
  BY TopFacts
<1>3. ObjectOf(p) = object[objectMap[p]] /\ ObjectOf(p).state \in Provenances /\ p \in Keys(objectMap)
  BY StoredFacts DEF ObjectOf, Objects
<1>4. ASSUME Building(f)
      PROVE  /\ \A q \in Retrieved(f) : ~dirty[objectMap[q]]
             /\ \A j \in IDs : f.state[j] = UNION {object[objectMap[q]].state[j] : q \in Retrieved(f)}
  <2>1. Building(Top)
    BY <1>1, <1>4 DEF Building
  <2>2. Top.left \subseteq Top.precs
    BY <1>2, <2>1 DEF FrameInv, CreateFrame, RecreateFrame, Building
  <2>3. Retrieved(f) = Retrieved(Top) \cup {p}
    BY <1>1, <2>2 DEF Retrieved
  <2>4. \A j \in IDs : f.state[j] = Top.state[j] \cup object[objectMap[p]].state[j]
    BY <1>1, <1>3 DEF Merge
  <2>5. \A j \in IDs : Top.state[j] = UNION {object[objectMap[q]].state[j] : q \in Retrieved(Top)}
    BY <2>1 DEF FrameCurrent
  <2>6. \A j \in IDs : f.state[j] = UNION {object[objectMap[q]].state[j] : q \in Retrieved(f)}
    <3> TAKE j \in IDs
    <3>1. \A x : x \in Top.state[j] <=> \E q \in Retrieved(Top) : x \in object[objectMap[q]].state[j]
      BY <2>5
    <3>2. \A x : x \in f.state[j] <=> \E q \in Retrieved(f) : x \in object[objectMap[q]].state[j]
      BY <2>3, <2>4, <3>1
    <3>3. f.state[j] = Top.state[j] \cup object[objectMap[p]].state[j]
      BY <2>4
    <3> QED
      BY <3>2, <3>3
  <2> QED
    BY <2>1, <2>3, <2>6 DEF FrameCurrent
<1>5. ASSUME f.op = "retrieve"
      PROVE  /\ f.left = {} /\ f.id \in Keys(objectMap) /\ ~dirty[objectMap[f.id]]
             /\ f.state = object[objectMap[f.id]].state
  <2>1. Top.left = {Top.id} /\ Top.state = Nothing
    BY <1>1, <1>5 DEF FrameCurrent
  <2>2. p = f.id
    BY <1>1, <2>1
  <2>3. Merge(Nothing, ObjectOf(p).state) = ObjectOf(p).state
    BY <1>3 DEF Merge, Nothing, Provenances
  <2> QED
    BY <1>1, <1>3, <2>1, <2>2, <2>3
<1>6. f.op = "recreate" => dirty[objectMap[f.id]]
  BY <1>1 DEF FrameCurrent
<1> QED
  BY <1>4, <1>5, <1>6 DEF FrameCurrent

LEMMA CurrencyRetrieveImpl ==
    ASSUME NEW R, NEW A, Args \subseteq A, Orders(R), BaseInv(A), CurrencyInv(R), NEW p \in IDs,
           retrieveObjectImpl(p)
    PROVE  CurrencyInv(R)'
<1>1. ~Idle /\ p \in Top.left /\ UNCHANGED <<objectMap, object, dirty, observables>>
  BY RetrieveCases
<1>2. TypeOK /\ StackInv(A, calls, objectMap, object) /\ calls # <<>> /\ Top = calls[1]
  BY <1>1 DEF BaseInv, Idle, Top
<1>3. 1 \in 1..Len(calls) /\ Top \in Frames(A) /\ FrameInv(Top, objectMap, object)
  BY <1>1, <1>2, TopFacts, PopFacts DEF StackInv
<1>4. FrameCurrent(Top, objectMap, object, dirty) /\ StackCurrent(R, calls, objectMap, object, dirty)
  BY <1>2, <1>3 DEF CurrencyInv, StackCurrent
<1>5. CASE calls' = <<>> /\ returned' = None
  BY <1>1, <1>5, CurrentEmpty, CurrencySteady
<1>6. CASE p \in Stored /\ dirty[objectMap[p]] /\ calls' = <<RecreateOf(p)>> \o calls
           /\ returned' = returned
  <2> PICK f : f = RecreateOf(p)
    OBVIOUS
  <2>1. /\ f \in Frames(A) /\ f.op = "recreate" /\ f.id = p /\ f.precs = ObjectOf(p).precs
        /\ f.left = ObjectOf(p).precs /\ f.state = Nothing
    BY <1>2, <1>6, RecreateOfFacts
  <2>2. FrameCurrent(f, objectMap, object, dirty)
    BY <1>6, <2>1, FreshCurrent
  <2>3. \A q \in f.precs : <<q, f.id>> \in R
    BY <1>6, <2>1 DEF CurrencyInv, ObjectsDescend
  <2>4. Building(calls[1]) => <<f.id, calls[1].id>> \in R
    <3> HAVE Building(calls[1])
    <3>1. Top.left \subseteq Top.precs
      BY <1>2, <1>3 DEF FrameInv, CreateFrame, RecreateFrame, Building
    <3>2. \A q \in calls[1].precs : <<q, calls[1].id>> \in R
      BY <1>3, <1>4 DEF StackCurrent, StackDescends
    <3> QED
      BY <1>1, <1>2, <2>1, <3>1, <3>2
  <2>5. StackCurrent(R, <<f>> \o calls, objectMap, object, dirty)
    BY <1>2, <1>4, <2>1, <2>2, <2>3, <2>4, CurrentPush
  <2> QED
    BY <1>1, <1>2, <1>6, <2>5, CurrencySteady
<1>7. CASE p \in Stored /\ ~dirty[objectMap[p]] /\ calls' = <<Answered(p)>> \o Tail(calls)
           /\ returned' = returned
  <2> PICK f : f = Answered(p)
    OBVIOUS
  <2>1. f \in Frames(A) /\ f.op = calls[1].op /\ f.id = calls[1].id /\ f.precs = calls[1].precs
    BY <1>1, <1>2, <1>7, AnsweredFacts
  <2>2. FrameCurrent(f, objectMap, object, dirty)
    BY <1>1, <1>2, <1>4, <1>7, AnsweredCurrent
  <2>3. StackCurrent(R, <<f>> \o Tail(calls), objectMap, object, dirty)
    BY <1>2, <1>4, <2>1, <2>2, CurrentReplace
  <2> QED
    BY <1>1, <1>2, <1>7, <2>3, CurrencySteady
<1> QED
  BY <1>5, <1>6, <1>7, RetrieveCases

\* What a retrieval returns is clean, so it has its value.
LEMMA CurrencyRetrieveEnd ==
    ASSUME NEW R, NEW A, BaseInv(A), CurrencyInv(R), RetrieveEnd
    PROVE  /\ CurrencyInv(R)'
           /\ Top.id \in Stored
           /\ Anc(PrecMap(objectMap, object), Top.id) \subseteq Stored
           /\ Top.state = Worth(objectMap, object, Top.id)
<1>1. /\ ~Idle /\ Top.op = "retrieve" /\ Top.left = {} /\ calls' = <<>>
      /\ returned' = [id |-> Top.id, state |-> Top.state]
      /\ UNCHANGED <<objectMap, object, dirty, observables>>
  BY DEF RetrieveEnd, Running
<1>2. TypeOK /\ StackInv(A, calls, objectMap, object) /\ calls # <<>> /\ Top = calls[1]
  BY <1>1 DEF BaseInv, Idle, Top
<1>3. 1 \in 1..Len(calls)
  BY <1>1, <1>2, PopFacts DEF StackInv
<1>4. FrameCurrent(Top, objectMap, object, dirty)
  BY <1>2, <1>3 DEF CurrencyInv, StackCurrent
<1>5. Stored = Keys(objectMap)
  BY <1>2, StoredFacts
<1>6. Top.id \in Stored /\ ~dirty[objectMap[Top.id]] /\ Top.state = object[objectMap[Top.id]].state
  BY <1>1, <1>4, <1>5 DEF FrameCurrent
<1>7. HasValue(objectMap, object, Top.id)
  BY <1>6 DEF CurrencyInv, ValueInv
<1>8. /\ Anc(PrecMap(objectMap, object), Top.id) \subseteq Stored
      /\ Top.state = Worth(objectMap, object, Top.id)
  BY <1>5, <1>6, <1>7 DEF HasValue
<1>9. Stored' = Stored /\ \A i : ObjectOf(i)' = ObjectOf(i)
  BY <1>1 DEF Stored, ObjectOf
<1>10. StackCurrent(R, calls', objectMap', object', dirty')
  BY <1>1, CurrentEmpty
<1>11. ObjectsDescend(R)' /\ CleanIsCurrent' /\ ValueInv'
  BY <1>1, <1>9 DEF CurrencyInv, ObjectsDescend, CleanIsCurrent, Exists, ValueInv
<1>12. ReturnedInv'
  <2>1. returned'.id = Top.id /\ returned'.state = Top.state /\ Top.id \in IDs
    BY <1>1, <1>6 DEF Stored
  <2> QED
    BY <1>1, <1>8, <1>9, <2>1 DEF ReturnedInv
<1> QED
  BY <1>6, <1>8, <1>10, <1>11, <1>12 DEF CurrencyInv

\* Recreation: whoever has read an object has read a clean one, and the one that
\* changes now was dirty.
LEMMA CurrencyRecreate ==
    ASSUME NEW R, NEW A, Orders(R), BaseInv(A), CurrencyInv(R), recreate
    PROVE  CurrencyInv(R)'
<1> PICK id : id = Top.id
  OBVIOUS
<1> PICK b : b = Built
  OBVIOUS
<1>1. /\ id \in Stored /\ Top.op = "recreate" /\ calls # <<>> /\ ~Idle
      /\ Top.precs = ObjectOf(id).precs /\ Top.precs \subseteq Stored /\ Top.arg = ObjectOf(id).arg
      /\ Stored' = Stored /\ UNCHANGED <<objectMap, observables>>
      /\ object'[objectMap[id]] = b
      /\ b.arg = Top.arg /\ b.precs = Top.precs /\ b.state = Merge(Own(id, Top.arg), Top.state)
      /\ \A i \in Stored \ {id} : ObjectOf(i)' = ObjectOf(i)
      /\ \A i \in Stored : ObjectOf(i)'.arg = ObjectOf(i).arg
                           /\ ObjectOf(i)'.precs = ObjectOf(i).precs
  BY RecreateFacts
<1>2. /\ Top.left = {} /\ calls' = Tail(calls) /\ returned' = returned
      /\ dirty' = [dirty EXCEPT ![objectMap[id]] = FALSE]
  BY DEF recreate
<1>3. TypeOK /\ StackInv(A, calls, objectMap, object) /\ Top = calls[1] /\ TypeOK'
  <2>1. BaseInv(A)'
    BY BaseRecreate
  <2> QED
    BY <2>1 DEF BaseInv, Top
<1>4. /\ 1 \in 1..Len(calls) /\ Len(calls) \in Nat /\ calls \in Seq(Frames(A))
      /\ Top \in Frames(A) /\ FrameInv(Top, objectMap, object)
  BY <1>1, <1>3, TopFacts, PopFacts DEF StackInv
<1>5. ObjectOf(id)' = b
  BY <1>1 DEF ObjectOf
<1>6. \A i \in Stored : /\ i \in IDs /\ objectMap[i] \in Wrappers
                        /\ (dirty'[objectMap[i]] <=> i # id /\ dirty[objectMap[i]])
  BY <1>1, <1>2, <1>3, StoredFacts DEF TypeOK
<1>7. FrameCurrent(Top, objectMap, object, dirty)
  BY <1>3, <1>4 DEF CurrencyInv, StackCurrent
<1>8. dirty[objectMap[id]] /\ Retrieved(Top) = Top.precs
  BY <1>1, <1>2, <1>7 DEF FrameCurrent, Retrieved
<1>9. /\ \A p \in Top.precs : ~dirty[objectMap[p]] /\ p # id
      /\ \A j \in IDs : Top.state[j] = UNION {object[objectMap[p]].state[j] : p \in Top.precs}
  BY <1>1, <1>7, <1>8 DEF FrameCurrent, Building
<1>10. \A i \in Stored : ~dirty[objectMap[i]] =>
          i # id /\ ~dirty'[objectMap[i]] /\ object'[objectMap[i]] = object[objectMap[i]]
  <2> TAKE i \in Stored
  <2> HAVE ~dirty[objectMap[i]]
  <2>1. i # id
    BY <1>8
  <2>2. ObjectOf(i)' = ObjectOf(i)
    BY <1>1, <2>1
  <2>3. object'[objectMap[i]] = object[objectMap[i]]
    BY <1>1, <2>2 DEF ObjectOf
  <2> QED
    BY <1>6, <2>1, <2>3
<1>11. StackCurrent(R, calls', objectMap', object', dirty')
  <2> PICK t : t = Tail(calls)
    OBVIOUS
  <2>1. StackCurrent(R, t, objectMap, object, dirty)
    BY <1>1, <1>3, CurrentPop DEF CurrencyInv
  <2>2. \A k \in 1..Len(t) : k + 1 \in 1..Len(calls) /\ t[k] = calls[k+1]
    BY <1>1, <1>4, PopFacts
  <2>3. \A k \in 1..Len(t) : FrameCurrent(t[k], objectMap, object', dirty')
    <3> TAKE k \in 1..Len(t)
    <3> PICK f : f = t[k]
      OBVIOUS
    <3>1. FrameCurrent(f, objectMap, object, dirty) /\ FrameInv(f, objectMap, object)
      BY <1>3, <2>1, <2>2 DEF StackCurrent, StackInv
    <3>2. Building(f) => /\ \A p \in Retrieved(f) : ~dirty'[objectMap[p]]
                         /\ \A j \in IDs : f.state[j] =
                               UNION {object'[objectMap[p]].state[j] : p \in Retrieved(f)}
      <4> HAVE Building(f)
      <4>1. Retrieved(f) \subseteq Stored
        BY <1>3, <3>1, StoredFacts DEF Building, FrameInv, CreateFrame, RecreateFrame
      <4>2. \A p \in Retrieved(f) : ~dirty'[objectMap[p]]
                                    /\ object'[objectMap[p]] = object[objectMap[p]]
        BY <1>10, <3>1, <4>1 DEF FrameCurrent
      <4>3. \A j \in IDs : {object'[objectMap[p]].state[j] : p \in Retrieved(f)}
                         = {object[objectMap[p]].state[j] : p \in Retrieved(f)}
        BY <4>2
      <4> QED
        BY <3>1, <4>2, <4>3 DEF FrameCurrent
    <3>3. f.op = "recreate" => dirty'[objectMap[f.id]]
      <4> HAVE f.op = "recreate"
      <4>1. f.id \in Stored /\ dirty[objectMap[f.id]]
        BY <1>3, <3>1, StoredFacts DEF FrameCurrent, FrameInv, RecreateFrame
      <4>2. 1 < k + 1
        BY <1>4
      <4>3. <<id, f.id>> \in R
        BY <1>1, <1>3, <1>4, <2>2, <4>2 DEF CurrencyInv, StackCurrent, StackDescends, Building
      <4>4. f.id # id
        BY <1>6, <4>1, <4>3 DEF Orders
      <4> QED
        BY <1>6, <4>1, <4>4
    <3>4. f.op = "retrieve" =>
             \/ f.left = {f.id} /\ f.state = Nothing
             \/ f.left = {} /\ f.id \in Keys(objectMap) /\ ~dirty'[objectMap[f.id]]
                /\ f.state = object'[objectMap[f.id]].state
      BY <1>3, <1>10, <3>1, StoredFacts DEF FrameCurrent
    <3> QED
      BY <3>2, <3>3, <3>4 DEF FrameCurrent
  <2>4. StackDescends(R, t)
    BY <2>1 DEF StackCurrent
  <2> QED
    BY <1>1, <1>2, <2>3, <2>4 DEF StackCurrent
<1>12. ObjectsDescend(R)'
  BY <1>1 DEF CurrencyInv, ObjectsDescend
<1>13. \A j \in IDs : b.state[j] =
          Own(id, b.arg)[j] \cup UNION {object'[objectMap[p]].state[j] : p \in b.precs}
  <2> TAKE j \in IDs
  <2>1. \A p \in Top.precs : object'[objectMap[p]] = object[objectMap[p]]
    BY <1>1, <1>9, <1>10
  <2>2. {object'[objectMap[p]].state[j] : p \in Top.precs}
      = {object[objectMap[p]].state[j] : p \in Top.precs}
    BY <2>1
  <2>3. b.state[j] = Own(id, b.arg)[j] \cup Top.state[j]
    BY <1>1 DEF Merge
  <2>4. Top.state[j] = UNION {object[objectMap[p]].state[j] : p \in Top.precs}
    BY <1>9
  <2>5. UNION {object'[objectMap[p]].state[j] : p \in b.precs}
      = UNION {object[objectMap[p]].state[j] : p \in Top.precs}
    BY <1>1, <2>2
  <2> QED
    BY <2>3, <2>4, <2>5
<1>14. CleanIsCurrent'
  <2> SUFFICES ASSUME NEW i \in Stored, ~dirty'[objectMap[i]]
               PROVE  /\ \A p \in ObjectOf(i)'.precs : objectMap[p] # None /\ ~dirty'[objectMap[p]]
                      /\ \A j \in IDs : ObjectOf(i)'.state[j] = Own(i, ObjectOf(i)'.arg)[j] \cup
                            UNION {ObjectOf(p)'.state[j] : p \in ObjectOf(i)'.precs}
    BY <1>1 DEF CleanIsCurrent, Exists
  <2>0. \A p : ObjectOf(p)' = object'[objectMap[p]]
    BY <1>1 DEF ObjectOf
  <2>1. CASE i = id
    <3>1. \A p \in b.precs : objectMap[p] # None /\ ~dirty'[objectMap[p]]
      BY <1>1, <1>9, <1>10 DEF Stored
    <3> QED
      BY <1>5, <1>13, <2>0, <2>1, <3>1
  <2>2. CASE i # id
    <3>1. ObjectOf(i)' = ObjectOf(i) /\ ~dirty[objectMap[i]]
      BY <1>1, <1>6, <2>2
    <3> PICK o : o = ObjectOf(i)
      OBVIOUS
    <3>2. /\ \A p \in o.precs : objectMap[p] # None /\ ~dirty[objectMap[p]]
          /\ \A j \in IDs : o.state[j] =
                Own(i, o.arg)[j] \cup UNION {ObjectOf(p).state[j] : p \in o.precs}
      BY <3>1 DEF CurrencyInv, CleanIsCurrent, Exists
    <3>3. o.precs \subseteq IDs
      BY <1>3, StoredFacts DEF Objects
    <3>4. \A p \in o.precs : ~dirty'[objectMap[p]] /\ ObjectOf(p)' = ObjectOf(p)
      BY <1>10, <2>0, <3>2, <3>3 DEF Stored, ObjectOf
    <3>5. \A j \in IDs : {ObjectOf(p)'.state[j] : p \in o.precs} = {ObjectOf(p).state[j] : p \in o.precs}
      BY <3>4
    <3>6. \A j \in IDs : o.state[j] = Own(i, o.arg)[j] \cup UNION {ObjectOf(p)'.state[j] : p \in o.precs}
      BY <3>2, <3>5
    <3> QED
      BY <3>1, <3>2, <3>4, <3>6
  <2> QED
    BY <2>1, <2>2
<1>15. ValueInv'
  <2>1. /\ PrecMap(objectMap, object) \in [IDs -> SUBSET IDs]
        /\ \A i \in IDs : PrecMap(objectMap', object')[i] = PrecMap(objectMap, object)[i]
        /\ PrecMap(objectMap', object') \in [IDs -> SUBSET IDs]
        /\ \A i \in Stored : PrecMap(objectMap, object)[i] = ObjectOf(i).precs
    <3> PICK P : P = PrecMap(objectMap, object)
      OBVIOUS
    <3> PICK Q : Q = PrecMap(objectMap', object')
      OBVIOUS
    <3>1. /\ P \in [IDs -> SUBSET IDs] /\ \A i \in Stored : P[i] = ObjectOf(i).precs
          /\ \A i \in IDs \ Stored : P[i] = {}
      BY <1>3, PrecMapFacts
    <3>2. /\ Q \in [IDs -> SUBSET IDs] /\ \A i \in Stored' : Q[i] = ObjectOf(i)'.precs
          /\ \A i \in IDs \ Stored' : Q[i] = {}
      BY <1>3, PrecMapFactsNext
    <3>3. \A i \in IDs : Q[i] = P[i]
      <4> TAKE i \in IDs
      <4>1. Stored' = Stored
        BY <1>1
      <4>2. CASE i \in Stored
        <5>1. Q[i] = ObjectOf(i)'.precs /\ P[i] = ObjectOf(i).precs
          BY <3>1, <3>2, <4>1, <4>2
        <5>2. ObjectOf(i)'.precs = ObjectOf(i).precs
          BY <1>1, <4>2
        <5> QED
          BY <5>1, <5>2
      <4>3. CASE i \notin Stored
        BY <3>1, <3>2, <4>1, <4>3
      <4> QED
        BY <4>2, <4>3
    <3> QED
      BY <3>1, <3>2, <3>3
  <2>2. \A i \in Stored \ {id} : ~dirty'[objectMap[i]] => HasValue(objectMap', object', i)
    <3> TAKE i \in Stored \ {id}
    <3> HAVE ~dirty'[objectMap[i]]
    <3>1. HasValue(objectMap, object, i) /\ i \in IDs
      BY <1>6 DEF CurrencyInv, ValueInv
    <3>2. object'[objectMap'[i]].state = object[objectMap[i]].state
      BY <1>1 DEF ObjectOf
    <3>3. \A j \in Anc(PrecMap(objectMap, object), i) : j \in Stored /\ j \in Keys(objectMap')
      BY <1>1, <1>3, <3>1, StoredFacts DEF HasValue
    <3>4. \A j \in Stored : object'[objectMap'[j]].arg = object[objectMap[j]].arg
      BY <1>1 DEF ObjectOf
    <3> QED
      BY <1>6, <2>1, <3>1, <3>2, <3>3, <3>4, WorthSame
  <2>3. HasValue(objectMap', object', id)
    <3>1. PrecMap(objectMap', object')[id] = b.precs /\ id \in IDs /\ id \in Keys(objectMap')
      BY <1>1, <1>3, <1>6, <2>1, StoredFacts
    <3>2. \A p \in b.precs : HasValue(objectMap', object', p)
      BY <1>1, <1>9, <1>10, <2>2
    <3>3. object'[objectMap'[id]] = b
      BY <1>1
    <3>4. b.state \in Provenances
      BY <1>1, <1>3, <1>5, StoredFacts DEF TypeOK, Objects
    <3>5. \A j \in IDs : object'[objectMap'[id]].state[j] =
              Own(id, object'[objectMap'[id]].arg)[j] \cup
              UNION {object'[objectMap'[p]].state[j] : p \in PrecMap(objectMap', object')[id]}
      BY <1>1, <1>13, <3>1, <3>3
    <3> QED
      BY <2>1, <3>1, <3>2, <3>3, <3>4, <3>5, WorthBuilt
  <2> QED
    BY <1>1, <2>2, <2>3 DEF ValueInv
<1>16. ReturnedInv'
  BY <1>1, <1>2 DEF CurrencyInv, ReturnedInv
<1> QED
  BY <1>11, <1>12, <1>14, <1>15, <1>16 DEF CurrencyInv

\* Deletion: what an object that stays is built on stays too.
LEMMA CurrencyErase ==
    ASSUME NEW R, NEW A, BaseInv(A), WrapperInv, CurrencyInv(R), Idle, NEW D, Erase(D),
           \A i \in Stored \ D : ObjectOf(i).precs \cap D = {},
           returned' = None, UNCHANGED <<dirty, calls>>
    PROVE  CurrencyInv(R)'
<1>1. TypeOK /\ ListedInv
  BY DEF BaseInv
<1>2. /\ TypeOK' /\ Stored' = Stored \ D
      /\ \A i \in Stored \ D : objectMap'[i] = objectMap[i] /\ ObjectOf(i)' = ObjectOf(i)
  BY <1>1, EraseFacts
<1>3. \A i \in Stored \ D : i \in IDs /\ ObjectOf(i).precs \subseteq Stored \ D
  BY DEF WrapperInv, ObservesPrecedents, Stored
<1>4. StackCurrent(R, calls', objectMap', object', dirty')
  BY CurrentEmpty DEF Idle
<1>5. ObjectsDescend(R)'
  BY <1>2 DEF CurrencyInv, ObjectsDescend
<1>6. CleanIsCurrent'
  <2> SUFFICES ASSUME NEW i \in Stored \ D, ~dirty[objectMap'[i]]
               PROVE  /\ \A p \in ObjectOf(i)'.precs : objectMap'[p] # None /\ ~dirty[objectMap'[p]]
                      /\ \A j \in IDs : ObjectOf(i)'.state[j] = Own(i, ObjectOf(i)'.arg)[j] \cup
                            UNION {ObjectOf(p)'.state[j] : p \in ObjectOf(i)'.precs}
    BY <1>2 DEF CleanIsCurrent, Exists
  <2> PICK o : o = ObjectOf(i)
    OBVIOUS
  <2>1. ObjectOf(i)' = o /\ ~dirty[objectMap[i]] /\ o.precs \subseteq Stored \ D
    BY <1>2, <1>3
  <2>2. /\ \A p \in o.precs : objectMap[p] # None /\ ~dirty[objectMap[p]]
        /\ \A j \in IDs : o.state[j] =
              Own(i, o.arg)[j] \cup UNION {ObjectOf(p).state[j] : p \in o.precs}
    BY <2>1 DEF CurrencyInv, CleanIsCurrent, Exists
  <2>3. \A p \in o.precs : objectMap'[p] = objectMap[p] /\ ObjectOf(p)' = ObjectOf(p)
    BY <1>2, <2>1
  <2>4. \A j \in IDs : {ObjectOf(p)'.state[j] : p \in o.precs} = {ObjectOf(p).state[j] : p \in o.precs}
    BY <2>3
  <2>5. \A j \in IDs : o.state[j] = Own(i, o.arg)[j] \cup UNION {ObjectOf(p)'.state[j] : p \in o.precs}
    BY <2>2, <2>4
  <2>6. \A p \in o.precs : objectMap'[p] # None /\ ~dirty[objectMap'[p]]
    BY <2>2, <2>3
  <2> QED
    BY <2>1, <2>5, <2>6
<1>7. ValueInv'
  <2> SUFFICES ASSUME NEW i \in Stored \ D, ~dirty[objectMap'[i]]
               PROVE  HasValue(objectMap', object', i)
    BY <1>2 DEF ValueInv
  <2> PICK P : P = PrecMap(objectMap, object)
    OBVIOUS
  <2> PICK Q : Q = PrecMap(objectMap', object')
    OBVIOUS
  <2>1. P \in [IDs -> SUBSET IDs] /\ \A k \in Stored : P[k] = ObjectOf(k).precs
    BY <1>1, PrecMapFacts
  <2>2. Q \in [IDs -> SUBSET IDs] /\ \A k \in Stored \ D : Q[k] = ObjectOf(k).precs
    BY <1>2, PrecMapFactsNext
  <2>3. i \in IDs /\ HasValue(objectMap, object, i)
    BY <1>2, <1>3 DEF CurrencyInv, ValueInv
  <2>4. Anc(P, i) \subseteq Stored \ D
    <3>1. Stored \ D \in SUBSET IDs /\ \A k \in Stored \ D : P[k] \subseteq Stored \ D
      BY <1>3, <2>1
    <3> QED
      BY <2>1, <2>3, <3>1, AncFacts
  <2>5. \A k \in Stored \ D : object'[objectMap'[k]] = object[objectMap[k]] /\ k \in Keys(objectMap')
    BY <1>2, <1>3 DEF ObjectOf, Stored, Keys
  <2> QED
    BY <2>1, <2>2, <2>3, <2>4, <2>5, WorthSame
<1>8. ReturnedInv'
  BY DEF ReturnedInv
<1> QED
  BY <1>4, <1>5, <1>6, <1>7, <1>8 DEF CurrencyInv

\* Every object that is clean when another has been stored was clean before, is
\* not built on that one, and has clean precedents only.
LEMMA StillClean ==
    ASSUME NEW A, BaseInv(A), LinkInv, CleanIsCurrent, ValueInv, Running("create"), Top.left = {},
           NEW map, NEW w, InstallNew(map, w) \/ InstallOver(map, w),
           NEW i \in Stored, i # Top.id, ~dirty'[objectMap[i]]
    PROVE  /\ ~dirty[objectMap[i]]
           /\ Top.id \notin Anc(PrecMap(objectMap, object), i)
           /\ \A p \in ObjectOf(i).precs : p # Top.id /\ ~dirty'[objectMap[p]]
<1> PICK id : id = Top.id
  OBVIOUS
<1> PICK P : P = PrecMap(objectMap, object)
  OBVIOUS
<1>1. TypeOK /\ Top.id \in IDs
  BY CreatorFacts DEF BaseInv
<1>2. /\ P \in [IDs -> SUBSET IDs] /\ i \in IDs /\ objectMap[i] \in Wrappers
      /\ \A k \in Stored : P[k] = ObjectOf(k).precs
  BY <1>1, PrecMapFacts, StoredFacts
<1>3. w \in Wrappers /\ map[id] = w /\ \A k \in IDs \ {id} : map[k] = objectMap[k] /\ map[k] # w
  BY DEF InstallNew, InstallOver, Install
<1>4. \A k \in Stored : /\ k \in IDs /\ objectMap[k] \in Wrappers
                        /\ ObjectOf(k).precs \subseteq Stored
                        /\ observables[objectMap[k]] = {objectMap[p] : p \in ObjectOf(k).precs}
  BY <1>1, StoredFacts DEF LinkInv, WrapperInv, ObservesPrecedents
<1>5. CASE InstallNew(map, w)
  <2>1. dirty' = [dirty EXCEPT ![w] = FALSE] /\ id \notin Stored
    BY <1>5 DEF InstallNew
  <2>2. \A k \in Stored : (dirty'[objectMap[k]] <=> dirty[objectMap[k]])
    BY <1>1, <1>3, <1>4, <2>1 DEF TypeOK
  <2>3. HasValue(objectMap, object, i)
    BY <2>2 DEF ValueInv
  <2>4. id \notin Anc(P, i)
    BY <1>1, <2>1, <2>3, StoredFacts DEF HasValue
  <2>5. \A p \in ObjectOf(i).precs : ~dirty[objectMap[p]] /\ p # id
    BY <1>4, <2>1, <2>2 DEF CleanIsCurrent
  <2> QED
    BY <1>4, <2>2, <2>4, <2>5
<1>6. CASE InstallOver(map, w)
  <2>1. dirty' = Reset(w) /\ id \in Stored /\ w = objectMap[id]
    BY <1>3, <1>6 DEF InstallOver
  <2> PICK Dep : Dep = Dependents(w)
    OBVIOUS
  <2>2. \A k \in Stored \ {id} : objectMap[k] # w
    BY <1>3, <1>4, <2>1, <1>1, StoredFacts
  <2>3. \A k \in Stored \ {id} :
           dirty'[objectMap[k]] <=> dirty[objectMap[k]] \/ objectMap[k] \in Dep
    BY <1>1, <1>4, <2>1, <2>2 DEF Reset, TypeOK
  <2>4. \A x \in ObserversOf(w) : x \in Dep
    <3>1. ObserversOf(w) \subseteq Wrappers
      BY DEF ObserversOf
    <3> QED
      BY <3>1, ClosureHolds DEF Dependents
  <2>5. \A y \in Dep : y \in Wrappers /\ ObserversOf(y) \subseteq Dep
    <3> DEFINE next == [x \in Wrappers |-> ObserversOf(x)]
    <3>1. Dep = Closure(Wrappers, ObserversOf(w), next)
      BY DEF Dependents
    <3>2. ObserversOf(w) \subseteq Wrappers
      BY DEF ObserversOf
    <3>3. Dep \subseteq Wrappers
      BY <3>1, <3>2, ClosureHolds
    <3>4. \A y \in Wrappers : next[y] = ObserversOf(y) /\ next[y] \subseteq Wrappers
      BY DEF ObserversOf
    <3> HIDE DEF next
    <3> QED
      BY <3>1, <3>3, <3>4, ClosureStep
  <2>6. \A k \in Stored \ {id} : objectMap[k] \notin Dep =>
           \A p \in ObjectOf(k).precs : p \in Stored \ {id} /\ objectMap[p] \notin Dep
    <3> TAKE k \in Stored \ {id}
    <3> HAVE objectMap[k] \notin Dep
    <3> TAKE p \in ObjectOf(k).precs
    <3>1. p \in Stored /\ objectMap[k] \in ObserversOf(objectMap[p])
      BY <1>4 DEF ObserversOf
    <3>2. p # id
      BY <2>1, <2>4, <3>1
    <3>3. objectMap[p] \notin Dep
      BY <2>5, <3>1
    <3> QED
      BY <3>1, <3>2, <3>3
  <2>7. ~dirty[objectMap[i]] /\ objectMap[i] \notin Dep
    BY <2>3
  <2>8. \A p \in ObjectOf(i).precs : p # id /\ ~dirty'[objectMap[p]]
    <3>1. \A p \in ObjectOf(i).precs : ~dirty[objectMap[p]]
      BY <2>7 DEF CleanIsCurrent
    <3> QED
      BY <2>3, <2>6, <2>7, <3>1
  <2>9. id \notin Anc(P, i)
    <3> DEFINE T == {k \in Stored \ {id} : objectMap[k] \notin Dep}
    <3>1. T \in SUBSET IDs /\ i \in T
      BY <1>4, <2>7
    <3>2. \A k \in T : P[k] \subseteq T
      BY <1>2, <2>6
    <3>3. id \notin T
      OBVIOUS
    <3> HIDE DEF T
    <3>4. Anc(P, i) \subseteq T
      BY <1>2, <3>1, <3>2, AncFacts
    <3> QED
      BY <3>3, <3>4
  <2> QED
    BY <2>7, <2>8, <2>9
<1> QED
  BY <1>5, <1>6

\* The precedents of the object stored are still clean: none of them is built on
\* the one it replaces.
LEMMA PrecedentsClean ==
    ASSUME NEW R, NEW A, Orders(R), BaseInv(A), LinkInv, CurrencyInv(R), Running("create"), Top.left = {},
           NEW map, NEW w, InstallNew(map, w) \/ InstallOver(map, w)
    PROVE  \A p \in Top.precs : p \in Stored /\ p # Top.id /\ <<p, Top.id>> \in R /\ ~dirty'[objectMap[p]]
<1> PICK id : id = Top.id
  OBVIOUS
<1>1. TypeOK /\ id \in IDs /\ ~Idle /\ Top.op = "create" /\ Top.precs \subseteq Stored /\ calls # <<>>
      /\ StackInv(A, calls, objectMap, object) /\ Top = calls[1]
  BY CreatorFacts DEF BaseInv, Top
<1>2. 1 \in 1..Len(calls)
  BY <1>1, PopFacts DEF StackInv
<1>3. FrameCurrent(Top, objectMap, object, dirty) /\ \A p \in Top.precs : <<p, id>> \in R
  BY <1>1, <1>2 DEF CurrencyInv, StackCurrent, StackDescends, Building
<1>4. \A p \in Top.precs : p \in Stored /\ p # id /\ <<p, id>> \in R /\ ~dirty[objectMap[p]]
  BY <1>1, <1>3 DEF FrameCurrent, Building, Retrieved, Orders
<1>5. w \in Wrappers /\ map[id] = w /\ \A k \in IDs \ {id} : map[k] = objectMap[k] /\ map[k] # w
  BY DEF InstallNew, InstallOver, Install
<1>6. \A k \in Stored : /\ k \in IDs /\ objectMap[k] \in Wrappers /\ ObjectOf(k).id = k
                        /\ ObjectOf(k) # None
  BY <1>1, StoredFacts DEF TypeOK
<1>7. CASE InstallNew(map, w)
  <2>1. dirty' = [dirty EXCEPT ![w] = FALSE]
    BY <1>7 DEF InstallNew
  <2> QED
    BY <1>1, <1>4, <1>5, <1>6, <2>1 DEF TypeOK
<1>8. CASE InstallOver(map, w)
  <2>1. dirty' = Reset(w) /\ id \in Stored /\ w = objectMap[id]
    BY <1>5, <1>8 DEF InstallOver
  <2> DEFINE T == {x \in Wrappers : object[x] # None /\ object[x].id \in Stored
                                    /\ <<id, object[x].id>> \in R}
             next == [x \in Wrappers |-> ObserversOf(x)]
  <2>2. \A x, y \in Wrappers : x \in ObserversOf(y) =>
           /\ object[x] # None /\ object[y] # None
           /\ object[x].id \in Stored /\ object[y].id \in Stored
           /\ <<object[y].id, object[x].id>> \in R
    <3> TAKE x, y \in Wrappers
    <3> HAVE x \in ObserversOf(y)
    <3>1. y \in observables[x]
      BY DEF ObserversOf
    <3>2. object[x] # None
      BY <3>1 DEF LinkInv, WrapperInv
    <3> PICK k : k = object[x].id
      OBVIOUS
    <3>3. objectMap[k] = x /\ k \in IDs
      BY <1>1, <3>2 DEF LinkInv, WrapperInv, NoHiddenWrapper, TypeOK, Objects
    <3>4. k \in Stored
      BY <3>3, BelowAssumption DEF Stored
    <3>5. observables[x] = {objectMap[p] : p \in ObjectOf(k).precs} /\ ObjectOf(k).precs \subseteq Stored
      BY <3>3, <3>4 DEF LinkInv, WrapperInv, ObservesPrecedents
    <3>6. PICK p \in ObjectOf(k).precs : y = objectMap[p]
      BY <3>1, <3>5
    <3>7. p \in Stored /\ object[y] # None /\ object[y].id = p /\ <<p, k>> \in R
      BY <1>6, <3>4, <3>5, <3>6 DEF CurrencyInv, ObjectsDescend, ObjectOf
    <3> QED
      BY <3>2, <3>4, <3>7
  <2>3. ObserversOf(w) \subseteq T
    BY <1>5, <1>6, <2>1, <2>2 DEF ObserversOf, ObjectOf
  <2>4. \A y \in T : next[y] \subseteq T
    <3> TAKE y \in T
    <3>1. next[y] = ObserversOf(y) /\ ObserversOf(y) \subseteq Wrappers
      BY DEF ObserversOf
    <3>2. ASSUME NEW x \in ObserversOf(y) PROVE x \in T
      <4>1. x \in Wrappers /\ object[x] # None /\ object[x].id \in Stored
            /\ <<object[y].id, object[x].id>> \in R
        BY <2>2, <3>1
      <4>2. <<id, object[y].id>> \in R /\ object[y].id \in Stored
        OBVIOUS
      <4>3. <<id, object[x].id>> \in R
        BY <1>1, <1>6, <4>1, <4>2 DEF Orders
      <4> QED
        BY <4>1, <4>3
    <3> QED
      BY <3>1, <3>2
  <2>5. T \subseteq Wrappers
    OBVIOUS
  <2>6. Dependents(w) \subseteq T
    <3> HIDE DEF T
    <3>1. Dependents(w) = Closure(Wrappers, ObserversOf(w), next)
      BY DEF Dependents
    <3> HIDE DEF next
    <3> QED
      BY <2>3, <2>4, <2>5, <3>1, ClosureLeast
  <2>7. \A p \in Top.precs : objectMap[p] \notin Dependents(w)
    <3> TAKE p \in Top.precs
    <3> SUFFICES ASSUME objectMap[p] \in T PROVE FALSE
      BY <2>6
    <3>1. <<id, p>> \in R /\ <<p, id>> \in R /\ p \in IDs
      BY <1>4, <1>6 DEF ObjectOf
    <3> QED
      BY <1>1, <3>1 DEF Orders
  <2>8. \A p \in Top.precs : objectMap[p] # w
    BY <1>1, <1>4, <2>1, StoredFacts
  <2>9. \A p \in Top.precs : ~dirty'[objectMap[p]]
    BY <1>4, <1>6, <2>1, <2>7, <2>8 DEF Reset
  <2> QED
    BY <1>4, <2>9
<1> QED
  BY <1>7, <1>8

\* Storing: the object has the value of its formula, and those not built on it
\* keep theirs.
LEMMA CurrencyInstall ==
    ASSUME NEW R, NEW A, Orders(R), BaseInv(A), LinkInv, CurrencyInv(R),
           Running("create"), Top.left = {},
           NEW map, NEW w, InstallNew(map, w) \/ InstallOver(map, w),
           calls' = Tail(calls), returned' = returned
    PROVE  CurrencyInv(R)'
<1> PICK id : id = Top.id
  OBVIOUS
<1> PICK b : b = Built
  OBVIOUS
<1> PICK precs : precs = Top.precs
  OBVIOUS
<1>1. TypeOK /\ id \in IDs /\ ~Idle /\ Top.op = "create" /\ precs \subseteq Stored /\ calls # <<>>
      /\ StackInv(A, calls, objectMap, object) /\ Top = calls[1]
      /\ b.arg = Top.arg /\ b.precs = precs /\ b.state = Merge(Own(id, Top.arg), Top.state)
  BY CreatorFacts DEF BaseInv, Top
<1>2. 1 \in 1..Len(calls) /\ calls \in Seq(Frames(A)) /\ Len(calls) \in Nat \ {0}
  BY <1>1, PopFacts DEF StackInv
<1>3. FrameCurrent(Top, objectMap, object, dirty)
  BY <1>1, <1>2 DEF CurrencyInv, StackCurrent
<1>4. Install(map, w) /\ dirty' \in [Wrappers -> BOOLEAN]
  BY <1>1 DEF InstallNew, InstallOver, Reset, TypeOK
<1>5. /\ TypeOK' /\ objectMap' = map /\ Keys(map) = Stored \cup {id} /\ object'[w] = b
      /\ \A i \in Keys(map) \ {id} : object'[map[i]] = ObjectOf(i)
  BY <1>4, InstallFacts
<1>6. w \in Wrappers /\ map[id] = w /\ \A k \in IDs \ {id} : map[k] = objectMap[k] /\ map[k] # w
  BY <1>4 DEF Install
<1>7. /\ Stored' = Stored \cup {id} /\ ObjectOf(id)' = b
      /\ \A i \in Stored \ {id} : objectMap'[i] = objectMap[i] /\ ObjectOf(i)' = ObjectOf(i)
  <2>1. Stored' = Keys(map)
    BY <1>5 DEF Stored, Keys
  <2>2. \A i \in Stored : i \in IDs
    BY DEF Stored
  <2> QED
    BY <1>5, <1>6, <2>1, <2>2 DEF ObjectOf
<1>8. \A p \in precs : p \in Stored \ {id} /\ <<p, id>> \in R /\ ~dirty'[objectMap[p]]
  BY PrecedentsClean
<1>9. \A i \in Stored \ {id} : ~dirty'[objectMap[i]] =>
         /\ ~dirty[objectMap[i]] /\ id \notin Anc(PrecMap(objectMap, object), i)
         /\ \A p \in ObjectOf(i).precs : p # id /\ ~dirty'[objectMap[p]]
  BY StillClean DEF CurrencyInv
<1>10. StackCurrent(R, calls', objectMap', object', dirty')
  <2> PICK t : t = Tail(calls)
    OBVIOUS
  <2>1. \A k \in 1..Len(t) : k + 1 \in 2..Len(calls) /\ t[k] = calls[k+1]
    BY <1>1, <1>2, PopFacts
  <2>2. \A k \in 1..Len(t) : t[k].op = "load"
    BY <1>1, <2>1, TopFacts
  <2> QED
    BY <2>2 DEF StackCurrent, StackDescends, FrameCurrent, Building
<1>11. ObjectsDescend(R)'
  <2> SUFFICES ASSUME NEW i \in Stored \cup {id}
               PROVE  \A p \in ObjectOf(i)'.precs : <<p, i>> \in R
    BY <1>7 DEF ObjectsDescend
  <2>1. CASE i = id
    BY <1>1, <1>7, <1>8, <2>1
  <2>2. CASE i # id
    BY <1>7, <2>2 DEF CurrencyInv, ObjectsDescend
  <2> QED
    BY <2>1, <2>2
<1>12. \A j \in IDs : b.state[j] =
          Own(id, b.arg)[j] \cup UNION {ObjectOf(p)'.state[j] : p \in b.precs}
  <2> TAKE j \in IDs
  <2>1. \A p \in precs : ObjectOf(p)' = ObjectOf(p)
    BY <1>7, <1>8
  <2>2. {ObjectOf(p)'.state[j] : p \in precs} = {ObjectOf(p).state[j] : p \in precs}
    BY <2>1
  <2>3. b.state[j] = Own(id, b.arg)[j] \cup Top.state[j]
    BY <1>1 DEF Merge
  <2>4. Retrieved(Top) = precs /\ Building(Top)
    BY <1>1 DEF Retrieved, Building
  <2>5. Top.state[j] = UNION {ObjectOf(p).state[j] : p \in precs}
    BY <1>3, <2>4 DEF FrameCurrent, ObjectOf
  <2>6. UNION {ObjectOf(p)'.state[j] : p \in b.precs} = UNION {ObjectOf(p).state[j] : p \in precs}
    BY <1>1, <2>2
  <2> QED
    BY <2>3, <2>5, <2>6
<1>13. CleanIsCurrent'
  <2> SUFFICES ASSUME NEW i \in Stored \cup {id}, ~dirty'[objectMap'[i]]
               PROVE  /\ \A p \in ObjectOf(i)'.precs : objectMap'[p] # None /\ ~dirty'[objectMap'[p]]
                      /\ \A j \in IDs : ObjectOf(i)'.state[j] = Own(i, ObjectOf(i)'.arg)[j] \cup
                            UNION {ObjectOf(p)'.state[j] : p \in ObjectOf(i)'.precs}
    BY <1>7 DEF CleanIsCurrent, Exists
  <2>1. CASE i = id
    <3>1. \A p \in b.precs : objectMap'[p] # None /\ ~dirty'[objectMap'[p]]
      BY <1>1, <1>7, <1>8 DEF Stored
    <3> QED
      BY <1>7, <1>12, <2>1, <3>1
  <2>2. CASE i # id
    <3> PICK o : o = ObjectOf(i)
      OBVIOUS
    <3>1. i \in Stored \ {id} /\ ObjectOf(i)' = o /\ ~dirty'[objectMap[i]]
      BY <1>7, <2>2
    <3>2. /\ ~dirty[objectMap[i]] /\ \A p \in o.precs : p # id /\ ~dirty'[objectMap[p]]
      BY <1>9, <3>1
    <3>3. /\ \A p \in o.precs : objectMap[p] # None
          /\ \A j \in IDs : o.state[j] =
                Own(i, o.arg)[j] \cup UNION {ObjectOf(p).state[j] : p \in o.precs}
      BY <3>1, <3>2 DEF CurrencyInv, CleanIsCurrent, Exists
    <3>4. o.precs \subseteq IDs
      BY <1>1, <3>1, StoredFacts DEF Objects
    <3>5. \A p \in o.precs : p \in Stored \ {id}
      BY <3>2, <3>3, <3>4 DEF Stored
    <3>6. \A p \in o.precs : objectMap'[p] = objectMap[p] /\ ObjectOf(p)' = ObjectOf(p)
      BY <1>7, <3>5
    <3>7. \A j \in IDs : {ObjectOf(p)'.state[j] : p \in o.precs} = {ObjectOf(p).state[j] : p \in o.precs}
      BY <3>6
    <3>8. \A j \in IDs : o.state[j] = Own(i, o.arg)[j] \cup UNION {ObjectOf(p)'.state[j] : p \in o.precs}
      BY <3>3, <3>7
    <3>9. \A p \in o.precs : objectMap'[p] # None /\ ~dirty'[objectMap'[p]]
      BY <3>2, <3>3, <3>6
    <3> QED
      BY <3>1, <3>8, <3>9
  <2> QED
    BY <2>1, <2>2
<1>14. ValueInv'
  <2> PICK P : P = PrecMap(objectMap, object)
    OBVIOUS
  <2> PICK Q : Q = PrecMap(objectMap', object')
    OBVIOUS
  <2>1. P \in [IDs -> SUBSET IDs] /\ \A k \in Stored : P[k] = ObjectOf(k).precs
    BY <1>1, PrecMapFacts
  <2>2. Q \in [IDs -> SUBSET IDs] /\ \A k \in Stored' : Q[k] = ObjectOf(k)'.precs
    BY <1>5, PrecMapFactsNext
  <2>3. \A i \in Stored \ {id} : ~dirty'[objectMap[i]] => HasValue(objectMap', object', i)
    <3> TAKE i \in Stored \ {id}
    <3> HAVE ~dirty'[objectMap[i]]
    <3>1. ~dirty[objectMap[i]] /\ id \notin Anc(P, i)
      BY <1>9
    <3>2. HasValue(objectMap, object, i) /\ i \in IDs
      BY <3>1 DEF CurrencyInv, ValueInv, Stored
    <3>3. \A j \in Anc(P, i) : j \in Stored \ {id}
      BY <1>1, <3>1, <3>2, StoredFacts DEF HasValue
    <3>4. \A j \in Stored \ {id} : /\ object'[objectMap'[j]] = object[objectMap[j]]
                                   /\ j \in Keys(objectMap') /\ Q[j] = P[j]
      <4> TAKE j \in Stored \ {id}
      <4>1. ObjectOf(j)' = ObjectOf(j) /\ j \in Stored'
        BY <1>7
      <4>2. Q[j] = P[j]
        BY <2>1, <2>2, <4>1
      <4> QED
        BY <4>1, <4>2 DEF ObjectOf, Stored, Keys
    <3> QED
      BY <2>1, <2>2, <3>2, <3>3, <3>4, WorthSame
  <2>4. HasValue(objectMap', object', id)
    <3>1. Q[id] = precs /\ id \in Keys(objectMap')
      BY <1>1, <1>5, <1>7, <2>2
    <3>2. \A p \in precs : HasValue(objectMap', object', p)
      BY <1>8, <2>3
    <3>3. object'[objectMap'[id]] = b /\ \A p : ObjectOf(p)' = object'[objectMap'[p]]
      BY <1>7 DEF ObjectOf
    <3>4. b.state \in Provenances
      <4>1. b \in Objects
        BY CreatorFacts
      <4> QED
        BY <4>1 DEF Objects
    <3>5. \A j \in IDs : object'[objectMap'[id]].state[j] =
              Own(id, object'[objectMap'[id]].arg)[j] \cup
              UNION {object'[objectMap'[p]].state[j] : p \in Q[id]}
      BY <1>1, <1>12, <3>1, <3>3
    <3> QED
      BY <1>1, <2>2, <3>1, <3>2, <3>3, <3>4, <3>5, WorthBuilt
  <2> QED
    BY <1>7, <2>3, <2>4 DEF ValueInv
<1>15. ReturnedInv'
  BY <1>1 DEF CurrencyInv, ReturnedInv
<1> QED
  BY <1>10, <1>11, <1>13, <1>14, <1>15 DEF CurrencyInv

LEMMA CurrencyInit ==
    ASSUME NEW R, Init PROVE CurrencyInv(R)
<1>1. StackCurrent(R, calls, objectMap, object, dirty)
  BY CurrentEmpty DEF Init
<1>2. Stored = {} /\ returned = None
  BY DEF Init, Stored
<1> QED
  BY <1>1, <1>2 DEF CurrencyInv, ObjectsDescend, CleanIsCurrent, ValueInv, ReturnedInv

LEMMA CurrencyNext ==
    ASSUME NEW R, NEW A, Args \subseteq A, None \in A, Orders(R), BaseInv(A), LinkInv,
           CurrencyInv(R), Next, ~MayDeleteUsed
    PROVE  CurrencyInv(R)'
<1>1. CASE \E i \in IDs : Retrieve(i)
  BY <1>1, CurrencyRetrieve
<1>2. CASE \E i \in IDs, arg \in Args, precs \in SUBSET IDs, overwrite \in BOOLEAN :
              Create(i, arg, precs, overwrite)
  BY <1>2, CurrencyCreate
<1>3. CASE \E p \in IDs : retrieveObjectImpl(p)
  BY <1>3, CurrencyRetrieveImpl
<1>4. CASE recreate
  BY <1>4, CurrencyRecreate
<1>5. CASE RetrieveEnd
  BY <1>5, CurrencyRetrieveEnd
<1>6. CASE storeObject
  <2>1. Running("create") /\ Top.left = {}
    BY <1>6 DEF storeObject
  <2>2. Top.id \in IDs /\ TypeOK
    BY <2>1, CreatorFacts DEF BaseInv
  <2>3. CASE calls' = <<>> /\ returned' = None /\ UNCHANGED <<objectMap, object, dirty, observables>>
    BY <2>3, CurrentEmpty, CurrencySteady
  <2>4. ASSUME NEW map, NEW w, InstallNew(map, w) \/ InstallOver(map, w), calls' = Tail(calls),
               returned' = returned
        PROVE  CurrencyInv(R)'
    BY <2>1, <2>4, CurrencyInstall
  <2> QED
    BY <1>6, <2>2, <2>3, <2>4, StoreCases
<1>7. CASE \/ \E list \in Lists : deleteObject(list)
           \/ \E deletePermanent \in BOOLEAN : deleteAllObjects(deletePermanent)
  <2>1. PICK D \in SUBSET IDs : Deletable(D) /\ Erase(D)
    BY <1>7, DeletesErase
  <2>2. Idle /\ returned' = None /\ UNCHANGED <<dirty, calls>>
    BY <1>7, DeletesErase
  <2>3. \A i \in Stored \ D : ObjectOf(i).precs \cap D = {}
    BY <2>1, DeletableFacts DEF BaseInv
  <2> QED
    BY <2>1, <2>2, <2>3, CurrencyErase DEF LinkInv
<1> QED
  BY <1>1, <1>2, <1>3, <1>4, <1>5, <1>6, <1>7 DEF Next

LEMMA SteadyAll ==
    ASSUME NEW R, NEW A, BaseInv(A), LinkInv, CurrencyInv(R), UNCHANGED vars
    PROVE  LinkInv' /\ CurrencyInv(R)'
<1>1. LinkInv'
  BY SteadyWrappers DEF vars, LinkInv, ListingStack
<1>2. Stored' = Stored /\ \A i : ObjectOf(i)' = ObjectOf(i)
  BY DEF Stored, ObjectOf, vars
<1>3. ObjectsDescend(R)' /\ CleanIsCurrent' /\ ValueInv'
  BY <1>2 DEF vars, CurrencyInv, ObjectsDescend, CleanIsCurrent, Exists, ValueInv
<1>4. ReturnedInv'
  BY <1>2 DEF vars, CurrencyInv, ReturnedInv
<1> QED
  BY <1>1, <1>3, <1>4 DEF CurrencyInv, vars
=============================================================================
