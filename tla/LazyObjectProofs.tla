------------------------- MODULE LazyObjectProofs -------------------------
(***************************************************************************)
(* Proofs about LazyObject, for any sets of objects and any graphs of      *)
(* inputs, cyclic ones included: the types, the shape of the call stack    *)
(* and what is said of freezing.  Then, for any graphs in which no object  *)
(* depends on itself: caches are never obsolete, through any relinking of  *)
(* the handles.                                                            *)
(***************************************************************************)
EXTENDS LazyObject, Naturals, TLAPS

-----------------------------------------------------------------------------
(* The shape of the call stack.                                            *)

Ops == {"notify", "calculate", "update", "recalculate"}
Frames ==
    [op : Ops, node : Nodes \cup Eagers, left : SUBSET (Nodes \cup Eagers),
     acc : Provenances, flag : BOOLEAN]

\* The frames of a reader that is reading its inputs.
ReadOps == {"calculate", "update"}
IsReading(f) == f.op \in ReadOps

FrameTyped(f) ==
    /\ f.op = "notify" => f.left \subseteq Readers \cup Links
    /\ f.op = "calculate" => f.node \in Lazies
    /\ f.op = "update" => f.node \in Eagers
    /\ IsReading(f) => f.left \subseteq Nodes
    /\ f.op = "recalculate" => f.node \in Lazies

\* Below a notification there are only notifications, and below the update() of
\* an eager observer there is at least one, and nothing else; recalculate() is
\* called by clients only; and nobody reads twice at the same time.
GoodStack(s) ==
    /\ s \in Seq(Frames)
    /\ \A i \in 1..Len(s) : FrameTyped(s[i]) /\ (s[i].op = "update" => i # Len(s))
    /\ \A i, j \in 1..Len(s) : i < j =>
          /\ s[i].op \in {"notify", "update"} => s[j].op = "notify"
          /\ s[i].op # "recalculate"
          /\ IsReading(s[i]) /\ IsReading(s[j]) => s[i].node # s[j].node

\* An object that calculates has its flag set and is not frozen.
CalculatingInv ==
    \A i \in 1..Len(stack) : stack[i].op = "calculate" =>
        calculated[stack[i].node] /\ ~frozen[stack[i].node]

\* Only the object that is being recalculated, if any, differs from what the
\* client asked for: it is not frozen, and recalculate() remembers.
Recalculating(n) ==
    \E i \in 1..Len(stack) : stack[i].op = "recalculate" /\ stack[i].node = n
FreezeInv ==
    /\ \A n \in Lazies : ~Recalculating(n) => (frozen[n] <=> frozenAsked[n])
    /\ \A i \in 1..Len(stack) : stack[i].op = "recalculate" =>
          ~frozen[stack[i].node] /\ (stack[i].flag <=> frozenAsked[stack[i].node])

BaseInv == TypeOK /\ GoodStack(stack) /\ CalculatingInv /\ FreezeInv

-----------------------------------------------------------------------------
(* Pushing, popping and replacing the head of a sequence.                  *)

\* A call: the new frame comes first and every other one moves down by one.
LEMMA PushFacts ==
    ASSUME NEW S, NEW s \in Seq(S), NEW f \in S
    PROVE  /\ <<f>> \o s \in Seq(S)
           /\ Len(<<f>> \o s) = Len(s) + 1
           /\ (<<f>> \o s)[1] = f
           /\ \A i \in 2..(Len(s) + 1) : (<<f>> \o s)[i] = s[i-1]
  OBVIOUS

\* A return: every frame but the first moves up by one.
LEMMA PopFacts ==
    ASSUME NEW S, NEW s \in Seq(S), s # <<>>
    PROVE  /\ Len(s) \in Nat \ {0} /\ s[1] \in S
           /\ Tail(s) \in Seq(S)
           /\ Len(Tail(s)) = Len(s) - 1
           /\ \A i \in 1..(Len(s) - 1) : Tail(s)[i] = s[i + 1]
  OBVIOUS

\* A step within the top frame.
LEMMA ReplaceFacts ==
    ASSUME NEW S, NEW s \in Seq(S), s # <<>>, NEW f \in S
    PROVE  /\ <<f>> \o Tail(s) \in Seq(S)
           /\ Len(<<f>> \o Tail(s)) = Len(s)
           /\ (<<f>> \o Tail(s))[1] = f
           /\ \A i \in 2..Len(s) : (<<f>> \o Tail(s))[i] = s[i]
  OBVIOUS

\* A call by a client.
LEMMA SingleFacts ==
    ASSUME NEW S, NEW f \in S
    PROVE  <<f>> \in Seq(S) /\ Len(<<f>>) = 1 /\ <<f>>[1] = f
  OBVIOUS

\* The stack is empty exactly when its length is zero.
LEMMA EmptyFacts ==
    ASSUME NEW S, NEW s \in Seq(S)
    PROVE  Len(s) \in Nat /\ DOMAIN s = 1..Len(s) /\ (s = <<>> <=> Len(s) = 0)
  OBVIOUS

-----------------------------------------------------------------------------
(* The shape of the stack, the flags and the types.                        *)

\* The frames the actions build are frames.
LEMMA NewFrames ==
    ASSUME TypeOK
    PROVE  /\ \A n \in Nodes : NotifyFrame(n) \in Frames /\ FrameTyped(NotifyFrame(n))
           /\ \A n \in Lazies : CalculateFrame(n) \in Frames /\ FrameTyped(CalculateFrame(n))
           /\ \A e \in Eagers : UpdateFrame(e) \in Frames /\ FrameTyped(UpdateFrame(e))
           /\ \A n \in Lazies, b \in BOOLEAN :
                 Frame("recalculate", n, {}, b) \in Frames
                 /\ FrameTyped(Frame("recalculate", n, {}, b))
<1>1. Nothing \in Provenances
  BY DEF Nothing, Provenances
<1>2. \A r \in Readers : inputs[r] \subseteq Nodes
  BY GraphsAssumption DEF TypeOK
<1>3. \A n : ObserversOf(n) \subseteq Readers \cup Links
  BY DEF ObserversOf
<1> QED
  BY <1>1, <1>2, <1>3 DEF NotifyFrame, CalculateFrame, UpdateFrame, Frame, Frames, Ops,
     FrameTyped, IsReading, ReadOps, Nodes, Readers

\* Before the first call the stack is empty and nothing is calculated or frozen.
LEMMA BaseInit == Init => BaseInv
<1> SUFFICES ASSUME Init PROVE BaseInv
  OBVIOUS
<1>1. stack \in Seq(Frames) /\ Len(stack) = 0 /\ DOMAIN stack = 1..Len(stack)
  BY DEF Init
<1>2. Nothing \in Provenances
  BY DEF Nothing, Provenances
<1>3. \A i \in DOMAIN stack : FALSE
  BY <1>1
<1>4. TypeOK
  BY <1>2, <1>3, Zenon DEF TypeOK, Init
<1>5. GoodStack(stack) /\ CalculatingInv /\ FreezeInv
  BY <1>1 DEF Init, GoodStack, CalculatingInv, FreezeInv, Recalculating
<1> QED
  BY <1>4, <1>5 DEF BaseInv

\* A call keeps the shape if the caller may make it.
LEMMA PushShape ==
    ASSUME NEW s, GoodStack(s), NEW f \in Frames, FrameTyped(f),
           f.op = "update" => s # <<>>,
           s # <<>> => /\ f.op # "recalculate"
                       /\ f.op \in {"notify", "update"} => s[1].op = "notify",
           IsReading(f) => \A i \in 1..Len(s) : IsReading(s[i]) => s[i].node # f.node
    PROVE  GoodStack(<<f>> \o s)
<1> DEFINE t == <<f>> \o s
<1>1. /\ s \in Seq(Frames) /\ Len(s) \in Nat /\ (s = <<>> <=> Len(s) = 0)
      /\ t \in Seq(Frames) /\ Len(t) = Len(s) + 1 /\ t[1] = f
      /\ \A i \in 2..(Len(s) + 1) : t[i] = s[i-1]
  BY PushFacts, EmptyFacts DEF GoodStack
<1> HIDE DEF t
<1>2. ASSUME NEW i \in 1..Len(t)
      PROVE  FrameTyped(t[i]) /\ (t[i].op = "update" => i # Len(t))
  <2>1. CASE i = 1
    BY <1>1, <2>1
  <2>2. CASE i # 1
    <3>1. i - 1 \in 1..Len(s) /\ t[i] = s[i-1] /\ (i - 1 # Len(s) => i # Len(t))
      BY <1>1, <2>2
    <3> QED
      BY <3>1 DEF GoodStack
  <2> QED
    BY <2>1, <2>2
<1>3. ASSUME NEW i \in 1..Len(t), NEW j \in 1..Len(t), i < j
      PROVE  /\ t[i].op \in {"notify", "update"} => t[j].op = "notify"
             /\ t[i].op # "recalculate"
             /\ IsReading(t[i]) /\ IsReading(t[j]) => t[i].node # t[j].node
  <2>1. j - 1 \in 1..Len(s) /\ t[j] = s[j-1] /\ s # <<>>
    BY <1>1, <1>3
  <2>2. CASE i = 1
    <3>1. f.op \in {"notify", "update"} => s[j-1].op = "notify"
      BY <2>1, <1>1 DEF GoodStack
    <3> QED
      BY <2>1, <2>2, <3>1, <1>1
  <2>3. CASE i # 1
    <3>1. i - 1 \in 1..Len(s) /\ t[i] = s[i-1] /\ i - 1 < j - 1
      BY <1>1, <1>3, <2>3
    <3> QED
      BY <2>1, <3>1 DEF GoodStack
  <2> QED
    BY <2>2, <2>3
<1>4. GoodStack(t)
  BY <1>1, <1>2, <1>3 DEF GoodStack
<1> QED
  BY <1>4 DEF t

\* A return keeps the shape.
LEMMA PopShape ==
    ASSUME NEW s, GoodStack(s), s # <<>>
    PROVE  GoodStack(Tail(s))
<1> DEFINE t == Tail(s)
<1>1. /\ s \in Seq(Frames) /\ Len(s) \in Nat /\ t \in Seq(Frames) /\ Len(t) = Len(s) - 1
      /\ \A i \in 1..(Len(s) - 1) : t[i] = s[i + 1]
  BY PopFacts DEF GoodStack
<1> HIDE DEF t
<1>2. \A i \in 1..Len(t) : i + 1 \in 1..Len(s) /\ t[i] = s[i + 1]
  BY <1>1
<1>3. ASSUME NEW i \in 1..Len(t)
      PROVE  FrameTyped(t[i]) /\ (t[i].op = "update" => i # Len(t))
  <2>1. i + 1 \in 1..Len(s) /\ t[i] = s[i + 1]
    BY <1>2
  <2>2. FrameTyped(s[i + 1]) /\ (s[i + 1].op = "update" => i + 1 # Len(s))
    BY <2>1 DEF GoodStack
  <2>3. i + 1 # Len(s) => i # Len(t)
    BY <1>1
  <2> QED
    BY <2>1, <2>2, <2>3
<1>4. ASSUME NEW i \in 1..Len(t), NEW j \in 1..Len(t), i < j
      PROVE  /\ t[i].op \in {"notify", "update"} => t[j].op = "notify"
             /\ t[i].op # "recalculate"
             /\ IsReading(t[i]) /\ IsReading(t[j]) => t[i].node # t[j].node
  <2>1. i + 1 < j + 1
    BY <1>4, <1>1
  <2> QED
    BY <2>1, <1>2 DEF GoodStack
<1>5. GoodStack(t)
  BY <1>1, <1>3, <1>4 DEF GoodStack
<1> QED
  BY <1>5 DEF t

\* So does a step within the top frame.
LEMMA ReplaceShape ==
    ASSUME NEW s, GoodStack(s), s # <<>>, NEW f \in Frames, FrameTyped(f),
           f.op = s[1].op, f.node = s[1].node
    PROVE  GoodStack(<<f>> \o Tail(s))
<1> DEFINE t == <<f>> \o Tail(s)
<1>1. /\ s \in Seq(Frames) /\ Len(s) \in Nat /\ t \in Seq(Frames) /\ Len(t) = Len(s)
      /\ t[1] = f /\ \A i \in 2..Len(s) : t[i] = s[i]
  BY ReplaceFacts, EmptyFacts DEF GoodStack
<1> HIDE DEF t
<1>2. \A i \in 1..Len(t) : /\ t[i].op = s[i].op /\ t[i].node = s[i].node
                            /\ FrameTyped(t[i])
  BY <1>1 DEF GoodStack
<1>3. GoodStack(t)
  BY <1>1, <1>2 DEF GoodStack, IsReading
<1> QED
  BY <1>3 DEF t

\* The stack of a client's call.
LEMMA SingleShape ==
    ASSUME NEW f \in Frames, FrameTyped(f), f.op # "update"
    PROVE  GoodStack(<<f>>)
  BY SingleFacts DEF GoodStack

\* Facts that hold in every state of the inductive invariant.
LEMMA BaseFacts ==
    ASSUME BaseInv
    PROVE  /\ stack \in Seq(Frames) /\ Len(stack) \in Nat
           /\ DOMAIN stack = 1..Len(stack) /\ (stack = <<>> <=> Len(stack) = 0)
           /\ \A i \in 1..Len(stack) : stack[i] \in Frames /\ FrameTyped(stack[i])
           /\ stack # <<>> => /\ 1 \in 1..Len(stack) /\ Top = stack[1] /\ Top \in Frames
                               /\ FrameTyped(Top)
  BY EmptyFacts DEF BaseInv, GoodStack, Top

\* The client's calls: nothing else is running.
LEMMA ClientBase == ASSUME BaseInv, Client PROVE BaseInv'
<1> USE DEF BaseInv
<1>0. TypeOK /\ stack = <<>> /\ Len(stack) = 0
  BY BaseFacts DEF Client, Idle, setValue, Ask, freeze, unfreeze, recalculate, linkTo
<1>1. \A n \in Lazies : frozen[n] <=> frozenAsked[n]
  BY <1>0 DEF FreezeInv, Recalculating
<1>a. ASSUME NEW f, f \in Frames, FrameTyped(f), f.op # "update", stack' = <<f>>
      PROVE  /\ GoodStack(stack') /\ Len(stack') = 1 /\ stack'[1] = f
             /\ stack' # <<>> /\ DOMAIN stack' = 1..1
  BY <1>a, SingleFacts, SingleShape
<1>2. ASSUME NEW q \in Quotes, NEW v \in Values \cup {Null}, setValue(q, v)
      PROVE  BaseInv'
  <2>1. /\ GoodStack(stack') /\ Len(stack') = 1 /\ stack'[1].op = "notify"
        /\ stack' # <<>> /\ DOMAIN stack' = 1..1
    BY <1>0, <1>2, <1>a, NewFrames DEF setValue, NotifyFrame, Frame, Nodes
  <2>2. TypeOK'
    BY <1>0, <1>2, <2>1 DEF TypeOK, setValue
  <2> QED
    BY <1>1, <1>2, <2>1, <2>2 DEF setValue, CalculatingInv, FreezeInv, Recalculating
<1>3. ASSUME NEW n \in Lazies, Ask(n) PROVE BaseInv'
  <2>1. /\ GoodStack(stack') /\ Len(stack') = 1 /\ stack'[1] = CalculateFrame(n)
        /\ stack' # <<>> /\ DOMAIN stack' = 1..1
    BY <1>0, <1>3, <1>a, NewFrames DEF Ask, CalculateFrame, Frame
  <2>2. stack'[1].op = "calculate" /\ stack'[1].node = n
    BY <2>1 DEF CalculateFrame, Frame
  <2>3. TypeOK'
    BY <1>0, <1>3, <2>1, <2>2 DEF TypeOK, Ask, graph
  <2> QED
    BY <1>0, <1>1, <1>3, <2>1, <2>2, <2>3
       DEF Ask, CalculatingInv, FreezeInv, Recalculating, TypeOK
<1>4. ASSUME NEW n \in Lazies, freeze(n) PROVE BaseInv'
  <2>1. TypeOK'
    BY <1>0, <1>4 DEF TypeOK, freeze, graph
  <2> QED
    BY <1>0, <1>1, <1>4, <2>1
       DEF freeze, CalculatingInv, FreezeInv, Recalculating, TypeOK
<1>5. ASSUME NEW n \in Lazies, unfreeze(n) PROVE BaseInv'
  <2>1. /\ GoodStack(stack') /\ Len(stack') = 1 /\ stack'[1].op = "notify"
        /\ stack' # <<>> /\ DOMAIN stack' = 1..1
    BY <1>0, <1>5, <1>a, NewFrames DEF unfreeze, NotifyFrame, Frame, Nodes
  <2>2. TypeOK'
    BY <1>0, <1>5, <2>1 DEF TypeOK, unfreeze, graph
  <2> QED
    BY <1>0, <1>1, <1>5, <2>1, <2>2
       DEF unfreeze, CalculatingInv, FreezeInv, Recalculating, TypeOK
<1>6. ASSUME NEW n \in Lazies, recalculate(n) PROVE BaseInv'
  <2> DEFINE c == CalculateFrame(n)
             r == Frame("recalculate", n, {}, frozen[n])
  <2>0. /\ c \in Frames /\ FrameTyped(c) /\ c.op = "calculate" /\ c.node = n
        /\ r \in Frames /\ FrameTyped(r) /\ r.op = "recalculate" /\ r.node = n
        /\ r.flag = frozen[n]
    <3>1. c \in Frames /\ FrameTyped(c) /\ r \in Frames /\ FrameTyped(r)
      BY <1>0, NewFrames DEF TypeOK
    <3> QED
      BY <3>1 DEF CalculateFrame, Frame
  <2> HIDE DEF c, r
  <2>1. stack' = <<c, r>>
    BY <1>6 DEF recalculate, c, r
  <2>2. /\ GoodStack(stack') /\ Len(stack') = 2 /\ stack'[1] = c /\ stack'[2] = r
        /\ stack' # <<>> /\ DOMAIN stack' = 1..2
    BY <2>0, <2>1 DEF GoodStack, IsReading, ReadOps
  <2>3. TypeOK'
    BY <1>0, <1>6, <2>0, <2>2 DEF TypeOK, recalculate, graph
  <2>4. CalculatingInv'
    BY <1>0, <1>6, <2>0, <2>2 DEF CalculatingInv, recalculate, TypeOK
  <2>5. FreezeInv'
    BY <1>0, <1>1, <1>6, <2>0, <2>2 DEF FreezeInv, Recalculating, recalculate, TypeOK
  <2> QED
    BY <2>2, <2>3, <2>4, <2>5
<1>7. ASSUME NEW h \in Links, NEW t \in Targets \cup {Null}, NEW o \in BOOLEAN,
             linkTo(h, t, o)
      PROVE  BaseInv'
  <2>1. /\ GoodStack(stack') /\ Len(stack') = 1 /\ stack'[1].op = "notify"
        /\ stack' # <<>> /\ DOMAIN stack' = 1..1
    BY <1>0, <1>7, <1>a, NewFrames DEF linkTo, NotifyFrame, Frame, Nodes
  <2>2. TypeOK'
    BY <1>0, <1>7, <2>1 DEF TypeOK, linkTo
  <2> QED
    BY <1>1, <1>7, <2>1, <2>2 DEF linkTo, CalculatingInv, FreezeInv, Recalculating
<1> QED
  BY <1>2, <1>3, <1>4, <1>5, <1>6, <1>7 DEF Client

\* The four ways a step of the running call moves the stack.
LEMMA PopMove ==
    ASSUME BaseInv, stack # <<>>, stack' = Tail(stack)
    PROVE  /\ GoodStack(stack') /\ Len(stack') \in Nat
           /\ Len(stack) = Len(stack') + 1 /\ DOMAIN stack' = 1..Len(stack')
           /\ stack' = <<>> <=> Len(stack') = 0
           /\ \A i \in 1..Len(stack') : i + 1 \in 1..Len(stack) /\ stack'[i] = stack[i+1]
           /\ \A i \in 2..Len(stack) : i - 1 \in 1..Len(stack') /\ stack'[i-1] = stack[i]
<1>1. GoodStack(stack') /\ stack' \in Seq(Frames)
  BY PopShape DEF BaseInv, GoodStack
<1>2. Len(stack') \in Nat /\ DOMAIN stack' = 1..Len(stack') /\ (stack' = <<>> <=> Len(stack') = 0)
  BY <1>1, EmptyFacts
<1> QED
  BY <1>1, <1>2, PopFacts DEF BaseInv, GoodStack

LEMMA ReplaceMove ==
    ASSUME BaseInv, stack # <<>>, NEW f \in Frames, FrameTyped(f), f.op = Top.op,
           f.node = Top.node, stack' = <<f>> \o Tail(stack)
    PROVE  /\ GoodStack(stack') /\ Len(stack') = Len(stack) /\ DOMAIN stack' = 1..Len(stack)
           /\ stack' # <<>> /\ stack'[1] = f
           /\ \A i \in 2..Len(stack) : stack'[i] = stack[i]
<1>0. GoodStack(stack')
  BY ReplaceShape DEF BaseInv, Top
<1>1. GoodStack(stack') /\ stack' \in Seq(Frames)
  BY <1>0 DEF GoodStack
<1>2. DOMAIN stack' = 1..Len(stack') /\ (stack' = <<>> <=> Len(stack') = 0)
  BY <1>1, EmptyFacts
<1> QED
  BY <1>1, <1>2, ReplaceFacts, EmptyFacts DEF BaseInv, GoodStack

LEMMA CallMove ==
    ASSUME BaseInv, stack # <<>>, NEW f \in Frames, FrameTyped(f),
           f.op # "recalculate", f.op \in {"notify", "update"} => Top.op = "notify",
           IsReading(f) =>
               \A i \in 1..Len(stack) : IsReading(stack[i]) => stack[i].node # f.node,
           stack' = <<f>> \o stack
    PROVE  /\ GoodStack(stack') /\ Len(stack') = Len(stack) + 1
           /\ DOMAIN stack' = 1..Len(stack') /\ stack' # <<>> /\ stack'[1] = f
           /\ \A i \in 2..Len(stack') : i - 1 \in 1..Len(stack) /\ stack'[i] = stack[i-1]
           /\ \A i \in 1..Len(stack) : i + 1 \in 1..Len(stack') /\ stack'[i+1] = stack[i]
<1>0. GoodStack(stack')
  BY PushShape DEF BaseInv, Top
<1>1. GoodStack(stack') /\ stack' \in Seq(Frames)
  BY <1>0 DEF GoodStack
<1>2. DOMAIN stack' = 1..Len(stack') /\ (stack' = <<>> <=> Len(stack') = 0)
  BY <1>1, EmptyFacts
<1>3. /\ Len(stack') = Len(stack) + 1 /\ stack'[1] = f /\ Len(stack) \in Nat
      /\ \A i \in 2..(Len(stack) + 1) : stack'[i] = stack[i-1]
  BY PushFacts, BaseFacts
<1> QED
  BY <1>1, <1>2, <1>3

\* The round of a loop that calls an update() which runs on.
LEMMA RoundMove ==
    ASSUME BaseInv, stack # <<>>, Top.op = "notify",
           NEW g \in Frames, FrameTyped(g), g.op = "notify", g.node = Top.node,
           NEW f \in Frames, FrameTyped(f), f.op \in {"notify", "update"},
           stack' = <<f>> \o (<<g>> \o Tail(stack))
    PROVE  /\ GoodStack(stack') /\ Len(stack') = Len(stack) + 1
           /\ DOMAIN stack' = 1..Len(stack')
           /\ stack' # <<>> /\ stack'[1] = f /\ stack'[2] = g
           /\ \A i \in 1..Len(stack') : stack'[i].op \in {"notify", "update"}
           /\ \A i \in 3..Len(stack') : i - 1 \in 2..Len(stack) /\ stack'[i] = stack[i-1]
           /\ \A i \in 2..Len(stack) : i + 1 \in 3..Len(stack') /\ stack'[i+1] = stack[i]
           /\ \A i \in 2..Len(stack') : stack'[i].op = "notify"
<1> DEFINE s == <<g>> \o Tail(stack)
<1>0. /\ stack \in Seq(Frames) /\ Len(stack) \in Nat \ {0}
  BY BaseFacts
<1>1. /\ GoodStack(s) /\ s \in Seq(Frames) /\ Len(s) = Len(stack) /\ s[1] = g
      /\ \A i \in 2..Len(stack) : s[i] = stack[i]
  <2>1. GoodStack(s)
    BY ReplaceShape DEF BaseInv, Top
  <2>2. /\ s \in Seq(Frames) /\ Len(s) = Len(stack) /\ s[1] = g
        /\ \A i \in 2..Len(stack) : s[i] = stack[i]
    BY <1>0, ReplaceFacts
  <2> QED
    BY <2>1, <2>2
<1>2. ASSUME NEW i \in 1..Len(s) PROVE s[i].op = "notify"
  <2>1. 1 \in 1..Len(s)
    BY <1>0, <1>1
  <2>2. CASE i # 1
    <3>1. 1 < i
      BY <2>2
    <3> QED
      BY <2>1, <3>1, <1>1 DEF GoodStack
  <2> QED
    BY <2>2, <1>1
<1> HIDE DEF s
<1>3. stack' = <<f>> \o s /\ (s = <<>> <=> Len(s) = 0)
  BY <1>1, EmptyFacts DEF s
<1>4. \A i \in 1..Len(s) : ~IsReading(s[i])
  BY <1>2 DEF IsReading, ReadOps
<1>5. GoodStack(stack') /\ stack' \in Seq(Frames)
  <2>1. GoodStack(<<f>> \o s)
    BY <1>1, <1>4, PushShape
  <2> QED
    BY <2>1, <1>3 DEF GoodStack
<1>6. DOMAIN stack' = 1..Len(stack') /\ (stack' = <<>> <=> Len(stack') = 0)
  BY <1>5, EmptyFacts
<1>7. /\ Len(stack') = Len(s) + 1 /\ stack'[1] = f
      /\ \A i \in 2..(Len(s) + 1) : stack'[i] = s[i-1]
  BY <1>1, <1>3, PushFacts
<1>8. ASSUME NEW i \in 2..Len(stack') PROVE stack'[i].op = "notify"
  <2>1. i - 1 \in 1..Len(s) /\ stack'[i] = s[i-1]
    BY <1>0, <1>1, <1>7
  <2> QED
    BY <2>1, <1>2
<1>9. \A i \in 1..Len(stack') : stack'[i].op \in {"notify", "update"}
  BY <1>0, <1>1, <1>2, <1>7
<1>10. stack'[2] = g /\ stack' # <<>>
  BY <1>0, <1>1, <1>6, <1>7
<1>11. \A i \in 3..Len(stack') : i - 1 \in 2..Len(stack) /\ stack'[i] = stack[i-1]
  BY <1>0, <1>1, <1>7
<1>12. \A i \in 2..Len(stack) : i + 1 \in 3..Len(stack') /\ stack'[i+1] = stack[i]
  BY <1>0, <1>1, <1>7
<1> QED
  BY <1>1, <1>5, <1>6, <1>7, <1>8, <1>9, <1>10, <1>11, <1>12

\* What is left of the top frame of a loop after o's turn.
LEMMA RoundFrame ==
    ASSUME BaseInv, TopIs("notify"), NEW o, NEW g, g = [Top EXCEPT !.left = @ \ {o}]
    PROVE  /\ g \in Frames /\ FrameTyped(g) /\ g.op = "notify" /\ g.node = Top.node
           /\ g.left = Top.left \ {o}
           /\ \A i \in 1..Len(stack) : stack[i].op = "notify"
<1>1. Top \in Frames /\ FrameTyped(Top) /\ Top.op = "notify"
  BY BaseFacts DEF TopIs
<1>2. g \in Frames /\ g.op = "notify" /\ g.node = Top.node /\ g.left = Top.left \ {o}
  BY <1>1 DEF Frames
<1>3. FrameTyped(g)
  BY <1>1, <1>2 DEF FrameTyped, IsReading, ReadOps
<1>4. \A i \in 1..Len(stack) : stack[i].op = "notify"
  BY <1>1, BaseFacts DEF BaseInv, GoodStack, TopIs, Top
<1> QED
  BY <1>2, <1>3, <1>4

\* A round of a loop.
LEMMA NotifyNextBase ==
    ASSUME BaseInv, NEW o \in Readers \cup Links, NotifyNext(o)
    PROVE  BaseInv'
<1> DEFINE g == [Top EXCEPT !.left = @ \ {o}]
           rest == <<g>> \o Tail(stack)
<1>1. TypeOK /\ TopIs("notify") /\ stack # <<>> /\ Top.op = "notify"
  BY DEF BaseInv, NotifyNext, TopIs
<1>2. /\ g \in Frames /\ FrameTyped(g) /\ g.op = "notify" /\ g.node = Top.node
      /\ \A i \in 1..Len(stack) : stack[i].op = "notify"
  BY <1>1, RoundFrame
<1> HIDE DEF g
<1>3. /\ \/ \E f \in Frames : /\ FrameTyped(f) /\ f.op \in {"notify", "update"}
                              /\ stack' = <<f>> \o rest
         \/ stack' = rest
      /\ \/ calculated' = calculated
         \/ calculated' = [calculated EXCEPT ![o] = FALSE]
      /\ UNCHANGED <<graph, frozen, result, view, thrown, frozenAsked>>
  <2>1. CASE o \in Lazies /\ UpdateLazy(o, rest)
    <3>1. NotifyFrame(o) \in Frames /\ FrameTyped(NotifyFrame(o)) /\ NotifyFrame(o).op = "notify"
      BY <2>1, <1>1, NewFrames DEF Nodes, NotifyFrame, Frame
    <3> HIDE DEF rest
    <3> QED
      BY <3>1, <2>1 DEF UpdateLazy, NotifyNext
  <2>2. CASE o \in Links /\ stack' = <<NotifyFrame(o)>> \o rest /\ UNCHANGED calculated
    <3>1. NotifyFrame(o) \in Frames /\ FrameTyped(NotifyFrame(o)) /\ NotifyFrame(o).op = "notify"
      BY <2>2, <1>1, NewFrames DEF Nodes, NotifyFrame, Frame
    <3> HIDE DEF rest
    <3> QED
      BY <3>1, <2>2 DEF NotifyNext
  <2>3. CASE o \in Eagers /\ stack' = <<UpdateFrame(o)>> \o rest /\ UNCHANGED calculated
    <3>1. UpdateFrame(o) \in Frames /\ FrameTyped(UpdateFrame(o)) /\ UpdateFrame(o).op = "update"
      BY <2>3, <1>1, NewFrames DEF UpdateFrame, Frame
    <3> HIDE DEF rest
    <3> QED
      BY <3>1, <2>3 DEF NotifyNext
  <2> QED
    BY <2>1, <2>2, <2>3 DEF NotifyNext, g, rest
<1>4. /\ GoodStack(stack') /\ stack' # <<>> /\ DOMAIN stack' = 1..Len(stack')
      /\ \A i \in 1..Len(stack') : stack'[i].op \in {"notify", "update"}
  <2>1. CASE stack' = rest
    <3>1. GoodStack(stack') /\ stack' # <<>> /\ DOMAIN stack' = 1..Len(stack')
      BY <1>1, <1>2, <2>1, ReplaceMove
    <3>2. Len(stack') = Len(stack) /\ stack'[1] = g /\ \A i \in 2..Len(stack) : stack'[i] = stack[i]
      BY <1>1, <1>2, <2>1, ReplaceMove
    <3>3. \A i \in 1..Len(stack') : stack'[i].op = "notify"
      BY <1>2, <3>2, BaseFacts
    <3> QED
      BY <3>1, <3>3
  <2>2. ASSUME NEW f \in Frames, FrameTyped(f), f.op \in {"notify", "update"},
               stack' = <<f>> \o rest
        PROVE  /\ GoodStack(stack') /\ stack' # <<>> /\ DOMAIN stack' = 1..Len(stack')
               /\ \A i \in 1..Len(stack') : stack'[i].op \in {"notify", "update"}
    BY <1>1, <1>2, <2>2, RoundMove
  <2> QED
    BY <1>3, <2>1, <2>2
<1>5. \A i \in 1..Len(stack') : stack'[i].op # "calculate" /\ stack'[i].op # "recalculate"
  BY <1>4
<1>6. TypeOK'
  BY <1>1, <1>3, <1>4, <1>5 DEF TypeOK, graph
<1>7. CalculatingInv' /\ FreezeInv'
  <2>1. \A n \in Lazies : ~Recalculating(n)
    BY <1>2 DEF Recalculating
  <2> QED
    BY <1>3, <1>5, <2>1 DEF CalculatingInv, FreezeInv, BaseInv
<1> QED
  BY <1>4, <1>6, <1>7 DEF BaseInv

\* A return of any other call than recalculate.
LEMMA PopBase ==
    ASSUME BaseInv, stack # <<>>, Top.op # "recalculate", stack' = Tail(stack),
           UNCHANGED <<frozen, frozenAsked>>,
           \/ calculated' = calculated
           \/ /\ Top.op = "calculate"
              /\ calculated' = [calculated EXCEPT ![Top.node] = FALSE]
    PROVE  /\ GoodStack(stack') /\ CalculatingInv' /\ FreezeInv'
           /\ \A i \in DOMAIN stack' : stack'[i].op = "calculate" =>
                 stack'[i].node \in Lazies /\ calculated'[stack'[i].node]
<1>1. TypeOK /\ 1 \in 1..Len(stack) /\ Top = stack[1] /\ Len(stack) \in Nat
  BY BaseFacts DEF BaseInv
<1>2. /\ GoodStack(stack') /\ DOMAIN stack' = 1..Len(stack') /\ Len(stack) = Len(stack') + 1
      /\ \A i \in 1..Len(stack') : i + 1 \in 2..Len(stack) /\ stack'[i] = stack[i+1]
      /\ \A i \in 2..Len(stack) : i - 1 \in 1..Len(stack') /\ stack'[i-1] = stack[i]
  BY PopMove, <1>1
<1>3. ASSUME NEW i \in 1..Len(stack'), stack'[i].op = "calculate"
      PROVE  /\ stack'[i].node \in Lazies /\ calculated'[stack'[i].node]
             /\ ~frozen'[stack'[i].node]
  <2>1. /\ i + 1 \in 2..Len(stack) /\ i + 1 \in 1..Len(stack)
        /\ stack[i+1].op = "calculate" /\ stack'[i] = stack[i+1]
    BY <1>1, <1>2, <1>3
  <2>2. /\ stack[i+1].node \in Lazies /\ calculated[stack[i+1].node]
        /\ ~frozen[stack[i+1].node]
    BY <2>1, BaseFacts DEF BaseInv, CalculatingInv, FrameTyped
  <2>3. Top.op = "calculate" => stack[i+1].node # Top.node
    BY <2>1, <1>1 DEF BaseInv, GoodStack, IsReading, ReadOps
  <2> QED
    BY <2>1, <2>2, <2>3, <1>1 DEF TypeOK
<1>4. FreezeInv'
  <2>1. ASSUME NEW n \in Lazies, Recalculating(n) PROVE Recalculating(n)'
    <3>1. PICK i \in 1..Len(stack) : stack[i].op = "recalculate" /\ stack[i].node = n
      BY <2>1 DEF Recalculating
    <3>2. i # 1
      BY <3>1, <1>1
    <3>3. i \in 2..Len(stack)
      BY <3>2, <1>1
    <3>4. i - 1 \in 1..Len(stack') /\ stack'[i - 1] = stack[i]
      BY <3>3, <1>2
    <3> QED
      BY <3>1, <3>4 DEF Recalculating
  <2>2. ASSUME NEW i \in 1..Len(stack'), stack'[i].op = "recalculate"
        PROVE ~frozen'[stack'[i].node] /\ (stack'[i].flag <=> frozenAsked'[stack'[i].node])
    BY <2>2, <1>1, <1>2 DEF FreezeInv, BaseInv
  <2> QED
    BY <2>1, <2>2 DEF FreezeInv, BaseInv
<1> QED
  BY <1>2, <1>3, <1>4 DEF CalculatingInv

\* A step within the top frame, with all flags as they were.
LEMMA ReplaceBase ==
    ASSUME BaseInv, stack # <<>>, NEW f \in Frames, FrameTyped(f), f.op = Top.op,
           f.node = Top.node, f.op # "recalculate", stack' = <<f>> \o Tail(stack),
           UNCHANGED <<calculated, frozen, frozenAsked>>
    PROVE  /\ GoodStack(stack') /\ CalculatingInv' /\ FreezeInv' /\ stack' # <<>>
           /\ \A i \in DOMAIN stack' : stack'[i].op = "calculate" =>
                 stack'[i].node \in Lazies /\ calculated'[stack'[i].node]
<1>1. TypeOK /\ 1 \in 1..Len(stack) /\ Top = stack[1] /\ Len(stack) \in Nat
  BY BaseFacts DEF BaseInv
<1>2. /\ GoodStack(stack') /\ Len(stack') = Len(stack) /\ DOMAIN stack' = 1..Len(stack)
      /\ stack' # <<>> /\ stack'[1] = f
      /\ \A i \in 2..Len(stack) : stack'[i] = stack[i]
  BY ReplaceMove
<1>3. /\ \A i \in 1..Len(stack) : stack'[i].op = stack[i].op /\ stack'[i].node = stack[i].node
      /\ \A i \in 1..Len(stack) : stack[i].op = "recalculate" => stack'[i] = stack[i]
  BY <1>1, <1>2
<1>4. CalculatingInv' /\ FreezeInv'
  BY <1>1, <1>2, <1>3 DEF BaseInv, CalculatingInv, FreezeInv, Recalculating
<1>5. \A i \in DOMAIN stack' : stack'[i].op = "calculate" =>
                 stack'[i].node \in Lazies /\ calculated'[stack'[i].node]
  BY <1>1, <1>2, <1>3, BaseFacts DEF TypeOK
<1> QED
  BY <1>2, <1>4, <1>5

\* The call of a calculation from within a calculation or an update().
LEMMA CalculateBase ==
    ASSUME BaseInv, stack # <<>>, NEW x \in Lazies, ~calculated[x], ~frozen[x],
           calculated' = [calculated EXCEPT ![x] = TRUE], Call(CalculateFrame(x)),
           UNCHANGED <<inputs, frozen, frozenAsked>>
    PROVE  /\ GoodStack(stack') /\ CalculatingInv' /\ FreezeInv' /\ stack' # <<>>
           /\ Len(stack') = Len(stack) + 1 /\ stack'[1] = CalculateFrame(x)
           /\ \A i \in 2..Len(stack') : i - 1 \in 1..Len(stack) /\ stack'[i] = stack[i-1]
           /\ \A i \in 1..Len(stack) : i + 1 \in 1..Len(stack') /\ stack'[i+1] = stack[i]
           /\ \A i \in DOMAIN stack' : stack'[i].op = "calculate" =>
                 stack'[i].node \in Lazies /\ calculated'[stack'[i].node]
<1> DEFINE f == CalculateFrame(x)
<1>1. TypeOK /\ Len(stack) \in Nat
  BY BaseFacts DEF BaseInv
<1>2. f \in Frames /\ FrameTyped(f) /\ f.op = "calculate" /\ f.node = x
  BY <1>1, NewFrames DEF CalculateFrame, Frame
<1>3. \A i \in 1..Len(stack) : IsReading(stack[i]) => stack[i].node # x
  BY ClassesAssumption, BaseFacts DEF BaseInv, CalculatingInv, IsReading, ReadOps, FrameTyped
<1>4. stack' = <<f>> \o stack
  BY DEF Call
<1> HIDE DEF f
<1>5. /\ GoodStack(stack') /\ Len(stack') = Len(stack) + 1
      /\ DOMAIN stack' = 1..Len(stack') /\ stack' # <<>> /\ stack'[1] = f
      /\ \A i \in 2..Len(stack') : i - 1 \in 1..Len(stack) /\ stack'[i] = stack[i-1]
      /\ \A i \in 1..Len(stack) : i + 1 \in 1..Len(stack') /\ stack'[i+1] = stack[i]
  BY <1>2, <1>3, <1>4, CallMove
<1>6. ASSUME NEW i \in 1..Len(stack'), stack'[i].op = "calculate"
      PROVE  /\ stack'[i].node \in Lazies /\ calculated'[stack'[i].node]
             /\ ~frozen'[stack'[i].node]
  <2>1. CASE i = 1
    BY <2>1, <1>1, <1>2, <1>5 DEF TypeOK
  <2>2. CASE i # 1
    <3>1. i - 1 \in 1..Len(stack) /\ stack'[i] = stack[i-1]
      BY <2>2, <1>1, <1>5
    <3>2. /\ stack[i-1].node \in Lazies /\ calculated[stack[i-1].node]
          /\ ~frozen[stack[i-1].node]
      BY <3>1, <1>6, BaseFacts DEF BaseInv, CalculatingInv, FrameTyped
    <3> QED
      BY <3>1, <3>2, <1>1 DEF TypeOK
  <2> QED
    BY <2>1, <2>2
<1>7. FreezeInv'
  <2>1. ASSUME NEW n \in Lazies PROVE Recalculating(n) => Recalculating(n)'
    BY <1>1, <1>5 DEF Recalculating
  <2>2. ASSUME NEW i \in 1..Len(stack'), stack'[i].op = "recalculate"
        PROVE ~frozen'[stack'[i].node] /\ (stack'[i].flag <=> frozenAsked'[stack'[i].node])
    <3>1. i # 1
      BY <2>2, <1>2, <1>5
    <3> QED
      BY <3>1, <2>2, <1>1, <1>5 DEF FreezeInv, BaseInv
  <2> QED
    BY <2>1, <2>2 DEF FreezeInv, BaseInv
<1> QED
  BY <1>5, <1>6, <1>7 DEF CalculatingInv, f

\* The outcomes of reading an input: a result is merged in, a handle followed,
\* an exception thrown, or a calculation called.
ReadCached(x, r, f) ==
    /\ FrameTyped(f) /\ f.op = Top.op /\ f.node = Top.node
    /\ f.left = Top.left \ {x} /\ f.acc = Merge(Top.acc, r)
    /\ Become(f) /\ UNCHANGED <<calculated, thrown>>
ReadLink(x, f) ==
    /\ x \in Links /\ link[x] # Null
    /\ FrameTyped(f) /\ f.op = Top.op /\ f.node = Top.node
    /\ f.left = (Top.left \ {x}) \cup {link[x]} /\ f.acc = Top.acc
    /\ Become(f) /\ UNCHANGED <<calculated, thrown>>
ReadCall(x) ==
    /\ x \in Lazies /\ ~calculated[x] /\ ~frozen[x]
    /\ calculated' = [calculated EXCEPT ![x] = TRUE]
    /\ Call(CalculateFrame(x)) /\ UNCHANGED thrown

LEMMA ReadMove ==
    ASSUME BaseInv, NEW x \in Nodes, Read(x)
    PROVE  /\ stack # <<>> /\ IsReading(Top) /\ ~thrown /\ x \in Top.left
           /\ UNCHANGED <<graph, frozen, result, view, frozenAsked>>
           /\ \/ /\ x \in Quotes /\ value[x] # Null /\ ValueOf(x) \in Provenances
                 /\ \E f \in Frames : ReadCached(x, ValueOf(x), f)
              \/ /\ x \in Lazies /\ (calculated[x] \/ frozen[x]) /\ result[x] \in Provenances
                 /\ \E f \in Frames : ReadCached(x, result[x], f)
              \/ \E f \in Frames : ReadLink(x, f)
              \/ thrown' = TRUE /\ UNCHANGED <<calculated, stack>>
              \/ ReadCall(x)
<1>1. /\ TypeOK /\ stack # <<>> /\ IsReading(Top) /\ ~thrown /\ x \in Top.left
      /\ UNCHANGED <<graph, frozen, result, view, frozenAsked>>
  BY DEF BaseInv, Read, TopIs, IsReading, ReadOps
<1>2. Top \in Frames /\ FrameTyped(Top)
  BY <1>1, BaseFacts
<1> DEFINE done == [Top EXCEPT !.left = @ \ {x}]
           With(r) == [done EXCEPT !.acc = Merge(@, r)]
           To == [done EXCEPT !.left = @ \cup {link[x]}]
<1>a. /\ done \in Frames /\ done.op = Top.op /\ done.node = Top.node
      /\ done.left = Top.left \ {x} /\ done.acc = Top.acc
  BY <1>2 DEF Frames
<1> HIDE DEF done
<1>3. ASSUME NEW r \in Provenances, Become(With(r)), UNCHANGED <<calculated, thrown>>
      PROVE  \E f \in Frames : ReadCached(x, r, f)
  <2> DEFINE f == With(r)
  <2>1. /\ f \in Frames /\ FrameTyped(f) /\ f.op = Top.op /\ f.node = Top.node
        /\ f.left = Top.left \ {x} /\ f.acc = Merge(Top.acc, r)
    <3>1. Merge(Top.acc, r) \in Provenances
      BY <1>2 DEF Frames, Merge, Provenances
    <3>2. /\ f \in Frames /\ f.op = Top.op /\ f.node = Top.node
          /\ f.left = Top.left \ {x} /\ f.acc = Merge(Top.acc, r)
      BY <1>a, <3>1 DEF Frames
    <3> HIDE DEF f
    <3>3. FrameTyped(f)
      BY <1>1, <1>2, <3>2 DEF FrameTyped, IsReading, ReadOps
    <3> QED
      BY <3>2, <3>3
  <2> HIDE DEF f
  <2>2. Become(f)
    BY <1>3 DEF f
  <2> QED
    BY <1>3, <2>1, <2>2 DEF ReadCached
<1>4. ASSUME x \in Links, link[x] # Null, Become(To), UNCHANGED <<calculated, thrown>>
      PROVE  \E f \in Frames : ReadLink(x, f)
  <2>1. {link[x]} \in SUBSET Nodes
    BY <1>1, <1>4, GraphsAssumption DEF TypeOK, Nodes
  <2>2. /\ To \in Frames /\ FrameTyped(To) /\ To.op = Top.op /\ To.node = Top.node
        /\ To.left = (Top.left \ {x}) \cup {link[x]} /\ To.acc = Top.acc
    <3>1. /\ To \in Frames /\ To.op = Top.op /\ To.node = Top.node
          /\ To.left = (Top.left \ {x}) \cup {link[x]} /\ To.acc = Top.acc
      BY <1>a, <2>1 DEF Frames
    <3> HIDE DEF To
    <3>2. FrameTyped(To)
      BY <1>1, <1>2, <2>1, <3>1 DEF FrameTyped, IsReading, ReadOps
    <3> QED
      BY <3>1, <3>2
  <2> HIDE DEF To
  <2> QED
    BY <1>4, <2>2 DEF ReadLink
<1>6. x \in Quotes /\ value[x] # Null => ValueOf(x) \in Provenances
  BY <1>1 DEF TypeOK, ValueOf, Provenances
<1>7. x \in Lazies => result[x] \in Provenances
  BY <1>1 DEF TypeOK
<1>8. \/ /\ x \in Quotes /\ value[x] # Null /\ Become(With(ValueOf(x)))
         /\ UNCHANGED <<calculated, thrown>>
      \/ /\ x \in Links /\ link[x] # Null /\ Become(To)
         /\ UNCHANGED <<calculated, thrown>>
      \/ thrown' = TRUE /\ UNCHANGED <<calculated, stack>>
      \/ /\ x \in Lazies /\ (calculated[x] \/ frozen[x])
         /\ Become(With(result[x])) /\ UNCHANGED <<calculated, thrown>>
      \/ ReadCall(x)
  BY DEF Read, ReadCall, done
<1> HIDE DEF With, To
<1> QED
  BY <1>1, <1>3, <1>4, <1>6, <1>7, <1>8

\* Reading an input.
LEMMA ReadBase == ASSUME BaseInv, NEW x \in Nodes, Read(x) PROVE BaseInv'
<1>1. /\ TypeOK /\ stack # <<>> /\ IsReading(Top) /\ ~thrown
      /\ UNCHANGED <<graph, frozen, result, view, frozenAsked>>
  BY ReadMove DEF BaseInv
<1>2. ASSUME NEW f \in Frames, FrameTyped(f), f.op = Top.op, f.node = Top.node,
             Become(f), UNCHANGED <<calculated, thrown>>
      PROVE  BaseInv'
  <2>1. /\ GoodStack(stack') /\ CalculatingInv' /\ FreezeInv' /\ stack' # <<>>
        /\ \A i \in DOMAIN stack' : stack'[i].op = "calculate" =>
              stack'[i].node \in Lazies /\ calculated'[stack'[i].node]
    BY <1>1, <1>2, ReplaceBase DEF Become, IsReading, ReadOps
  <2>2. TypeOK'
    BY <2>1, <1>1, <1>2 DEF TypeOK, graph
  <2> QED
    BY <2>1, <2>2 DEF BaseInv
<1>3. CASE thrown' = TRUE /\ UNCHANGED <<calculated, stack>>
  <2>1. TypeOK'
    BY <1>1, <1>3 DEF TypeOK, graph
  <2> QED
    BY <2>1, <1>1, <1>3 DEF BaseInv, CalculatingInv, FreezeInv, Recalculating
<1>4. CASE ReadCall(x)
  <2>1. /\ GoodStack(stack') /\ CalculatingInv' /\ FreezeInv' /\ stack' # <<>>
        /\ \A i \in DOMAIN stack' : stack'[i].op = "calculate" =>
              stack'[i].node \in Lazies /\ calculated'[stack'[i].node]
    BY <1>1, <1>4, CalculateBase DEF graph, ReadCall
  <2>2. TypeOK'
    BY <2>1, <1>1, <1>4 DEF TypeOK, graph, ReadCall
  <2> QED
    BY <2>1, <2>2 DEF BaseInv
<1> QED
  BY <1>2, <1>3, <1>4, ReadMove DEF ReadCached, ReadLink

\* The rest of recalculate, which is alone on the stack.
LEMMA RecalculateEndBase ==
    ASSUME BaseInv, RecalculateEnd
    PROVE  /\ BaseInv' /\ Len(stack) = 1 /\ Len(stack') = 1 /\ Top.node \in Lazies
           /\ stack'[1] = NotifyFrame(Top.node)
<1> DEFINE f == NotifyFrame(Top.node)
<1>1. /\ TypeOK /\ stack # <<>> /\ Top.op = "recalculate" /\ Top = stack[1]
      /\ Top.node \in Lazies /\ Top \in Frames /\ 1 \in 1..Len(stack)
  BY BaseFacts DEF BaseInv, RecalculateEnd, TopIs, FrameTyped
<1>2. Len(stack) = 1
  <2>1. Len(stack) \in Nat /\ Len(stack) >= 1
    BY <1>1, BaseFacts
  <2>2. ASSUME Len(stack) >= 2 PROVE FALSE
    <3>1. 1 \in 1..Len(stack) /\ 2 \in 1..Len(stack) /\ 1 < 2
      BY <2>1, <2>2
    <3> QED
      BY <3>1, <1>1 DEF BaseInv, GoodStack
  <2>3. \A k \in Nat : k >= 1 /\ ~(k >= 2) => k = 1
    OBVIOUS
  <2> QED
    BY <2>1, <2>2, <2>3
<1>3. f \in Frames /\ FrameTyped(f) /\ f.op = "notify"
  BY <1>1, NewFrames DEF NotifyFrame, Frame, Nodes
<1> HIDE DEF f
<1>4. /\ stack' \in Seq(Frames) /\ Len(stack') = 1 /\ stack'[1] = f
      /\ DOMAIN stack' = 1..1 /\ stack' # <<>>
  <2>1. stack' = <<f>> \o Tail(stack)
    BY DEF RecalculateEnd, Become, f
  <2>2. stack' \in Seq(Frames) /\ Len(stack') = 1 /\ stack'[1] = f
    BY <2>1, <1>1, <1>2, <1>3, ReplaceFacts, BaseFacts
  <2> QED
    BY <2>2, EmptyFacts
<1>5. GoodStack(stack') /\ CalculatingInv'
  BY <1>3, <1>4 DEF GoodStack, CalculatingInv
<1>6. Top.flag \in BOOLEAN
  BY <1>1 DEF Frames
<1>7. TypeOK'
  <2>1. frozen' \in [Lazies -> BOOLEAN]
    BY <1>1, <1>6 DEF TypeOK, RecalculateEnd
  <2>2. \A i \in DOMAIN stack' : stack'[i].op # "calculate"
    BY <1>3, <1>4
  <2> QED
    BY <1>1, <1>4, <2>1, <2>2 DEF TypeOK, RecalculateEnd, graph
<1>8. FreezeInv'
  <2>1. \A n \in Lazies : n # Top.node => (frozen[n] <=> frozenAsked[n])
    BY <1>1, <1>2 DEF BaseInv, FreezeInv, Recalculating
  <2>2. Top.flag <=> frozenAsked[Top.node]
    BY <1>1, <1>2 DEF BaseInv, FreezeInv
  <2>3. \A n \in Lazies : frozen'[n] <=> frozenAsked'[n]
    BY <2>1, <2>2, <1>1, <1>6 DEF TypeOK, RecalculateEnd
  <2> QED
    BY <2>3, <1>3, <1>4 DEF FreezeInv
<1> QED
  BY <1>1, <1>2, <1>4, <1>5, <1>7, <1>8 DEF BaseInv, f

\* Every step of the running call.
LEMMA StepBase == ASSUME BaseInv, Step PROVE BaseInv'
<1>1. TypeOK
  BY DEF BaseInv
<1>2. CASE NotifyCatch
  <2> DEFINE f == [Top EXCEPT !.flag = TRUE]
  <2>1. stack # <<>> /\ Top \in Frames /\ FrameTyped(Top) /\ Top.op = "notify"
    BY <1>2, BaseFacts DEF NotifyCatch, TopIs
  <2>2. f \in Frames /\ f.op = "notify" /\ f.node = Top.node /\ f.left = Top.left
    BY <2>1 DEF Frames
  <2>3. FrameTyped(f)
    BY <2>1, <2>2 DEF FrameTyped, IsReading, ReadOps
  <2>4. stack' = <<f>> \o Tail(stack)
    BY <1>2 DEF NotifyCatch, Become
  <2> HIDE DEF f
  <2>5. /\ GoodStack(stack') /\ CalculatingInv' /\ FreezeInv' /\ stack' # <<>>
        /\ \A i \in DOMAIN stack' : stack'[i].op = "calculate" =>
              stack'[i].node \in Lazies /\ calculated'[stack'[i].node]
    BY <1>2, <2>1, <2>2, <2>3, <2>4, ReplaceBase DEF NotifyCatch
  <2>6. TypeOK'
    BY <1>1, <1>2, <2>5 DEF TypeOK, NotifyCatch, graph
  <2> QED
    BY <2>5, <2>6 DEF BaseInv
<1>3. CASE NotifyEnd
  <2>1. Top \in Frames /\ stack # <<>> /\ Top.op = "notify" /\ Top.flag \in BOOLEAN
    BY <1>3, BaseFacts DEF NotifyEnd, TopIs, Frames
  <2>2. /\ GoodStack(stack') /\ CalculatingInv' /\ FreezeInv'
        /\ \A i \in DOMAIN stack' : stack'[i].op = "calculate" =>
              stack'[i].node \in Lazies /\ calculated'[stack'[i].node]
    BY <1>3, <2>1, PopBase DEF NotifyEnd, Return
  <2>3. TypeOK'
    BY <1>1, <1>3, <2>1, <2>2 DEF TypeOK, NotifyEnd, Return, graph
  <2> QED
    BY <2>2, <2>3 DEF BaseInv
<1>4. CASE CalculateEnd
  <2>1. /\ Top \in Frames /\ stack # <<>> /\ Top.op = "calculate"
        /\ Top.node \in Lazies /\ Top.acc \in Provenances
    BY <1>4, BaseFacts DEF CalculateEnd, TopIs, Frames, FrameTyped
  <2>2. /\ GoodStack(stack') /\ CalculatingInv' /\ FreezeInv'
        /\ \A i \in DOMAIN stack' : stack'[i].op = "calculate" =>
              stack'[i].node \in Lazies /\ calculated'[stack'[i].node]
    BY <1>4, <2>1, PopBase DEF CalculateEnd, Return
  <2>3. TypeOK'
    BY <1>1, <1>4, <2>1, <2>2 DEF TypeOK, CalculateEnd, Return, graph
  <2> QED
    BY <2>2, <2>3 DEF BaseInv
<1>5. CASE CalculateThrow
  <2>1. /\ stack # <<>> /\ Top.op = "calculate" /\ Top.node \in Lazies
    BY <1>5, BaseFacts DEF CalculateThrow, TopIs, FrameTyped
  <2>2. /\ GoodStack(stack') /\ CalculatingInv' /\ FreezeInv'
        /\ \A i \in DOMAIN stack' : stack'[i].op = "calculate" =>
              stack'[i].node \in Lazies /\ calculated'[stack'[i].node]
    BY <1>5, <2>1, PopBase DEF CalculateThrow, Return
  <2>3. TypeOK'
    BY <1>1, <1>5, <2>1, <2>2 DEF TypeOK, CalculateThrow, Return, graph
  <2> QED
    BY <2>2, <2>3 DEF BaseInv
<1>6. CASE UpdateEnd
  <2>1. /\ Top \in Frames /\ stack # <<>> /\ Top.op = "update"
        /\ Top.node \in Eagers /\ Top.acc \in Provenances
    BY <1>6, BaseFacts DEF UpdateEnd, TopIs, Frames, FrameTyped
  <2>2. /\ GoodStack(stack') /\ CalculatingInv' /\ FreezeInv'
        /\ \A i \in DOMAIN stack' : stack'[i].op = "calculate" =>
              stack'[i].node \in Lazies /\ calculated'[stack'[i].node]
    BY <1>6, <2>1, PopBase DEF UpdateEnd, Return
  <2>3. stack' # <<>>
    <3>1. 1 # Len(stack)
      BY <2>1, BaseFacts DEF BaseInv, GoodStack
    <3> QED
      BY <3>1, <2>1, <1>6, PopMove DEF UpdateEnd, Return
  <2>4. TypeOK'
    BY <1>1, <1>6, <2>1, <2>2, <2>3 DEF TypeOK, UpdateEnd, Return, graph
  <2> QED
    BY <2>2, <2>4 DEF BaseInv
<1> QED
  BY <1>2, <1>3, <1>4, <1>5, <1>6, NotifyNextBase, ReadBase, RecalculateEndBase DEF Step

\* The shape of the stack, and the flags that go with it, for every client.
LEMMA BaseInvariant == Spec => []BaseInv
<1>1. BaseInv /\ UNCHANGED vars => BaseInv'
  BY DEF BaseInv, TypeOK, CalculatingInv, FreezeInv, Recalculating, vars
<1>2. BaseInv /\ [Next]_vars => BaseInv'
  BY <1>1, ClientBase, StepBase DEF Next
<1> QED
  BY <1>2, BaseInit, PTL DEF Spec

\* Every variable keeps its type, an exception is on its way only while a call
\* runs, and an object whose calculation runs has its flag set: no notification,
\* exception or recalculation clears it under the calculation's feet
\* (lazyobject.hpp:146-157).
THEOREM TypeCorrect == Spec => []TypeOK
<1>1. BaseInv => TypeOK
  BY DEF BaseInv
<1> QED
  BY <1>1, BaseInvariant, PTL

\* freeze(), unfreeze() and nothing else decide whether an object is frozen
\* between calls: recalculate() restores the flag it clears, also when the
\* calculation throws (lazyobject.hpp:118-130).
THEOREM FreezeAlwaysSurvives == Spec => []FreezeSurvives
<1>1. BaseInv => FreezeSurvives
  <2> SUFFICES ASSUME BaseInv, Idle PROVE frozen = frozenAsked
    BY DEF FreezeSurvives
  <2>1. Len(stack) = 0 /\ TypeOK
    BY BaseFacts DEF BaseInv, Idle
  <2>2. \A n \in Lazies : frozen[n] <=> frozenAsked[n]
    BY <2>1 DEF BaseInv, FreezeInv, Recalculating
  <2>3. frozen \in [Lazies -> BOOLEAN] /\ frozenAsked \in [Lazies -> BOOLEAN]
    BY <2>1 DEF TypeOK
  <2>4. \A n \in Lazies : frozen[n] = frozenAsked[n]
    BY <2>2, <2>3
  <2> QED
    BY <2>3, <2>4
<1> QED
  BY <1>1, BaseInvariant, PTL

\* While an object is frozen no step changes its results: whoever calculates is
\* not frozen, and recalculate() thaws the object first (lazyobject.hpp:61-63,
\* 118-130, 143-157).
THEOREM FrozenAlwaysKeepsResult == Spec => FrozenKeepsResult
<1>1. BaseInv /\ [Next]_vars =>
        [\A n \in Lazies : frozen[n] => result'[n] = result[n]]_vars
  <2> SUFFICES ASSUME BaseInv, Next, NEW n \in Lazies, frozen[n]
               PROVE  result'[n] = result[n]
    OBVIOUS
  <2>1. CASE CalculateEnd
    <3>1. /\ TypeOK /\ Top.op = "calculate" /\ Top.node \in Lazies /\ ~frozen[Top.node]
      BY <2>1, BaseFacts DEF BaseInv, CalculateEnd, TopIs, FrameTyped, CalculatingInv
    <3> QED
      BY <3>1, <2>1 DEF TypeOK, CalculateEnd
  <2>2. CASE Client
    BY <2>2 DEF Client, setValue, Ask, freeze, unfreeze, recalculate, linkTo
  <2>3. CASE Step /\ ~CalculateEnd
    BY <2>3 DEF Step, NotifyNext, NotifyCatch, NotifyEnd, Read, CalculateThrow, UpdateEnd,
                RecalculateEnd
  <2> QED
    BY <2>1, <2>2, <2>3 DEF Next
<1> QED
  BY <1>1, BaseInvariant, PTL DEF Spec, FrozenKeepsResult

-----------------------------------------------------------------------------
(* Caches are current.                                                     *)

\* R orders the objects: what a reader reads, directly or through any handle,
\* comes before it.
Orders(R) ==
    /\ \A x, y, z : <<x, y>> \in R /\ <<y, z>> \in R => <<x, z>> \in R
    /\ \A x : <<x, x>> \notin R
    /\ \A g \in Graphs : \A r \in Readers :
          /\ \A x \in g[r] \ Links : <<x, r>> \in R
          /\ g[r] \cap Links # {} => \A t \in Targets : <<t, r>> \in R

Reading(r) ==
    \E i \in 1..Len(stack) : IsReading(stack[i]) /\ stack[i].node = r

\* x can be read without calculation, and is not being calculated.
Settled(x) ==
    /\ x \in Quotes => value[x] # Null
    /\ x \in Lazies => ~Reading(x) /\ (calculated[x] \/ frozen[x])

\* The update() calls frame f will still make.
ToCall(f) ==
    CASE f.op = "notify" -> f.left
      [] f.op = "recalculate" -> ObserversOf(f.node)
      [] OTHER -> {}

\* Some frame will still call update() of r, or of a handle that r reads.
Told(r) ==
    \E i \in 1..Len(stack) : \E o \in ToCall(stack[i]) :
        o = r \/ (o \in Links /\ o \in inputs[r])

\* r reads through a handle that does not observe what it leads to.
Loose(r) == \E h \in Links : h \in inputs[r] /\ link[h] # Null /\ ~isObserver[h]

Holds(r) == IF r \in Lazies THEN calculated[r] ELSE view[r] \notin {Unread, Failed}
Stored(r) == IF r \in Lazies THEN result[r] ELSE view[r]

Current(r) ==
    /\ \A x \in Followed(r) : x # Null /\ Settled(x)
    /\ Stored(r) = ReadNow(r)

\* Whoever keeps a result, and is not just making another, has a current one or
\* is about to be told.
HeldIsCurrent ==
    \A r \in Readers : Holds(r) /\ ~Reading(r) => Told(r) \/ Loose(r) \/ Current(r)

\* The inputs of the reader of f that f has read: none of them is going to
\* change while f is on the stack.
Done(f) ==
    {x \in Followed(f.node) \ f.left :
        \/ x \in inputs[f.node]
        \/ \E h \in Links : h \in inputs[f.node] \ f.left /\ link[h] = x}

FrameReads(f) ==
    /\ f.left \subseteq inputs[f.node] \cup Followed(f.node)
    /\ \A h \in Links : h \in inputs[f.node] \ f.left => link[h] # Null
    /\ \A x \in Done(f) : Settled(x) /\ \A q \in Quotes : Cached(x)[q] \subseteq f.acc[q]
    /\ \A q \in Quotes : \A v \in f.acc[q] :
          \E x \in Followed(f.node) : x # Null /\ Settled(x) /\ v \in Cached(x)[q]

FramesRead == \A i \in 1..Len(stack) : IsReading(stack[i]) => FrameReads(stack[i])

\* Along the stack every reader is an input, direct or not, of those below it.
Descending(R) ==
    \A i, j \in 1..Len(stack) : i < j /\ IsReading(stack[i]) /\ IsReading(stack[j])
        => <<stack[i].node, stack[j].node>> \in R

CInv(R) == HeldIsCurrent /\ FramesRead /\ Descending(R)

-----------------------------------------------------------------------------
(* What a step that starts from a current reader must leave alone.         *)

\* Objects outside X that can be read without calculation stay so, with the
\* results they have.
KeepsAllBut(X) ==
    /\ UNCHANGED <<inputs, link, isObserver>>
    /\ \A x \in (Quotes \cup Lazies) \ X :
          Settled(x) => Settled(x)' /\ Cached(x)' = Cached(x)

LEMMA FollowedType ==
    ASSUME BaseInv, NEW r \in Readers
    PROVE  /\ inputs[r] \subseteq Nodes
           /\ Followed(r) \subseteq Quotes \cup Lazies \cup {Null}
           /\ \A x \in Followed(r) :
                 \/ x \in inputs[r] \ Links
                 \/ \E h \in Links : h \in inputs[r] /\ link[h] = x
           /\ inputs[r] \ Links \subseteq Followed(r)
           /\ \A h \in Links : h \in inputs[r] => link[h] \in Followed(r)
<1>1. inputs[r] \subseteq Nodes /\ \A h \in Links : link[h] \in Targets \cup {Null}
  BY GraphsAssumption DEF BaseInv, TypeOK
<1> QED
  BY <1>1, GraphsAssumption DEF Followed, Nodes

\* Whoever depends on x is reached by a notification of x, unless a handle in
\* between does not observe.
LEMMA DependentsTold ==
    ASSUME BaseInv, NEW r \in Readers, NEW x \in Followed(r), x # Null
    PROVE  \/ Loose(r)
           \/ \E o \in ObserversOf(x) : o = r \/ (o \in Links /\ o \in inputs[r])
<1>1. CASE x \in inputs[r] \ Links
  BY <1>1 DEF ObserversOf
<1>2. ASSUME NEW h \in Links, h \in inputs[r], link[h] = x
      PROVE  \/ Loose(r)
             \/ \E o \in ObserversOf(x) : o = r \/ (o \in Links /\ o \in inputs[r])
  BY <1>2 DEF ObserversOf, Loose
<1> QED
  BY <1>1, <1>2, FollowedType

\* What r read is still there to be read.
LEMMA ReadKept ==
    ASSUME BaseInv, NEW X, KeepsAllBut(X), NEW r \in Readers,
           \A x \in Followed(r) : x # Null /\ Settled(x) /\ x \notin X
    PROVE  /\ \A x \in Followed(r)' : x # Null /\ Settled(x)'
           /\ ReadNow(r)' = ReadNow(r)
<1>1. Followed(r)' = Followed(r)
  BY DEF KeepsAllBut, Followed
<1>2. \A x \in Followed(r) : Settled(x)' /\ Cached(x)' = Cached(x)
  BY FollowedType DEF KeepsAllBut
<1>3. ASSUME NEW q \in Quotes
      PROVE  UNION {Cached(x)'[q] : x \in Followed(r)'} = UNION {Cached(x)[q] : x \in Followed(r)}
  <2>1. {Cached(x)'[q] : x \in Followed(r)'} = {Cached(x)[q] : x \in Followed(r)}
    BY <1>1, <1>2
  <2> QED
    BY <2>1
<1>4. ReadNow(r)' = ReadNow(r)
  BY <1>3 DEF ReadNow
<1> QED
  BY <1>1, <1>2, <1>4

\* A reader keeps what it has if nothing it read is touched, or else is told.
LEMMA HeldKept ==
    ASSUME BaseInv, HeldIsCurrent, NEW X, KeepsAllBut(X), NEW r \in Readers,
           Stored(r)' = Stored(r), Holds(r)' => Holds(r), Reading(r) => Reading(r)',
           Told(r) => Told(r)' \/ ~Holds(r)',
           \A x \in Followed(r) : x \in X => Told(r)' \/ Loose(r)
    PROVE  Holds(r)' /\ ~Reading(r)' => Told(r)' \/ Loose(r)' \/ Current(r)'
<1> SUFFICES ASSUME Holds(r)', ~Reading(r)', ~Told(r)', ~Loose(r)' PROVE Current(r)'
  OBVIOUS
<1>1. ~Loose(r)
  BY DEF Loose, KeepsAllBut
<1>2. Current(r) /\ \A x \in Followed(r) : x \notin X
  BY <1>1 DEF HeldIsCurrent
<1>3. /\ \A x \in Followed(r)' : x # Null /\ Settled(x)'
      /\ ReadNow(r)' = ReadNow(r)
  BY <1>2, ReadKept DEF Current
<1> QED
  BY <1>2, <1>3 DEF Current

\* What a frame read it would read again.
LEMMA FrameKept ==
    ASSUME BaseInv, KeepsAllBut({}), NEW f, f.node \in Readers, FrameReads(f)
    PROVE  FrameReads(f)'
<1> DEFINE r == f.node
<1>1. Followed(r)' = Followed(r) /\ Done(f)' = Done(f)
  BY DEF KeepsAllBut, Followed, Done
<1>2. \A x \in Followed(r) : x # Null /\ Settled(x) => Settled(x)' /\ Cached(x)' = Cached(x)
  BY FollowedType DEF KeepsAllBut
<1>3. \A x \in Done(f) : x \in Followed(r) /\ x # Null
  <2> SUFFICES ASSUME NEW x \in Done(f) PROVE x # Null
    BY DEF Done
  <2>1. CASE x \in inputs[r]
    BY <2>1, FollowedType, ClassesAssumption
  <2>2. ASSUME NEW h \in Links, h \in inputs[r] \ f.left, link[h] = x PROVE x # Null
    BY <2>2 DEF FrameReads
  <2> QED
    BY <2>1, <2>2 DEF Done
<1>4. f.left \subseteq inputs'[r] \cup Followed(r)'
  BY <1>1 DEF FrameReads, KeepsAllBut
<1>5. \A h \in Links : h \in inputs'[r] \ f.left => link'[h] # Null
  BY DEF FrameReads, KeepsAllBut
<1>6. \A x \in Done(f)' : Settled(x)' /\ \A q \in Quotes : Cached(x)'[q] \subseteq f.acc[q]
  BY <1>1, <1>2, <1>3 DEF FrameReads
<1>7. \A q \in Quotes : \A v \in f.acc[q] :
        \E x \in Followed(r)' : x # Null /\ Settled(x)' /\ v \in Cached(x)'[q]
  BY <1>1, <1>2 DEF FrameReads
<1> QED
  BY <1>4, <1>5, <1>6, <1>7 DEF FrameReads

\* Every frame that is not new was on the stack before, and keeps what it read.
LEMMA FramesKept ==
    ASSUME BaseInv, FramesRead, KeepsAllBut({}), NEW f,
           \E i \in 1..Len(stack) : stack[i] = f, IsReading(f)
    PROVE  FrameReads(f)'
<1>1. PICK i \in 1..Len(stack) : stack[i] = f
  OBVIOUS
<1>2. f.node \in Readers
  BY <1>1, BaseFacts DEF FrameTyped, IsReading, ReadOps, Readers
<1> QED
  BY <1>1, <1>2, FrameKept DEF FramesRead

\* A frame that has read nothing yet.
LEMMA NewFrameReads ==
    ASSUME BaseInv, UNCHANGED <<inputs, link>>, NEW f, f.node \in Readers,
           f.left = inputs[f.node], f.acc = Nothing
    PROVE  FrameReads(f)'
<1>1. Done(f)' = {}
  BY DEF Done, Followed
<1>2. \A q \in Quotes : f.acc[q] = {}
  BY DEF Nothing
<1> QED
  BY <1>1, <1>2 DEF FrameReads

\* A frame that has read everything has what there is to read.
LEMMA FrameFinished ==
    ASSUME BaseInv, NEW f \in Frames, f.node \in Readers, FrameReads(f), f.left = {}
    PROVE  /\ \A x \in Followed(f.node) : x # Null /\ Settled(x)
           /\ f.acc = ReadNow(f.node)
<1> DEFINE r == f.node
<1>1. \A h \in Links : h \in inputs[r] => link[h] # Null
  BY DEF FrameReads
<1>2. \A x \in Followed(r) : x \in Done(f) /\ x # Null
  BY <1>1, FollowedType, ClassesAssumption DEF Done
<1>3. \A x \in Followed(r) : Settled(x) /\ \A q \in Quotes : Cached(x)[q] \subseteq f.acc[q]
  BY <1>2 DEF FrameReads
<1>4. ASSUME NEW q \in Quotes PROVE f.acc[q] = UNION {Cached(x)[q] : x \in Followed(r)}
  <2>1. \A v \in f.acc[q] : \E x \in Followed(r) : v \in Cached(x)[q]
    BY DEF FrameReads
  <2> QED
    BY <2>1, <1>3
<1>5. f.acc \in [Quotes -> SUBSET Values]
  BY DEF Frames, Provenances
<1>6. f.acc = ReadNow(r)
  BY <1>4, <1>5 DEF ReadNow
<1> QED
  BY <1>2, <1>3, <1>6

\* With no frame of a reader on the stack there is nothing to say of frames.
LEMMA NoReaders ==
    ASSUME NEW R, \A i \in 1..Len(stack') : ~IsReading(stack'[i])
    PROVE  FramesRead' /\ Descending(R)' /\ \A r : ~Reading(r)'
  BY DEF FramesRead, Descending, Reading

-----------------------------------------------------------------------------
(* The client's calls.                                                     *)

\* Between calls nobody is reading and nobody is about to be told.
LEMMA IdleFacts ==
    ASSUME BaseInv, HeldIsCurrent, Idle
    PROVE  /\ Len(stack) = 0 /\ \A r : ~Reading(r) /\ ~Told(r)
           /\ \A r \in Readers : Holds(r) => Loose(r) \/ Current(r)
<1>1. Len(stack) = 0
  BY BaseFacts DEF Idle
<1>2. \A r : ~Reading(r) /\ ~Told(r)
  BY <1>1 DEF Reading, Told
<1> QED
  BY <1>1, <1>2 DEF HeldIsCurrent

\* The notification a client's call sets off.
LEMMA NotifySingle ==
    ASSUME NEW n, stack' = <<NotifyFrame(n)>>
    PROVE  /\ Len(stack') = 1 /\ stack'[1] = NotifyFrame(n)
           /\ \A i \in 1..Len(stack') : ~IsReading(stack'[i])
           /\ \A r : (\E o \in ObserversOf(n) : o = r \/ (o \in Links /\ o \in inputs'[r]))
                     => Told(r)'
<1> DEFINE f == NotifyFrame(n)
<1>1. f.op = "notify" /\ f.left = ObserversOf(n)
  BY DEF NotifyFrame, Frame
<1>2. stack' = <<f>>
  OBVIOUS
<1> HIDE DEF f
<1>3. Len(stack') = 1 /\ stack'[1] = f
  BY <1>2
<1>4. \A i \in 1..Len(stack') : ~IsReading(stack'[i])
  BY <1>1, <1>3 DEF IsReading, ReadOps
<1>5. \A r : (\E o \in ObserversOf(n) : o = r \/ (o \in Links /\ o \in inputs'[r])) => Told(r)'
  BY <1>1, <1>3 DEF Told, ToCall
<1> QED
  BY <1>3, <1>4, <1>5 DEF f

\* setValue: whoever read the quote is told.
LEMMA SetValueCurrent ==
    ASSUME NEW R, BaseInv, CInv(R), NEW q \in Quotes, NEW v, setValue(q, v)
    PROVE  CInv(R)'
<1>1. /\ HeldIsCurrent /\ Idle /\ stack' = <<NotifyFrame(q)>> /\ TypeOK
      /\ value' = [value EXCEPT ![q] = v]
      /\ UNCHANGED <<inputs, calculated, frozen, result, link, isObserver, view>>
  BY DEF CInv, setValue, BaseInv
<1>2. FramesRead' /\ Descending(R)' /\ \A r : ~Reading(r)'
  BY <1>1, NotifySingle, NoReaders
<1>3. KeepsAllBut({q})
  <2> SUFFICES ASSUME NEW x \in (Quotes \cup Lazies) \ {q}, Settled(x)
               PROVE  Settled(x)' /\ Cached(x)' = Cached(x)
    BY <1>1 DEF KeepsAllBut
  <2>1. Settled(x)'
    BY <1>1, <1>2 DEF Settled, TypeOK
  <2>2. x \in Quotes => ValueOf(x)' = ValueOf(x)
    BY <1>1 DEF ValueOf, TypeOK
  <2>3. Cached(x)' = Cached(x)
    BY <1>1, <2>2 DEF Cached
  <2> QED
    BY <2>1, <2>3
<1>4. ASSUME NEW r \in Readers
      PROVE  Holds(r)' /\ ~Reading(r)' => Told(r)' \/ Loose(r)' \/ Current(r)'
  <2>1. Stored(r)' = Stored(r) /\ (Holds(r)' => Holds(r)) /\ ~Reading(r) /\ ~Told(r)
    BY <1>1, IdleFacts DEF Stored, Holds
  <2>2. \A x \in Followed(r) : x \in {q} => Told(r)' \/ Loose(r)
    BY <1>1, DependentsTold, NotifySingle, ClassesAssumption DEF Nodes
  <2> QED
    BY <1>1, <1>3, <2>1, <2>2, HeldKept
<1> QED
  BY <1>2, <1>4 DEF CInv, HeldIsCurrent

\* unfreeze: whoever read the frozen results is told.
LEMMA UnfreezeCurrent ==
    ASSUME NEW R, BaseInv, CInv(R), NEW n \in Lazies, unfreeze(n)
    PROVE  CInv(R)'
<1>1. /\ HeldIsCurrent /\ Idle /\ stack' = <<NotifyFrame(n)>> /\ TypeOK
      /\ frozen' = [frozen EXCEPT ![n] = FALSE]
      /\ UNCHANGED <<inputs, value, calculated, result, link, isObserver, view>>
  BY DEF CInv, unfreeze, BaseInv, graph
<1>2. FramesRead' /\ Descending(R)' /\ \A r : ~Reading(r)'
  BY <1>1, NotifySingle, NoReaders
<1>3. KeepsAllBut({n})
  <2> SUFFICES ASSUME NEW x \in (Quotes \cup Lazies) \ {n}, Settled(x)
               PROVE  Settled(x)' /\ Cached(x)' = Cached(x)
    BY <1>1 DEF KeepsAllBut
  <2>1. Settled(x)'
    BY <1>1, <1>2 DEF Settled, TypeOK
  <2>2. Cached(x)' = Cached(x)
    BY <1>1 DEF Cached, ValueOf
  <2> QED
    BY <2>1, <2>2
<1>4. ASSUME NEW r \in Readers
      PROVE  Holds(r)' /\ ~Reading(r)' => Told(r)' \/ Loose(r)' \/ Current(r)'
  <2>1. Stored(r)' = Stored(r) /\ (Holds(r)' => Holds(r)) /\ ~Reading(r) /\ ~Told(r)
    BY <1>1, IdleFacts DEF Stored, Holds
  <2>2. \A x \in Followed(r) : x \in {n} => Told(r)' \/ Loose(r)
    BY <1>1, DependentsTold, NotifySingle, ClassesAssumption DEF Nodes
  <2> QED
    BY <1>1, <1>3, <2>1, <2>2, HeldKept
<1> QED
  BY <1>2, <1>4 DEF CInv, HeldIsCurrent

\* freeze: results stay where they are.
LEMMA FreezeCurrent ==
    ASSUME NEW R, BaseInv, CInv(R), NEW n \in Lazies, freeze(n)
    PROVE  CInv(R)'
<1>1. /\ HeldIsCurrent /\ Idle /\ TypeOK /\ frozen' = [frozen EXCEPT ![n] = TRUE]
      /\ UNCHANGED <<inputs, value, calculated, result, link, isObserver, view, stack>>
  BY DEF CInv, freeze, BaseInv, graph
<1>2. FramesRead' /\ Descending(R)' /\ \A r : ~Reading(r)'
  BY <1>1, IdleFacts, NoReaders
<1>3. KeepsAllBut({})
  BY <1>1, <1>2 DEF KeepsAllBut, Settled, TypeOK, Cached, ValueOf
<1>4. ASSUME NEW r \in Readers
      PROVE  Holds(r)' /\ ~Reading(r)' => Told(r)' \/ Loose(r)' \/ Current(r)'
  <2>1. Stored(r)' = Stored(r) /\ (Holds(r)' => Holds(r)) /\ ~Reading(r) /\ ~Told(r)
    BY <1>1, IdleFacts DEF Stored, Holds
  <2> QED
    BY <1>1, <1>3, <2>1, HeldKept
<1> QED
  BY <1>2, <1>4 DEF CInv, HeldIsCurrent

\* linkTo: whoever reads through the handle is told.
LEMMA LinkToCurrent ==
    ASSUME NEW R, BaseInv, CInv(R), NEW h \in Links, NEW t, NEW b, linkTo(h, t, b)
    PROVE  CInv(R)'
<1>1. /\ HeldIsCurrent /\ Idle /\ stack' = <<NotifyFrame(h)>> /\ TypeOK
      /\ link' = [link EXCEPT ![h] = t] /\ isObserver' = [isObserver EXCEPT ![h] = b]
      /\ UNCHANGED <<inputs, value, calculated, frozen, result, view>>
  BY DEF CInv, linkTo, BaseInv
<1>2. FramesRead' /\ Descending(R)' /\ \A r : ~Reading(r)'
  BY <1>1, NotifySingle, NoReaders
<1>3. ASSUME NEW r \in Readers, Holds(r)', ~Told(r)', ~Loose(r)' PROVE Current(r)'
  <2>1. h \notin inputs[r]
    <3>1. h \in inputs[r] => r \in ObserversOf(h)
      BY DEF ObserversOf
    <3> QED
      BY <1>1, <1>3, <3>1, NotifySingle
  <2>2. Followed(r)' = Followed(r) /\ (Loose(r)' <=> Loose(r))
    BY <1>1, <2>1 DEF Followed, Loose, TypeOK
  <2>3. Stored(r)' = Stored(r) /\ Current(r)
    BY <1>1, <1>3, <2>2, IdleFacts DEF Stored, Holds
  <2>4. \A x : Cached(x)' = Cached(x)
    BY <1>1 DEF Cached, ValueOf
  <2>5. ReadNow(r)' = ReadNow(r)
    BY <2>2, <2>4 DEF ReadNow
  <2>6. \A x : Settled(x) => Settled(x)'
    BY <1>1, <1>2 DEF Settled
  <2> QED
    BY <2>2, <2>3, <2>5, <2>6 DEF Current
<1> QED
  BY <1>2, <1>3 DEF CInv, HeldIsCurrent

\* The frame of a calculation that begins.
LEMMA CalculateFrameFacts ==
    ASSUME BaseInv, NEW n \in Lazies, UNCHANGED <<inputs, link>>,
           NEW f, f = CalculateFrame(n)
    PROVE  f.op = "calculate" /\ f.node = n /\ IsReading(f) /\ FrameReads(f)'
<1>1. /\ f.op = "calculate" /\ f.node = n /\ IsReading(f)
      /\ f.left = inputs[n] /\ f.acc = Nothing
  BY DEF CalculateFrame, Frame, IsReading, ReadOps
<1>2. n \in Readers
  BY DEF Readers
<1> QED
  BY <1>1, <1>2, NewFrameReads

\* Ask: what is about to be calculated nobody has read.
LEMMA AskCurrent ==
    ASSUME NEW R, BaseInv, CInv(R), NEW n \in Lazies, Ask(n)
    PROVE  CInv(R)'
<1>1. /\ HeldIsCurrent /\ Idle /\ TypeOK /\ ~calculated[n] /\ ~frozen[n]
      /\ calculated' = [calculated EXCEPT ![n] = TRUE]
      /\ UNCHANGED <<inputs, value, frozen, result, link, isObserver, view>>
  BY DEF CInv, Ask, BaseInv, graph
<1>2. PICK f : f = CalculateFrame(n)
  OBVIOUS
<1>3. f.op = "calculate" /\ f.node = n /\ IsReading(f) /\ FrameReads(f)'
  BY <1>1, <1>2, CalculateFrameFacts
<1>4. stack' = <<f>>
  BY <1>2 DEF Ask
<1>5. Len(stack') = 1 /\ stack'[1] = f /\ \A i \in 1..Len(stack') : i = 1
  BY <1>4
<1>6. FramesRead' /\ Descending(R)' /\ \A r : Reading(r)' <=> r = n
  <2>1. \A r : Reading(r)' <=> r = n
    BY <1>3, <1>5 DEF Reading
  <2>2. Descending(R)'
    BY <1>5 DEF Descending
  <2>3. FramesRead'
    BY <1>3, <1>5 DEF FramesRead
  <2> QED
    BY <2>1, <2>2, <2>3
<1>7. KeepsAllBut({})
  <2> SUFFICES ASSUME NEW x \in Quotes \cup Lazies, Settled(x)
               PROVE  Settled(x)' /\ Cached(x)' = Cached(x)
    BY <1>1 DEF KeepsAllBut
  <2>1. x # n
    BY <1>1, ClassesAssumption DEF Settled
  <2> QED
    BY <1>1, <1>6, <2>1 DEF Settled, TypeOK, Cached, ValueOf
<1>8. ASSUME NEW r \in Readers, r # n
      PROVE  Holds(r)' /\ ~Reading(r)' => Told(r)' \/ Loose(r)' \/ Current(r)'
  <2>1. Stored(r)' = Stored(r) /\ (Holds(r)' => Holds(r)) /\ ~Reading(r) /\ ~Told(r)
    BY <1>1, <1>8, IdleFacts DEF Stored, Holds, TypeOK
  <2> QED
    BY <1>1, <1>7, <2>1, HeldKept
<1> QED
  BY <1>6, <1>8 DEF CInv, HeldIsCurrent

\* recalculate: whoever read the old results will be told by it.
LEMMA RecalculateCurrent ==
    ASSUME NEW R, BaseInv, CInv(R), NEW n \in Lazies, recalculate(n)
    PROVE  CInv(R)'
<1>1. /\ HeldIsCurrent /\ Idle /\ TypeOK
      /\ calculated' = [calculated EXCEPT ![n] = TRUE]
      /\ frozen' = [frozen EXCEPT ![n] = FALSE]
      /\ UNCHANGED <<inputs, value, result, link, isObserver, view>>
  BY DEF CInv, recalculate, BaseInv, graph
<1>2. PICK f : f = CalculateFrame(n)
  OBVIOUS
<1>3. f.op = "calculate" /\ f.node = n /\ IsReading(f) /\ FrameReads(f)'
  BY <1>1, <1>2, CalculateFrameFacts
<1>4. PICK g : g = Frame("recalculate", n, {}, frozen[n])
  OBVIOUS
<1>5. g.op = "recalculate" /\ g.node = n /\ ~IsReading(g)
  BY <1>4 DEF Frame, IsReading, ReadOps
<1>6. stack' = <<f, g>>
  BY <1>2, <1>4 DEF recalculate
<1>7. /\ Len(stack') = 2 /\ stack'[1] = f /\ stack'[2] = g
      /\ \A i \in 1..Len(stack') : i = 1 \/ i = 2
  BY <1>6
<1>8. FramesRead' /\ Descending(R)' /\ \A r : Reading(r)' <=> r = n
  <2>1. \A r : Reading(r)' <=> r = n
    BY <1>3, <1>5, <1>7 DEF Reading
  <2>2. Descending(R)'
    BY <1>5, <1>7 DEF Descending
  <2>3. FramesRead'
    BY <1>3, <1>5, <1>7 DEF FramesRead
  <2> QED
    BY <2>1, <2>2, <2>3
<1>9. KeepsAllBut({n})
  <2> SUFFICES ASSUME NEW x \in (Quotes \cup Lazies) \ {n}, Settled(x)
               PROVE  Settled(x)' /\ Cached(x)' = Cached(x)
    BY <1>1 DEF KeepsAllBut
  <2> QED
    BY <1>1, <1>8 DEF Settled, TypeOK, Cached, ValueOf
<1>10. ASSUME NEW r \in Readers, r # n
       PROVE  Holds(r)' /\ ~Reading(r)' => Told(r)' \/ Loose(r)' \/ Current(r)'
  <2>1. Stored(r)' = Stored(r) /\ (Holds(r)' => Holds(r)) /\ ~Reading(r) /\ ~Told(r)
    BY <1>1, <1>10, IdleFacts DEF Stored, Holds, TypeOK
  <2>2. ASSUME NEW o \in ObserversOf(n), o = r \/ (o \in Links /\ o \in inputs[r])
        PROVE  Told(r)'
    <3>1. ObserversOf(n)' = ObserversOf(n)
      BY <1>1 DEF ObserversOf
    <3>2. ToCall(g)' = ObserversOf(n)
      BY <3>1, <1>5 DEF ToCall
    <3>3. 2 \in 1..Len(stack') /\ o \in ToCall(g)' /\ (o = r \/ (o \in Links /\ o \in inputs'[r]))
      BY <1>1, <1>7, <2>2, <3>2
    <3> QED
      BY <1>7, <3>3 DEF Told, ToCall
  <2>3. \A x \in Followed(r) : x \in {n} => Told(r)' \/ Loose(r)
    BY <2>2, DependentsTold, ClassesAssumption DEF Nodes
  <2> QED
    BY <1>1, <1>9, <2>1, <2>3, HeldKept
<1> QED
  BY <1>8, <1>10 DEF CInv, HeldIsCurrent

-----------------------------------------------------------------------------
(* The steps of a notification.                                            *)

\* While a loop runs nobody reads.
LEMMA NotifyFacts ==
    ASSUME BaseInv, TopIs("notify")
    PROVE  /\ stack # <<>> /\ Top = stack[1] /\ Len(stack) \in Nat \ {0}
           /\ \A i \in 1..Len(stack) : stack[i].op = "notify" /\ ~IsReading(stack[i])
           /\ \A r : ~Reading(r)
           /\ \A r : Told(r) <=>
                 \E i \in 1..Len(stack) : \E o \in stack[i].left :
                     o = r \/ (o \in Links /\ o \in inputs[r])
<1>1. stack # <<>> /\ Top = stack[1] /\ Len(stack) \in Nat \ {0}
  BY BaseFacts DEF TopIs
<1>2. PICK g : g = [Top EXCEPT !.left = @ \ {Null}]
  OBVIOUS
<1>3. \A i \in 1..Len(stack) : stack[i].op = "notify"
  BY <1>2, RoundFrame
<1>4. \A i \in 1..Len(stack) : ~IsReading(stack[i])
  BY <1>3 DEF IsReading, ReadOps
<1> QED
  BY <1>1, <1>3, <1>4 DEF Reading, Told, ToCall

\* Who is told after a step of a loop.
LEMMA ToldByNotify ==
    ASSUME NEW r, NEW i \in 1..Len(stack'), stack'[i].op = "notify",
           NEW o \in stack'[i].left, o = r \/ (o \in Links /\ o \in inputs'[r])
    PROVE  Told(r)'
  BY DEF Told, ToCall

LEMMA NotifyCatchCurrent ==
    ASSUME NEW R, BaseInv, CInv(R), NotifyCatch
    PROVE  CInv(R)'
<1>1. /\ HeldIsCurrent /\ TypeOK /\ TopIs("notify")
      /\ UNCHANGED <<inputs, value, calculated, frozen, result, link, isObserver, view>>
  BY DEF CInv, NotifyCatch, BaseInv, graph
<1>2. PICK f : f = [Top EXCEPT !.flag = TRUE]
  OBVIOUS
<1>3. f.op = "notify" /\ f.left = Top.left /\ ~IsReading(f)
  BY <1>1, <1>2, BaseFacts DEF TopIs, Frames, IsReading, ReadOps
<1>4. /\ Len(stack') = Len(stack) /\ stack'[1] = f
      /\ \A i \in 2..Len(stack) : stack'[i] = stack[i]
  <2>1. stack' = <<f>> \o Tail(stack) /\ f \in Frames
    BY <1>1, <1>2, BaseFacts DEF NotifyCatch, Become, TopIs, Frames
  <2> QED
    BY <2>1, <1>1, NotifyFacts, ReplaceFacts, BaseFacts
<1>5. \A i \in 1..Len(stack') : /\ stack'[i].op = "notify" /\ ~IsReading(stack'[i])
                                /\ stack'[i].left = stack[i].left
  BY <1>1, <1>3, <1>4, NotifyFacts
<1>6. FramesRead' /\ Descending(R)' /\ \A r : ~Reading(r)'
  BY <1>5, NoReaders
<1>7. \A r : Told(r) => Told(r)'
  BY <1>1, <1>4, <1>5, NotifyFacts, ToldByNotify
<1>8. KeepsAllBut({})
  BY <1>1, <1>6 DEF KeepsAllBut, Settled, Cached, ValueOf
<1>9. ASSUME NEW r \in Readers
      PROVE  Holds(r)' /\ ~Reading(r)' => Told(r)' \/ Loose(r)' \/ Current(r)'
  <2>1. Stored(r)' = Stored(r) /\ (Holds(r)' => Holds(r)) /\ ~Reading(r)
    BY <1>1, NotifyFacts DEF Stored, Holds
  <2> QED
    BY <1>1, <1>7, <1>8, <2>1, HeldKept
<1> QED
  BY <1>6, <1>9 DEF CInv, HeldIsCurrent

\* A loop ends when it has nobody left to tell.
LEMMA NotifyEndCurrent ==
    ASSUME NEW R, BaseInv, CInv(R), NotifyEnd
    PROVE  CInv(R)'
<1>1. /\ HeldIsCurrent /\ TypeOK /\ TopIs("notify") /\ Top.left = {}
      /\ UNCHANGED <<inputs, value, calculated, frozen, result, link, isObserver, view>>
  BY DEF CInv, NotifyEnd, BaseInv, graph
<1>2. /\ \A i \in 1..Len(stack') : i + 1 \in 1..Len(stack) /\ stack'[i] = stack[i+1]
      /\ \A i \in 2..Len(stack) : i - 1 \in 1..Len(stack') /\ stack'[i-1] = stack[i]
  BY <1>1, NotifyFacts, PopMove DEF NotifyEnd, Return
<1>3. \A i \in 1..Len(stack') : stack'[i].op = "notify" /\ ~IsReading(stack'[i])
  BY <1>1, <1>2, NotifyFacts
<1>4. FramesRead' /\ Descending(R)' /\ \A r : ~Reading(r)'
  BY <1>3, NoReaders
<1>5. ASSUME NEW r, Told(r) PROVE Told(r)'
  <2>1. PICK i \in 1..Len(stack) : \E o \in stack[i].left :
                     o = r \/ (o \in Links /\ o \in inputs[r])
    BY <1>1, <1>5, NotifyFacts
  <2>2. i \in 2..Len(stack)
    BY <1>1, <2>1, NotifyFacts
  <2> QED
    BY <1>1, <1>2, <1>3, <2>1, <2>2, ToldByNotify
<1>6. KeepsAllBut({})
  BY <1>1, <1>4 DEF KeepsAllBut, Settled, Cached, ValueOf
<1>7. ASSUME NEW r \in Readers
      PROVE  Holds(r)' /\ ~Reading(r)' => Told(r)' \/ Loose(r)' \/ Current(r)'
  <2>1. Stored(r)' = Stored(r) /\ (Holds(r)' => Holds(r)) /\ ~Reading(r)
    BY <1>1, NotifyFacts DEF Stored, Holds
  <2> QED
    BY <1>1, <1>5, <1>6, <2>1, HeldKept
<1> QED
  BY <1>4, <1>7 DEF CInv, HeldIsCurrent

\* A round of a loop takes o out of the frame of the loop and nothing else.
LEMMA RoundTold ==
    ASSUME BaseInv, NEW o \in Readers \cup Links, NotifyNext(o), NEW g,
           g = [Top EXCEPT !.left = @ \ {o}],
           \/ stack' = <<g>> \o Tail(stack)
           \/ \E f \in Frames : /\ FrameTyped(f) /\ f.op \in {"notify", "update"}
                                /\ stack' = <<f>> \o (<<g>> \o Tail(stack))
    PROVE  \A r : Told(r) => \/ Told(r)'
                             \/ o = r \/ (o \in Links /\ o \in inputs[r])
<1>1. TopIs("notify") /\ inputs' = inputs
  BY DEF NotifyNext, graph
<1>2. /\ g \in Frames /\ FrameTyped(g) /\ g.op = "notify" /\ g.node = Top.node
      /\ g.left = Top.left \ {o} /\ \A i \in 1..Len(stack) : stack[i].op = "notify"
  BY <1>1, RoundFrame
<1>3. stack # <<>> /\ Top.op = "notify" /\ Top = stack[1] /\ Len(stack) \in Nat \ {0}
  BY <1>1, NotifyFacts DEF TopIs
<1>4. ASSUME NEW i \in 1..Len(stack)
      PROVE  \E j \in 1..Len(stack') : /\ stack'[j].op = "notify"
                                       /\ stack[i].left \ {o} \subseteq stack'[j].left
  <2>1. CASE stack' = <<g>> \o Tail(stack)
    <3>1. /\ Len(stack') = Len(stack) /\ stack'[1] = g
          /\ \A k \in 2..Len(stack) : stack'[k] = stack[k]
      BY <1>2, <1>3, <2>1, ReplaceMove
    <3>2. i \in 1..Len(stack')
      BY <3>1
    <3>3. CASE i = 1
      BY <3>1, <3>2, <3>3, <1>2, <1>3
    <3>4. CASE i # 1
      <4>1. i \in 2..Len(stack)
        BY <3>4, <1>3
      <4> QED
        BY <3>1, <3>2, <4>1, <1>2
    <3> QED
      BY <3>3, <3>4
  <2>2. ASSUME NEW f \in Frames, FrameTyped(f), f.op \in {"notify", "update"},
               stack' = <<f>> \o (<<g>> \o Tail(stack))
        PROVE  \E j \in 1..Len(stack') : /\ stack'[j].op = "notify"
                                         /\ stack[i].left \ {o} \subseteq stack'[j].left
    <3>1. /\ Len(stack') = Len(stack) + 1 /\ stack'[2] = g
          /\ \A k \in 2..Len(stack) : k + 1 \in 3..Len(stack') /\ stack'[k+1] = stack[k]
      BY <1>2, <1>3, <2>2, RoundMove
    <3>2. CASE i = 1
      <4>1. 2 \in 1..Len(stack')
        BY <3>1, <1>3
      <4> QED
        BY <3>1, <3>2, <4>1, <1>2, <1>3
    <3>3. CASE i # 1
      <4>1. i \in 2..Len(stack)
        BY <3>3, <1>3
      <4>2. i + 1 \in 1..Len(stack') /\ stack'[i+1] = stack[i]
        BY <4>1, <3>1, <1>3
      <4> QED
        BY <4>2, <1>2
    <3> QED
      BY <3>2, <3>3
  <2> QED
    BY <2>1, <2>2
<1>5. ASSUME NEW r, Told(r) PROVE Told(r)' \/ o = r \/ (o \in Links /\ o \in inputs[r])
  <2>0. PICK i \in 1..Len(stack) : \E p \in stack[i].left :
               p = r \/ (p \in Links /\ p \in inputs[r])
    BY <1>1, <1>5, NotifyFacts
  <2>1. PICK p \in stack[i].left : p = r \/ (p \in Links /\ p \in inputs[r])
    BY <2>0
  <2>2. CASE p # o
    <3>1. PICK j \in 1..Len(stack') : /\ stack'[j].op = "notify"
                                     /\ stack[i].left \ {o} \subseteq stack'[j].left
      BY <1>4
    <3>2. p \in stack'[j].left
      BY <2>1, <2>2, <3>1
    <3> QED
      BY <2>1, <3>1, <3>2, <1>1, ToldByNotify
  <2> QED
    BY <2>1, <2>2
<1> QED
  BY <1>5

\* update() of a lazy object that forwards, of one that does not, of a link and
\* of an eager observer.
LEMMA NotifyNextCurrent ==
    ASSUME NEW R, BaseInv, CInv(R), NEW o \in Readers \cup Links, NotifyNext(o)
    PROVE  CInv(R)'
<1>1. /\ HeldIsCurrent /\ TypeOK /\ TopIs("notify") /\ o \in Top.left
      /\ UNCHANGED <<inputs, value, frozen, result, link, isObserver, view>>
  BY DEF CInv, NotifyNext, BaseInv, graph
<1>2. PICK g : g = [Top EXCEPT !.left = @ \ {o}]
  OBVIOUS
<1> DEFINE rest == <<g>> \o Tail(stack)
<1>3. /\ g \in Frames /\ FrameTyped(g) /\ g.op = "notify" /\ g.node = Top.node
  BY <1>1, <1>2, RoundFrame
<1>4. /\ stack # <<>> /\ Top.op = "notify" /\ \A r : ~Reading(r)
      /\ Top = stack[1] /\ Len(stack) \in Nat \ {0}
      /\ \A i \in 1..Len(stack) : stack[i].op = "notify" /\ ~IsReading(stack[i])
  BY <1>1, NotifyFacts DEF TopIs
<1>5. \/ o \in Lazies /\ UpdateLazy(o, rest)
      \/ o \in Links /\ stack' = <<NotifyFrame(o)>> \o rest /\ UNCHANGED calculated
      \/ o \in Eagers /\ stack' = <<UpdateFrame(o)>> \o rest /\ UNCHANGED calculated
  BY <1>2 DEF NotifyNext
\* The frame a forwarding update() adds.
<1>6. ASSUME stack' = <<NotifyFrame(o)>> \o rest, o \in Nodes
      PROVE  /\ FramesRead' /\ Descending(R)' /\ \A r : ~Reading(r)'
             /\ \A r : Told(r) => Told(r)' \/ o = r \/ (o \in Links /\ o \in inputs[r])
             /\ \A r : (\E p \in ObserversOf(o) : p = r \/ (p \in Links /\ p \in inputs[r]))
                       => Told(r)'
  <2>1. PICK f : f = NotifyFrame(o)
    OBVIOUS
  <2>2. /\ f \in Frames /\ FrameTyped(f) /\ f.op = "notify" /\ f.left = ObserversOf(o)
        /\ ~IsReading(f)
    <3>1. f \in Frames /\ FrameTyped(f)
      BY <2>1, <1>1, <1>6, NewFrames
    <3> QED
      BY <2>1, <3>1 DEF NotifyFrame, Frame, IsReading, ReadOps
  <2>3. stack' = <<f>> \o (<<g>> \o Tail(stack))
    BY <2>1, <1>6
  <2>4. /\ Len(stack') = Len(stack) + 1 /\ stack'[1] = f
        /\ \A i \in 2..Len(stack') : stack'[i].op = "notify"
    BY <1>3, <1>4, <2>2, <2>3, RoundMove
  <2>5. \A i \in 1..Len(stack') : ~IsReading(stack'[i])
    BY <1>4, <2>2, <2>4 DEF IsReading, ReadOps
  <2>6. \A r : Told(r) => Told(r)' \/ o = r \/ (o \in Links /\ o \in inputs[r])
    BY <1>2, <2>2, <2>3, RoundTold
  <2>7. 1 \in 1..Len(stack') /\ stack'[1].op = "notify" /\ stack'[1].left = ObserversOf(o)
    BY <1>4, <2>2, <2>4
  <2>8. \A r : (\E p \in ObserversOf(o) : p = r \/ (p \in Links /\ p \in inputs[r]))
               => Told(r)'
    BY <1>1, <2>7, ToldByNotify
  <2> QED
    BY <2>5, <2>6, <2>8, NoReaders
<1> HIDE DEF rest
<1>7. CASE o \in Lazies /\ UpdateLazy(o, rest) /\ calculated[o] /\ ~frozen[o]
  <2>1. /\ stack' = <<NotifyFrame(o)>> \o rest /\ o \in Nodes
        /\ calculated' = [calculated EXCEPT ![o] = FALSE] /\ o \notin Links
    BY <1>7, ClassesAssumption DEF UpdateLazy, Nodes
  <2>2. KeepsAllBut({o})
    <3> SUFFICES ASSUME NEW x \in (Quotes \cup Lazies) \ {o}, Settled(x)
                 PROVE  Settled(x)' /\ Cached(x)' = Cached(x)
      BY <1>1 DEF KeepsAllBut
    <3> QED
      BY <1>1, <1>6, <2>1 DEF Settled, TypeOK, Cached, ValueOf
  <2>3. ASSUME NEW r \in Readers
        PROVE  Holds(r)' /\ ~Reading(r)' => Told(r)' \/ Loose(r)' \/ Current(r)'
    <3>1. Stored(r)' = Stored(r) /\ (Holds(r)' => Holds(r)) /\ ~Reading(r)
      BY <1>1, <1>4, <2>1 DEF Stored, Holds, TypeOK
    <3>2. r = o => ~Holds(r)'
      BY <1>1, <1>7, <2>1 DEF Holds, TypeOK
    <3>3. Told(r) => Told(r)' \/ ~Holds(r)'
      BY <1>6, <2>1, <3>2
    <3>4. \A x \in Followed(r) : x \in {o} => Told(r)' \/ Loose(r)
      BY <1>6, <2>1, DependentsTold, ClassesAssumption
    <3> QED
      BY <1>1, <2>2, <3>1, <3>3, <3>4, HeldKept
  <2> QED
    BY <1>6, <2>1, <2>3 DEF CInv, HeldIsCurrent
<1>8. CASE o \in Lazies /\ UpdateLazy(o, rest) /\ ~(calculated[o] /\ ~frozen[o])
  <2>1. /\ stack' = rest /\ calculated' = [calculated EXCEPT ![o] = FALSE] /\ o \notin Links
    BY <1>8, ClassesAssumption DEF UpdateLazy
  <2>2. \A r : Told(r) => Told(r)' \/ o = r
    BY <1>2, <2>1, RoundTold DEF rest
  <2>3. \A i \in 1..Len(stack') : ~IsReading(stack'[i])
    <3>1. /\ Len(stack') = Len(stack) /\ stack'[1] = g
          /\ \A i \in 2..Len(stack) : stack'[i] = stack[i]
      BY <1>3, <1>4, <2>1, ReplaceMove DEF rest
    <3> QED
      BY <3>1, <1>3, <1>4 DEF IsReading, ReadOps
  <2>4. FramesRead' /\ Descending(R)' /\ \A r : ~Reading(r)'
    BY <2>3, NoReaders
  <2>5. KeepsAllBut({})
    <3> SUFFICES ASSUME NEW x \in Quotes \cup Lazies, Settled(x)
                 PROVE  Settled(x)' /\ Cached(x)' = Cached(x)
      BY <1>1 DEF KeepsAllBut
    <3> QED
      BY <1>1, <1>8, <2>1, <2>4 DEF Settled, TypeOK, Cached, ValueOf
  <2>6. ASSUME NEW r \in Readers
        PROVE  Holds(r)' /\ ~Reading(r)' => Told(r)' \/ Loose(r)' \/ Current(r)'
    <3>1. Stored(r)' = Stored(r) /\ (Holds(r)' => Holds(r)) /\ ~Reading(r)
      BY <1>1, <1>4, <2>1 DEF Stored, Holds, TypeOK
    <3>2. r = o => ~Holds(r)'
      BY <1>1, <1>8, <2>1 DEF Holds, TypeOK
    <3> QED
      BY <1>1, <2>2, <2>5, <3>1, <3>2, HeldKept
  <2> QED
    BY <2>4, <2>6 DEF CInv, HeldIsCurrent
<1>9. CASE o \in Links /\ stack' = <<NotifyFrame(o)>> \o rest /\ UNCHANGED calculated
  <2>1. o \in Nodes /\ o \notin Readers
    BY <1>9, ClassesAssumption DEF Nodes, Readers
  <2>2. KeepsAllBut({})
    BY <1>1, <1>6, <1>9, <2>1 DEF KeepsAllBut, Settled, Cached, ValueOf
  <2>3. ASSUME NEW r \in Readers
        PROVE  Holds(r)' /\ ~Reading(r)' => Told(r)' \/ Loose(r)' \/ Current(r)'
    <3>1. Stored(r)' = Stored(r) /\ (Holds(r)' => Holds(r)) /\ ~Reading(r)
      BY <1>1, <1>4, <1>9 DEF Stored, Holds
    <3>2. o \in inputs[r] => r \in ObserversOf(o)
      BY DEF ObserversOf
    <3>3. Told(r) => Told(r)'
      BY <1>6, <1>9, <2>1, <3>2
    <3> QED
      BY <1>1, <2>2, <3>1, <3>3, HeldKept
  <2> QED
    BY <1>6, <1>9, <2>1, <2>3 DEF CInv, HeldIsCurrent
<1>10. CASE o \in Eagers /\ stack' = <<UpdateFrame(o)>> \o rest /\ UNCHANGED calculated
  <2>0. o \notin Links /\ o \notin Lazies /\ o \in Readers
    BY <1>10, ClassesAssumption DEF Readers
  <2>1. PICK f : f = UpdateFrame(o)
    OBVIOUS
  <2>2. /\ f \in Frames /\ FrameTyped(f) /\ f.op = "update" /\ f.node = o
        /\ f.left = inputs[o] /\ f.acc = Nothing /\ IsReading(f)
    <3>1. f \in Frames /\ FrameTyped(f)
      BY <2>1, <1>1, <1>10, NewFrames
    <3> QED
      BY <2>1, <3>1 DEF UpdateFrame, Frame, IsReading, ReadOps
  <2>3. stack' = <<f>> \o (<<g>> \o Tail(stack))
    BY <2>1, <1>10 DEF rest
  <2>4. /\ Len(stack') = Len(stack) + 1 /\ stack'[1] = f
        /\ \A i \in 2..Len(stack') : stack'[i].op = "notify"
    BY <1>3, <1>4, <2>2, <2>3, RoundMove
  <2>5. \A i \in 1..Len(stack') : IsReading(stack'[i]) <=> i = 1
    BY <1>4, <2>2, <2>4 DEF IsReading, ReadOps
  <2>6. FrameReads(f)'
    BY <2>0, <2>2, <1>1, NewFrameReads
  <2>7. FramesRead' /\ Descending(R)' /\ \A r : Reading(r)' <=> r = o
    <3>1. 1 \in 1..Len(stack')
      BY <2>4, <1>4
    <3>2. \A r : Reading(r)' <=> r = o
      BY <3>1, <2>2, <2>4, <2>5 DEF Reading
    <3>3. Descending(R)'
      BY <2>5 DEF Descending
    <3>4. FramesRead'
      BY <2>4, <2>5, <2>6 DEF FramesRead
    <3> QED
      BY <3>2, <3>3, <3>4
  <2>8. KeepsAllBut({})
    BY <1>1, <1>10, <2>0, <2>7 DEF KeepsAllBut, Settled, Cached, ValueOf
  <2>9. \A r : Told(r) => Told(r)' \/ o = r
    BY <1>2, <2>0, <2>2, <2>3, RoundTold
  <2>10. ASSUME NEW r \in Readers, r # o
         PROVE  Holds(r)' /\ ~Reading(r)' => Told(r)' \/ Loose(r)' \/ Current(r)'
    <3>1. Stored(r)' = Stored(r) /\ (Holds(r)' => Holds(r)) /\ ~Reading(r)
      BY <1>1, <1>4, <1>10 DEF Stored, Holds
    <3> QED
      BY <1>1, <2>8, <2>9, <2>10, <3>1, HeldKept
  <2> QED
    BY <2>7, <2>10 DEF CInv, HeldIsCurrent
<1> QED
  BY <1>5, <1>7, <1>8, <1>9, <1>10

-----------------------------------------------------------------------------
(* The steps of a calculation and of an eager observer's update().         *)

\* The top frame, when it is one of a reader.
LEMMA ReadingTop ==
    ASSUME BaseInv, FramesRead, stack # <<>>, IsReading(Top)
    PROVE  /\ Top = stack[1] /\ 1 \in 1..Len(stack) /\ Len(stack) \in Nat \ {0}
           /\ Top \in Frames /\ FrameTyped(Top) /\ Top.node \in Readers
           /\ Top.left \subseteq Nodes /\ Top.acc \in Provenances
           /\ FrameReads(Top) /\ Reading(Top.node)
<1>1. /\ Top = stack[1] /\ 1 \in 1..Len(stack) /\ Len(stack) \in Nat \ {0}
      /\ Top \in Frames /\ FrameTyped(Top)
  BY BaseFacts
<1>2. Top.node \in Readers /\ Top.left \subseteq Nodes /\ Top.acc \in Provenances
  BY <1>1 DEF FrameTyped, IsReading, ReadOps, Readers, Frames
<1> QED
  BY <1>1, <1>2 DEF FramesRead, Reading

\* Nothing that the top reader may still read is being calculated.
LEMMA NotReading ==
    ASSUME NEW R, Orders(R), BaseInv, CInv(R), stack # <<>>, IsReading(Top),
           NEW x \in Top.left, x \in Lazies
    PROVE  /\ x \in Followed(Top.node) /\ <<x, Top.node>> \in R /\ ~Reading(x)
           /\ \A j \in 1..Len(stack) : IsReading(stack[j]) => <<x, stack[j].node>> \in R
<1> DEFINE r == Top.node
<1>1. /\ Top = stack[1] /\ 1 \in 1..Len(stack) /\ r \in Readers /\ FrameReads(Top)
      /\ Len(stack) \in Nat \ {0}
  BY ReadingTop DEF CInv
<1>2. x \notin Links /\ inputs \in Graphs /\ link \in [Links -> Targets \cup {Null}]
  BY ClassesAssumption DEF BaseInv, TypeOK
<1>3. x \in Followed(r)
  BY <1>1, <1>2, FollowedType DEF FrameReads
<1>4. <<x, r>> \in R
  <2>1. CASE x \in inputs[r] \ Links
    BY <2>1, <1>1, <1>2 DEF Orders
  <2>2. ASSUME NEW h \in Links, h \in inputs[r], link[h] = x PROVE <<x, r>> \in R
    <3>1. x # Null /\ x \in Targets
      BY <2>2, <1>2, ClassesAssumption DEF Nodes
    <3> QED
      BY <2>2, <3>1, <1>1, <1>2 DEF Orders
  <2> QED
    BY <2>1, <2>2, <1>1, <1>3, FollowedType
<1>5. ASSUME NEW j \in 1..Len(stack), IsReading(stack[j]) PROVE <<x, stack[j].node>> \in R
  <2>1. CASE j = 1
    BY <2>1, <1>1, <1>4
  <2>2. CASE j # 1
    <3>1. <<r, stack[j].node>> \in R
      BY <2>2, <1>1, <1>5 DEF CInv, Descending
    <3> QED
      BY <3>1, <1>4 DEF Orders
  <2> QED
    BY <2>1, <2>2
<1>6. ~Reading(x)
  BY <1>5 DEF Reading, Orders
<1> QED
  BY <1>3, <1>4, <1>5, <1>6

\* A step within the top reader's frame disturbs nobody else.
LEMMA ReplaceCurrent ==
    ASSUME NEW R, BaseInv, CInv(R), stack # <<>>, IsReading(Top),
           UNCHANGED <<inputs, value, calculated, frozen, result, link, isObserver, view>>,
           NEW f \in Frames, FrameTyped(f), f.op = Top.op, f.node = Top.node,
           stack' = <<f>> \o Tail(stack), FrameReads(f)
    PROVE  CInv(R)'
<1>1. HeldIsCurrent /\ FramesRead /\ Descending(R) /\ TypeOK
  BY DEF CInv, BaseInv
<1>2. Top = stack[1] /\ 1 \in 1..Len(stack) /\ Len(stack) \in Nat \ {0}
  BY <1>1, ReadingTop
<1>3. /\ Len(stack') = Len(stack) /\ stack'[1] = f
      /\ \A i \in 2..Len(stack) : stack'[i] = stack[i]
  BY ReplaceMove
<1>4. \A i \in 1..Len(stack) :
        /\ stack'[i].op = stack[i].op /\ stack'[i].node = stack[i].node
        /\ IsReading(stack'[i]) <=> IsReading(stack[i])
  BY <1>2, <1>3 DEF IsReading
<1>5. \A r : Reading(r)' <=> Reading(r)
  BY <1>3, <1>4 DEF Reading
<1>6. KeepsAllBut({})
  BY <1>5 DEF KeepsAllBut, Settled, Cached, ValueOf
<1>7. ASSUME NEW r, Told(r) PROVE Told(r)'
  <2>1. PICK i \in 1..Len(stack) : \E o \in ToCall(stack[i]) :
               o = r \/ (o \in Links /\ o \in inputs[r])
    BY <1>7 DEF Told
  <2>2. i # 1
    BY <2>1, <1>2 DEF ToCall, IsReading, ReadOps
  <2>3. i \in 2..Len(stack) /\ stack'[i] = stack[i] /\ i \in 1..Len(stack')
    BY <2>2, <1>2, <1>3
  <2> QED
    BY <2>1, <2>3 DEF Told, ToCall, ObserversOf
<1>8. ASSUME NEW r \in Readers
      PROVE  Holds(r)' /\ ~Reading(r)' => Told(r)' \/ Loose(r)' \/ Current(r)'
  <2>1. Stored(r)' = Stored(r) /\ (Holds(r)' => Holds(r))
    BY DEF Stored, Holds
  <2> QED
    BY <1>1, <1>5, <1>6, <1>7, <2>1, HeldKept
<1>9. FrameReads(f)'
  <2>1. f.node \in Readers
    BY <1>1, ReadingTop
  <2> QED
    BY <2>1, <1>6, FrameKept
<1>10. FramesRead'
  <2> SUFFICES ASSUME NEW i \in 1..Len(stack'), IsReading(stack'[i])
               PROVE  FrameReads(stack[i])'
    BY DEF FramesRead
  <2>1. PICK k : k = stack'[i]
    OBVIOUS
  <2>2. CASE i = 1
    BY <2>2, <1>3, <1>9
  <2>3. CASE i # 1
    <3>1. i \in 1..Len(stack) /\ stack[i] = k /\ IsReading(k)
      BY <2>1, <2>3, <1>2, <1>3
    <3>2. FrameReads(k)'
      BY <3>1, <1>1, <1>6, FramesKept
    <3> QED
      BY <2>1, <3>2
  <2> QED
    BY <2>2, <2>3
<1>11. Descending(R)'
  BY <1>1, <1>3, <1>4 DEF Descending
<1> QED
  BY <1>8, <1>10, <1>11 DEF CInv, HeldIsCurrent

\* A result is merged in.
LEMMA CachedReads ==
    ASSUME BaseInv, NEW t, t.node \in Readers, FrameReads(t), NEW x \in Followed(t.node),
           x # Null, x \notin Links, Settled(x),
           NEW f, f.node = t.node, f.left = t.left \ {x}, f.acc = Merge(t.acc, Cached(x))
    PROVE  FrameReads(f)
<1>1. \A q \in Quotes : f.acc[q] = t.acc[q] \cup Cached(x)[q]
  BY DEF Merge
<1>2. Done(f) \subseteq Done(t) \cup {x}
  BY DEF Done
<1>3. \A y \in Done(f) : Settled(y) /\ \A q \in Quotes : Cached(y)[q] \subseteq f.acc[q]
  <2> SUFFICES ASSUME NEW y \in Done(f)
               PROVE  Settled(y) /\ \A q \in Quotes : Cached(y)[q] \subseteq f.acc[q]
    OBVIOUS
  <2>1. CASE y = x
    BY <2>1, <1>1
  <2>2. CASE y \in Done(t)
    BY <2>2, <1>1 DEF FrameReads
  <2> QED
    BY <2>1, <2>2, <1>2
<1>4. \A q \in Quotes : \A v \in f.acc[q] :
        \E y \in Followed(f.node) : y # Null /\ Settled(y) /\ v \in Cached(y)[q]
  BY <1>1 DEF FrameReads
<1>5. /\ f.left \subseteq inputs[f.node] \cup Followed(f.node)
      /\ \A h \in Links : h \in inputs[f.node] \ f.left => link[h] # Null
  BY DEF FrameReads
<1> QED
  BY <1>3, <1>4, <1>5 DEF FrameReads

\* A handle is followed: what it leads to is read next.
LEMMA LinkReads ==
    ASSUME BaseInv, NEW t, t.node \in Readers, FrameReads(t), NEW x \in Links,
           x \in t.left, link[x] # Null,
           NEW f, f.node = t.node, f.left = (t.left \ {x}) \cup {link[x]}, f.acc = t.acc
    PROVE  FrameReads(f)
<1>1. x \in inputs[t.node] /\ link[x] \in Followed(t.node)
  <2>1. x \notin Followed(t.node)
    BY FollowedType, ClassesAssumption DEF Nodes
  <2>2. x \in inputs[t.node]
    BY <2>1 DEF FrameReads
  <2> QED
    BY <2>2, FollowedType
<1>2. Done(f) \subseteq Done(t)
  BY FollowedType, ClassesAssumption DEF Done, Nodes
<1>3. \A y \in Done(f) : Settled(y) /\ \A q \in Quotes : Cached(y)[q] \subseteq f.acc[q]
  BY <1>2 DEF FrameReads
<1>4. \A q \in Quotes : \A v \in f.acc[q] :
        \E y \in Followed(f.node) : y # Null /\ Settled(y) /\ v \in Cached(y)[q]
  BY DEF FrameReads
<1>5. /\ f.left \subseteq inputs[f.node] \cup Followed(f.node)
      /\ \A h \in Links : h \in inputs[f.node] \ f.left => link[h] # Null
  BY <1>1 DEF FrameReads
<1> QED
  BY <1>3, <1>4, <1>5 DEF FrameReads

\* Reading an input.
LEMMA ReadCurrent ==
    ASSUME NEW R, Orders(R), BaseInv, CInv(R), NEW x \in Nodes, Read(x)
    PROVE  CInv(R)'
<1>1. /\ HeldIsCurrent /\ FramesRead /\ Descending(R) /\ TypeOK
      /\ stack # <<>> /\ IsReading(Top) /\ x \in Top.left
      /\ UNCHANGED <<inputs, value, link, isObserver, frozen, result, view>>
  BY ReadMove DEF CInv, BaseInv, graph
<1>2. /\ Top = stack[1] /\ 1 \in 1..Len(stack) /\ Len(stack) \in Nat \ {0}
      /\ Top.node \in Readers /\ FrameReads(Top)
  BY <1>1, ReadingTop
<1>3. ASSUME NEW p, NEW f \in Frames, ReadCached(x, p, f), p = Cached(x),
             x \in Quotes \cup Lazies, Settled(x)
      PROVE  CInv(R)'
  <2>1. x \notin Links /\ x # Null /\ x \in Followed(Top.node)
    BY <1>1, <1>2, <1>3, FollowedType, ClassesAssumption DEF FrameReads, Nodes
  <2>2. FrameReads(f)
    BY <2>1, <1>2, <1>3, CachedReads DEF ReadCached
  <2> QED
    BY <2>2, <1>1, <1>3, ReplaceCurrent DEF ReadCached, Become
<1>4. CASE /\ x \in Quotes /\ value[x] # Null
           /\ \E f \in Frames : ReadCached(x, ValueOf(x), f)
  <2>1. ValueOf(x) = Cached(x) /\ Settled(x)
    BY <1>4, ClassesAssumption DEF Cached, Settled
  <2> QED
    BY <1>3, <1>4, <2>1
<1>5. CASE /\ x \in Lazies /\ (calculated[x] \/ frozen[x])
           /\ \E f \in Frames : ReadCached(x, result[x], f)
  <2>1. ~Reading(x)
    BY <1>1, <1>5, NotReading
  <2>2. result[x] = Cached(x) /\ Settled(x)
    BY <1>5, <2>1, ClassesAssumption DEF Cached, Settled
  <2> QED
    BY <1>3, <1>5, <2>2
<1>6. ASSUME NEW f \in Frames, ReadLink(x, f) PROVE CInv(R)'
  <2>1. FrameReads(f)
    BY <1>1, <1>2, <1>6, LinkReads DEF ReadLink
  <2> QED
    BY <2>1, <1>1, <1>6, ReplaceCurrent DEF ReadLink, Become
<1>7. CASE thrown' = TRUE /\ UNCHANGED <<calculated, stack>>
  BY <1>1, <1>7 DEF CInv, HeldIsCurrent, FramesRead, FrameReads, Done, Descending, Holds,
     Reading, Told, ToCall, ObserversOf, Loose, Current, Stored, ReadNow, Followed, Cached,
     ValueOf, Settled
<1>8. CASE ReadCall(x)
  <2>1. /\ x \in Lazies /\ ~calculated[x] /\ ~frozen[x] /\ x \in Readers
        /\ calculated' = [calculated EXCEPT ![x] = TRUE]
    BY <1>8 DEF ReadCall, Readers
  <2>2. PICK f : f = CalculateFrame(x)
    OBVIOUS
  <2>3. f.op = "calculate" /\ f.node = x /\ IsReading(f) /\ FrameReads(f)'
    BY <1>1, <2>1, <2>2, CalculateFrameFacts
  <2>4. /\ Len(stack') = Len(stack) + 1 /\ stack'[1] = f
        /\ \A i \in 2..Len(stack') : i - 1 \in 1..Len(stack) /\ stack'[i] = stack[i-1]
        /\ \A i \in 1..Len(stack) : i + 1 \in 1..Len(stack') /\ stack'[i+1] = stack[i]
    <3>1. BaseInv /\ frozenAsked' = frozenAsked
      BY ReadMove
    <3> QED
      BY <3>1, <1>1, <1>8, <2>1, <2>2, CalculateBase DEF ReadCall
  <2>5. \A r : Reading(r)' <=> Reading(r) \/ r = x
    <3> SUFFICES ASSUME NEW r PROVE Reading(r)' <=> Reading(r) \/ r = x
      OBVIOUS
    <3>1. Reading(r) => Reading(r)'
      BY <2>4 DEF Reading
    <3>2. r = x => Reading(r)'
      <4>1. 1 \in 1..Len(stack')
        BY <2>4, <1>2
      <4> QED
        BY <4>1, <2>3, <2>4 DEF Reading
    <3>3. Reading(r)' => Reading(r) \/ r = x
      <4> SUFFICES ASSUME NEW i \in 1..Len(stack'), IsReading(stack'[i]), stack'[i].node = r
                   PROVE  Reading(r) \/ r = x
        BY DEF Reading
      <4>1. CASE i = 1
        BY <4>1, <2>3, <2>4
      <4>2. CASE i # 1
        <5>1. i \in 2..Len(stack')
          BY <4>2, <2>4, <1>2
        <5> QED
          BY <5>1, <2>4 DEF Reading
      <4> QED
        BY <4>1, <4>2
    <3> QED
      BY <3>1, <3>2, <3>3
  <2>6. KeepsAllBut({})
    <3> SUFFICES ASSUME NEW y \in Quotes \cup Lazies, Settled(y)
                 PROVE  Settled(y)' /\ Cached(y)' = Cached(y)
      BY <1>1 DEF KeepsAllBut
    <3>1. y # x
      BY <2>1, ClassesAssumption DEF Settled
    <3> QED
      BY <1>1, <2>1, <2>5, <3>1 DEF Settled, TypeOK, Cached, ValueOf
  <2>7. ASSUME NEW r, Told(r) PROVE Told(r)'
    <3>1. PICK i \in 1..Len(stack) : \E o \in ToCall(stack[i]) :
                 o = r \/ (o \in Links /\ o \in inputs[r])
      BY <2>7 DEF Told
    <3> QED
      BY <3>1, <2>4, <1>1 DEF Told, ToCall, ObserversOf
  <2>8. ASSUME NEW r \in Readers, r # x
        PROVE  Holds(r)' /\ ~Reading(r)' => Told(r)' \/ Loose(r)' \/ Current(r)'
    <3>1. Stored(r)' = Stored(r) /\ (Holds(r)' => Holds(r))
      BY <1>1, <2>1, <2>8 DEF Stored, Holds, TypeOK
    <3> QED
      BY <1>1, <2>5, <2>6, <2>7, <3>1, HeldKept
  <2>9. FramesRead'
    <3> SUFFICES ASSUME NEW i \in 1..Len(stack'), IsReading(stack'[i])
                 PROVE  FrameReads(stack[i])'
      BY DEF FramesRead
    <3>1. PICK k : k = stack'[i]
      OBVIOUS
    <3>2. CASE i = 1
      BY <3>2, <2>3, <2>4
    <3>3. CASE i # 1
      <4>1. i - 1 \in 1..Len(stack) /\ stack[i-1] = k /\ IsReading(k)
        BY <3>1, <3>3, <2>4, <1>2
      <4>2. FrameReads(k)'
        BY <4>1, <1>1, <2>6, FramesKept
      <4> QED
        BY <3>1, <4>2
    <3> QED
      BY <3>2, <3>3
  <2>10. Descending(R)'
    <3> SUFFICES ASSUME NEW i \in 1..Len(stack'), NEW j \in 1..Len(stack'), i < j,
                        IsReading(stack'[i]), IsReading(stack'[j])
                 PROVE  <<stack'[i].node, stack'[j].node>> \in R
      BY DEF Descending
    <3>1. j - 1 \in 1..Len(stack) /\ stack'[j] = stack[j-1]
      BY <2>4, <1>2
    <3>2. CASE i = 1
      <4>1. <<x, stack[j-1].node>> \in R
        BY <3>1, <1>1, <2>1, NotReading
      <4> QED
        BY <3>1, <3>2, <4>1, <2>3, <2>4
    <3>3. CASE i # 1
      <4>1. i - 1 \in 1..Len(stack) /\ stack'[i] = stack[i-1] /\ i - 1 < j - 1
        BY <3>3, <2>4, <1>2
      <4> QED
        BY <3>1, <4>1, <1>1 DEF Descending
    <3> QED
      BY <3>2, <3>3
  <2> QED
    BY <2>5, <2>8, <2>9, <2>10 DEF CInv, HeldIsCurrent
<1> QED
  BY <1>4, <1>5, <1>6, <1>7, <1>8, ReadMove

\* When a reader returns it, and only it, is no longer reading.
LEMMA PopReading ==
    ASSUME BaseInv, stack # <<>>, IsReading(Top), stack' = Tail(stack)
    PROVE  \A r : Reading(r)' <=> Reading(r) /\ r # Top.node
<1>1. Top = stack[1] /\ 1 \in 1..Len(stack) /\ Len(stack) \in Nat \ {0}
  BY BaseFacts
<1>2. /\ \A i \in 1..Len(stack') : i + 1 \in 2..Len(stack) /\ stack'[i] = stack[i+1]
      /\ \A i \in 2..Len(stack) : i - 1 \in 1..Len(stack') /\ stack'[i-1] = stack[i]
  BY <1>1, PopMove
<1>3. \A i \in 2..Len(stack) : IsReading(stack[i]) => stack[i].node # Top.node
  BY <1>1 DEF BaseInv, GoodStack
<1>4. \A i \in 2..Len(stack) : i \in 1..Len(stack)
  BY <1>1
<1>5. \A i \in 1..Len(stack) : i = 1 \/ i \in 2..Len(stack)
  BY <1>1
<1> QED
  BY <1>1, <1>2, <1>3, <1>4, <1>5 DEF Reading

\* The return of a reader disturbs nobody else.
LEMMA PopCurrent ==
    ASSUME NEW R, BaseInv, CInv(R), stack # <<>>, IsReading(Top), stack' = Tail(stack),
           KeepsAllBut({}),
           \A r \in Readers : r # Top.node => Stored(r)' = Stored(r) /\ (Holds(r)' => Holds(r)),
           \A r \in Readers : r = Top.node /\ Holds(r)' => Current(r)'
    PROVE  CInv(R)'
<1>1. HeldIsCurrent /\ FramesRead /\ Descending(R) /\ TypeOK
  BY DEF CInv, BaseInv
<1>2. Top = stack[1] /\ 1 \in 1..Len(stack) /\ Len(stack) \in Nat \ {0}
  BY BaseFacts
<1>3. /\ \A i \in 1..Len(stack') : i + 1 \in 1..Len(stack) /\ stack'[i] = stack[i+1]
      /\ \A i \in 2..Len(stack) : i - 1 \in 1..Len(stack') /\ stack'[i-1] = stack[i]
  BY PopMove
<1>4. ASSUME NEW r, Told(r) PROVE Told(r)'
  <2>1. PICK i \in 1..Len(stack) : \E o \in ToCall(stack[i]) :
               o = r \/ (o \in Links /\ o \in inputs[r])
    BY <1>4 DEF Told
  <2>2. i # 1
    BY <2>1, <1>2 DEF ToCall, IsReading, ReadOps
  <2>3. i - 1 \in 1..Len(stack') /\ stack'[i-1] = stack[i]
    BY <2>2, <1>2, <1>3
  <2> QED
    BY <2>1, <2>3 DEF Told, ToCall, ObserversOf, KeepsAllBut
<1>5. ASSUME NEW r \in Readers
      PROVE  Holds(r)' /\ ~Reading(r)' => Told(r)' \/ Loose(r)' \/ Current(r)'
  <2>1. CASE r = Top.node
    BY <2>1
  <2>2. CASE r # Top.node
    <3>1. Reading(r) => Reading(r)'
      BY <2>2, PopReading
    <3> QED
      BY <2>2, <3>1, <1>1, <1>4, HeldKept
  <2> QED
    BY <2>1, <2>2
<1>6. FramesRead'
  <2> SUFFICES ASSUME NEW i \in 1..Len(stack'), IsReading(stack'[i])
               PROVE  FrameReads(stack[i])'
    BY DEF FramesRead
  <2>1. PICK k : k = stack'[i]
    OBVIOUS
  <2>2. i + 1 \in 1..Len(stack) /\ stack[i+1] = k /\ IsReading(k)
    BY <2>1, <1>3
  <2>3. FrameReads(k)'
    BY <2>2, <1>1, FramesKept
  <2> QED
    BY <2>1, <2>3
<1>7. Descending(R)'
  <2> SUFFICES ASSUME NEW i \in 1..Len(stack'), NEW j \in 1..Len(stack'), i < j,
                      IsReading(stack'[i]), IsReading(stack'[j])
               PROVE  <<stack'[i].node, stack'[j].node>> \in R
    BY DEF Descending
  <2>1. /\ i + 1 \in 1..Len(stack) /\ stack'[i] = stack[i+1]
        /\ j + 1 \in 1..Len(stack) /\ stack'[j] = stack[j+1] /\ i + 1 < j + 1
    BY <1>3
  <2> QED
    BY <2>1, <1>1 DEF Descending
<1> QED
  BY <1>5, <1>6, <1>7 DEF CInv, HeldIsCurrent

\* A calculation ends: its results are those of its inputs as they are now.
LEMMA CalculateEndCurrent ==
    ASSUME NEW R, BaseInv, CInv(R), CalculateEnd
    PROVE  CInv(R)'
<1>1. /\ FramesRead /\ TypeOK /\ stack # <<>> /\ Top.op = "calculate" /\ IsReading(Top)
      /\ Top.left = {} /\ stack' = Tail(stack)
      /\ result' = [result EXCEPT ![Top.node] = Top.acc]
      /\ UNCHANGED <<inputs, value, link, isObserver, calculated, frozen, view>>
  BY DEF CInv, BaseInv, CalculateEnd, TopIs, Return, graph, IsReading, ReadOps
<1>2. PICK n : n = Top.node
  OBVIOUS
<1>3. n \in Lazies /\ n \in Readers /\ Reading(n) /\ FrameReads(Top) /\ Top \in Frames
  BY <1>1, <1>2, ReadingTop DEF FrameTyped
<1>4. \A r : Reading(r)' <=> Reading(r) /\ r # n
  BY <1>1, <1>2, PopReading
<1>5. KeepsAllBut({})
  <2> SUFFICES ASSUME NEW x \in Quotes \cup Lazies, Settled(x)
               PROVE  Settled(x)' /\ Cached(x)' = Cached(x)
    BY <1>1 DEF KeepsAllBut
  <2>1. x # n
    BY <1>3, ClassesAssumption DEF Settled
  <2> QED
    BY <1>1, <1>2, <1>3, <1>4, <2>1 DEF Settled, TypeOK, Cached, ValueOf
<1>6. \A r \in Readers : r # n => Stored(r)' = Stored(r) /\ (Holds(r)' => Holds(r))
  BY <1>1, <1>2, <1>3 DEF Stored, Holds, TypeOK
<1>7. Current(n)'
  <2>1. (\A x \in Followed(n) : x # Null /\ Settled(x)) /\ Top.acc = ReadNow(n)
    BY <1>1, <1>2, <1>3, FrameFinished
  <2>2. (\A x \in Followed(n)' : x # Null /\ Settled(x)') /\ ReadNow(n)' = ReadNow(n)
    BY <1>3, <1>5, <2>1, ReadKept
  <2>3. Stored(n)' = Top.acc
    BY <1>1, <1>2, <1>3 DEF Stored, TypeOK
  <2> QED
    BY <2>1, <2>2, <2>3 DEF Current
<1> QED
  BY <1>1, <1>2, <1>5, <1>6, <1>7, PopCurrent

\* A calculation throws: the object is as if it had never been asked.
LEMMA CalculateThrowCurrent ==
    ASSUME NEW R, BaseInv, CInv(R), CalculateThrow
    PROVE  CInv(R)'
<1>1. /\ FramesRead /\ TypeOK /\ stack # <<>> /\ Top.op = "calculate" /\ IsReading(Top)
      /\ stack' = Tail(stack) /\ calculated' = [calculated EXCEPT ![Top.node] = FALSE]
      /\ UNCHANGED <<inputs, value, link, isObserver, result, frozen, view>>
  BY DEF CInv, BaseInv, CalculateThrow, TopIs, Return, graph, IsReading, ReadOps
<1>2. PICK n : n = Top.node
  OBVIOUS
<1>3. n \in Lazies /\ n \in Readers /\ Reading(n)
  BY <1>1, <1>2, ReadingTop DEF FrameTyped
<1>4. \A r : Reading(r)' <=> Reading(r) /\ r # n
  BY <1>1, <1>2, PopReading
<1>5. KeepsAllBut({})
  <2> SUFFICES ASSUME NEW x \in Quotes \cup Lazies, Settled(x)
               PROVE  Settled(x)' /\ Cached(x)' = Cached(x)
    BY <1>1 DEF KeepsAllBut
  <2>1. x # n
    BY <1>3, ClassesAssumption DEF Settled
  <2> QED
    BY <1>1, <1>2, <1>3, <1>4, <2>1 DEF Settled, TypeOK, Cached, ValueOf
<1>6. \A r \in Readers : r # n => Stored(r)' = Stored(r) /\ (Holds(r)' => Holds(r))
  BY <1>1, <1>2, <1>3 DEF Stored, Holds, TypeOK
<1>7. ~Holds(n)'
  BY <1>1, <1>2, <1>3 DEF Holds, TypeOK
<1> QED
  BY <1>1, <1>2, <1>5, <1>6, <1>7, PopCurrent

\* An eager observer's update() ends: it has seen what there is to see, or
\* remembers that it failed.
LEMMA UpdateEndCurrent ==
    ASSUME NEW R, BaseInv, CInv(R), UpdateEnd
    PROVE  CInv(R)'
<1>1. /\ FramesRead /\ TypeOK /\ stack # <<>> /\ Top.op = "update" /\ IsReading(Top)
      /\ (thrown \/ Top.left = {}) /\ stack' = Tail(stack)
  BY DEF CInv, BaseInv, UpdateEnd, TopIs, Return, IsReading, ReadOps
<1>a. /\ stack' = Tail(stack)
      /\ view' = [view EXCEPT ![Top.node] = IF thrown THEN Failed ELSE Top.acc]
      /\ UNCHANGED <<inputs, value, link, isObserver, calculated, result, frozen>>
  BY DEF UpdateEnd, Return, graph
<1>2. PICK e : e = Top.node
  OBVIOUS
<1>3. /\ e \in Eagers /\ e \in Readers /\ e \notin Lazies /\ FrameReads(Top)
      /\ Top \in Frames
  BY <1>1, <1>2, ReadingTop, ClassesAssumption DEF FrameTyped
<1>4. \A r : Reading(r)' <=> Reading(r) /\ r # e
  BY <1>1, <1>a, <1>2, PopReading
<1>5. KeepsAllBut({})
  BY <1>a, <1>3, <1>4 DEF KeepsAllBut, Settled, Cached, ValueOf
<1>6. \A r \in Readers : r # e => Stored(r)' = Stored(r) /\ (Holds(r)' => Holds(r))
  BY <1>1, <1>a, <1>2, <1>3 DEF Stored, Holds, TypeOK, Readers
<1>7. ASSUME Holds(e)' PROVE Current(e)'
  <2>1. ~thrown /\ Top.left = {} /\ view'[e] = Top.acc
    BY <1>1, <1>a, <1>2, <1>3, <1>7 DEF Holds, TypeOK, UpdateEnd
  <2>2. (\A x \in Followed(e) : x # Null /\ Settled(x)) /\ Top.acc = ReadNow(e)
    BY <1>2, <1>3, <2>1, FrameFinished
  <2>3. (\A x \in Followed(e)' : x # Null /\ Settled(x)') /\ ReadNow(e)' = ReadNow(e)
    BY <1>3, <1>5, <2>2, ReadKept
  <2> QED
    BY <1>3, <2>1, <2>2, <2>3 DEF Current, Stored
<1> QED
  BY <1>1, <1>a, <1>2, <1>5, <1>6, <1>7, PopCurrent

\* recalculate() goes on to tell everyone it has to.
LEMMA RecalculateEndCurrent ==
    ASSUME NEW R, BaseInv, CInv(R), RecalculateEnd
    PROVE  CInv(R)'
<1>1. /\ HeldIsCurrent /\ TypeOK /\ stack # <<>> /\ Top.op = "recalculate"
      /\ frozen' = [frozen EXCEPT ![Top.node] = Top.flag]
      /\ UNCHANGED <<inputs, value, link, isObserver, calculated, result, view>>
  BY DEF CInv, BaseInv, RecalculateEnd, TopIs, graph
<1>2. PICK n : n = Top.node
  OBVIOUS
<1>3. /\ n \in Lazies /\ Len(stack) = 1 /\ Len(stack') = 1 /\ Top = stack[1]
      /\ stack'[1] = NotifyFrame(n)
  BY <1>2, RecalculateEndBase, BaseFacts DEF Top
<1>4. ~frozen[n]
  BY <1>1, <1>2, <1>3 DEF BaseInv, FreezeInv
<1>5. stack'[1].op = "notify" /\ stack'[1].left = ObserversOf(n)
  BY <1>3 DEF NotifyFrame, Frame
<1>6. /\ \A i \in 1..Len(stack') : ~IsReading(stack'[i])
      /\ \A r : ~Reading(r)
  BY <1>1, <1>3, <1>5 DEF IsReading, ReadOps, Reading
<1>7. FramesRead' /\ Descending(R)' /\ \A r : ~Reading(r)'
  BY <1>6, NoReaders
<1>8. KeepsAllBut({})
  <2> SUFFICES ASSUME NEW x \in Quotes \cup Lazies, Settled(x)
               PROVE  Settled(x)' /\ Cached(x)' = Cached(x)
    BY <1>1 DEF KeepsAllBut
  <2>1. x \in Lazies => calculated'[x] \/ frozen'[x]
    BY <1>1, <1>2, <1>4 DEF Settled, TypeOK
  <2> QED
    BY <1>1, <1>7, <2>1 DEF Settled, Cached, ValueOf
<1>9. ASSUME NEW r, Told(r) PROVE Told(r)'
  <2>1. \E o \in ObserversOf(n) : o = r \/ (o \in Links /\ o \in inputs[r])
    BY <1>1, <1>2, <1>3, <1>9 DEF Told, ToCall
  <2> QED
    BY <2>1, <1>1, <1>3, <1>5, ToldByNotify
<1>10. ASSUME NEW r \in Readers
       PROVE  Holds(r)' /\ ~Reading(r)' => Told(r)' \/ Loose(r)' \/ Current(r)'
  <2>1. Stored(r)' = Stored(r) /\ (Holds(r)' => Holds(r))
    BY <1>1 DEF Stored, Holds
  <2> QED
    BY <1>1, <1>6, <1>8, <1>9, <2>1, HeldKept
<1> QED
  BY <1>7, <1>10 DEF CInv, HeldIsCurrent

-----------------------------------------------------------------------------
\* The inductive invariant, whatever the client calls and whatever throws.
LEMMA CurrencyInvariant ==
    ASSUME NEW R, Orders(R)
    PROVE  Spec => [](BaseInv /\ CInv(R))
<1>1. Init => CInv(R)
  <2> SUFFICES ASSUME Init PROVE CInv(R)
    OBVIOUS
  <2>1. Len(stack) = 0
    BY DEF Init
  <2>2. \A r \in Readers : ~Holds(r)
    BY DEF Init, Holds, Readers
  <2> QED
    BY <2>1, <2>2 DEF CInv, HeldIsCurrent, FramesRead, Descending
<1>2. BaseInv /\ CInv(R) /\ [Next]_vars => CInv(R)'
  <2> SUFFICES ASSUME BaseInv, CInv(R), [Next]_vars PROVE CInv(R)'
    OBVIOUS
  <2>1. CASE Client
    BY <2>1, SetValueCurrent, AskCurrent, FreezeCurrent, UnfreezeCurrent, RecalculateCurrent,
       LinkToCurrent DEF Client
  <2>2. CASE Step
    BY <2>2, NotifyNextCurrent, NotifyCatchCurrent, NotifyEndCurrent, ReadCurrent,
       CalculateEndCurrent, CalculateThrowCurrent, UpdateEndCurrent, RecalculateEndCurrent
       DEF Step
  <2>3. CASE UNCHANGED vars
    BY <2>3 DEF vars, CInv, HeldIsCurrent, FramesRead, FrameReads, Done, Descending, Holds,
       Reading, Told, ToCall, ObserversOf, Loose, Current, Stored, ReadNow, Followed, Cached,
       ValueOf, Settled
  <2> QED
    BY <2>1, <2>2, <2>3 DEF Next
<1> QED
  BY <1>1, <1>2, BaseInvariant, PTL DEF Spec

\* Between calls nobody is reading or about to be told.
LEMMA CurrencySuffices ==
    ASSUME BaseInv, HeldIsCurrent, Idle, LinksObserve, NEW r \in Readers, Holds(r)
    PROVE  Served(r) /\ Stored(r) = ReadNow(r)
<1>1. ~Loose(r)
  BY DEF Loose, LinksObserve
<1>2. Current(r)
  BY <1>1, IdleFacts
<1> QED
  BY <1>2 DEF Current, Served, Settled

\* When a call is over, what an object would serve from its cache is what its
\* inputs say now: in any order of notification, with eager observers forcing
\* calculations between two notifications, objects frozen and thawed, handles
\* relinked and any calculation or update() throwing
\* (lazyobject.hpp:96-157, handle.hpp:85-134, observable.hpp:219-248).
THEOREM CachesStayCurrent ==
    ASSUME NEW R, Orders(R)
    PROVE  Spec => []CachedIsCurrent
<1>1. BaseInv /\ CInv(R) => CachedIsCurrent
  <2> SUFFICES ASSUME BaseInv, CInv(R), Idle, LinksObserve, NEW n \in Lazies,
                      calculated[n]
               PROVE  Served(n) /\ result[n] = ReadNow(n)
    BY DEF CachedIsCurrent
  <2>1. n \in Readers /\ Holds(n) /\ Stored(n) = result[n]
    BY DEF Readers, Holds, Stored
  <2> QED
    BY <2>1, CurrencySuffices DEF CInv
<1> QED
  BY <1>1, CurrencyInvariant, PTL

\* When a call is over, whoever reads at every update(), and could, has seen
\* the current results (lazyobject.hpp:96-115).
THEOREM ViewsStayCurrent ==
    ASSUME NEW R, Orders(R)
    PROVE  Spec => []ViewIsCurrent
<1>1. BaseInv /\ CInv(R) => ViewIsCurrent
  <2> SUFFICES ASSUME BaseInv, CInv(R), Idle, LinksObserve, NEW e \in Eagers,
                      view[e] \notin {Unread, Failed}
               PROVE  Served(e) /\ view[e] = ReadNow(e)
    BY DEF ViewIsCurrent
  <2>1. e \in Readers /\ Holds(e) /\ Stored(e) = view[e]
    BY ClassesAssumption DEF Readers, Holds, Stored
  <2> QED
    BY <2>1, CurrencySuffices DEF CInv
<1> QED
  BY <1>1, CurrencyInvariant, PTL
=============================================================================
