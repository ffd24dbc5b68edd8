---------------------- MODULE ThreadSafeObserverProofs ----------------------
(***************************************************************************)
(* Proofs about ThreadSafeObserver for the use the build is made for: one  *)
(* thread works while any number of others drop references, with any sets  *)
(* of observers and observables.                                           *)
(***************************************************************************)
EXTENDS ThreadSafeObserver, WellFoundedInduction, TLAPS

\* All threads but w are collectors.
OneWorker(w) == \A t \in Threads \ {w} : Operations[t] \subseteq {"release"}

-----------------------------------------------------------------------------
(* Types, frames and stacks.                                               *)

Pairs == Observers \X (1..MaxConnections)
Mutexes == {Settings} \cup {ObserverMutex(o) : o \in Observers}
                      \cup {ProxyMutex(o) : o \in Observers}
Single == {"construct", "registerWith", "unregisterWith", "unregisterWithAll", "assign"}
Ops == MemberFunctions \cup {"construct", "destroy", "notify", "emit", "enable", "proxy"}
Points == {"lock", "join", "connect", "leave", "test", "settings", "disconnect", "copy",
           "deactivate", "loop", "weak", "body", "unlock"}
FrameType ==
    [op : Ops, at : Points, o : Observers \cup {None}, p : Observers \cup {None},
     h : Observables \cup {None}, left : SUBSET (Observables \cup Pairs),
     locks : SUBSET Mutexes, threw : BOOLEAN]

Lives == {"unborn", "new", "alive", "dying", "freed"}
Types ==
    /\ life \in [Observers -> Lives]
    /\ owned \in [Observers -> BOOLEAN]
    /\ active \in [Observers -> BOOLEAN]
    /\ observables \in [Observers -> SUBSET Observables]
    /\ observers \in [Observables -> SUBSET Observers]
    /\ slots \in [Observables -> SUBSET Pairs]
    /\ updatesType \in {"enabled", "disabled", "deferred"}
    /\ deferredObservers \in SUBSET Observers
    /\ stack \in [Threads -> Seq(FrameType)]
    /\ owed \in [Observers -> SUBSET Observables]

\* The points an operation goes through, and the mutexes it holds there.
PointsOf(op) ==
    CASE op = "construct" -> {"join", "connect"}
      [] op = "registerWith" -> {"lock", "join", "connect"}
      [] op = "registerWithObservables" -> {"lock", "loop"}
      [] op \in {"unregisterWith", "unregisterWithAll"} ->
            {"lock", "leave", "test", "settings", "disconnect"}
      [] op = "destroy" ->
            {"lock", "deactivate", "leave", "test", "settings", "disconnect"}
      [] op = "assign" ->
            {"lock", "leave", "test", "settings", "disconnect", "copy", "join", "connect"}
      [] op = "notify" -> {"test", "settings"}
      [] op = "emit" -> {"loop"}
      [] op = "enable" -> {"lock", "loop"}
      [] OTHER -> {"lock", "weak", "body", "unlock"}

LocksOf(f) ==
    IF f.at = "lock" THEN {{}}
    ELSE CASE f.op \in {"construct", "notify"} -> {{}}
           [] f.op = "emit" -> {{}, {Settings}}
           [] f.op = "enable" -> {{Settings}}
           [] f.op = "registerWithObservables" -> {{ObserverMutex(f.p)}}
           [] f.op = "proxy" -> {{ProxyMutex(f.o)}}
           [] OTHER -> {{ObserverMutex(f.o)}}

InFlight(f) == f.at \in {"connect", "test", "settings", "disconnect"}

\* What frame f may look like.
GoodFrame(f) ==
    /\ f.at \in PointsOf(f.op)
    /\ f.locks \in LocksOf(f)
    /\ f.op \in Single \cup {"registerWithObservables", "destroy", "proxy"} => f.o \in Observers
    /\ f.op \in {"registerWithObservables", "assign"} => f.p \in Observers
    /\ f.op \in {"notify", "emit"} => f.h \in Observables
    /\ f.op \in Single \cup {"registerWithObservables", "destroy"} => f.left \subseteq Observables
    /\ f.op \in Single \cup {"destroy"} /\ InFlight(f) => f.h \in f.left

\* Frame g has called frame f.
Under(f, g) ==
    \/ g.op \in {"emit", "enable"} /\ g.at = "loop" /\ f.op = "proxy"
    \/ g.op = "proxy" /\ g.at = "body" /\ f.op \in {"notify", "emit"}
    \/ g.op = "proxy" /\ g.at = "unlock" /\ f.op = "destroy" /\ f.o = g.o
    \/ g.op = "registerWithObservables" /\ g.at = "loop" /\ f.op = "registerWith" /\ f.o = g.o

GoodStack(s) ==
    /\ \A i \in 1..Len(s) : GoodFrame(s[i])
    /\ \A i \in 1..Len(s) : i > 1 => Under(s[i - 1], s[i])
    /\ Len(s) > 0 => s[Len(s)].op # "proxy"

\* The stacks: only the worker does anything but destroy.
StackInv(w) ==
    /\ \A t \in Threads : GoodStack(stack[t])
    /\ \A t \in Threads \ {w} : \A i \in 1..Len(stack[t]) : stack[t][i].op = "destroy"

-----------------------------------------------------------------------------
(* Lives.                                                                  *)

Runs(s, op) == s # <<>> /\ s[1].op = op

\* What a frame that is running says about the observer it is for, given the
\* lives of observers, which are owned, and which proxies are active.
LiveFrame(f, l, ow, ac) ==
    /\ f.op \in MemberFunctions => ow[f.o]
    /\ f.op \in {"registerWithObservables", "assign"} => ow[f.p]
    /\ f.op = "construct" => l[f.o] = "new"
    /\ f.op = "destroy" => /\ l[f.o] = "dying"
                           /\ f.at \notin {"lock", "deactivate"} => ~ac[f.o]
    /\ f.op = "proxy" /\ f.at = "body" => l[f.o] = "alive"
    /\ f.op = "proxy" /\ f.at = "weak" => ac[f.o]

LifeInv(w) ==
    /\ \A o \in Observers :
          /\ active[o] => life[o] \in {"new", "alive", "dying"}
          /\ life[o] \in {"new", "alive"} => active[o]
          /\ owned[o] => life[o] = "alive"
          /\ life[o] = "new" => Runs(stack[w], "construct") /\ stack[w][1].o = o
    /\ \A t \in Threads : \A i \in 1..Len(stack[t]) : LiveFrame(stack[t][i], life, owned, active)
    /\ \A t, u \in Threads :
          Runs(stack[t], "destroy") /\ Runs(stack[u], "destroy")
             /\ stack[t][1].o = stack[u][1].o => t = u

-----------------------------------------------------------------------------
(* The settings.                                                           *)

\* What a frame of the worker says about the settings.
SetFrame(f, type) ==
    /\ Settings \in f.locks => type = "enabled"
    /\ f.at = "settings" => type # "enabled"
    /\ f.op \in {"unregisterWith", "assign"} /\ ~MayDropSome => type # "deferred"

SettingsInv(w) == \A i \in 1..Len(stack[w]) : SetFrame(stack[w][i], updatesType)

-----------------------------------------------------------------------------
(* Registrations.                                                          *)

Works(s) == s # <<>> /\ s[1].op \in Single \cup {"destroy"}

\* The observables that the observer of frame f is registered with, but for
\* the one in flight, when B are the sets observables_.
Watched(f, B) ==
    CASE f.op # "assign" \/ f.at = "lock" -> B[f.o]
      [] f.op = "assign" /\ f.at \in {"leave", "test", "settings", "disconnect"} -> f.left
      [] f.op = "assign" /\ f.at = "copy" -> {}
      [] OTHER -> B[f.o] \ f.left

\* Of the observable h, with lists R and signals S, observer o is registered
\* with it if h is in H, and not otherwise.
Linked(o, h, H, R, S) ==
    /\ o \in R[h] <=> h \in H
    /\ (\E c \in S[h] : c[1] = o) <=> h \in H

Working(f, B, R, S) ==
    /\ \A h \in Observables : IF InFlight(f) /\ h = f.h
                              THEN f.o \in R[h] <=> f.at = "connect"
                              ELSE Linked(f.o, h, Watched(f, B), R, S)
    /\ f.op = "unregisterWithAll" /\ f.at # "lock" => B[f.o] \subseteq f.left

AgreeInv ==
    /\ \A t \in Threads : Works(stack[t]) => Working(stack[t][1], observables, observers, slots)
    /\ \A o \in Observers : (\A t \in Threads : Works(stack[t]) => stack[t][1].o # o) =>
          \A h \in Observables : Linked(o, h, observables[o], observers, slots)

-----------------------------------------------------------------------------
(* Deferral.                                                               *)

\* The loop of enableUpdates is under way and will reach o, or is calling it.
WillTell(s, o) ==
    /\ s # <<>> /\ s[Len(s)].op = "enable" /\ s[Len(s)].at = "loop"
    /\ \/ <<o, 1>> \in s[Len(s)].left
       \/ Len(s) = 2 /\ s[1].op = "proxy" /\ s[1].o = o /\ s[1].at \in {"lock", "weak"}

\* With s the stack of the worker, D the deferred observers: o will be told, is
\* giving up all it watches, or clients may make it lose what it should be told.
Told(s, D, type, o) ==
    \/ o \in D /\ type # "enabled"
    \/ WillTell(s, o)
    \/ Runs(s, "unregisterWithAll") /\ s[1].o = o
    \/ MayDropSome

OwedInv(w) ==
    \A o \in Observers :
        /\ \A h \in owed[o] : o \in observers[h]
        /\ owed[o] # {} => /\ life[o] \in {"new", "alive"}
                           /\ Told(stack[w], deferredObservers, updatesType, o)

Inv(w) == Types /\ StackInv(w) /\ LifeInv(w) /\ SettingsInv(w) /\ AgreeInv /\ OwedInv(w)

-----------------------------------------------------------------------------
(* Mutexes and sequences.                                                  *)

\* The mutexes are different.
LEMMA MutexFacts ==
    /\ \A o : ObserverMutex(o) # Settings /\ ProxyMutex(o) # Settings
    /\ \A o, q : /\ ObserverMutex(o) # ProxyMutex(q)
                 /\ ObserverMutex(o) = ObserverMutex(q) => o = q
                 /\ ProxyMutex(o) = ProxyMutex(q) => o = q
<1>1. ASSUME NEW o PROVE Len(ObserverMutex(o)) = 2 /\ Len(ProxyMutex(o)) = 2 /\ Len(Settings) = 1
  BY DEF ObserverMutex, ProxyMutex, Settings
<1>2. \A o, q : /\ ObserverMutex(o) # ProxyMutex(q)
                /\ ObserverMutex(o) = ObserverMutex(q) => o = q
                /\ ProxyMutex(o) = ProxyMutex(q) => o = q
  BY DEF ObserverMutex, ProxyMutex
<1> QED
  BY <1>1, <1>2

\* A step within the top frame.
LEMMA ReplaceFacts ==
    ASSUME NEW S, NEW s \in Seq(S), s # <<>>, NEW f \in S
    PROVE  /\ <<f>> \o Tail(s) \in Seq(S)
           /\ Len(<<f>> \o Tail(s)) = Len(s)
           /\ (<<f>> \o Tail(s))[1] = f
           /\ \A i \in 2..Len(s) : (<<f>> \o Tail(s))[i] = s[i]
  OBVIOUS

\* A call.
LEMMA CallFacts ==
    ASSUME NEW S, NEW s \in Seq(S), s # <<>>, NEW c \in S, NEW f \in S
    PROVE  /\ <<c, f>> \o Tail(s) \in Seq(S)
           /\ Len(<<c, f>> \o Tail(s)) = Len(s) + 1
           /\ (<<c, f>> \o Tail(s))[1] = c
           /\ (<<c, f>> \o Tail(s))[2] = f
           /\ \A i \in 3..(Len(s) + 1) : (<<c, f>> \o Tail(s))[i] = s[i - 1]
  OBVIOUS

\* A return.
LEMMA ReturnFacts ==
    ASSUME NEW S, NEW s \in Seq(S), s # <<>>
    PROVE  /\ Tail(s) \in Seq(S)
           /\ Len(Tail(s)) = Len(s) - 1
           /\ \A i \in 1..(Len(s) - 1) : Tail(s)[i] = s[i + 1]
  OBVIOUS

\* A call by a client.
LEMMA SingleFacts ==
    ASSUME NEW S, NEW f \in S
    PROVE  <<f>> \in Seq(S) /\ Len(<<f>>) = 1 /\ <<f>>[1] = f /\ <<f>> # <<>>
  OBVIOUS

\* The stack is empty exactly when its length is zero.
LEMMA EmptyFacts ==
    ASSUME NEW S, NEW s \in Seq(S)
    PROVE  /\ Len(s) \in Nat /\ DOMAIN s = 1..Len(s) /\ (s = <<>> <=> Len(s) = 0)
           /\ s # <<>> => 1 \in 1..Len(s) /\ Len(s) \in 1..Len(s) /\ s[1] \in S
           /\ \A i \in 1..Len(s) : s[i] \in S
  OBVIOUS

-----------------------------------------------------------------------------
(* The shape of a stack.                                                   *)

\* Who calls is in a loop, in update(), or has left it; only some are called.
LEMMA CallerFacts ==
    ASSUME NEW s \in Seq(FrameType), GoodStack(s), NEW i \in 1..Len(s), i > 1
    PROVE  /\ i - 1 \in 1..Len(s) /\ Under(s[i - 1], s[i])
           /\ s[i].op \in {"emit", "enable", "proxy", "registerWithObservables"}
           /\ s[i].at \in {"loop", "body", "unlock"}
           /\ s[i - 1].op \in {"proxy", "notify", "emit", "destroy", "registerWith"}
<1>1. i - 1 \in 1..Len(s)
  BY EmptyFacts
<1>2. Under(s[i - 1], s[i])
  BY DEF GoodStack
<1> QED
  BY <1>1, <1>2 DEF Under

\* Lengths.
LEMMA Lengths ==
    ASSUME NEW n \in Nat
    PROVE  /\ n >= 1 /\ ~(n > 1) => n = 1
           /\ n > 1 /\ ~(n > 2) => n = 2
           /\ n >= 1 /\ n # 1 => n >= 2
           /\ n >= 1 /\ ~(1 < n) => n = 1
           /\ n > 1 /\ ~(2 < n) => n = 2
           /\ \A i \in 1..n : ~(i < n) => i = n
  OBVIOUS

\* Destructors call nobody, and neither does what works for one observer, but
\* for registerWith under registerWithObservables it is alone.
LEMMA ShapeFacts ==
    ASSUME NEW s \in Seq(FrameType), GoodStack(s), s # <<>>
    PROVE  /\ \A i \in 1..Len(s) : s[i].op = "destroy" \/ s[i].at = "weak" \/ s[i].at = "settings" => i = 1
           /\ s[1].op \in Single \ {"registerWith"} => Len(s) = 1
           /\ \A i \in 1..Len(s) : s[i].op \in MemberFunctions \cup {"construct"} =>
                 \/ i = Len(s) /\ Len(s) = 1
                 \/ /\ Len(s) = 2 /\ s[1].op = "registerWith"
                    /\ s[2].op = "registerWithObservables" /\ s[2].at = "loop" /\ s[1].o = s[2].o
           /\ \A i \in 1..Len(s) : s[i].op = "enable" => i = Len(s)
           /\ s[1].op \in {"emit", "enable", "proxy", "notify"} =>
                 \A i \in 1..Len(s) : s[i].op \notin MemberFunctions \cup {"construct"}
<1>0. Len(s) \in Nat /\ Len(s) >= 1 /\ 1 \in 1..Len(s) /\ Len(s) \in 1..Len(s)
  BY EmptyFacts
<1>1. \A i \in 1..Len(s) : i > 1 =>
         /\ i - 1 \in 1..Len(s) /\ Under(s[i - 1], s[i])
         /\ s[i].op \in {"emit", "enable", "proxy", "registerWithObservables"}
         /\ s[i].at \in {"loop", "body", "unlock"}
         /\ s[i - 1].op \in {"proxy", "notify", "emit", "destroy", "registerWith"}
  BY CallerFacts
<1>2. \A i \in 1..Len(s) : i < Len(s) =>
         s[i].op \in {"proxy", "notify", "emit", "destroy", "registerWith"}
  <2> SUFFICES ASSUME NEW i \in 1..Len(s), i < Len(s)
               PROVE  s[i].op \in {"proxy", "notify", "emit", "destroy", "registerWith"}
    OBVIOUS
  <2>1. PICK j : j = i + 1
    OBVIOUS
  <2>2. j \in 1..Len(s) /\ j > 1 /\ j - 1 = i
    BY <2>1, <1>0
  <2> QED
    BY <2>2, <1>1
<1>3. \A i \in 1..Len(s) : s[i].op = "destroy" \/ s[i].at = "weak" \/ s[i].at = "settings" => i = 1
  BY <1>1, <1>0
<1>4. s[1].op \in Single \ {"registerWith"} => Len(s) = 1
  BY <1>0, <1>2, Lengths DEF Single
<1>5. \A i \in 1..Len(s) : s[i].op = "enable" => i = Len(s)
  BY <1>2, <1>0
<1>6. ASSUME NEW i \in 1..Len(s), s[i].op \in MemberFunctions \cup {"construct"}
      PROVE  \/ i = Len(s) /\ Len(s) = 1
             \/ /\ Len(s) = 2 /\ s[1].op = "registerWith"
                /\ s[2].op = "registerWithObservables" /\ s[2].at = "loop" /\ s[1].o = s[2].o
  <2>1. CASE s[i].op = "registerWithObservables" /\ i > 1
    <3>1. i = Len(s)
      BY <2>1, <1>2, <1>0
    <3>2. /\ i - 1 \in 1..Len(s) /\ Under(s[i - 1], s[i])
      BY <2>1, <1>1
    <3>3. s[i - 1].op = "registerWith" /\ s[i].at = "loop" /\ s[i - 1].o = s[i].o
      BY <3>2, <2>1 DEF Under
    <3>4. ~(i - 1 > 1)
      BY <3>2, <3>3, <1>1
    <3>5. i = 2
      BY <3>4, <2>1, <1>0
    <3> QED
      BY <3>1, <3>3, <3>5, <2>1
  <2>2. CASE i = 1 /\ s[i].op = "registerWith" /\ Len(s) > 1
    <3>1. 2 \in 1..Len(s) /\ 2 > 1
      BY <2>2, <1>0
    <3>2. Under(s[1], s[2])
      BY <3>1 DEF GoodStack
    <3>3. s[2].op = "registerWithObservables" /\ s[2].at = "loop" /\ s[1].o = s[2].o
      BY <3>2, <2>2 DEF Under
    <3>4. ~(2 < Len(s))
      BY <3>1, <3>3, <1>2
    <3> QED
      BY <3>3, <3>4, <2>2, <1>0, Lengths
  <2>3. CASE i = 1 /\ s[i].op # "registerWith"
    <3>1. ~(1 < Len(s))
      BY <2>3, <1>6, <1>2, <1>0 DEF MemberFunctions
    <3> QED
      BY <3>1, <2>3, <1>0, Lengths
  <2>4. CASE i = 1 /\ s[i].op = "registerWith" /\ ~(Len(s) > 1)
    BY <2>4, <1>0, Lengths
  <2>5. i > 1 => s[i].op = "registerWithObservables"
    BY <1>1, <1>6 DEF MemberFunctions
  <2> QED
    BY <2>1, <2>2, <2>3, <2>4, <2>5, <1>0
<1>7. s[1].op \in {"emit", "enable", "proxy", "notify"} =>
                 \A i \in 1..Len(s) : s[i].op \notin MemberFunctions \cup {"construct"}
  BY <1>6, <1>0 DEF MemberFunctions
<1> QED
  BY <1>3, <1>4, <1>5, <1>6, <1>7

\* Being called does not depend on how far the callee is.
LEMMA UnderSame ==
    ASSUME NEW f, NEW e, NEW g, Under(e, g),
           (f.op = e.op /\ f.o = e.o) \/ (e.op = "notify" /\ f.op = "emit")
    PROVE  Under(f, g)
  BY DEF Under

\* A step within the top frame keeps the shape.
LEMMA GoodReplace ==
    ASSUME NEW s \in Seq(FrameType), GoodStack(s), s # <<>>, NEW f \in FrameType, GoodFrame(f),
           (f.op = s[1].op /\ f.o = s[1].o) \/ (s[1].op = "notify" /\ f.op = "emit")
    PROVE  GoodStack(<<f>> \o Tail(s))
<1>1. PICK r : r = <<f>> \o Tail(s)
  OBVIOUS
<1>2. /\ Len(s) \in Nat /\ Len(r) = Len(s) /\ r[1] = f /\ 1 \in 1..Len(s)
      /\ \A i \in 2..Len(s) : r[i] = s[i]
  BY <1>1, ReplaceFacts, EmptyFacts
<1>3. ASSUME NEW i \in 1..Len(s) PROVE GoodFrame(r[i])
  <2>1. CASE i = 1
    BY <2>1, <1>2
  <2>2. CASE i # 1
    <3>1. i \in 2..Len(s)
      BY <2>2, <1>2
    <3> QED
      BY <3>1, <1>2 DEF GoodStack
  <2> QED
    BY <2>1, <2>2
<1>4. ASSUME NEW i \in 1..Len(s), i > 1 PROVE Under(r[i - 1], r[i])
  <2>1. i \in 2..Len(s) /\ Under(s[i - 1], s[i]) /\ r[i] = s[i]
    BY <1>4, <1>2 DEF GoodStack
  <2>2. CASE i = 2
    BY <2>1, <2>2, <1>2, UnderSame
  <2>3. CASE i # 2
    <3>1. i - 1 \in 2..Len(s)
      BY <2>1, <2>3, <1>2
    <3> QED
      BY <2>1, <3>1, <1>2
  <2> QED
    BY <2>2, <2>3
<1>5. r[Len(s)].op # "proxy"
  <2>1. CASE Len(s) = 1
    BY <2>1, <1>2 DEF GoodStack
  <2>2. CASE Len(s) # 1
    <3>1. Len(s) \in 2..Len(s) /\ Len(s) > 0
      BY <2>2, <1>2
    <3> QED
      BY <3>1, <1>2 DEF GoodStack
  <2> QED
    BY <2>1, <2>2
<1>6. GoodStack(r)
  BY <1>2, <1>3, <1>4, <1>5 DEF GoodStack
<1> QED
  BY <1>1, <1>6

\* So does a call.
LEMMA GoodCall ==
    ASSUME NEW s \in Seq(FrameType), GoodStack(s), s # <<>>,
           NEW c \in FrameType, GoodFrame(c), NEW f \in FrameType, GoodFrame(f),
           Under(c, f), f.op = s[1].op, f.o = s[1].o
    PROVE  GoodStack(<<c, f>> \o Tail(s))
<1>1. PICK r : r = <<c, f>> \o Tail(s)
  OBVIOUS
<1>2. /\ Len(s) \in Nat /\ Len(r) = Len(s) + 1 /\ r[1] = c /\ r[2] = f /\ Len(s) >= 1
      /\ \A i \in 3..(Len(s) + 1) : r[i] = s[i - 1]
      /\ 1 \in 1..Len(s)
  BY <1>1, CallFacts, EmptyFacts
<1>3. ASSUME NEW i \in 1..Len(r) PROVE GoodFrame(r[i])
  <2>1. CASE i = 1 \/ i = 2
    BY <2>1, <1>2
  <2>2. CASE i # 1 /\ i # 2
    <3>1. i \in 3..(Len(s) + 1) /\ i - 1 \in 1..Len(s)
      BY <2>2, <1>2
    <3> QED
      BY <3>1, <1>2 DEF GoodStack
  <2> QED
    BY <2>1, <2>2
<1>4. ASSUME NEW i \in 1..Len(r), i > 1 PROVE Under(r[i - 1], r[i])
  <2>1. CASE i = 2
    BY <2>1, <1>2
  <2>2. CASE i = 3
    <3>1. 3 \in 3..(Len(s) + 1) /\ 2 \in 1..Len(s) /\ 2 > 1
      BY <2>2, <1>2, <1>4
    <3>2. r[3] = s[2]
      BY <3>1, <1>2
    <3>3. Under(s[1], s[2])
      BY <3>1 DEF GoodStack
    <3> QED
      BY <2>2, <1>2, <3>2, <3>3, UnderSame
  <2>3. CASE i # 2 /\ i # 3
    <3>1. i \in 3..(Len(s) + 1) /\ i - 1 \in 3..(Len(s) + 1) /\ i - 1 \in 1..Len(s) /\ i - 1 > 1
      BY <2>3, <1>2, <1>4
    <3>2. r[i] = s[i - 1] /\ r[i - 1] = s[(i - 1) - 1]
      BY <3>1, <1>2
    <3>3. Under(s[(i - 1) - 1], s[i - 1])
      BY <3>1 DEF GoodStack
    <3> QED
      BY <3>2, <3>3
  <2> QED
    BY <2>1, <2>2, <2>3
<1>5. r[Len(r)].op # "proxy"
  <2>1. CASE Len(s) = 1
    BY <2>1, <1>2 DEF GoodStack
  <2>2. CASE Len(s) # 1
    <3>0. Len(s) >= 2
      BY <2>2, <1>2, Lengths
    <3>1. Len(r) \in 3..(Len(s) + 1) /\ Len(r) - 1 = Len(s) /\ Len(s) > 0
      BY <3>0, <1>2
    <3> QED
      BY <3>1, <1>2 DEF GoodStack
  <2> QED
    BY <2>1, <2>2
<1>6. GoodStack(r)
  BY <1>2, <1>3, <1>4, <1>5 DEF GoodStack
<1> QED
  BY <1>1, <1>6

\* So does a return.
LEMMA GoodReturn ==
    ASSUME NEW s \in Seq(FrameType), GoodStack(s), s # <<>>
    PROVE  GoodStack(Tail(s))
<1>1. PICK r : r = Tail(s)
  OBVIOUS
<1>2. /\ Len(s) \in Nat /\ Len(r) = Len(s) - 1 /\ Len(s) >= 1
      /\ \A i \in 1..(Len(s) - 1) : r[i] = s[i + 1]
  BY <1>1, ReturnFacts, EmptyFacts
<1>3. ASSUME NEW i \in 1..Len(r) PROVE GoodFrame(r[i])
  <2>1. i + 1 \in 1..Len(s) /\ r[i] = s[i + 1]
    BY <1>2
  <2> QED
    BY <2>1 DEF GoodStack
<1>4. ASSUME NEW i \in 1..Len(r), i > 1 PROVE Under(r[i - 1], r[i])
  <2>1. i + 1 \in 1..Len(s) /\ r[i] = s[i + 1] /\ i + 1 > 1 /\ (i + 1) - 1 = i
    BY <1>2
  <2>2. i - 1 \in 1..(Len(s) - 1) /\ (i - 1) + 1 = i
    BY <1>4, <1>2
  <2>3. r[i - 1] = s[i]
    BY <2>2, <1>2
  <2>4. Under(s[(i + 1) - 1], s[i + 1])
    BY <2>1 DEF GoodStack
  <2> QED
    BY <2>1, <2>3, <2>4
<1>5. Len(r) > 0 => r[Len(r)].op # "proxy"
  <2> SUFFICES ASSUME Len(r) > 0 PROVE r[Len(r)].op # "proxy"
    OBVIOUS
  <2>1. Len(r) \in 1..(Len(s) - 1) /\ Len(r) + 1 = Len(s) /\ Len(s) > 0
    BY <1>2
  <2> QED
    BY <2>1, <1>2 DEF GoodStack
<1>6. GoodStack(r)
  BY <1>3, <1>4, <1>5 DEF GoodStack
<1> QED
  BY <1>1, <1>6

\* The stack of a client's call.
LEMMA GoodStart ==
    ASSUME NEW f \in FrameType, GoodFrame(f), f.op # "proxy"
    PROVE  GoodStack(<<f>>)
<1>1. PICK r : r = <<f>>
  OBVIOUS
<1>2. Len(r) = 1 /\ r[1] = f
  BY <1>1, SingleFacts
<1>3. GoodStack(r)
  BY <1>2 DEF GoodStack
<1> QED
  BY <1>1, <1>3

-----------------------------------------------------------------------------
(* Steps of one thread, as far as stacks go.                               *)

\* What Types and StackInv say about one thread.
LEMMA ThreadFacts ==
    ASSUME NEW w \in Threads, NEW t \in Threads, Types, StackInv(w)
    PROVE  /\ stack[t] \in Seq(FrameType) /\ GoodStack(stack[t]) /\ Len(stack[t]) \in Nat
           /\ DOMAIN stack[t] = 1..Len(stack[t])
           /\ \A i \in 1..Len(stack[t]) : stack[t][i] \in FrameType /\ GoodFrame(stack[t][i])
           /\ stack[t] # <<>> => /\ 1 \in 1..Len(stack[t]) /\ Len(stack[t]) >= 1
                                 /\ Top(t) = stack[t][1] /\ Top(t) \in FrameType
                                 /\ GoodFrame(Top(t))
                                 /\ t # w => Top(t).op = "destroy" /\ Len(stack[t]) = 1
           /\ stack[t] = <<>> => Len(stack[t]) = 0
<1>1. stack[t] \in Seq(FrameType) /\ GoodStack(stack[t])
  BY DEF Types, StackInv
<1>2. /\ Len(stack[t]) \in Nat /\ DOMAIN stack[t] = 1..Len(stack[t])
      /\ \A i \in 1..Len(stack[t]) : stack[t][i] \in FrameType /\ GoodFrame(stack[t][i])
      /\ stack[t] = <<>> => Len(stack[t]) = 0
  BY <1>1, EmptyFacts DEF GoodStack
<1>3. ASSUME stack[t] # <<>>
      PROVE  /\ 1 \in 1..Len(stack[t]) /\ Len(stack[t]) >= 1
             /\ Top(t) = stack[t][1] /\ Top(t) \in FrameType /\ GoodFrame(Top(t))
  BY <1>1, <1>2, <1>3, EmptyFacts DEF Top
<1>4. ASSUME stack[t] # <<>>, t # w PROVE Top(t).op = "destroy" /\ Len(stack[t]) = 1
  <2>1. \A i \in 1..Len(stack[t]) : stack[t][i].op = "destroy"
    BY <1>4 DEF StackInv
  <2>2. ~(Len(stack[t]) > 1)
    BY <1>1, <1>2, <1>4, <2>1, CallerFacts
  <2> QED
    BY <2>1, <2>2, <1>2, <1>3, <1>4, Lengths
<1> QED
  BY <1>1, <1>2, <1>3, <1>4

\* A step within the top frame.
LEMMA ReplaceStack ==
    ASSUME NEW w \in Threads, NEW t \in Threads, Types, StackInv(w), stack[t] # <<>>,
           NEW f \in FrameType, GoodFrame(f),
           (f.op = Top(t).op /\ f.o = Top(t).o) \/ (Top(t).op = "notify" /\ f.op = "emit"),
           Become(t, f)
    PROVE  /\ stack' \in [Threads -> Seq(FrameType)] /\ StackInv(w)'
           /\ stack'[t] # <<>> /\ stack'[t][1] = f /\ Len(stack'[t]) = Len(stack[t])
           /\ \A i \in 2..Len(stack[t]) : stack'[t][i] = stack[t][i]
           /\ \A u \in Threads : u # t => stack'[u] = stack[u]
<1>1. /\ stack[t] \in Seq(FrameType) /\ GoodStack(stack[t]) /\ Len(stack[t]) \in Nat
      /\ Len(stack[t]) >= 1 /\ Top(t) = stack[t][1]
  BY ThreadFacts
<1>2. PICK r : r = <<f>> \o Tail(stack[t])
  OBVIOUS
<1>3. /\ r \in Seq(FrameType) /\ Len(r) = Len(stack[t]) /\ r[1] = f
      /\ \A i \in 2..Len(stack[t]) : r[i] = stack[t][i]
  BY <1>1, <1>2, ReplaceFacts
<1>4. GoodStack(r)
  BY <1>1, <1>2, GoodReplace
<1>5. /\ stack' \in [Threads -> Seq(FrameType)] /\ stack'[t] = r
      /\ \A u \in Threads : u # t => stack'[u] = stack[u]
  BY <1>2, <1>3 DEF Types, Become
<1>6. r # <<>>
  BY <1>1, <1>3, EmptyFacts
<1>7. ASSUME t # w PROVE \A i \in 1..Len(r) : r[i].op = "destroy"
  <2>1. Top(t).op = "destroy" /\ Len(stack[t]) = 1
    BY <1>7, ThreadFacts
  <2>2. f.op = "destroy"
    BY <2>1
  <2> QED
    BY <2>1, <2>2, <1>3
<1>8. StackInv(w)'
  BY <1>4, <1>5, <1>7 DEF StackInv
<1> QED
  BY <1>3, <1>5, <1>6, <1>8

\* A call; collectors make none.
LEMMA CallStack ==
    ASSUME NEW w \in Threads, Types, StackInv(w), stack[w] # <<>>,
           NEW c \in FrameType, GoodFrame(c), NEW f \in FrameType, GoodFrame(f),
           Under(c, f), f.op = Top(w).op, f.o = Top(w).o, Call(w, c, f)
    PROVE  /\ stack' \in [Threads -> Seq(FrameType)] /\ StackInv(w)'
           /\ stack'[w] # <<>> /\ stack'[w][1] = c /\ stack'[w][2] = f
           /\ Len(stack'[w]) = Len(stack[w]) + 1
           /\ \A i \in 3..(Len(stack[w]) + 1) : stack'[w][i] = stack[w][i - 1]
           /\ \A u \in Threads : u # w => stack'[u] = stack[u]
<1>1. /\ stack[w] \in Seq(FrameType) /\ GoodStack(stack[w]) /\ Len(stack[w]) \in Nat
      /\ Top(w) = stack[w][1]
  BY ThreadFacts
<1>2. PICK r : r = <<c, f>> \o Tail(stack[w])
  OBVIOUS
<1>3. /\ r \in Seq(FrameType) /\ Len(r) = Len(stack[w]) + 1 /\ r[1] = c /\ r[2] = f
      /\ \A i \in 3..(Len(stack[w]) + 1) : r[i] = stack[w][i - 1]
  BY <1>1, <1>2, CallFacts
<1>4. GoodStack(r)
  BY <1>1, <1>2, GoodCall
<1>5. /\ stack' \in [Threads -> Seq(FrameType)] /\ stack'[w] = r
      /\ \A u \in Threads : u # w => stack'[u] = stack[u]
  BY <1>2, <1>3 DEF Types, Call
<1>6. r # <<>>
  BY <1>1, <1>3, EmptyFacts
<1>7. StackInv(w)'
  BY <1>4, <1>5 DEF StackInv
<1> QED
  BY <1>3, <1>5, <1>6, <1>7

\* A return.
LEMMA ReturnStack ==
    ASSUME NEW w \in Threads, NEW t \in Threads, Types, StackInv(w), stack[t] # <<>>, Return(t)
    PROVE  /\ stack' \in [Threads -> Seq(FrameType)] /\ StackInv(w)'
           /\ Len(stack'[t]) = Len(stack[t]) - 1
           /\ \A i \in 1..(Len(stack[t]) - 1) : stack'[t][i] = stack[t][i + 1]
           /\ stack'[t] # <<>> <=> Len(stack[t]) > 1
           /\ \A u \in Threads : u # t => stack'[u] = stack[u]
<1>1. /\ stack[t] \in Seq(FrameType) /\ GoodStack(stack[t]) /\ Len(stack[t]) \in Nat
      /\ Len(stack[t]) >= 1
  BY ThreadFacts
<1>2. PICK r : r = Tail(stack[t])
  OBVIOUS
<1>3. /\ r \in Seq(FrameType) /\ Len(r) = Len(stack[t]) - 1
      /\ \A i \in 1..(Len(stack[t]) - 1) : r[i] = stack[t][i + 1]
  BY <1>1, <1>2, ReturnFacts
<1>4. GoodStack(r)
  BY <1>1, <1>2, GoodReturn
<1>5. /\ stack' \in [Threads -> Seq(FrameType)] /\ stack'[t] = r
      /\ \A u \in Threads : u # t => stack'[u] = stack[u]
  BY <1>2, <1>3 DEF Types, Return
<1>6. r # <<>> <=> Len(stack[t]) > 1
  BY <1>1, <1>3, EmptyFacts
<1>7. t # w => Len(r) = 0
  BY <1>3, ThreadFacts
<1>8. StackInv(w)'
  BY <1>4, <1>5, <1>7 DEF StackInv
<1> QED
  BY <1>3, <1>5, <1>6, <1>8

\* A client's call; collectors only begin to destroy.
LEMMA StartStack ==
    ASSUME NEW w \in Threads, NEW t \in Threads, Types, StackInv(w), stack[t] = <<>>,
           NEW f \in FrameType, GoodFrame(f), f.op # "proxy", t # w => f.op = "destroy",
           stack' = [stack EXCEPT ![t] = <<f>>]
    PROVE  /\ stack' \in [Threads -> Seq(FrameType)] /\ StackInv(w)'
           /\ stack'[t] # <<>> /\ stack'[t][1] = f /\ Len(stack'[t]) = 1
           /\ \A u \in Threads : u # t => stack'[u] = stack[u]
<1>1. PICK r : r = <<f>>
  OBVIOUS
<1>2. r \in Seq(FrameType) /\ Len(r) = 1 /\ r[1] = f /\ r # <<>> /\ GoodStack(r)
  BY <1>1, SingleFacts, GoodStart
<1>3. /\ stack' \in [Threads -> Seq(FrameType)] /\ stack'[t] = r
      /\ \A u \in Threads : u # t => stack'[u] = stack[u]
  BY <1>1, <1>2 DEF Types
<1>4. StackInv(w)'
  BY <1>2, <1>3 DEF StackInv
<1> QED
  BY <1>2, <1>3, <1>4

-----------------------------------------------------------------------------
(* Steps that change no life and no setting.                               *)

\* A step within the top frame.
LEMMA ReplaceLife ==
    ASSUME NEW w \in Threads, NEW t \in Threads, Types, StackInv(w), LifeInv(w), SettingsInv(w),
           stack[t] # <<>>, NEW f \in FrameType, GoodFrame(f),
           (f.op = Top(t).op /\ f.o = Top(t).o) \/ (Top(t).op = "notify" /\ f.op = "emit"),
           Become(t, f), UNCHANGED <<life, owned, active, updatesType>>,
           LiveFrame(f, life, owned, active), t = w => SetFrame(f, updatesType)
    PROVE  LifeInv(w)' /\ SettingsInv(w)'
<1>1. /\ Len(stack[t]) \in Nat /\ Len(stack[t]) >= 1 /\ Top(t) = stack[t][1]
  BY ThreadFacts
<1>2. /\ stack'[t] # <<>> /\ stack'[t][1] = f /\ Len(stack'[t]) = Len(stack[t])
      /\ \A i \in 2..Len(stack[t]) : stack'[t][i] = stack[t][i]
      /\ \A u \in Threads : u # t => stack'[u] = stack[u]
  BY ReplaceStack
<1>3. \A o \in Observers : life[o] = "new" => Runs(stack'[w], "construct") /\ stack'[w][1].o = o
  BY <1>1, <1>2 DEF LifeInv, Runs
<1>4. ASSUME NEW i \in 1..Len(stack'[t])
      PROVE  LiveFrame(stack'[t][i], life, owned, active) /\ (t = w => SetFrame(stack'[t][i], updatesType))
  <2>1. CASE i = 1
    BY <2>1, <1>2
  <2>2. CASE i # 1
    <3>1. i \in 2..Len(stack[t]) /\ i \in 1..Len(stack[t])
      BY <2>2, <1>1, <1>2
    <3> QED
      BY <3>1, <1>2 DEF LifeInv, SettingsInv
  <2> QED
    BY <2>1, <2>2
<1>5. \A u \in Threads : Runs(stack'[u], "destroy") =>
         Runs(stack[u], "destroy") /\ stack'[u][1].o = stack[u][1].o
  BY <1>1, <1>2 DEF Runs
<1>6. \A u \in Threads : \A i \in 1..Len(stack'[u]) : LiveFrame(stack'[u][i], life, owned, active)
  BY <1>2, <1>4 DEF LifeInv
<1>7. LifeInv(w)'
  BY <1>3, <1>5, <1>6 DEF LifeInv
<1>8. SettingsInv(w)'
  BY <1>2, <1>4 DEF SettingsInv
<1> QED
  BY <1>7, <1>8

\* A call.
LEMMA CallLife ==
    ASSUME NEW w \in Threads, Types, StackInv(w), LifeInv(w), SettingsInv(w), stack[w] # <<>>,
           NEW c \in FrameType, GoodFrame(c), NEW f \in FrameType, GoodFrame(f),
           Under(c, f), f.op = Top(w).op, f.o = Top(w).o, Call(w, c, f),
           UNCHANGED <<life, owned, active, updatesType>>,
           c.op \notin {"construct", "destroy"},
           LiveFrame(f, life, owned, active), SetFrame(f, updatesType),
           LiveFrame(c, life, owned, active), SetFrame(c, updatesType)
    PROVE  LifeInv(w)' /\ SettingsInv(w)'
<1>1. /\ Len(stack[w]) \in Nat /\ Len(stack[w]) >= 1 /\ Top(w) = stack[w][1]
  BY ThreadFacts
<1>2. /\ stack'[w] # <<>> /\ stack'[w][1] = c /\ stack'[w][2] = f
      /\ Len(stack'[w]) = Len(stack[w]) + 1
      /\ \A i \in 3..(Len(stack[w]) + 1) : stack'[w][i] = stack[w][i - 1]
      /\ \A u \in Threads : u # w => stack'[u] = stack[u]
  BY CallStack
<1>3. \A o \in Observers : life[o] # "new"
  BY <1>1 DEF LifeInv, Runs, Under
<1>4. ASSUME NEW i \in 1..Len(stack'[w])
      PROVE  LiveFrame(stack'[w][i], life, owned, active) /\ SetFrame(stack'[w][i], updatesType)
  <2>1. CASE i = 1 \/ i = 2
    BY <2>1, <1>2
  <2>2. CASE i # 1 /\ i # 2
    <3>1. i \in 3..(Len(stack[w]) + 1) /\ i - 1 \in 1..Len(stack[w])
      BY <2>2, <1>1, <1>2
    <3> QED
      BY <3>1, <1>2 DEF LifeInv, SettingsInv
  <2> QED
    BY <2>1, <2>2
<1>5. \A u \in Threads : Runs(stack'[u], "destroy") =>
         Runs(stack[u], "destroy") /\ stack'[u][1].o = stack[u][1].o
  BY <1>1, <1>2 DEF Runs
<1>6. \A u \in Threads : \A i \in 1..Len(stack'[u]) : LiveFrame(stack'[u][i], life, owned, active)
  BY <1>2, <1>4 DEF LifeInv
<1>7. LifeInv(w)'
  BY <1>3, <1>5, <1>6 DEF LifeInv
<1>8. SettingsInv(w)'
  BY <1>2, <1>4 DEF SettingsInv
<1> QED
  BY <1>7, <1>8

\* A return, but not from a constructor or destructor.
LEMMA ReturnLife ==
    ASSUME NEW w \in Threads, NEW t \in Threads, Types, StackInv(w), LifeInv(w), SettingsInv(w),
           stack[t] # <<>>, Return(t), Top(t).op # "construct",
           UNCHANGED <<life, owned, active, updatesType>>
    PROVE  LifeInv(w)' /\ SettingsInv(w)'
<1>1. /\ Len(stack[t]) \in Nat /\ Len(stack[t]) >= 1 /\ Top(t) = stack[t][1]
      /\ stack[t] \in Seq(FrameType) /\ GoodStack(stack[t])
  BY ThreadFacts
<1>2. /\ Len(stack'[t]) = Len(stack[t]) - 1
      /\ \A i \in 1..(Len(stack[t]) - 1) : stack'[t][i] = stack[t][i + 1]
      /\ stack'[t] # <<>> <=> Len(stack[t]) > 1
      /\ \A u \in Threads : u # t => stack'[u] = stack[u]
  BY ReturnStack
<1>3. \A o \in Observers : life[o] = "new" => Runs(stack'[w], "construct") /\ stack'[w][1].o = o
  BY <1>1, <1>2 DEF LifeInv, Runs
<1>4. ASSUME NEW i \in 1..Len(stack'[t])
      PROVE  LiveFrame(stack'[t][i], life, owned, active) /\ (t = w => SetFrame(stack'[t][i], updatesType))
  <2>1. i \in 1..(Len(stack[t]) - 1) /\ i + 1 \in 1..Len(stack[t])
    BY <1>1, <1>2
  <2> QED
    BY <2>1, <1>2 DEF LifeInv, SettingsInv
<1>5. ~Runs(stack'[t], "destroy")
  <2> SUFFICES ASSUME stack'[t] # <<>> PROVE stack'[t][1].op # "destroy"
    BY DEF Runs
  <2>1. 1 \in 1..(Len(stack[t]) - 1) /\ 2 \in 1..Len(stack[t]) /\ 2 > 1 /\ 1 + 1 = 2
    BY <1>1, <1>2
  <2>2. stack'[t][1] = stack[t][2]
    BY <2>1, <1>2
  <2> QED
    BY <2>1, <2>2, <1>1, CallerFacts
<1>6. \A u \in Threads : Runs(stack'[u], "destroy") =>
         Runs(stack[u], "destroy") /\ stack'[u][1].o = stack[u][1].o
  BY <1>2, <1>5
<1>7. \A u \in Threads : \A i \in 1..Len(stack'[u]) : LiveFrame(stack'[u][i], life, owned, active)
  BY <1>2, <1>4 DEF LifeInv
<1>8. LifeInv(w)'
  BY <1>3, <1>6, <1>7 DEF LifeInv
<1>9. SettingsInv(w)'
  BY <1>2, <1>4 DEF SettingsInv
<1> QED
  BY <1>8, <1>9

\* A client's call that neither constructs nor destroys.
LEMMA StartLife ==
    ASSUME NEW w \in Threads, Types, StackInv(w), LifeInv(w), SettingsInv(w), stack[w] = <<>>,
           NEW f \in FrameType, GoodFrame(f), f.op \notin {"construct", "destroy", "proxy"},
           stack' = [stack EXCEPT ![w] = <<f>>], UNCHANGED <<life, owned, active, updatesType>>,
           LiveFrame(f, life, owned, active), SetFrame(f, updatesType)
    PROVE  LifeInv(w)' /\ SettingsInv(w)'
<1>1. /\ stack'[w] # <<>> /\ stack'[w][1] = f /\ Len(stack'[w]) = 1
      /\ \A u \in Threads : u # w => stack'[u] = stack[u]
  BY StartStack
<1>2. \A o \in Observers : life[o] # "new"
  BY DEF LifeInv, Runs
<1>3. \A u \in Threads : Runs(stack'[u], "destroy") =>
         Runs(stack[u], "destroy") /\ stack'[u][1].o = stack[u][1].o
  BY <1>1 DEF Runs
<1>4. \A u \in Threads : \A i \in 1..Len(stack'[u]) : LiveFrame(stack'[u][i], life, owned, active)
  BY <1>1 DEF LifeInv
<1>5. LifeInv(w)'
  BY <1>2, <1>3, <1>4 DEF LifeInv
<1>6. SettingsInv(w)'
  BY <1>1 DEF SettingsInv
<1> QED
  BY <1>5, <1>6

-----------------------------------------------------------------------------
(* Registrations and what is owed, step by step.                           *)

\* A working frame is about the registrations of its own observer only.
LEMMA WorkingSame ==
    ASSUME NEW f, NEW B, NEW R, NEW S, NEW B2, NEW R2, NEW S2, Working(f, B, R, S),
           B2[f.o] = B[f.o],
           \A h \in Observables : /\ f.o \in R2[h] <=> f.o \in R[h]
                                  /\ (\E c \in S2[h] : c[1] = f.o) <=> (\E c \in S[h] : c[1] = f.o)
    PROVE  Working(f, B2, R2, S2)
<1>1. Watched(f, B2) = Watched(f, B)
  BY DEF Watched
<1>2. \A H : \A h \in Observables : Linked(f.o, h, H, R2, S2) <=> Linked(f.o, h, H, R, S)
  BY DEF Linked
<1> QED
  BY <1>1, <1>2 DEF Working

\* Collectors are busy with observers that are dying.
LEMMA CollectorsWork ==
    ASSUME NEW w \in Threads, NEW u \in Threads, u # w, Types, StackInv(w), LifeInv(w),
           Works(stack[u])
    PROVE  /\ Runs(stack[u], "destroy") /\ stack[u][1].o \in Observers
           /\ life[stack[u][1].o] = "dying"
<1>1. stack[u] # <<>>
  BY DEF Works
<1>2. /\ 1 \in 1..Len(stack[u]) /\ stack[u][1].op = "destroy" /\ GoodFrame(stack[u][1])
  BY <1>1, ThreadFacts
<1>3. LiveFrame(stack[u][1], life, owned, active)
  BY <1>2 DEF LifeInv
<1> QED
  BY <1>1, <1>2, <1>3 DEF Runs, GoodFrame, LiveFrame

\* No two threads work for the same observer.
LEMMA WorkApart ==
    ASSUME NEW w \in Threads, NEW t \in Threads, NEW u \in Threads, t # u, Types, StackInv(w),
           LifeInv(w), Works(stack[t]), Works(stack[u])
    PROVE  stack[t][1].o # stack[u][1].o
<1>1. ASSUME NEW a \in Threads, NEW b \in Threads, a # b, Works(stack[a]), Works(stack[b]), b # w
      PROVE  stack[a][1].o # stack[b][1].o
  <2>1. /\ Runs(stack[b], "destroy") /\ life[stack[b][1].o] = "dying"
    BY <1>1, CollectorsWork
  <2>2. stack[a] # <<>> /\ stack[a][1].op \in Single \cup {"destroy"}
    BY <1>1 DEF Works
  <2>3. 1 \in 1..Len(stack[a]) /\ GoodFrame(stack[a][1])
    BY <2>2, ThreadFacts
  <2>4. LiveFrame(stack[a][1], life, owned, active) /\ stack[a][1].o \in Observers
    BY <2>2, <2>3 DEF LifeInv, GoodFrame
  <2>5. CASE stack[a][1].op = "destroy"
    BY <2>1, <2>2, <2>5, <1>1 DEF LifeInv, Runs
  <2>6. CASE stack[a][1].op \in Single
    <3>1. life[stack[a][1].o] \in {"new", "alive"}
      BY <2>4, <2>6 DEF LifeInv, LiveFrame, Single, MemberFunctions
    <3> QED
      BY <3>1, <2>1
  <2> QED
    BY <2>2, <2>5, <2>6
<1> QED
  BY <1>1

\* A step of thread t that concerns the registrations of o at most.
LEMMA AgreeStep ==
    ASSUME NEW t \in Threads, NEW o \in Observers, AgreeInv,
           \A u \in Threads : u # t => /\ stack'[u] = stack[u]
                                       /\ Works(stack[u]) => stack[u][1].o \in Observers \ {o},
           Works(stack[t]) => stack[t][1].o = o,
           Works(stack'[t]) => /\ stack'[t][1].o = o
                               /\ Working(stack'[t][1], observables', observers', slots'),
           ~Works(stack'[t]) =>
              \A h \in Observables : Linked(o, h, observables'[o], observers', slots'),
           \A q \in Observers \ {o} :
              /\ observables'[q] = observables[q]
              /\ \A h \in Observables :
                    /\ q \in observers'[h] <=> q \in observers[h]
                    /\ (\E c \in slots'[h] : c[1] = q) <=> (\E c \in slots[h] : c[1] = q)
    PROVE  AgreeInv'
<1>1. ASSUME NEW u \in Threads, Works(stack'[u])
      PROVE  Working(stack'[u][1], observables', observers', slots')
  <2>1. CASE u = t
    BY <1>1, <2>1
  <2>2. CASE u # t
    <3>1. /\ stack'[u] = stack[u] /\ Works(stack[u]) /\ stack[u][1].o \in Observers \ {o}
          /\ Working(stack[u][1], observables, observers, slots)
      BY <1>1, <2>2 DEF AgreeInv
    <3> QED
      BY <3>1, WorkingSame
  <2> QED
    BY <2>1, <2>2
<1>2. ASSUME NEW q \in Observers, \A u \in Threads : Works(stack'[u]) => stack'[u][1].o # q,
             NEW h \in Observables
      PROVE  Linked(q, h, observables'[q], observers', slots')
  <2>1. CASE q = o
    BY <1>2, <2>1
  <2>2. CASE q # o
    <3>1. \A u \in Threads : Works(stack[u]) => stack[u][1].o # q
      BY <1>2, <2>2
    <3>2. Linked(q, h, observables[q], observers, slots)
      BY <3>1 DEF AgreeInv
    <3> QED
      BY <3>2, <2>2 DEF Linked
  <2> QED
    BY <2>1, <2>2
<1> QED
  BY <1>1, <1>2 DEF AgreeInv

\* A step of a thread that works for nobody, before and after.
LEMMA AgreeIdle ==
    ASSUME NEW t \in Threads, AgreeInv, ~Works(stack[t]), ~Works(stack'[t]),
           \A u \in Threads : u # t => stack'[u] = stack[u],
           UNCHANGED <<observables, observers, slots>>
    PROVE  AgreeInv'
<1>1. \A u \in Threads : /\ Works(stack'[u]) <=> Works(stack[u])
                         /\ Works(stack[u]) => stack'[u] = stack[u]
  OBVIOUS
<1> QED
  BY <1>1 DEF AgreeInv

\* What is owed stays owed as long as the worker will see to it.
LEMMA OwedStep ==
    ASSUME NEW w \in Threads, OwedInv(w),
           \A o \in Observers : owed'[o] # {} =>
              /\ owed'[o] \subseteq owed[o]
              /\ \A h \in owed'[o] : o \in observers[h] => o \in observers'[h]
              /\ life[o] \in {"new", "alive"} => life'[o] \in {"new", "alive"}
              /\ Told(stack[w], deferredObservers, updatesType, o) =>
                    Told(stack'[w], deferredObservers', updatesType', o)
    PROVE  OwedInv(w)'
<1> SUFFICES ASSUME NEW o \in Observers, owed'[o] # {}
             PROVE  /\ \A h \in owed'[o] : o \in observers'[h]
                    /\ life'[o] \in {"new", "alive"}
                    /\ Told(stack'[w], deferredObservers', updatesType', o)
  BY DEF OwedInv
<1>1. owed'[o] \subseteq owed[o] /\ owed[o] # {}
  OBVIOUS
<1>2. /\ \A h \in owed[o] : o \in observers[h]
      /\ life[o] \in {"new", "alive"} /\ Told(stack[w], deferredObservers, updatesType, o)
  BY <1>1 DEF OwedInv
<1> QED
  BY <1>1, <1>2

\* A step within the top frame s[1] of the worker's stack s, which becomes r.
LEMMA ToldReplace ==
    ASSUME NEW s, NEW r, NEW D, NEW type, NEW o, Len(s) \in Nat, Len(s) >= 1, r # <<>>,
           Len(r) = Len(s), \A i \in 2..Len(s) : r[i] = s[i],
           \/ r[1].op = s[1].op /\ r[1].o = s[1].o
           \/ s[1].op = "notify",
           s[1].op # "enable",
           s[1].op = "proxy" => r[1].at \in {"lock", "weak"} \/ s[1].at \notin {"lock", "weak"},
           Told(s, D, type, o)
    PROVE  Told(r, D, type, o)
<1>1. ASSUME WillTell(s, o) PROVE WillTell(r, o)
  <2>1. Len(s) # 1
    BY <1>1 DEF WillTell
  <2>2. Len(s) \in 2..Len(s)
    BY <2>1, Lengths
  <2>3. r[Len(r)] = s[Len(s)]
    BY <2>2
  <2> QED
    BY <1>1, <2>3 DEF WillTell
<1> QED
  BY <1>1 DEF Told, Runs

\* A call.
LEMMA ToldCall ==
    ASSUME NEW s, NEW r, NEW D, NEW type, NEW o, Len(s) \in Nat, Len(s) >= 1, r # <<>>,
           Len(r) = Len(s) + 1, \A i \in 3..(Len(s) + 1) : r[i] = s[i - 1],
           s[1].op \notin {"enable", "unregisterWithAll"},
           s[1].op = "proxy" => s[1].at \notin {"lock", "weak"},
           Told(s, D, type, o)
    PROVE  Told(r, D, type, o)
<1>1. ASSUME WillTell(s, o) PROVE WillTell(r, o)
  <2>1. Len(s) # 1
    BY <1>1 DEF WillTell
  <2>2. Len(s) >= 2
    BY <2>1, Lengths
  <2>3. Len(s) + 1 \in 3..(Len(s) + 1) /\ (Len(s) + 1) - 1 = Len(s)
    BY <2>2
  <2>4. r[Len(r)] = s[Len(s)]
    BY <2>3
  <2> QED
    BY <1>1, <2>4 DEF WillTell
<1> QED
  BY <1>1 DEF Told, Runs

\* A return.
LEMMA ToldReturn ==
    ASSUME NEW s, NEW r, NEW D, NEW type, NEW o, Len(s) \in Nat, Len(s) >= 1,
           r # <<>> <=> Len(s) > 1,
           Len(r) = Len(s) - 1, \A i \in 1..(Len(s) - 1) : r[i] = s[i + 1],
           s[1].op \notin {"enable", "unregisterWithAll"},
           s[1].op = "proxy" => s[1].at \notin {"lock", "weak"} \/ s[1].o # o,
           Told(s, D, type, o)
    PROVE  Told(r, D, type, o)
<1>1. ASSUME WillTell(s, o) PROVE WillTell(r, o)
  <2>1. Len(s) # 1
    BY <1>1 DEF WillTell
  <2>2. Len(s) - 1 \in 1..(Len(s) - 1) /\ (Len(s) - 1) + 1 = Len(s) /\ Len(s) > 1
    BY <2>1, Lengths
  <2>3. r[Len(r)] = s[Len(s)] /\ r # <<>>
    BY <2>2
  <2> QED
    BY <1>1, <2>3 DEF WillTell
<1> QED
  BY <1>1 DEF Told, Runs

-----------------------------------------------------------------------------
(* Registration.                                                           *)

\* What the invariant says about the top frame of a thread.
LEMMA TopFacts ==
    ASSUME NEW w \in Threads, NEW t \in Threads, Inv(w), stack[t] # <<>>
    PROVE  /\ Top(t) = stack[t][1] /\ Top(t) \in FrameType /\ GoodFrame(Top(t))
           /\ Len(stack[t]) \in Nat /\ Len(stack[t]) >= 1 /\ 1 \in 1..Len(stack[t])
           /\ LiveFrame(Top(t), life, owned, active)
           /\ t = w => SetFrame(Top(t), updatesType)
           /\ t # w => Top(t).op = "destroy"
           /\ Top(t).op \in Single \cup {"destroy"} =>
                 /\ Top(t).o \in Observers
                 /\ Working(Top(t), observables, observers, slots)
                 /\ \A u \in Threads : u # t /\ Works(stack[u]) =>
                       stack[u][1].o \in Observers \ {Top(t).o}
<1>1. /\ Top(t) = stack[t][1] /\ Top(t) \in FrameType /\ GoodFrame(Top(t))
      /\ Len(stack[t]) \in Nat /\ Len(stack[t]) >= 1 /\ 1 \in 1..Len(stack[t])
      /\ t # w => Top(t).op = "destroy"
  BY ThreadFacts DEF Inv
<1>2. /\ LiveFrame(Top(t), life, owned, active)
      /\ t = w => SetFrame(Top(t), updatesType)
  BY <1>1 DEF Inv, LifeInv, SettingsInv
<1>3. ASSUME Top(t).op \in Single \cup {"destroy"}
      PROVE  /\ Top(t).o \in Observers
             /\ Working(Top(t), observables, observers, slots)
             /\ \A u \in Threads : u # t /\ Works(stack[u]) =>
                   stack[u][1].o \in Observers \ {Top(t).o}
  <2>1. Top(t).o \in Observers
    BY <1>1, <1>3 DEF GoodFrame
  <2>2. Works(stack[t])
    BY <1>1, <1>3 DEF Works
  <2>3. ASSUME NEW u \in Threads, u # t, Works(stack[u])
        PROVE  stack[u][1].o \in Observers \ {Top(t).o}
    <3>1. stack[u] # <<>> /\ stack[u][1].op \in Single \cup {"destroy"}
      BY <2>3 DEF Works
    <3>2. GoodFrame(stack[u][1])
      BY <3>1, ThreadFacts DEF Inv
    <3>3. stack[u][1].o \in Observers
      BY <3>1, <3>2 DEF GoodFrame
    <3>4. stack[t][1].o # stack[u][1].o
      BY <2>2, <2>3, WorkApart DEF Inv
    <3> QED
      BY <3>3, <3>4, <1>1
  <2> QED
    BY <1>1, <2>1, <2>2, <2>3 DEF Inv, AgreeInv
<1> QED
  BY <1>1, <1>2, <1>3

\* A step within a function that works for one observer.
LEMMA WorkStep ==
    ASSUME NEW w \in Threads, NEW t \in Threads, Inv(w), stack[t] # <<>>,
           Top(t).op \in Single \cup {"destroy"},
           NEW f \in FrameType, GoodFrame(f), f.op = Top(t).op, f.o = Top(t).o, Become(t, f),
           UNCHANGED <<life, owned, active, updatesType>>,
           LiveFrame(f, life, owned, active), t = w => SetFrame(f, updatesType),
           observables' \in [Observers -> SUBSET Observables],
           observers' \in [Observables -> SUBSET Observers],
           slots' \in [Observables -> SUBSET Pairs],
           deferredObservers' \in SUBSET Observers,
           owed' \in [Observers -> SUBSET Observables],
           Working(f, observables', observers', slots'),
           \A q \in Observers \ {f.o} :
              /\ observables'[q] = observables[q]
              /\ \A h \in Observables :
                    /\ q \in observers'[h] <=> q \in observers[h]
                    /\ (\E c \in slots'[h] : c[1] = q) <=> (\E c \in slots[h] : c[1] = q),
           \A q \in Observers : owed'[q] # {} =>
              /\ owed'[q] \subseteq owed[q]
              /\ \A h \in owed'[q] : q \in observers[h] => q \in observers'[h]
              /\ q \in deferredObservers /\ updatesType # "enabled" /\ ~MayDropSome =>
                    q \in deferredObservers' \/ (t = w /\ f.op = "unregisterWithAll" /\ f.o = q)
    PROVE  Inv(w)'
<1>1. /\ Top(t) = stack[t][1] /\ Len(stack[t]) \in Nat /\ Len(stack[t]) >= 1
      /\ f.o \in Observers
      /\ \A u \in Threads : u # t /\ Works(stack[u]) => stack[u][1].o \in Observers \ {f.o}
  BY TopFacts
<1>2. /\ stack' \in [Threads -> Seq(FrameType)] /\ StackInv(w)'
      /\ stack'[t] # <<>> /\ stack'[t][1] = f /\ Len(stack'[t]) = Len(stack[t])
      /\ \A i \in 2..Len(stack[t]) : stack'[t][i] = stack[t][i]
      /\ \A u \in Threads : u # t => stack'[u] = stack[u]
  BY ReplaceStack DEF Inv
<1>3. LifeInv(w)' /\ SettingsInv(w)'
  BY ReplaceLife DEF Inv
<1>4. Types'
  BY <1>2 DEF Inv, Types
<1>5. AgreeInv'
  <2>1. Works(stack[t]) => stack[t][1].o = f.o
    BY <1>1
  <2>2. /\ Works(stack'[t]) /\ stack'[t][1].o = f.o
        /\ Working(stack'[t][1], observables', observers', slots')
    BY <1>2 DEF Works
  <2>3. \A u \in Threads : u # t => /\ stack'[u] = stack[u]
                                    /\ Works(stack[u]) => stack[u][1].o \in Observers \ {f.o}
    BY <1>1, <1>2
  <2>4. AgreeInv
    BY DEF Inv
  <2> QED
    BY <1>1, <2>1, <2>2, <2>3, <2>4, AgreeStep
<1>6. OwedInv(w)'
  <2>1. ASSUME NEW q \in Observers, owed'[q] # {},
               Told(stack[w], deferredObservers, updatesType, q)
        PROVE  Told(stack'[w], deferredObservers', updatesType', q)
    <3>1. Told(stack'[w], deferredObservers, updatesType, q)
      <4>1. CASE t = w
        <5>1. stack[w][1].op \notin {"enable", "proxy"}
          BY <1>1, <4>1 DEF Single
        <5> QED
          BY <1>1, <1>2, <4>1, <5>1, <2>1, ToldReplace
      <4>2. CASE t # w
        BY <1>2, <4>2, <2>1
      <4> QED
        BY <4>1, <4>2
    <3>2. CASE q \in deferredObservers /\ updatesType # "enabled" /\ ~MayDropSome
      BY <3>2, <2>1, <1>2 DEF Told, Runs
    <3>3. CASE ~(q \in deferredObservers /\ updatesType # "enabled" /\ ~MayDropSome)
      BY <3>1, <3>3 DEF Told
    <3> QED
      BY <3>2, <3>3
  <2> QED
    BY <2>1, OwedStep DEF Inv
<1> QED
  BY <1>2, <1>3, <1>4, <1>5, <1>6 DEF Inv

\* Locking the observer.
LEMMA LockObserverKeeps ==
    ASSUME NEW w \in Threads, NEW t \in Threads, Inv(w), LockObserver(t)
    PROVE  Inv(w)'
<1>1. /\ stack[t] # <<>> /\ Top(t).at = "lock"
      /\ Top(t).op \in Single \cup {"destroy"} /\ Top(t).op # "construct"
  BY DEF LockObserver, At, MemberFunctions, Single
<1>2. PICK a : a = CASE Top(t).op = "registerWith" -> "join"
                     [] Top(t).op = "destroy" -> "deactivate"
                     [] OTHER -> "leave"
  OBVIOUS
<1>3. PICK l : l = IF Top(t).op \in {"registerWith", "unregisterWith"} THEN Top(t).left
                                                                     ELSE observables[Top(t).o]
  OBVIOUS
<1>4. PICK f : f = [Top(t) EXCEPT !.at = a, !.left = l, !.locks = {ObserverMutex(Top(t).o)}]
  OBVIOUS
<1>5. Become(t, f) /\ UNCHANGED <<life, owned, active, registrations, settings, thrown, owed>>
  BY <1>1, <1>2, <1>3, <1>4 DEF LockObserver
<1>6. /\ Top(t) \in FrameType /\ GoodFrame(Top(t)) /\ LiveFrame(Top(t), life, owned, active)
      /\ t = w => SetFrame(Top(t), updatesType)
      /\ Top(t).o \in Observers /\ Working(Top(t), observables, observers, slots)
  BY <1>1, TopFacts
<1>7. l \subseteq Observables
  BY <1>1, <1>3, <1>6 DEF GoodFrame, Inv, Types
<1>8. /\ f \in FrameType /\ f.op = Top(t).op /\ f.o = Top(t).o /\ f.p = Top(t).p /\ f.at = a
      /\ f.left = l /\ f.locks = {ObserverMutex(f.o)}
  <2>1. a \in Points
    BY <1>2 DEF Points
  <2>2. {ObserverMutex(Top(t).o)} \in SUBSET Mutexes
    BY <1>6 DEF Mutexes
  <2> QED
    BY <1>4, <1>6, <1>7, <2>1, <2>2 DEF FrameType
<1>9. GoodFrame(f)
  <2>1. a \in PointsOf(f.op) /\ ~InFlight(f)
    BY <1>1, <1>2, <1>8 DEF PointsOf, Single, InFlight
  <2>2. f.locks \in LocksOf(f)
    BY <1>1, <1>2, <1>8 DEF LocksOf, Single
  <2> QED
    BY <1>1, <1>6, <1>7, <1>8, <2>1, <2>2 DEF GoodFrame, Single
<1>10. LiveFrame(f, life, owned, active) /\ (t = w => SetFrame(f, updatesType))
  BY <1>1, <1>2, <1>6, <1>8, MutexFacts DEF LiveFrame, SetFrame, Single
<1>11. Working(f, observables, observers, slots)
  <2>1. \A h \in Observables : Linked(f.o, h, observables[f.o], observers, slots)
    BY <1>1, <1>6, <1>8 DEF Working, Watched, InFlight
  <2>2. Watched(f, observables) = observables[f.o] /\ ~InFlight(f)
    BY <1>1, <1>2, <1>3, <1>8 DEF Watched, InFlight, Single
  <2>3. f.op = "unregisterWithAll" => observables[f.o] \subseteq f.left
    BY <1>3, <1>8
  <2> QED
    BY <2>1, <2>2, <2>3 DEF Working
<1>12. /\ UNCHANGED <<life, owned, active, updatesType>>
       /\ observables' = observables /\ observers' = observers /\ slots' = slots
       /\ deferredObservers' = deferredObservers /\ owed' = owed
  BY <1>5 DEF registrations, settings
<1>13. /\ observables' \in [Observers -> SUBSET Observables]
       /\ observers' \in [Observables -> SUBSET Observers]
       /\ slots' \in [Observables -> SUBSET Pairs]
       /\ deferredObservers' \in SUBSET Observers
       /\ owed' \in [Observers -> SUBSET Observables]
  BY <1>12 DEF Inv, Types
<1>14. Working(f, observables', observers', slots')
  BY <1>11, <1>12
<1> QED
  BY <1>1, <1>5, <1>8, <1>9, <1>10, <1>12, <1>13, <1>14, WorkStep

\* The proxy goes into observers_.
LEMMA JoinInsertKeeps ==
    ASSUME NEW w \in Threads, NEW t \in Threads, NEW h \in Observables, Inv(w), JoinInsert(t, h)
    PROVE  Inv(w)'
<1>1. /\ stack[t] # <<>> /\ Top(t).at = "join" /\ Top(t).op \in {"construct", "registerWith", "assign"}
      /\ Top(t).op \in Single \cup {"destroy"} /\ h \in Top(t).left
  BY DEF JoinInsert, At, Joins, Single
<1>2. PICK f : f = [Top(t) EXCEPT !.at = "connect", !.h = h]
  OBVIOUS
<1>3. /\ Become(t, f) /\ observers' = [observers EXCEPT ![h] = @ \cup {Top(t).o}]
      /\ UNCHANGED <<life, owned, active, updatesType>>
      /\ observables' = observables /\ slots' = slots
      /\ deferredObservers' = deferredObservers /\ owed' = owed
  BY <1>1, <1>2 DEF JoinInsert, settings
<1>4. /\ Top(t) \in FrameType /\ GoodFrame(Top(t)) /\ LiveFrame(Top(t), life, owned, active)
      /\ t = w => SetFrame(Top(t), updatesType)
      /\ Top(t).o \in Observers /\ Working(Top(t), observables, observers, slots)
  BY <1>1, TopFacts
<1>5. /\ f \in FrameType /\ f.op = Top(t).op /\ f.o = Top(t).o /\ f.p = Top(t).p
      /\ f.at = "connect" /\ f.h = h /\ f.left = Top(t).left /\ f.locks = Top(t).locks
  BY <1>2, <1>4 DEF FrameType, Points
<1>6. GoodFrame(f)
  <2>1. f.at \in PointsOf(f.op)
    BY <1>1, <1>5 DEF PointsOf
  <2>2. f.locks \in LocksOf(f)
    BY <1>1, <1>4, <1>5 DEF GoodFrame, LocksOf
  <2> QED
    BY <1>1, <1>4, <1>5, <2>1, <2>2 DEF GoodFrame
<1>7. LiveFrame(f, life, owned, active) /\ (t = w => SetFrame(f, updatesType))
  BY <1>1, <1>4, <1>5 DEF LiveFrame, SetFrame
<1>8. observers' \in [Observables -> SUBSET Observers]
  BY <1>3, <1>4 DEF Inv, Types
<1>9. /\ \A k \in Observables : k # h => observers'[k] = observers[k]
      /\ observers'[h] = observers[h] \cup {f.o}
  BY <1>3, <1>5 DEF Inv, Types
<1>10. Working(f, observables', observers', slots')
  <2>1. Watched(f, observables) = Watched(Top(t), observables) /\ InFlight(f) /\ ~InFlight(Top(t))
    BY <1>1, <1>5 DEF Watched, InFlight
  <2>2. \A k \in Observables : Linked(f.o, k, Watched(f, observables), observers, slots)
    BY <1>4, <1>5, <2>1 DEF Working
  <2>3. \A k \in Observables : k # h => Linked(f.o, k, Watched(f, observables), observers', slots)
    BY <2>2, <1>9 DEF Linked
  <2>4. f.o \in observers'[h]
    BY <1>9
  <2>5. f.op # "unregisterWithAll"
    BY <1>1, <1>5
  <2> QED
    BY <1>3, <1>5, <2>1, <2>3, <2>4, <2>5 DEF Working
<1>11. /\ observables' \in [Observers -> SUBSET Observables]
       /\ slots' \in [Observables -> SUBSET Pairs]
       /\ deferredObservers' \in SUBSET Observers
       /\ owed' \in [Observers -> SUBSET Observables]
  BY <1>3 DEF Inv, Types
<1>12. \A q \in Observers \ {f.o} :
          /\ observables'[q] = observables[q]
          /\ \A k \in Observables :
                /\ q \in observers'[k] <=> q \in observers[k]
                /\ (\E c \in slots'[k] : c[1] = q) <=> (\E c \in slots[k] : c[1] = q)
  BY <1>3, <1>9
<1>13. \A q \in Observers : owed'[q] # {} =>
          /\ owed'[q] \subseteq owed[q]
          /\ \A k \in owed'[q] : q \in observers[k] => q \in observers'[k]
          /\ q \in deferredObservers /\ updatesType # "enabled" =>
                q \in deferredObservers' \/ (t = w /\ f.op = "unregisterWithAll" /\ f.o = q)
  <2>1. \A q \in Observers : \A k \in owed[q] : k \in Observables
    BY DEF Inv, Types
  <2> QED
    BY <1>3, <1>9, <2>1
<1> QED
  BY <1>1, <1>3, <1>5, <1>6, <1>7, <1>8, <1>10, <1>11, <1>12, <1>13, WorkStep

\* There is a number for the next connection.
LEMMA FreeConnection ==
    ASSUME NEW S, NEW o
    PROVE  \E k \in 1..MaxConnections : /\ \A i \in 1..(k - 1) : <<o, i>> \in S
                                        /\ k = MaxConnections \/ <<o, k>> \notin S
<1>1. PICK T : T = {k \in 1..MaxConnections : k = MaxConnections \/ <<o, k>> \notin S}
  OBVIOUS
<1>2. MaxConnections \in Nat \ {0} /\ MaxConnections \in T /\ T \subseteq Nat
  BY <1>1, ClientAssumption
<1>3. PICK k \in T : \A i \in T : ~(<<i, k>> \in OpToRel(<, Nat))
  BY <1>2, NatLessThanWellFounded, WFMin
<1>4. \A i \in T : ~(i < k)
  BY <1>2, <1>3 DEF OpToRel
<1>5. ASSUME NEW i \in 1..(k - 1) PROVE <<o, i>> \in S
  <2>1. i \in 1..MaxConnections /\ i < k /\ i # MaxConnections
    <3>1. k \in 1..MaxConnections
      BY <1>1
    <3> QED
      BY <3>1, <1>2
  <2> QED
    BY <2>1, <1>1, <1>4
<1> QED
  BY <1>1, <1>3, <1>5

\* The proxy is connected to the signal.
LEMMA JoinConnectKeeps ==
    ASSUME NEW w \in Threads, NEW t \in Threads, Inv(w), JoinConnect(t)
    PROVE  Inv(w)'
<1>1. /\ stack[t] # <<>> /\ Top(t).at = "connect"
      /\ Top(t).op \in {"construct", "registerWith", "assign"}
      /\ Top(t).op \in Single \cup {"destroy"} /\ InFlight(Top(t))
  BY DEF JoinConnect, At, Joins, Single, InFlight
<1>2. /\ Top(t) \in FrameType /\ GoodFrame(Top(t)) /\ LiveFrame(Top(t), life, owned, active)
      /\ t = w => SetFrame(Top(t), updatesType)
      /\ Top(t).o \in Observers /\ Working(Top(t), observables, observers, slots)
  BY <1>1, TopFacts
<1>3. PICK h \in Observables : h = Top(t).h /\ h \in Top(t).left
  BY <1>1, <1>2 DEF GoodFrame
<1>4. PICK n : n = CHOOSE k \in 1..MaxConnections :
                      /\ \A i \in 1..(k - 1) : <<Top(t).o, i>> \in slots[Top(t).h]
                      /\ k = MaxConnections \/ <<Top(t).o, k>> \notin slots[Top(t).h]
  OBVIOUS
<1>5. n \in 1..MaxConnections
  BY <1>4, FreeConnection
<1>6. PICK f : f = [Top(t) EXCEPT !.at = "join", !.left = @ \ {Top(t).h}]
  OBVIOUS
<1>7. /\ Become(t, f)
      /\ slots' = [slots EXCEPT ![h] = @ \cup {<<Top(t).o, n>>}]
      /\ observables' = [observables EXCEPT ![Top(t).o] = @ \cup {h}]
      /\ UNCHANGED <<life, owned, active, updatesType>>
      /\ observers' = observers /\ deferredObservers' = deferredObservers /\ owed' = owed
  BY <1>1, <1>3, <1>4, <1>6 DEF JoinConnect, settings
<1>8. /\ f \in FrameType /\ f.op = Top(t).op /\ f.o = Top(t).o /\ f.p = Top(t).p
      /\ f.at = "join" /\ f.left = Top(t).left \ {h} /\ f.locks = Top(t).locks
  BY <1>2, <1>3, <1>6 DEF FrameType, Points
<1>9. GoodFrame(f)
  <2>1. f.at \in PointsOf(f.op) /\ ~InFlight(f)
    BY <1>1, <1>8 DEF PointsOf, InFlight
  <2>2. f.locks \in LocksOf(f)
    BY <1>1, <1>2, <1>8 DEF GoodFrame, LocksOf
  <2> QED
    BY <1>1, <1>2, <1>8, <2>1, <2>2 DEF GoodFrame
<1>10. LiveFrame(f, life, owned, active) /\ (t = w => SetFrame(f, updatesType))
  BY <1>1, <1>2, <1>8 DEF LiveFrame, SetFrame
<1>11. /\ slots' \in [Observables -> SUBSET Pairs]
       /\ observables' \in [Observers -> SUBSET Observables]
  BY <1>2, <1>3, <1>5, <1>7 DEF Inv, Types, Pairs
<1>12. /\ \A k \in Observables : k # h => slots'[k] = slots[k]
       /\ slots'[h] = slots[h] \cup {<<f.o, n>>}
       /\ \A q \in Observers : q # f.o => observables'[q] = observables[q]
       /\ observables'[f.o] = observables[f.o] \cup {h}
  BY <1>2, <1>7, <1>8 DEF Inv, Types
<1>13. Working(f, observables', observers', slots')
  <2>1. InFlight(Top(t)) /\ ~InFlight(f) /\ f.op # "unregisterWithAll"
    BY <1>1, <1>8 DEF InFlight
  <2>2. f.o \in observers[h]
    BY <1>1, <1>2, <1>3, <1>8 DEF Working
  <2>3. \A k \in Observables : k # h =>
           Linked(f.o, k, Watched(Top(t), observables), observers, slots)
    BY <1>2, <1>3, <1>8 DEF Working
  <2>4. Watched(f, observables') = Watched(Top(t), observables) \cup {h}
    <3>1. CASE f.op = "assign"
      <4>1. Watched(f, observables') = observables'[f.o] \ f.left
        BY <3>1, <1>8 DEF Watched
      <4>2. Watched(Top(t), observables) = observables[f.o] \ Top(t).left
        BY <3>1, <1>1, <1>8 DEF Watched
      <4> QED
        BY <4>1, <4>2, <1>3, <1>8, <1>12
    <3>2. CASE f.op # "assign"
      BY <3>2, <1>8, <1>12 DEF Watched
    <3> QED
      BY <3>1, <3>2
  <2>5. ASSUME NEW k \in Observables, k # h
        PROVE  Linked(f.o, k, Watched(f, observables'), observers', slots')
    BY <2>3, <2>4, <2>5, <1>7, <1>12 DEF Linked
  <2>6. Linked(f.o, h, Watched(f, observables'), observers', slots')
    <3>1. <<f.o, n>> \in slots'[h] /\ <<f.o, n>>[1] = f.o
      BY <1>12
    <3> QED
      BY <2>2, <2>4, <3>1, <1>7 DEF Linked
  <2> QED
    BY <2>1, <2>5, <2>6 DEF Working
<1>14. /\ observers' \in [Observables -> SUBSET Observers]
       /\ deferredObservers' \in SUBSET Observers
       /\ owed' \in [Observers -> SUBSET Observables]
  BY <1>7 DEF Inv, Types
<1>15. \A q \in Observers \ {f.o} :
          /\ observables'[q] = observables[q]
          /\ \A k \in Observables :
                /\ q \in observers'[k] <=> q \in observers[k]
                /\ (\E c \in slots'[k] : c[1] = q) <=> (\E c \in slots[k] : c[1] = q)
  BY <1>7, <1>12
<1>16. \A q \in Observers : owed'[q] # {} =>
          /\ owed'[q] \subseteq owed[q]
          /\ \A k \in owed'[q] : q \in observers[k] => q \in observers'[k]
          /\ q \in deferredObservers /\ updatesType # "enabled" =>
                q \in deferredObservers' \/ (t = w /\ f.op = "unregisterWithAll" /\ f.o = q)
  BY <1>7
<1> QED
  BY <1>1, <1>7, <1>8, <1>9, <1>10, <1>11, <1>13, <1>14, <1>15, <1>16, WorkStep

\* The proxy is taken out of observers_.
LEMMA LeaveEraseKeeps ==
    ASSUME NEW w \in Threads, NEW t \in Threads, NEW h \in Observables, Inv(w), LeaveErase(t, h)
    PROVE  Inv(w)'
<1>1. /\ stack[t] # <<>> /\ Top(t).at = "leave"
      /\ Top(t).op \in {"unregisterWith", "unregisterWithAll", "assign", "destroy"}
      /\ Top(t).op \in Single \cup {"destroy"} /\ h \in Top(t).left
  BY DEF LeaveErase, At, Leaves, Single
<1>2. PICK f : f = [Top(t) EXCEPT !.at = "test", !.h = h]
  OBVIOUS
<1>3. /\ Become(t, f) /\ observers' = [observers EXCEPT ![h] = @ \ {Top(t).o}]
      /\ owed' = [owed EXCEPT ![Top(t).o] = @ \ {h}]
      /\ UNCHANGED <<life, owned, active, updatesType>>
      /\ observables' = observables /\ slots' = slots
      /\ deferredObservers' = deferredObservers
  BY <1>1, <1>2 DEF LeaveErase, settings
<1>4. /\ Top(t) \in FrameType /\ GoodFrame(Top(t)) /\ LiveFrame(Top(t), life, owned, active)
      /\ t = w => SetFrame(Top(t), updatesType)
      /\ Top(t).o \in Observers /\ Working(Top(t), observables, observers, slots)
  BY <1>1, TopFacts
<1>5. /\ f \in FrameType /\ f.op = Top(t).op /\ f.o = Top(t).o /\ f.p = Top(t).p
      /\ f.at = "test" /\ f.h = h /\ f.left = Top(t).left /\ f.locks = Top(t).locks
  BY <1>2, <1>4 DEF FrameType, Points
<1>6. GoodFrame(f)
  <2>1. f.at \in PointsOf(f.op)
    BY <1>1, <1>5 DEF PointsOf
  <2>2. f.locks \in LocksOf(f)
    BY <1>1, <1>4, <1>5 DEF GoodFrame, LocksOf
  <2> QED
    BY <1>1, <1>4, <1>5, <2>1, <2>2 DEF GoodFrame
<1>7. LiveFrame(f, life, owned, active) /\ (t = w => SetFrame(f, updatesType))
  BY <1>1, <1>4, <1>5 DEF LiveFrame, SetFrame
<1>8. /\ observers' \in [Observables -> SUBSET Observers]
      /\ owed' \in [Observers -> SUBSET Observables]
  BY <1>3, <1>4 DEF Inv, Types
<1>9. /\ \A k \in Observables : k # h => observers'[k] = observers[k]
      /\ observers'[h] = observers[h] \ {f.o}
      /\ \A q \in Observers : q # f.o => owed'[q] = owed[q]
      /\ owed'[f.o] = owed[f.o] \ {h}
  BY <1>3, <1>4, <1>5 DEF Inv, Types
<1>10. Working(f, observables', observers', slots')
  <2>1. Watched(f, observables) = Watched(Top(t), observables) /\ InFlight(f) /\ ~InFlight(Top(t))
    BY <1>1, <1>5 DEF Watched, InFlight
  <2>2. \A k \in Observables : Linked(f.o, k, Watched(f, observables), observers, slots)
    BY <1>4, <1>5, <2>1 DEF Working
  <2>3. \A k \in Observables : k # h => Linked(f.o, k, Watched(f, observables), observers', slots)
    BY <2>2, <1>9 DEF Linked
  <2>4. f.o \notin observers'[h]
    BY <1>9
  <2>5. f.op = "unregisterWithAll" => observables[f.o] \subseteq f.left
    BY <1>1, <1>4, <1>5 DEF Working
  <2> QED
    BY <1>3, <1>5, <2>1, <2>3, <2>4, <2>5 DEF Working
<1>11. /\ observables' \in [Observers -> SUBSET Observables]
       /\ slots' \in [Observables -> SUBSET Pairs]
       /\ deferredObservers' \in SUBSET Observers
  BY <1>3 DEF Inv, Types
<1>12. \A q \in Observers \ {f.o} :
          /\ observables'[q] = observables[q]
          /\ \A k \in Observables :
                /\ q \in observers'[k] <=> q \in observers[k]
                /\ (\E c \in slots'[k] : c[1] = q) <=> (\E c \in slots[k] : c[1] = q)
  BY <1>3, <1>9
<1>13. ASSUME NEW q \in Observers, owed'[q] # {}
       PROVE  /\ owed'[q] \subseteq owed[q]
              /\ \A k \in owed'[q] : q \in observers[k] => q \in observers'[k]
              /\ q \in deferredObservers /\ updatesType # "enabled" =>
                    q \in deferredObservers' \/ (t = w /\ f.op = "unregisterWithAll" /\ f.o = q)
  <2>1. \A k \in owed[q] : k \in Observables
    BY DEF Inv, Types
  <2>2. CASE q = f.o
    BY <1>3, <1>9, <2>1, <2>2
  <2>3. CASE q # f.o
    BY <1>3, <1>9, <2>1, <2>3
  <2> QED
    BY <2>2, <2>3
<1> QED
  BY <1>1, <1>3, <1>5, <1>6, <1>7, <1>8, <1>10, <1>11, <1>12, <1>13, WorkStep

\* Are updates deferred?
LEMMA LeaveTestKeeps ==
    ASSUME NEW w \in Threads, NEW t \in Threads, Inv(w), LeaveTest(t)
    PROVE  Inv(w)'
<1>1. /\ stack[t] # <<>> /\ Top(t).at = "test"
      /\ Top(t).op \in {"unregisterWith", "unregisterWithAll", "assign", "destroy"}
      /\ Top(t).op \in Single \cup {"destroy"}
  BY DEF LeaveTest, At, Leaves, Single
<1>2. PICK a : a = IF updatesType = "deferred" THEN "settings" ELSE "disconnect"
  OBVIOUS
<1>3. PICK f : f = [Top(t) EXCEPT !.at = a]
  OBVIOUS
<1>4. /\ Become(t, f) /\ UNCHANGED <<life, owned, active, updatesType>>
      /\ observables' = observables /\ observers' = observers /\ slots' = slots
      /\ deferredObservers' = deferredObservers /\ owed' = owed
  BY <1>2, <1>3 DEF LeaveTest, registrations, settings
<1>5. /\ Top(t) \in FrameType /\ GoodFrame(Top(t)) /\ LiveFrame(Top(t), life, owned, active)
      /\ t = w => SetFrame(Top(t), updatesType)
      /\ Top(t).o \in Observers /\ Working(Top(t), observables, observers, slots)
  BY <1>1, TopFacts
<1>6. /\ f \in FrameType /\ f.op = Top(t).op /\ f.o = Top(t).o /\ f.p = Top(t).p
      /\ f.at = a /\ f.h = Top(t).h /\ f.left = Top(t).left /\ f.locks = Top(t).locks
      /\ a \in {"settings", "disconnect"}
  BY <1>2, <1>3, <1>5 DEF FrameType, Points
<1>7. GoodFrame(f)
  <2>1. f.at \in PointsOf(f.op)
    BY <1>1, <1>6 DEF PointsOf
  <2>2. f.locks \in LocksOf(f)
    BY <1>1, <1>5, <1>6 DEF GoodFrame, LocksOf
  <2>3. InFlight(Top(t)) /\ InFlight(f)
    BY <1>1, <1>6 DEF InFlight
  <2> QED
    BY <1>1, <1>5, <1>6, <2>1, <2>2, <2>3 DEF GoodFrame
<1>8. LiveFrame(f, life, owned, active) /\ (t = w => SetFrame(f, updatesType))
  BY <1>1, <1>2, <1>5, <1>6 DEF LiveFrame, SetFrame
<1>9. Working(f, observables', observers', slots')
  <2>1. Watched(f, observables) = Watched(Top(t), observables) /\ InFlight(f) /\ InFlight(Top(t))
    BY <1>1, <1>6 DEF Watched, InFlight
  <2> QED
    BY <1>1, <1>4, <1>5, <1>6, <2>1 DEF Working
<1>10. /\ observables' \in [Observers -> SUBSET Observables]
       /\ observers' \in [Observables -> SUBSET Observers]
       /\ slots' \in [Observables -> SUBSET Pairs]
       /\ deferredObservers' \in SUBSET Observers
       /\ owed' \in [Observers -> SUBSET Observables]
  BY <1>4 DEF Inv, Types
<1> QED
  BY <1>1, <1>4, <1>6, <1>7, <1>8, <1>9, <1>10, WorkStep

\* If so, the observer is no longer among the deferred ones.
LEMMA LeaveSettingsKeeps ==
    ASSUME NEW w \in Threads, NEW t \in Threads, Inv(w), LeaveSettings(t)
    PROVE  Inv(w)'
<1>1. /\ stack[t] # <<>> /\ Top(t).at = "settings"
      /\ Top(t).op \in {"unregisterWith", "unregisterWithAll", "assign", "destroy"}
      /\ Top(t).op \in Single \cup {"destroy"}
  BY DEF LeaveSettings, At, Leaves, Single
<1>2. PICK f : f = [Top(t) EXCEPT !.at = "disconnect"]
  OBVIOUS
<1>3. /\ Become(t, f) /\ UNCHANGED <<life, owned, active, updatesType>>
      /\ observables' = observables /\ observers' = observers /\ slots' = slots
      /\ deferredObservers' = IF updatesType = "deferred" THEN deferredObservers \ {Top(t).o}
                                                          ELSE deferredObservers
      /\ owed' = owed
  BY <1>2 DEF LeaveSettings, registrations, settings
<1>4. /\ Top(t) \in FrameType /\ GoodFrame(Top(t)) /\ LiveFrame(Top(t), life, owned, active)
      /\ t = w => SetFrame(Top(t), updatesType)
      /\ t # w => Top(t).op = "destroy"
      /\ Top(t).o \in Observers /\ Working(Top(t), observables, observers, slots)
  BY <1>1, TopFacts
<1>5. /\ f \in FrameType /\ f.op = Top(t).op /\ f.o = Top(t).o /\ f.p = Top(t).p
      /\ f.at = "disconnect" /\ f.h = Top(t).h /\ f.left = Top(t).left /\ f.locks = Top(t).locks
  BY <1>2, <1>4 DEF FrameType, Points
<1>6. GoodFrame(f)
  <2>1. f.at \in PointsOf(f.op)
    BY <1>1, <1>5 DEF PointsOf
  <2>2. f.locks \in LocksOf(f)
    BY <1>1, <1>4, <1>5 DEF GoodFrame, LocksOf
  <2>3. InFlight(Top(t)) /\ InFlight(f)
    BY <1>1, <1>5 DEF InFlight
  <2> QED
    BY <1>1, <1>4, <1>5, <2>1, <2>2, <2>3 DEF GoodFrame
<1>7. LiveFrame(f, life, owned, active) /\ (t = w => SetFrame(f, updatesType))
  BY <1>1, <1>4, <1>5 DEF LiveFrame, SetFrame
<1>8. Working(f, observables', observers', slots')
  <2>1. Watched(f, observables) = Watched(Top(t), observables) /\ InFlight(f) /\ InFlight(Top(t))
    BY <1>1, <1>5 DEF Watched, InFlight
  <2> QED
    BY <1>1, <1>3, <1>4, <1>5, <2>1 DEF Working
<1>9. /\ observables' \in [Observers -> SUBSET Observables]
      /\ observers' \in [Observables -> SUBSET Observers]
      /\ slots' \in [Observables -> SUBSET Pairs]
      /\ deferredObservers' \in SUBSET Observers
      /\ owed' \in [Observers -> SUBSET Observables]
  BY <1>3 DEF Inv, Types
<1>10. ASSUME NEW q \in Observers, owed'[q] # {}, q \in deferredObservers, ~MayDropSome
       PROVE  q \in deferredObservers' \/ (t = w /\ f.op = "unregisterWithAll" /\ f.o = q)
  <2>1. life[q] \in {"new", "alive"}
    BY <1>3, <1>10 DEF Inv, OwedInv
  <2>2. CASE q # f.o
    BY <1>3, <1>5, <1>10, <2>2
  <2>3. CASE q = f.o
    <3>1. Top(t).op # "destroy"
      BY <2>1, <2>3, <1>4, <1>5 DEF LiveFrame
    <3>2. CASE Top(t).op = "unregisterWithAll"
      BY <3>1, <3>2, <2>3, <1>4, <1>5
    <3>3. CASE Top(t).op \in {"unregisterWith", "assign"}
      BY <3>1, <3>3, <1>3, <1>4, <1>10 DEF SetFrame
    <3> QED
      BY <3>1, <3>2, <3>3, <1>1
  <2> QED
    BY <2>2, <2>3
<1>11. \A q \in Observers : owed'[q] # {} =>
          /\ owed'[q] \subseteq owed[q]
          /\ \A k \in owed'[q] : q \in observers[k] => q \in observers'[k]
          /\ q \in deferredObservers /\ updatesType # "enabled" /\ ~MayDropSome =>
                q \in deferredObservers' \/ (t = w /\ f.op = "unregisterWithAll" /\ f.o = q)
  BY <1>3, <1>10
<1> QED
  BY <1>1, <1>3, <1>5, <1>6, <1>7, <1>8, <1>9, <1>11, WorkStep

\* Every connection of the proxy is undone.
LEMMA LeaveDisconnectKeeps ==
    ASSUME NEW w \in Threads, NEW t \in Threads, Inv(w), LeaveDisconnect(t)
    PROVE  Inv(w)'
<1>1. /\ stack[t] # <<>> /\ Top(t).at = "disconnect"
      /\ Top(t).op \in {"unregisterWith", "unregisterWithAll", "assign", "destroy"}
      /\ Top(t).op \in Single \cup {"destroy"} /\ InFlight(Top(t))
  BY DEF LeaveDisconnect, At, Leaves, Single, InFlight
<1>2. /\ Top(t) \in FrameType /\ GoodFrame(Top(t)) /\ LiveFrame(Top(t), life, owned, active)
      /\ t = w => SetFrame(Top(t), updatesType)
      /\ Top(t).o \in Observers /\ Working(Top(t), observables, observers, slots)
  BY <1>1, TopFacts
<1>3. PICK h \in Observables : h = Top(t).h /\ h \in Top(t).left
  BY <1>1, <1>2 DEF GoodFrame
<1>4. PICK f : f = [Top(t) EXCEPT !.at = "leave", !.left = @ \ {Top(t).h}]
  OBVIOUS
<1>5. PICK C : C = Connections(h, Top(t).o)
  OBVIOUS
<1>6. PICK F : F = Forgets(Top(t))
  OBVIOUS
<1>7. /\ Become(t, f)
      /\ slots' = [slots EXCEPT ![h] = @ \ C]
      /\ observables' = [observables EXCEPT ![Top(t).o] = F]
      /\ UNCHANGED <<life, owned, active, updatesType>>
      /\ observers' = observers /\ deferredObservers' = deferredObservers /\ owed' = owed
  BY <1>3, <1>4, <1>5, <1>6 DEF LeaveDisconnect, settings
<1>8. /\ f \in FrameType /\ f.op = Top(t).op /\ f.o = Top(t).o /\ f.p = Top(t).p
      /\ f.at = "leave" /\ f.left = Top(t).left \ {h} /\ f.locks = Top(t).locks
  BY <1>2, <1>3, <1>4 DEF FrameType, Points
<1>9. GoodFrame(f)
  <2>1. f.at \in PointsOf(f.op) /\ ~InFlight(f)
    BY <1>1, <1>8 DEF PointsOf, InFlight
  <2>2. f.locks \in LocksOf(f)
    BY <1>1, <1>2, <1>8 DEF GoodFrame, LocksOf
  <2> QED
    BY <1>1, <1>2, <1>8, <2>1, <2>2 DEF GoodFrame
<1>10. LiveFrame(f, life, owned, active) /\ (t = w => SetFrame(f, updatesType))
  BY <1>1, <1>2, <1>8 DEF LiveFrame, SetFrame
<1>11. F = IF f.op = "assign" THEN observables[f.o] ELSE observables[f.o] \ {h}
  BY <1>3, <1>6, <1>8 DEF Forgets
<1>12. /\ slots' \in [Observables -> SUBSET Pairs]
       /\ observables' \in [Observers -> SUBSET Observables]
  <2>1. F \subseteq Observables
    BY <1>2, <1>8, <1>11 DEF Inv, Types
  <2> QED
    BY <1>2, <1>3, <1>7, <2>1 DEF Inv, Types
<1>13. /\ \A k \in Observables : k # h => slots'[k] = slots[k]
       /\ \A c : c \in slots'[h] <=> c \in slots[h] /\ c[1] # f.o
       /\ \A q \in Observers : q # f.o => observables'[q] = observables[q]
       /\ observables'[f.o] = F
  BY <1>2, <1>5, <1>7, <1>8 DEF Inv, Types, Connections
<1>14. Working(f, observables', observers', slots')
  <2>1. InFlight(Top(t)) /\ ~InFlight(f)
    BY <1>1, <1>8 DEF InFlight
  <2>2. f.o \notin observers[h]
    BY <1>1, <1>2, <1>3, <1>8 DEF Working
  <2>3. \A k \in Observables : k # h =>
           Linked(f.o, k, Watched(Top(t), observables), observers, slots)
    BY <1>2, <1>3, <1>8 DEF Working
  <2>4. Watched(f, observables') = Watched(Top(t), observables) \ {h}
    <3>1. CASE f.op = "assign"
      BY <3>1, <1>1, <1>8 DEF Watched
    <3>2. CASE f.op # "assign"
      BY <3>2, <1>8, <1>11, <1>13 DEF Watched
    <3> QED
      BY <3>1, <3>2
  <2>5. ASSUME NEW k \in Observables, k # h
        PROVE  Linked(f.o, k, Watched(f, observables'), observers', slots')
    BY <2>3, <2>4, <2>5, <1>7, <1>13 DEF Linked
  <2>6. Linked(f.o, h, Watched(f, observables'), observers', slots')
    BY <2>2, <2>4, <1>7, <1>13 DEF Linked
  <2>7. f.op = "unregisterWithAll" => observables'[f.o] \subseteq f.left
    BY <1>1, <1>2, <1>8, <1>11, <1>13 DEF Working
  <2> QED
    BY <2>1, <2>5, <2>6, <2>7 DEF Working
<1>15. /\ observers' \in [Observables -> SUBSET Observers]
       /\ deferredObservers' \in SUBSET Observers
       /\ owed' \in [Observers -> SUBSET Observables]
  BY <1>7 DEF Inv, Types
<1>16. \A q \in Observers \ {f.o} :
          /\ observables'[q] = observables[q]
          /\ \A k \in Observables :
                /\ q \in observers'[k] <=> q \in observers[k]
                /\ (\E c \in slots'[k] : c[1] = q) <=> (\E c \in slots[k] : c[1] = q)
  BY <1>7, <1>13
<1>17. \A q \in Observers : owed'[q] # {} =>
          /\ owed'[q] \subseteq owed[q]
          /\ \A k \in owed'[q] : q \in observers[k] => q \in observers'[k]
          /\ q \in deferredObservers /\ updatesType # "enabled" =>
                q \in deferredObservers' \/ (t = w /\ f.op = "unregisterWithAll" /\ f.o = q)
  BY <1>7
<1> QED
  BY <1>1, <1>7, <1>8, <1>9, <1>10, <1>12, <1>14, <1>15, <1>16, <1>17, WorkStep

\* operator= has left everything, or copies the observables of the other.
LEMMA AssignKeeps ==
    ASSUME NEW w \in Threads, NEW t \in Threads, Inv(w),
           AssignCopy(t) \/ (LeaveEnd(t) /\ Top(t).op = "assign")
    PROVE  Inv(w)'
<1>1. /\ stack[t] # <<>> /\ Top(t).op = "assign" /\ Top(t).op \in Single \cup {"destroy"}
  BY DEF LeaveEnd, AssignCopy, At, Single
<1>2. /\ Top(t) \in FrameType /\ GoodFrame(Top(t)) /\ LiveFrame(Top(t), life, owned, active)
      /\ t = w => SetFrame(Top(t), updatesType)
      /\ Top(t).o \in Observers /\ Working(Top(t), observables, observers, slots)
      /\ Top(t).p \in Observers
  BY <1>1, TopFacts DEF GoodFrame
<1>3. CASE LeaveEnd(t) /\ Top(t).op = "assign"
  <2>1. PICK f : f = [Top(t) EXCEPT !.at = "copy"]
    OBVIOUS
  <2>2. /\ Become(t, f) /\ UNCHANGED <<life, owned, active, updatesType>>
        /\ observables' = observables /\ observers' = observers /\ slots' = slots
        /\ deferredObservers' = deferredObservers /\ owed' = owed
        /\ Top(t).at = "leave" /\ Top(t).left = {}
    BY <1>3, <2>1 DEF LeaveEnd, At, registrations, settings
  <2>3. /\ f \in FrameType /\ f.op = Top(t).op /\ f.o = Top(t).o /\ f.p = Top(t).p
        /\ f.at = "copy" /\ f.h = Top(t).h /\ f.left = {} /\ f.locks = Top(t).locks
    BY <1>2, <2>1, <2>2 DEF FrameType, Points
  <2>4. GoodFrame(f)
    <3>1. f.at \in PointsOf(f.op) /\ f.locks \in LocksOf(f) /\ ~InFlight(f)
      BY <1>1, <1>2, <2>2, <2>3 DEF PointsOf, LocksOf, GoodFrame, InFlight
    <3> QED
      BY <1>1, <1>2, <2>3, <3>1 DEF GoodFrame
  <2>5. LiveFrame(f, life, owned, active) /\ (t = w => SetFrame(f, updatesType))
    BY <1>1, <1>2, <2>3 DEF LiveFrame, SetFrame
  <2>6. Working(f, observables', observers', slots')
    <3>1. Watched(f, observables) = {} /\ Watched(Top(t), observables) = {}
      BY <1>1, <2>2, <2>3 DEF Watched
    <3>2. ~InFlight(f) /\ ~InFlight(Top(t))
      BY <2>2, <2>3 DEF InFlight
    <3> QED
      BY <1>1, <1>2, <2>2, <2>3, <3>1, <3>2 DEF Working
  <2>7. /\ observables' \in [Observers -> SUBSET Observables]
        /\ observers' \in [Observables -> SUBSET Observers]
        /\ slots' \in [Observables -> SUBSET Pairs]
        /\ deferredObservers' \in SUBSET Observers
        /\ owed' \in [Observers -> SUBSET Observables]
    BY <2>2 DEF Inv, Types
  <2> QED
    BY <1>1, <2>2, <2>3, <2>4, <2>5, <2>6, <2>7, WorkStep
<1>4. CASE AssignCopy(t)
  <2>1. PICK f : f = [Top(t) EXCEPT !.at = "join", !.left = observables[Top(t).p]]
    OBVIOUS
  <2>2. /\ Become(t, f) /\ UNCHANGED <<life, owned, active, updatesType>>
        /\ observables' = [observables EXCEPT ![Top(t).o] = observables[Top(t).p]]
        /\ observers' = observers /\ slots' = slots
        /\ deferredObservers' = deferredObservers /\ owed' = owed
        /\ Top(t).at = "copy"
    BY <1>4, <2>1 DEF AssignCopy, At, settings
  <2>3. observables[Top(t).p] \subseteq Observables
    BY <1>2 DEF Inv, Types
  <2>4. /\ f \in FrameType /\ f.op = Top(t).op /\ f.o = Top(t).o /\ f.p = Top(t).p
        /\ f.at = "join" /\ f.left = observables[Top(t).p] /\ f.locks = Top(t).locks
    BY <1>2, <2>1, <2>3 DEF FrameType, Points
  <2>5. GoodFrame(f)
    <3>1. f.at \in PointsOf(f.op) /\ f.locks \in LocksOf(f) /\ ~InFlight(f)
      BY <1>1, <1>2, <2>2, <2>4 DEF PointsOf, LocksOf, GoodFrame, InFlight
    <3> QED
      BY <1>1, <1>2, <2>3, <2>4, <3>1 DEF GoodFrame
  <2>6. LiveFrame(f, life, owned, active) /\ (t = w => SetFrame(f, updatesType))
    BY <1>1, <1>2, <2>4 DEF LiveFrame, SetFrame
  <2>7. /\ observables' \in [Observers -> SUBSET Observables]
        /\ observers' \in [Observables -> SUBSET Observers]
        /\ slots' \in [Observables -> SUBSET Pairs]
        /\ deferredObservers' \in SUBSET Observers
        /\ owed' \in [Observers -> SUBSET Observables]
    BY <1>2, <2>2, <2>3 DEF Inv, Types
  <2>8. /\ observables'[f.o] = f.left
        /\ \A q \in Observers : q # f.o => observables'[q] = observables[q]
    BY <1>2, <2>2, <2>4 DEF Inv, Types
  <2>9. Working(f, observables', observers', slots')
    <3>1. Watched(f, observables') = {} /\ Watched(Top(t), observables) = {}
      BY <1>1, <2>2, <2>4, <2>8 DEF Watched
    <3>2. ~InFlight(f) /\ ~InFlight(Top(t))
      BY <2>2, <2>4 DEF InFlight
    <3> QED
      BY <1>1, <1>2, <2>2, <2>4, <3>1, <3>2 DEF Working
  <2> QED
    BY <1>1, <2>2, <2>4, <2>5, <2>6, <2>7, <2>8, <2>9, WorkStep
<1> QED
  BY <1>3, <1>4

\* What follows a return is no function that works for an observer.
LEMMA ReturnIdle ==
    ASSUME NEW w \in Threads, NEW t \in Threads, Inv(w), stack[t] # <<>>, Return(t)
    PROVE  ~Works(stack'[t])
<1>1. /\ stack[t] \in Seq(FrameType) /\ GoodStack(stack[t]) /\ Len(stack[t]) \in Nat
  BY ThreadFacts DEF Inv
<1>2. /\ \A i \in 1..(Len(stack[t]) - 1) : stack'[t][i] = stack[t][i + 1]
      /\ stack'[t] # <<>> <=> Len(stack[t]) > 1
  BY ReturnStack DEF Inv
<1> SUFFICES ASSUME stack'[t] # <<>> PROVE stack'[t][1].op \notin Single \cup {"destroy"}
  BY DEF Works
<1>3. 1 \in 1..(Len(stack[t]) - 1) /\ 2 \in 1..Len(stack[t]) /\ 2 > 1 /\ 1 + 1 = 2
  BY <1>1, <1>2
<1>4. stack'[t][1] = stack[t][2]
  BY <1>2, <1>3
<1>5. stack[t][2].op \in {"emit", "enable", "proxy", "registerWithObservables"}
  BY <1>1, <1>3, CallerFacts
<1> QED
  BY <1>4, <1>5 DEF Single

\* The end of a member function.
LEMMA WorkEnd ==
    ASSUME NEW w \in Threads, NEW t \in Threads, Inv(w), stack[t] # <<>>,
           Top(t).op \in Single, Top(t).op # "construct",
           Top(t).left = {}, Top(t).at \in {"join", "leave"},
           Top(t).op = "assign" => Top(t).at = "join", Return(t),
           UNCHANGED <<life, owned, active, updatesType, deferredObservers, owed,
                       observables, observers, slots>>
    PROVE  Inv(w)'
<1>1. /\ Top(t) = stack[t][1] /\ Len(stack[t]) \in Nat /\ Len(stack[t]) >= 1
      /\ t = w /\ Top(t).o \in Observers /\ Working(Top(t), observables, observers, slots)
      /\ \A u \in Threads : u # t /\ Works(stack[u]) =>
            stack[u][1].o \in Observers \ {Top(t).o}
  BY TopFacts DEF Single
<1>2. /\ stack' \in [Threads -> Seq(FrameType)] /\ StackInv(w)'
      /\ Len(stack'[t]) = Len(stack[t]) - 1
      /\ \A i \in 1..(Len(stack[t]) - 1) : stack'[t][i] = stack[t][i + 1]
      /\ stack'[t] # <<>> <=> Len(stack[t]) > 1
      /\ \A u \in Threads : u # t => stack'[u] = stack[u]
  BY ReturnStack DEF Inv
<1>3. LifeInv(w)' /\ SettingsInv(w)'
  BY ReturnLife DEF Inv
<1>4. Types'
  BY <1>2 DEF Inv, Types
<1>5. PICK o \in Observers : o = Top(t).o
  BY <1>1
<1>6. \A h \in Observables : Linked(o, h, observables[o], observers, slots)
  <2>1. Watched(Top(t), observables) = observables[o] /\ ~InFlight(Top(t))
    BY <1>5 DEF Watched, InFlight
  <2> QED
    BY <1>1, <1>5, <2>1 DEF Working
<1>7. AgreeInv'
  <2>1. ~Works(stack'[t])
    BY ReturnIdle
  <2>2. \A u \in Threads : u # t => /\ stack'[u] = stack[u]
                                    /\ Works(stack[u]) => stack[u][1].o \in Observers \ {o}
    BY <1>1, <1>2, <1>5
  <2>3. stack[t][1].o = o /\ AgreeInv
    BY <1>1, <1>5 DEF Inv
  <2> QED
    BY <1>6, <2>1, <2>2, <2>3, AgreeStep
<1>8. OwedInv(w)'
  <2>1. ASSUME NEW q \in Observers, owed[q] # {},
               Told(stack[w], deferredObservers, updatesType, q)
        PROVE  Told(stack'[w], deferredObservers, updatesType, q)
    <3>1. CASE Top(t).op # "unregisterWithAll"
      <4>1. stack[w][1].op \notin {"enable", "unregisterWithAll", "proxy"}
        BY <1>1, <3>1 DEF Single
      <4> QED
        BY <1>1, <1>2, <4>1, <2>1, ToldReturn
    <3>2. CASE Top(t).op = "unregisterWithAll"
      <4>1. observables[o] = {}
        BY <1>1, <1>5, <3>2 DEF Working
      <4>2. \A h \in Observables : o \notin observers[h]
        BY <1>6, <4>1 DEF Linked
      <4>3. owed[o] = {}
        BY <4>2 DEF Inv, OwedInv, Types
      <4>4. Len(stack[w]) = 1
        BY <1>1, <3>2, ShapeFacts, ThreadFacts DEF Single, Inv
      <4>5. ~WillTell(stack[w], q)
        BY <4>4, <1>1, <3>2 DEF WillTell
      <4> QED
        BY <4>3, <4>5, <1>1, <1>5, <2>1 DEF Told
    <3> QED
      BY <3>1, <3>2
  <2> QED
    BY <2>1, OwedStep DEF Inv
<1> QED
  BY <1>2, <1>3, <1>4, <1>7, <1>8 DEF Inv

\* The end of a constructor.
LEMMA ConstructEnd ==
    ASSUME NEW w \in Threads, NEW t \in Threads, Inv(w), JoinEnd(t), Top(t).op = "construct"
    PROVE  Inv(w)'
<1>1. /\ stack[t] # <<>> /\ Top(t).at = "join" /\ Top(t).left = {} /\ Return(t)
      /\ life' = [life EXCEPT ![Top(t).o] = "alive"]
      /\ owned' = [owned EXCEPT ![Top(t).o] = TRUE]
      /\ UNCHANGED <<active, updatesType, deferredObservers, owed, observables, observers, slots>>
  BY DEF JoinEnd, At, registrations, settings
<1>2. Top(t).op \in Single
  BY DEF Single
<1>3. /\ Top(t) = stack[t][1] /\ Len(stack[t]) \in Nat /\ Len(stack[t]) >= 1
      /\ t = w /\ Top(t).o \in Observers /\ Working(Top(t), observables, observers, slots)
      /\ LiveFrame(Top(t), life, owned, active)
      /\ \A u \in Threads : u # t /\ Works(stack[u]) =>
            stack[u][1].o \in Observers \ {Top(t).o}
  BY <1>1, <1>2, TopFacts
<1>4. PICK o \in Observers : o = Top(t).o
  BY <1>3
<1>5. /\ stack' \in [Threads -> Seq(FrameType)] /\ StackInv(w)'
      /\ Len(stack'[t]) = Len(stack[t]) - 1
      /\ stack'[t] # <<>> <=> Len(stack[t]) > 1
      /\ \A u \in Threads : u # t => stack'[u] = stack[u]
  BY <1>1, ReturnStack DEF Inv
<1>6. Len(stack[w]) = 1
  BY <1>1, <1>3, ShapeFacts, ThreadFacts DEF Single, Inv
<1>7. stack'[w] = <<>> /\ Len(stack'[w]) = 0
  BY <1>3, <1>5, <1>6
<1>8. Types'
  BY <1>1, <1>4, <1>5 DEF Inv, Types, Lives
<1>9. /\ life[o] = "new" /\ life'[o] = "alive" /\ owned'[o]
      /\ \A q \in Observers : q # o => life'[q] = life[q] /\ owned'[q] = owned[q]
      /\ \A q \in Observers : life[q] = "new" => q = o
  <2>1. \A q \in Observers : life[q] = "new" => stack[w][1].o = q
    BY DEF Inv, LifeInv
  <2>2. life[o] = "new"
    BY <1>3, <1>4 DEF LiveFrame
  <2>3. life \in [Observers -> Lives] /\ owned \in [Observers -> BOOLEAN]
    BY DEF Inv, Types
  <2> QED
    BY <1>1, <1>3, <1>4, <2>1, <2>2, <2>3
<1>10. LifeInv(w)'
  <2>1. \A q \in Observers : /\ active[q] => life'[q] \in {"new", "alive", "dying"}
                             /\ life'[q] \in {"new", "alive"} => active[q]
                             /\ owned'[q] => life'[q] = "alive"
                             /\ life'[q] # "new"
    BY <1>9 DEF Inv, LifeInv
  <2>2. ASSUME NEW u \in Threads, NEW i \in 1..Len(stack'[u])
        PROVE  LiveFrame(stack'[u][i], life', owned', active)
    <3>1. u # w /\ stack'[u] = stack[u]
      BY <1>3, <1>5, <1>7
    <3>2. stack[u][i].op = "destroy" /\ LiveFrame(stack[u][i], life, owned, active)
      BY <3>1 DEF Inv, StackInv, LifeInv
    <3>3. stack[u][i].o \in Observers
      BY <3>1, <3>2, ThreadFacts DEF Inv, GoodFrame
    <3> QED
      BY <3>1, <3>2, <3>3, <1>9 DEF LiveFrame, MemberFunctions
  <2>3. \A u \in Threads : Runs(stack'[u], "destroy") =>
           Runs(stack[u], "destroy") /\ stack'[u][1].o = stack[u][1].o
    BY <1>3, <1>5, <1>7 DEF Runs
  <2> QED
    BY <1>1, <2>1, <2>2, <2>3 DEF LifeInv, Inv
<1>11. SettingsInv(w)'
  BY <1>7 DEF SettingsInv
<1>12. AgreeInv'
  <2>1. \A h \in Observables : Linked(o, h, observables[o], observers, slots)
    BY <1>1, <1>3, <1>4 DEF Working, Watched, InFlight
  <2>2. ~Works(stack'[t])
    BY <1>1, ReturnIdle
  <2>3. \A u \in Threads : u # t => /\ stack'[u] = stack[u]
                                    /\ Works(stack[u]) => stack[u][1].o \in Observers \ {o}
    BY <1>3, <1>4, <1>5
  <2>4. stack[t][1].o = o /\ AgreeInv
    BY <1>3, <1>4 DEF Inv
  <2> QED
    BY <1>1, <2>1, <2>2, <2>3, <2>4, AgreeStep
<1>13. OwedInv(w)'
  <2>1. ASSUME NEW q \in Observers, Told(stack[w], deferredObservers, updatesType, q)
        PROVE  Told(stack'[w], deferredObservers, updatesType, q)
    BY <1>3, <1>6, <2>1 DEF Told, WillTell, Runs
  <2>2. \A q \in Observers : life[q] \in {"new", "alive"} => life'[q] \in {"new", "alive"}
    BY <1>9
  <2> QED
    BY <1>1, <2>1, <2>2, OwedStep DEF Inv
<1> QED
  BY <1>5, <1>8, <1>10, <1>11, <1>12, <1>13 DEF Inv

\* The end of a destructor: the memory is freed.
LEMMA DestroyEnd ==
    ASSUME NEW w \in Threads, NEW t \in Threads, Inv(w), LeaveEnd(t), Top(t).op = "destroy"
    PROVE  Inv(w)'
<1>1. /\ stack[t] # <<>> /\ Top(t).at = "leave" /\ Top(t).left = {} /\ Return(t)
      /\ life' = [life EXCEPT ![Top(t).o] = "freed"]
      /\ UNCHANGED <<owned, active, updatesType, deferredObservers, owed,
                     observables, observers, slots>>
  BY DEF LeaveEnd, At, registrations, settings
<1>2. /\ Top(t) = stack[t][1] /\ Len(stack[t]) \in Nat /\ Len(stack[t]) >= 1
      /\ Top(t).o \in Observers /\ Working(Top(t), observables, observers, slots)
      /\ LiveFrame(Top(t), life, owned, active)
      /\ \A u \in Threads : u # t /\ Works(stack[u]) =>
            stack[u][1].o \in Observers \ {Top(t).o}
  BY <1>1, TopFacts
<1>3. PICK o \in Observers : o = Top(t).o
  BY <1>2
<1>4. /\ stack' \in [Threads -> Seq(FrameType)] /\ StackInv(w)'
      /\ Len(stack'[t]) = Len(stack[t]) - 1
      /\ \A i \in 1..(Len(stack[t]) - 1) : stack'[t][i] = stack[t][i + 1]
      /\ stack'[t] # <<>> <=> Len(stack[t]) > 1
      /\ \A u \in Threads : u # t => stack'[u] = stack[u]
  BY <1>1, ReturnStack DEF Inv
<1>5. ~Works(stack'[t])
  BY <1>1, ReturnIdle
<1>6. Types'
  BY <1>1, <1>3, <1>4 DEF Inv, Types, Lives
<1>7. /\ life[o] = "dying" /\ life'[o] = "freed" /\ ~active[o] /\ ~owned[o]
      /\ \A q \in Observers : q # o => life'[q] = life[q]
  BY <1>1, <1>2, <1>3 DEF Inv, Types, LiveFrame, LifeInv
<1>8. ASSUME NEW u \in Threads, NEW i \in 1..Len(stack'[u])
      PROVE  /\ LiveFrame(stack'[u][i], life', owned, active)
             /\ u = w => SetFrame(stack'[u][i], updatesType)
  <2>1. PICK j \in 1..Len(stack[u]) : stack'[u][i] = stack[u][j] /\ (u = t => j # 1)
    <3>1. CASE u = t
      <4>1. i \in 1..(Len(stack[t]) - 1) /\ i + 1 \in 1..Len(stack[t]) /\ i + 1 # 1
        BY <3>1, <1>2, <1>4
      <4> QED
        BY <3>1, <4>1, <1>4
    <3>2. CASE u # t
      BY <3>2, <1>4
    <3> QED
      BY <3>1, <3>2
  <2>2. PICK g : g = stack[u][j]
    OBVIOUS
  <2>3. /\ LiveFrame(g, life, owned, active) /\ (u = w => SetFrame(g, updatesType))
        /\ GoodFrame(g)
    BY <2>1, <2>2, ThreadFacts DEF Inv, LifeInv, SettingsInv
  <2>4. g.op = "destroy" => g.o # o
    <3> SUFFICES ASSUME g.op = "destroy", g.o = o PROVE FALSE
      OBVIOUS
    <3>1. stack[u] \in Seq(FrameType) /\ GoodStack(stack[u]) /\ stack[u] # <<>>
      BY <2>1, ThreadFacts DEF Inv
    <3>2. j = 1
      BY <2>1, <2>2, <3>1, ShapeFacts
    <3>3. u # t /\ Works(stack[u])
      BY <2>1, <2>2, <3>1, <3>2 DEF Works
    <3> QED
      BY <2>2, <3>2, <3>3, <1>2, <1>3
  <2>5. LiveFrame(g, life', owned, active)
    <3>1. g.op \in {"construct", "destroy", "proxy"} => g.o \in Observers
      BY <2>3 DEF GoodFrame, Single
    <3>2. g.op \in {"construct", "destroy"} \/ (g.op = "proxy" /\ g.at = "body") =>
             life'[g.o] = life[g.o]
      BY <2>3, <2>4, <3>1, <1>7 DEF LiveFrame
    <3> QED
      BY <2>3, <3>2 DEF LiveFrame
  <2> QED
    BY <2>1, <2>2, <2>3, <2>5
<1>9. LifeInv(w)'
  <2>1. \A q \in Observers : /\ active[q] => life'[q] \in {"new", "alive", "dying"}
                             /\ life'[q] \in {"new", "alive"} => active[q]
                             /\ owned[q] => life'[q] = "alive"
    BY <1>7 DEF Inv, LifeInv
  <2>2. \A q \in Observers : life'[q] = "new" => Runs(stack'[w], "construct") /\ stack'[w][1].o = q
    <3> SUFFICES ASSUME NEW q \in Observers, life'[q] = "new"
                 PROVE  Runs(stack'[w], "construct") /\ stack'[w][1].o = q
      OBVIOUS
    <3>1. Runs(stack[w], "construct") /\ stack[w][1].o = q
      BY <1>7 DEF Inv, LifeInv
    <3>2. t # w
      BY <3>1, <1>2 DEF Runs
    <3> QED
      BY <3>1, <3>2, <1>4
  <2>3. \A u \in Threads : Runs(stack'[u], "destroy") =>
           Runs(stack[u], "destroy") /\ stack'[u][1].o = stack[u][1].o
    BY <1>4, <1>5 DEF Runs, Works
  <2>4. \A u \in Threads : \A i \in 1..Len(stack'[u]) : LiveFrame(stack'[u][i], life', owned, active)
    BY <1>8
  <2> QED
    BY <1>1, <2>1, <2>2, <2>3, <2>4 DEF LifeInv, Inv
<1>10. SettingsInv(w)'
  BY <1>1, <1>8 DEF SettingsInv
<1>11. AgreeInv'
  <2>1. \A h \in Observables : Linked(o, h, observables[o], observers, slots)
    BY <1>1, <1>2, <1>3 DEF Working, Watched, InFlight
  <2>2. \A u \in Threads : u # t => /\ stack'[u] = stack[u]
                                    /\ Works(stack[u]) => stack[u][1].o \in Observers \ {o}
    BY <1>2, <1>3, <1>4
  <2>3. stack[t][1].o = o /\ AgreeInv
    BY <1>2, <1>3 DEF Inv
  <2> QED
    BY <1>1, <1>5, <2>1, <2>2, <2>3, AgreeStep
<1>12. OwedInv(w)'
  <2>1. ASSUME NEW q \in Observers, Told(stack[w], deferredObservers, updatesType, q)
        PROVE  Told(stack'[w], deferredObservers, updatesType, q)
    <3>1. CASE t = w
      <4>1. stack[w][1].op \notin {"enable", "unregisterWithAll", "proxy"}
        BY <1>2, <3>1
      <4> QED
        BY <1>2, <1>4, <4>1, <2>1, <3>1, ToldReturn
    <3>2. CASE t # w
      BY <3>2, <2>1, <1>4
    <3> QED
      BY <3>1, <3>2
  <2>2. \A q \in Observers : life[q] \in {"new", "alive"} => life'[q] \in {"new", "alive"}
    BY <1>7
  <2> QED
    BY <1>1, <2>1, <2>2, OwedStep DEF Inv
<1> QED
  BY <1>4, <1>6, <1>9, <1>10, <1>11, <1>12 DEF Inv

\* The end of registerWith, operator= or a constructor.
LEMMA JoinEndKeeps ==
    ASSUME NEW w \in Threads, NEW t \in Threads, Inv(w), JoinEnd(t)
    PROVE  Inv(w)'
<1>1. CASE Top(t).op = "construct"
  BY <1>1, ConstructEnd
<1>2. CASE Top(t).op # "construct"
  <2>1. /\ stack[t] # <<>> /\ Top(t).op \in Single /\ Top(t).at = "join" /\ Top(t).left = {}
        /\ Return(t)
        /\ UNCHANGED <<life, owned, active, updatesType, deferredObservers, owed,
                       observables, observers, slots>>
    BY <1>2 DEF JoinEnd, At, Joins, Single, registrations, settings
  <2> QED
    BY <1>2, <2>1, WorkEnd
<1> QED
  BY <1>1, <1>2

\* The end of the loop that leaves observables.
LEMMA LeaveEndKeeps ==
    ASSUME NEW w \in Threads, NEW t \in Threads, Inv(w), LeaveEnd(t)
    PROVE  Inv(w)'
<1>1. CASE Top(t).op = "assign"
  BY <1>1, AssignKeeps
<1>2. CASE Top(t).op = "destroy"
  BY <1>2, DestroyEnd
<1>3. CASE Top(t).op \notin {"assign", "destroy"}
  <2>1. /\ stack[t] # <<>> /\ Top(t).op \in Single /\ Top(t).at = "leave" /\ Top(t).left = {}
        /\ Return(t)
        /\ UNCHANGED <<life, owned, active, updatesType, deferredObservers, owed,
                       observables, observers, slots>>
    BY <1>3 DEF LeaveEnd, At, Leaves, Single, registrations, settings
  <2>2. Top(t).op # "construct"
    BY <1>3, <2>1, TopFacts DEF GoodFrame, PointsOf
  <2> QED
    BY <1>3, <2>1, <2>2, WorkEnd
<1> QED
  BY <1>1, <1>2, <1>3

\* Deactivation: no proxy is between locking and asking for a reference.
LEMMA DeactivateKeeps ==
    ASSUME NEW w \in Threads, NEW t \in Threads, Inv(w), Deactivate(t)
    PROVE  Inv(w)'
<1>1. PICK f : f = [Top(t) EXCEPT !.at = "leave"]
  OBVIOUS
<1>2. /\ stack[t] # <<>> /\ Top(t).op = "destroy" /\ Top(t).at = "deactivate"
      /\ Free(t, ProxyMutex(Top(t).o)) /\ Become(t, f)
      /\ active' = [active EXCEPT ![Top(t).o] = FALSE]
      /\ UNCHANGED <<life, owned, updatesType, deferredObservers, owed,
                     observables, observers, slots>>
  BY <1>1 DEF Deactivate, At, registrations, settings
<1>3. /\ Top(t) = stack[t][1] /\ Top(t) \in FrameType /\ GoodFrame(Top(t))
      /\ Len(stack[t]) \in Nat /\ Len(stack[t]) >= 1
      /\ LiveFrame(Top(t), life, owned, active) /\ (t = w => SetFrame(Top(t), updatesType))
      /\ Top(t).o \in Observers /\ Working(Top(t), observables, observers, slots)
      /\ \A u \in Threads : u # t /\ Works(stack[u]) =>
            stack[u][1].o \in Observers \ {Top(t).o}
  BY <1>2, TopFacts
<1>4. PICK o \in Observers : o = Top(t).o
  BY <1>3
<1>5. /\ f \in FrameType /\ f.op = "destroy" /\ f.o = o /\ f.at = "leave" /\ f.h = Top(t).h
      /\ f.left = Top(t).left /\ f.locks = Top(t).locks
  BY <1>1, <1>2, <1>3, <1>4 DEF FrameType, Points
<1>6. GoodFrame(f)
  <2>1. f.at \in PointsOf(f.op) /\ f.locks \in LocksOf(f) /\ ~InFlight(f)
    BY <1>2, <1>3, <1>4, <1>5 DEF PointsOf, LocksOf, GoodFrame, InFlight
  <2> QED
    BY <1>2, <1>3, <1>4, <1>5, <2>1 DEF GoodFrame
<1>7. /\ stack' \in [Threads -> Seq(FrameType)] /\ StackInv(w)'
      /\ stack'[t] # <<>> /\ stack'[t][1] = f /\ Len(stack'[t]) = Len(stack[t])
      /\ \A i \in 2..Len(stack[t]) : stack'[t][i] = stack[t][i]
      /\ \A u \in Threads : u # t => stack'[u] = stack[u]
  BY <1>2, <1>4, <1>5, <1>6, ReplaceStack DEF Inv
<1>8. Types'
  BY <1>2, <1>4, <1>7 DEF Inv, Types
<1>9. /\ life[o] = "dying" /\ ~active'[o]
      /\ \A q \in Observers : q # o => active'[q] = active[q]
  BY <1>2, <1>3, <1>4 DEF Inv, Types, LiveFrame
<1>10. ASSUME NEW u \in Threads, NEW i \in 1..Len(stack'[u])
       PROVE  /\ LiveFrame(stack'[u][i], life, owned, active')
              /\ u = w => SetFrame(stack'[u][i], updatesType)
  <2>1. CASE u = t /\ i = 1
    BY <2>1, <1>2, <1>3, <1>5, <1>7, <1>9 DEF LiveFrame, SetFrame, MemberFunctions
  <2>2. CASE ~(u = t /\ i = 1)
    <3>1. i \in 1..Len(stack[u]) /\ stack'[u][i] = stack[u][i]
      <4>1. CASE u = t
        <5>1. i \in 2..Len(stack[t])
          BY <2>2, <4>1, <1>3, <1>7
        <5> QED
          BY <4>1, <5>1, <1>3, <1>7
      <4>2. CASE u # t
        BY <4>2, <1>7
      <4> QED
        BY <4>1, <4>2
    <3>2. PICK g : g = stack[u][i]
      OBVIOUS
    <3>3. /\ LiveFrame(g, life, owned, active) /\ (u = w => SetFrame(g, updatesType))
          /\ GoodFrame(g) /\ stack[u] # <<>> /\ stack[u] \in Seq(FrameType)
          /\ GoodStack(stack[u]) /\ DOMAIN stack[u] = 1..Len(stack[u])
      BY <3>1, <3>2, ThreadFacts DEF Inv, LifeInv, SettingsInv
    <3>4. g.op = "proxy" /\ g.at = "weak" => g.o \in Observers \ {o}
      <4> SUFFICES ASSUME g.op = "proxy", g.at = "weak", g.o = o PROVE FALSE
        BY <3>3 DEF GoodFrame
      <4>1. g.locks = {ProxyMutex(o)}
        BY <3>3 DEF GoodFrame, LocksOf
      <4>2. i = 1
        BY <3>1, <3>2, <3>3, ShapeFacts
      <4>3. u # t
        BY <4>2, <2>2
      <4>4. ProxyMutex(o) \in Held(u)
        BY <4>1, <3>1, <3>2, <3>3 DEF Held, Frames
      <4> QED
        BY <4>3, <4>4, <1>2, <1>4 DEF Free
    <3>5. g.op = "destroy" => g.o \in Observers
      BY <3>3 DEF GoodFrame
    <3>6. LiveFrame(g, life, owned, active')
      <4>1. g.op = "destroy" /\ ~active[g.o] => ~active'[g.o]
        BY <3>5, <1>9
      <4>2. g.op = "proxy" /\ g.at = "weak" => active'[g.o] = active[g.o]
        BY <3>4, <1>9
      <4> QED
        BY <3>3, <4>1, <4>2 DEF LiveFrame
    <3> QED
      BY <3>1, <3>2, <3>3, <3>6
  <2> QED
    BY <2>1, <2>2
<1>11. LifeInv(w)'
  <2>1. \A q \in Observers : /\ active'[q] => life[q] \in {"new", "alive", "dying"}
                             /\ life[q] \in {"new", "alive"} => active'[q]
                             /\ owned[q] => life[q] = "alive"
    BY <1>9 DEF Inv, LifeInv
  <2>2. \A q \in Observers : life[q] = "new" => Runs(stack'[w], "construct") /\ stack'[w][1].o = q
    <3> SUFFICES ASSUME NEW q \in Observers, life[q] = "new"
                 PROVE  Runs(stack'[w], "construct") /\ stack'[w][1].o = q
      OBVIOUS
    <3>1. Runs(stack[w], "construct") /\ stack[w][1].o = q
      BY DEF Inv, LifeInv
    <3>2. t # w
      BY <3>1, <1>2, <1>3 DEF Runs
    <3> QED
      BY <3>1, <3>2, <1>7
  <2>3. \A u \in Threads : Runs(stack'[u], "destroy") =>
           Runs(stack[u], "destroy") /\ stack'[u][1].o = stack[u][1].o
    BY <1>2, <1>3, <1>4, <1>5, <1>7 DEF Runs
  <2>4. \A u \in Threads : \A i \in 1..Len(stack'[u]) : LiveFrame(stack'[u][i], life, owned, active')
    BY <1>10
  <2> QED
    BY <1>2, <2>1, <2>2, <2>3, <2>4 DEF LifeInv, Inv
<1>12. SettingsInv(w)'
  BY <1>2, <1>10 DEF SettingsInv
<1>13. AgreeInv'
  <2>1. Working(f, observables, observers, slots)
    <3>1. Watched(f, observables) = Watched(Top(t), observables)
      BY <1>2, <1>4, <1>5 DEF Watched
    <3>2. ~InFlight(f) /\ ~InFlight(Top(t))
      BY <1>2, <1>5 DEF InFlight
    <3> QED
      BY <1>3, <1>4, <1>5, <3>1, <3>2 DEF Working
  <2>2. \A u \in Threads : u # t => /\ stack'[u] = stack[u]
                                    /\ Works(stack[u]) => stack[u][1].o \in Observers \ {o}
    BY <1>3, <1>4, <1>7
  <2>3. stack[t][1].o = o /\ AgreeInv /\ Works(stack'[t])
    BY <1>3, <1>4, <1>5, <1>7 DEF Inv, Works
  <2> QED
    BY <1>2, <1>5, <1>7, <2>1, <2>2, <2>3, AgreeStep
<1>14. OwedInv(w)'
  <2>1. ASSUME NEW q \in Observers, Told(stack[w], deferredObservers, updatesType, q)
        PROVE  Told(stack'[w], deferredObservers, updatesType, q)
    <3>1. CASE t = w
      BY <1>2, <1>3, <1>4, <1>5, <1>7, <2>1, <3>1, ToldReplace
    <3>2. CASE t # w
      BY <3>2, <2>1, <1>7
    <3> QED
      BY <3>1, <3>2
  <2> QED
    BY <1>2, <2>1, OwedStep DEF Inv
<1> QED
  BY <1>7, <1>8, <1>11, <1>12, <1>13, <1>14 DEF Inv

-----------------------------------------------------------------------------
(* Client calls.                                                           *)

\* Nobody works for an observer that is not dying, unless the worker does.
LEMMA NobodyWorks ==
    ASSUME NEW w \in Threads, Inv(w), NEW o \in Observers, life[o] # "dying",
           Works(stack[w]) => stack[w][1].o # o
    PROVE  /\ \A u \in Threads : Works(stack[u]) => stack[u][1].o # o
           /\ \A u \in Threads : u # w /\ Works(stack[u]) => stack[u][1].o \in Observers \ {o}
           /\ \A h \in Observables : Linked(o, h, observables[o], observers, slots)
<1>1. \A u \in Threads : u # w /\ Works(stack[u]) => stack[u][1].o \in Observers \ {o}
  BY CollectorsWork DEF Inv
<1>2. \A u \in Threads : Works(stack[u]) => stack[u][1].o # o
  BY <1>1
<1>3. \A h \in Observables : Linked(o, h, observables[o], observers, slots)
  BY <1>2 DEF Inv, AgreeInv
<1> QED
  BY <1>1, <1>2, <1>3

\* With an empty stack, only the deferred observers will be told.
LEMMA ToldEmpty ==
    ASSUME NEW D, NEW type, NEW o, Told(<<>>, D, type, o)
    PROVE  (o \in D /\ type # "enabled") \/ MayDropSome
  BY DEF Told, WillTell, Runs

\* Construction.
LEMMA ConstructKeeps ==
    ASSUME NEW w \in Threads, NEW t \in Threads, OneWorker(w), Inv(w), NEW o \in Observers,
           NEW H \in SUBSET Observables, Construct(t, o, H)
    PROVE  Inv(w)'
<1>1. PICK f : f = [Frame("construct", "join") EXCEPT !.o = o, !.left = H]
  OBVIOUS
<1>2. /\ life[o] = "unborn" /\ t = w /\ stack[w] = <<>>
      /\ life' = [life EXCEPT ![o] = "new"] /\ active' = [active EXCEPT ![o] = TRUE]
      /\ stack' = [stack EXCEPT ![w] = <<f>>]
      /\ UNCHANGED <<owned, updatesType, deferredObservers, owed, observables, observers, slots>>
  BY <1>1 DEF Construct, Start, OneWorker, registrations, settings
<1>3. /\ f \in FrameType /\ f.op = "construct" /\ f.at = "join" /\ f.o = o /\ f.left = H
      /\ f.locks = {}
  BY <1>1 DEF Frame, FrameType, Ops, Points
<1>4. GoodFrame(f)
  BY <1>3 DEF GoodFrame, PointsOf, LocksOf, InFlight
<1>5. /\ stack' \in [Threads -> Seq(FrameType)] /\ StackInv(w)'
      /\ stack'[w] # <<>> /\ stack'[w][1] = f /\ Len(stack'[w]) = 1
      /\ \A u \in Threads : u # w => stack'[u] = stack[u]
  BY <1>2, <1>3, <1>4, StartStack DEF Inv
<1>6. Types'
  BY <1>2, <1>5 DEF Inv, Types, Lives
<1>7. /\ life'[o] = "new" /\ active'[o] /\ ~owned[o]
      /\ \A q \in Observers : q # o => life'[q] = life[q] /\ active'[q] = active[q]
      /\ \A q \in Observers : life[q] # "new"
  <2>1. ~owned[o] /\ \A q \in Observers : life[q] # "new"
    BY <1>2 DEF Inv, LifeInv, Runs
  <2> QED
    BY <1>2, <2>1 DEF Inv, Types
<1>8. ASSUME NEW u \in Threads, NEW i \in 1..Len(stack'[u])
      PROVE  LiveFrame(stack'[u][i], life', owned, active')
  <2>1. CASE u = w
    <3>1. stack'[u][i] = f
      BY <2>1, <1>5
    <3> QED
      BY <3>1, <1>3, <1>7 DEF LiveFrame, MemberFunctions
  <2>2. CASE u # w
    <3>1. stack[u][i].op = "destroy" /\ LiveFrame(stack[u][i], life, owned, active)
      BY <2>2, <1>5 DEF Inv, StackInv, LifeInv
    <3>2. stack[u][i].o \in Observers
      BY <2>2, <1>5, <3>1, ThreadFacts DEF Inv, GoodFrame
    <3>3. stack[u][i].o # o
      BY <3>1, <1>2 DEF LiveFrame
    <3> QED
      BY <2>2, <1>5, <3>1, <3>2, <3>3, <1>7 DEF LiveFrame, MemberFunctions
  <2> QED
    BY <2>1, <2>2
<1>9. LifeInv(w)'
  <2>1. \A q \in Observers : /\ active'[q] => life'[q] \in {"new", "alive", "dying"}
                             /\ life'[q] \in {"new", "alive"} => active'[q]
                             /\ owned'[q] => life'[q] = "alive"
                             /\ life'[q] = "new" => q = o
    BY <1>2, <1>7 DEF Inv, LifeInv
  <2>2. Runs(stack'[w], "construct") /\ stack'[w][1].o = o
    BY <1>3, <1>5 DEF Runs
  <2>3. \A u \in Threads : Runs(stack'[u], "destroy") =>
           Runs(stack[u], "destroy") /\ stack'[u][1].o = stack[u][1].o
    BY <1>3, <1>5 DEF Runs
  <2>4. \A q \in Observers : life'[q] = "new" => Runs(stack'[w], "construct") /\ stack'[w][1].o = q
    BY <2>1, <2>2
  <2>5. \A u \in Threads : \A i \in 1..Len(stack'[u]) : LiveFrame(stack'[u][i], life', owned', active')
    BY <1>2, <1>8
  <2>6. \A u, v \in Threads : Runs(stack'[u], "destroy") /\ Runs(stack'[v], "destroy")
           /\ stack'[u][1].o = stack'[v][1].o => u = v
    BY <2>3 DEF LifeInv, Inv
  <2> QED
    BY <2>1, <2>4, <2>5, <2>6 DEF LifeInv
<1>10. SettingsInv(w)'
  BY <1>3, <1>5 DEF SettingsInv, SetFrame
<1>11. AgreeInv'
  <2>1. ~Works(stack[w]) /\ AgreeInv /\ Works(stack'[w])
    BY <1>2, <1>3, <1>5 DEF Works, Inv, Single
  <2>2. /\ \A u \in Threads : u # w /\ Works(stack[u]) => stack[u][1].o \in Observers \ {o}
        /\ \A h \in Observables : Linked(o, h, observables[o], observers, slots)
    BY <1>2, <2>1, NobodyWorks
  <2>3. Working(f, observables, observers, slots)
    BY <1>3, <2>2 DEF Working, Watched, InFlight
  <2> QED
    BY <1>2, <1>3, <1>5, <2>1, <2>2, <2>3, AgreeStep
<1>12. OwedInv(w)'
  <2>1. ASSUME NEW q \in Observers, Told(stack[w], deferredObservers, updatesType, q)
        PROVE  Told(stack'[w], deferredObservers, updatesType, q)
    BY <2>1, <1>2, ToldEmpty DEF Told
  <2>2. \A q \in Observers : life[q] \in {"new", "alive"} => life'[q] \in {"new", "alive"}
    BY <1>7
  <2> QED
    BY <1>2, <2>1, <2>2, OwedStep DEF Inv
<1> QED
  BY <1>5, <1>6, <1>9, <1>10, <1>11, <1>12 DEF Inv

\* The type of updates changes.
LEMMA DisableKeeps ==
    ASSUME NEW w \in Threads, NEW t \in Threads, OneWorker(w), Inv(w),
           NEW deferred \in BOOLEAN, disableUpdates(t, deferred)
    PROVE  Inv(w)'
<1>1. /\ t = w /\ stack[w] = <<>> /\ updatesType' \in {"deferred", "disabled"}
      /\ UNCHANGED <<life, owned, active, deferredObservers, owed, observables, observers,
                     slots, stack>>
  BY DEF disableUpdates, OneWorker, registrations
<1>2. Types' /\ StackInv(w)' /\ LifeInv(w)' /\ AgreeInv'
  <2>1. Types' /\ StackInv(w)'
    BY <1>1 DEF Inv, Types, StackInv
  <2>2. LifeInv(w)'
    BY <1>1 DEF Inv, LifeInv
  <2>3. AgreeInv'
    BY <1>1 DEF Inv, AgreeInv
  <2> QED
    BY <2>1, <2>2, <2>3
<1>3. SettingsInv(w)'
  BY <1>1 DEF SettingsInv
<1>4. OwedInv(w)'
  <2>1. ASSUME NEW q \in Observers, Told(stack[w], deferredObservers, updatesType, q)
        PROVE  Told(stack'[w], deferredObservers, updatesType', q)
    BY <2>1, <1>1, ToldEmpty DEF Told
  <2> QED
    BY <1>1, <2>1, OwedStep DEF Inv
<1> QED
  BY <1>2, <1>3, <1>4 DEF Inv

\* The frames of stack r from n on are among those of stack s, but that one may
\* have left update(); none runs update() of o or is a member function for o.
Kept(r, n, s, o) ==
    \A i \in n..Len(r) : \E j \in 1..Len(s) :
        /\ r[i].op = s[j].op /\ r[i].o = s[j].o /\ r[i].p = s[j].p
        /\ r[i].at = s[j].at \/ (r[i].op = "proxy" /\ r[i].at = "unlock")
        /\ ~IsBody(r[i], o)
        /\ s[j].op \in MemberFunctions => o \notin {s[j].o, s[j].p}

\* The last reference to o goes: its destructor begins.
LEMMA DropLife ==
    ASSUME NEW w \in Threads, NEW t \in Threads, Inv(w), NEW o \in Observers,
           life[o] = "alive", ~owned'[o],
           life'[o] = "dying", active' = active,
           \A q \in Observers : q # o => life'[q] = life[q] /\ (owned'[q] <=> owned[q]),
           stack'[t] # <<>>, stack'[t][1].op = "destroy", stack'[t][1].o = o,
           stack'[t][1].at = "lock",
           \A u \in Threads : u # t => stack'[u] = stack[u],
           Len(stack'[t]) \in Nat, Kept(stack'[t], 2, stack[t], o),
           \A u \in Threads : u # t => Kept(stack'[u], 1, stack[u], o),
           t = w => ~Runs(stack[w], "construct")
    PROVE  LifeInv(w)'
<1>1. /\ life'[o] = "dying" /\ \A q \in Observers : q # o => life'[q] = life[q]
      /\ \A q \in Observers : life'[q] = "new" =>
            Runs(stack'[w], "construct") /\ stack'[w][1].o = q
  <2>1. life'[o] = "dying" /\ \A q \in Observers : q # o => life'[q] = life[q]
    OBVIOUS
  <2>2. ASSUME NEW q \in Observers, life'[q] = "new"
        PROVE  Runs(stack'[w], "construct") /\ stack'[w][1].o = q
    <3>1. Runs(stack[w], "construct") /\ stack[w][1].o = q
      BY <2>1, <2>2 DEF Inv, LifeInv
    <3> QED
      BY <3>1
  <2> QED
    BY <2>1, <2>2
<1>2. ASSUME NEW u \in Threads, NEW i \in 1..Len(stack'[u])
      PROVE  LiveFrame(stack'[u][i], life', owned', active)
  <2>1. CASE u = t /\ i = 1
    BY <2>1, <1>1 DEF LiveFrame, MemberFunctions
  <2>2. CASE ~(u = t /\ i = 1)
    <3>1. PICK j \in 1..Len(stack[u]) :
             /\ stack'[u][i].op = stack[u][j].op /\ stack'[u][i].o = stack[u][j].o
             /\ stack'[u][i].p = stack[u][j].p
             /\ \/ stack'[u][i].at = stack[u][j].at
                \/ stack'[u][i].op = "proxy" /\ stack'[u][i].at = "unlock"
             /\ ~IsBody(stack'[u][i], o)
             /\ stack[u][j].op \in MemberFunctions => o \notin {stack[u][j].o, stack[u][j].p}
      <4>1. CASE u = t
        <5>1. i \in 2..Len(stack'[t])
          BY <2>2, <4>1
        <5> QED
          BY <4>1, <5>1 DEF Kept
      <4>2. CASE u # t
        <5>1. Kept(stack'[u], 1, stack[u], o)
          BY <4>2
        <5> QED
          BY <5>1 DEF Kept
      <4> QED
        BY <4>1, <4>2
    <3>2. PICK g : g = stack[u][j]
      OBVIOUS
    <3>3. PICK f : f = stack'[u][i]
      OBVIOUS
    <3>4. LiveFrame(g, life, owned, active) /\ GoodFrame(g)
      BY <3>1, <3>2, ThreadFacts DEF Inv, LifeInv
    <3>5. /\ f.op = g.op /\ f.o = g.o /\ f.p = g.p
          /\ f.at = g.at \/ (f.op = "proxy" /\ f.at = "unlock")
          /\ ~(f.op = "proxy" /\ f.o = o /\ f.at = "body")
          /\ g.op \in MemberFunctions => g.o # o /\ g.p # o
      BY <3>1, <3>2, <3>3 DEF IsBody
    <3>6. /\ g.op \in MemberFunctions \cup {"construct", "destroy", "proxy"} => g.o \in Observers
          /\ g.op \in {"registerWithObservables", "assign"} => g.p \in Observers
      BY <3>4 DEF GoodFrame, Single, MemberFunctions
    <3>7. /\ f.op \in MemberFunctions => owned'[f.o]
          /\ f.op \in {"registerWithObservables", "assign"} => owned'[f.p]
      BY <3>4, <3>5, <3>6 DEF LiveFrame, MemberFunctions
    <3>8. /\ f.op = "construct" => life'[f.o] = "new"
          /\ f.op = "destroy" => life'[f.o] = "dying"
          /\ f.op = "proxy" /\ f.at = "body" => life'[f.o] = "alive"
      BY <3>4, <3>5, <3>6, <1>1 DEF LiveFrame
    <3>9. /\ f.op = "destroy" /\ f.at \notin {"lock", "deactivate"} => ~active[f.o]
          /\ f.op = "proxy" /\ f.at = "weak" => active[f.o]
      BY <3>4, <3>5 DEF LiveFrame
    <3> QED
      BY <3>3, <3>7, <3>8, <3>9 DEF LiveFrame
  <2> QED
    BY <2>1, <2>2
<1>3. \A q \in Observers : /\ active[q] => life'[q] \in {"new", "alive", "dying"}
                           /\ life'[q] \in {"new", "alive"} => active[q]
                           /\ owned'[q] => life'[q] = "alive"
                           /\ life'[q] = "new" =>
                                 Runs(stack'[w], "construct") /\ stack'[w][1].o = q
  BY <1>1 DEF Inv, LifeInv
<1>4. \A u \in Threads : Runs(stack[u], "destroy") => stack[u][1].o # o
  <2> SUFFICES ASSUME NEW u \in Threads, Runs(stack[u], "destroy") PROVE stack[u][1].o # o
    OBVIOUS
  <2>1. Top(u) = stack[u][1] /\ LiveFrame(Top(u), life, owned, active)
    BY TopFacts DEF Runs
  <2> QED
    BY <2>1 DEF LiveFrame, Runs
<1>5. \A u, v \in Threads : Runs(stack'[u], "destroy") /\ Runs(stack'[v], "destroy")
         /\ stack'[u][1].o = stack'[v][1].o => u = v
  <2> SUFFICES ASSUME NEW u \in Threads, NEW v \in Threads, Runs(stack'[u], "destroy"),
                      Runs(stack'[v], "destroy"), stack'[u][1].o = stack'[v][1].o
               PROVE  u = v
    OBVIOUS
  <2>1. CASE u = t \/ v = t
    BY <2>1, <1>4
  <2>2. CASE u # t /\ v # t
    BY <2>2 DEF Inv, LifeInv
  <2> QED
    BY <2>1, <2>2
<1>6. \A u \in Threads : \A i \in 1..Len(stack'[u]) : LiveFrame(stack'[u][i], life', owned', active)
  BY <1>2
<1> QED
  BY <1>3, <1>5, <1>6 DEF LifeInv

\* A reference is dropped.
LEMMA ReleaseKeeps ==
    ASSUME NEW w \in Threads, NEW t \in Threads, Inv(w), NEW o \in Observers, Release(t, o)
    PROVE  Inv(w)'
<1>1. /\ owned[o] /\ ~InUse(o) /\ stack[t] = <<>> /\ owned' = [owned EXCEPT ![o] = FALSE]
      /\ UNCHANGED <<active, updatesType, deferredObservers, observables, observers, slots>>
  BY DEF Release, registrations, settings
<1>2. /\ ~owned'[o] /\ \A q \in Observers : q # o => owned'[q] = owned[q]
      /\ owned' \in [Observers -> BOOLEAN]
  BY <1>1 DEF Inv, Types
<1>3. life[o] = "alive"
  BY <1>1 DEF Inv, LifeInv
<1>4. \A u \in Threads : \A i \in 1..Len(stack[u]) :
         stack[u][i].op \in MemberFunctions \cup {"construct"} => o \notin {stack[u][i].o, stack[u][i].p}
  BY <1>1, ThreadFacts DEF Inv, InUse, Frames
<1>5. CASE Updating(o)
  <2>1. UNCHANGED <<life, owed, stack>>
    BY <1>5 DEF Release
  <2>2. Types' /\ StackInv(w)' /\ SettingsInv(w)' /\ AgreeInv' /\ OwedInv(w)'
    <3>1. Types'
      BY <1>1, <1>2, <2>1 DEF Inv, Types
    <3>2. StackInv(w)' /\ SettingsInv(w)'
      BY <1>1, <2>1 DEF Inv, StackInv, SettingsInv
    <3>3. AgreeInv'
      BY <1>1, <2>1 DEF Inv, AgreeInv
    <3>4. OwedInv(w)'
      BY <1>1, <2>1 DEF Inv, OwedInv
    <3> QED
      BY <3>1, <3>2, <3>3, <3>4
  <2>3. ASSUME NEW u \in Threads, NEW i \in 1..Len(stack[u])
        PROVE  LiveFrame(stack[u][i], life, owned', active)
    <3>1. PICK g : g = stack[u][i]
      OBVIOUS
    <3>2. LiveFrame(g, life, owned, active) /\ GoodFrame(g)
      BY <3>1, ThreadFacts DEF Inv, LifeInv
    <3>3. /\ g.op \in MemberFunctions => g.o \in Observers
          /\ g.op \in {"registerWithObservables", "assign"} => g.p \in Observers
      BY <3>2 DEF GoodFrame, Single, MemberFunctions
    <3>4. g.op \in MemberFunctions => g.o # o /\ g.p # o
      BY <3>1, <1>4
    <3>5. /\ g.op \in MemberFunctions => owned'[g.o]
          /\ g.op \in {"registerWithObservables", "assign"} => owned'[g.p]
      BY <3>2, <3>3, <3>4, <1>2 DEF LiveFrame, MemberFunctions
    <3> QED
      BY <3>1, <3>2, <3>5 DEF LiveFrame
  <2>4. \A q \in Observers : /\ active[q] => life[q] \in {"new", "alive", "dying"}
                             /\ life[q] \in {"new", "alive"} => active[q]
                             /\ owned'[q] => life[q] = "alive"
    BY <1>2 DEF Inv, LifeInv
  <2>5. LifeInv(w)'
    BY <1>1, <2>1, <2>3, <2>4 DEF LifeInv, Inv
  <2> QED
    BY <2>2, <2>5 DEF Inv
<1>6. CASE ~Updating(o)
  <2>1. PICK f : f = [Frame("destroy", "lock") EXCEPT !.o = o]
    OBVIOUS
  <2>2. /\ life' = [life EXCEPT ![o] = "dying"] /\ owed' = [owed EXCEPT ![o] = {}]
        /\ stack' = [stack EXCEPT ![t] = <<f>>]
    BY <1>6, <2>1 DEF Release
  <2>3. /\ f \in FrameType /\ f.op = "destroy" /\ f.at = "lock" /\ f.o = o /\ f.left = {}
        /\ f.locks = {}
    BY <2>1 DEF Frame, FrameType, Ops, Points
  <2>4. GoodFrame(f)
    BY <2>3 DEF GoodFrame, PointsOf, LocksOf, InFlight, Single
  <2>5. /\ stack' \in [Threads -> Seq(FrameType)] /\ StackInv(w)'
        /\ stack'[t] # <<>> /\ stack'[t][1] = f /\ Len(stack'[t]) = 1
        /\ \A u \in Threads : u # t => stack'[u] = stack[u]
    BY <1>1, <2>2, <2>3, <2>4, StartStack DEF Inv
  <2>6. Types'
    BY <1>1, <1>2, <2>2, <2>5 DEF Inv, Types, Lives
  <2>7. LifeInv(w)'
    <3>1. t = w => ~Runs(stack[w], "construct")
      BY <1>1 DEF Runs
    <3>2. ASSUME NEW u \in Threads, u # t PROVE Kept(stack'[u], 1, stack[u], o)
      <4>1. stack'[u] = stack[u] /\ DOMAIN stack[u] = 1..Len(stack[u])
        BY <2>5, <3>2, ThreadFacts DEF Inv
      <4>2. ASSUME NEW i \in 1..Len(stack[u]) PROVE ~IsBody(stack[u][i], o)
        <5>1. stack[u][i] \in Frames(u)
          BY <4>1 DEF Frames
        <5> QED
          BY <5>1, <1>6 DEF Updating
      <4> QED
        BY <4>1, <4>2, <1>4 DEF Kept
    <3>3. Len(stack'[t]) \in Nat /\ Kept(stack'[t], 2, stack[t], o)
      BY <2>5 DEF Kept
    <3>4. /\ stack'[t][1].op = "destroy" /\ stack'[t][1].o = o /\ stack'[t][1].at = "lock"
          /\ active' = active
      BY <1>1, <2>3, <2>5
    <3>5. life'[o] = "dying" /\ \A q \in Observers : q # o =>
             life'[q] = life[q] /\ (owned'[q] <=> owned[q])
      BY <1>2, <2>2 DEF Inv, Types
    <3> QED
      BY <1>2, <1>3, <2>5, <3>1, <3>2, <3>3, <3>4, <3>5, DropLife
  <2>8. SettingsInv(w)'
    <3>1. CASE t = w
      <4>1. SetFrame(f, updatesType')
        BY <2>3 DEF SetFrame
      <4>2. \A i \in 1..Len(stack'[w]) : stack'[w][i] = f
        <5>1. Len(stack'[w]) = 1 /\ stack'[w][1] = f
          BY <2>5, <3>1
        <5> QED
          BY <5>1
      <4> QED
        BY <4>1, <4>2 DEF SettingsInv
    <3>2. CASE t # w
      BY <1>1, <3>2, <2>5 DEF SettingsInv, Inv
    <3> QED
      BY <3>1, <3>2
  <2>9. AgreeInv'
    <3>1. ~Works(stack[t]) /\ Works(stack'[t]) /\ AgreeInv
      BY <1>1, <2>3, <2>5 DEF Works, Inv
    <3>2. Works(stack[w]) => stack[w][1].o # o
      <4> SUFFICES ASSUME Works(stack[w]), stack[w][1].o = o PROVE FALSE
        OBVIOUS
      <4>1. /\ Top(w) = stack[w][1] /\ LiveFrame(Top(w), life, owned, active)
            /\ 1 \in 1..Len(stack[w])
        BY TopFacts DEF Works
      <4>2. stack[w][1].op # "destroy"
        BY <4>1, <1>3 DEF LiveFrame
      <4> QED
        BY <4>1, <4>2, <1>4 DEF Works, Single, MemberFunctions
    <3>3. /\ \A u \in Threads : Works(stack[u]) => stack[u][1].o # o
          /\ \A u \in Threads : u # w /\ Works(stack[u]) => stack[u][1].o \in Observers \ {o}
          /\ \A h \in Observables : Linked(o, h, observables[o], observers, slots)
      BY <1>3, <3>2, NobodyWorks
    <3>4. Works(stack[w]) => stack[w][1].o \in Observers
      BY TopFacts DEF Works
    <3>5. Working(f, observables, observers, slots)
      BY <2>3, <3>3 DEF Working, Watched, InFlight
    <3>6. \A u \in Threads : u # t => /\ stack'[u] = stack[u]
                                      /\ Works(stack[u]) => stack[u][1].o \in Observers \ {o}
      BY <2>5, <3>3, <3>4
    <3> QED
      BY <1>1, <2>3, <2>5, <3>1, <3>5, <3>6, AgreeStep
  <2>10. OwedInv(w)'
    <3>1. ASSUME NEW q \in Observers, Told(stack[w], deferredObservers, updatesType, q)
          PROVE  Told(stack'[w], deferredObservers, updatesType, q)
      <4>1. CASE t = w
        BY <4>1, <3>1, <1>1, ToldEmpty DEF Told
      <4>2. CASE t # w
        BY <4>2, <3>1, <2>5
      <4> QED
        BY <4>1, <4>2
    <3>2. \A q \in Observers : owed'[q] # {} => owed'[q] = owed[q] /\ life'[q] = life[q]
      BY <2>2 DEF Inv, Types
    <3> QED
      BY <1>1, <3>1, <3>2, OwedStep DEF Inv
  <2> QED
    BY <2>5, <2>6, <2>7, <2>8, <2>9, <2>10 DEF Inv
<1> QED
  BY <1>5, <1>6

\* The call of a member function.
LEMMA StartKeeps ==
    ASSUME NEW w \in Threads, Inv(w), stack[w] = <<>>, NEW f \in FrameType, GoodFrame(f),
           f.op \notin {"construct", "destroy", "proxy"}, f.op \in Single => f.at = "lock",
           stack' = [stack EXCEPT ![w] = <<f>>],
           LiveFrame(f, life, owned, active), SetFrame(f, updatesType),
           UNCHANGED <<life, owned, active, updatesType, deferredObservers, owed,
                       observables, observers, slots>>
    PROVE  Inv(w)'
<1>1. /\ stack' \in [Threads -> Seq(FrameType)] /\ StackInv(w)'
      /\ stack'[w] # <<>> /\ stack'[w][1] = f /\ Len(stack'[w]) = 1
      /\ \A u \in Threads : u # w => stack'[u] = stack[u]
  BY StartStack DEF Inv
<1>2. LifeInv(w)' /\ SettingsInv(w)'
  BY StartLife DEF Inv
<1>3. Types'
  BY <1>1 DEF Inv, Types
<1>4. AgreeInv'
  <2>1. AgreeInv /\ ~Works(stack[w])
    BY DEF Inv, Works
  <2>2. CASE f.op \in Single
    <3>1. PICK o \in Observers : o = f.o
      BY <2>2 DEF GoodFrame
    <3>2. life[o] # "dying"
      <4>1. owned[o]
        BY <2>2, <3>1 DEF LiveFrame, Single, MemberFunctions
      <4> QED
        BY <4>1 DEF Inv, LifeInv
    <3>3. /\ \A u \in Threads : u # w /\ Works(stack[u]) => stack[u][1].o \in Observers \ {o}
          /\ \A h \in Observables : Linked(o, h, observables[o], observers, slots)
      BY <2>1, <3>2, NobodyWorks
    <3>4. Working(f, observables, observers, slots)
      BY <2>2, <3>1, <3>3 DEF Working, Watched, InFlight
    <3>5. Works(stack'[w])
      BY <1>1, <2>2 DEF Works
    <3> QED
      BY <1>1, <2>1, <3>1, <3>3, <3>4, <3>5, AgreeStep
  <2>3. CASE f.op \notin Single
    <3>1. ~Works(stack'[w])
      BY <1>1, <2>3 DEF Works
    <3> QED
      BY <1>1, <2>1, <3>1, AgreeIdle
  <2> QED
    BY <2>2, <2>3
<1>5. OwedInv(w)'
  <2>1. ASSUME NEW q \in Observers, Told(stack[w], deferredObservers, updatesType, q)
        PROVE  Told(stack'[w], deferredObservers, updatesType, q)
    BY <2>1, ToldEmpty DEF Told
  <2> QED
    BY <2>1, OwedStep DEF Inv
<1> QED
  BY <1>1, <1>2, <1>3, <1>4, <1>5 DEF Inv

\* Client calls.
LEMMA BeginKeeps ==
    ASSUME NEW w \in Threads, NEW t \in Threads, OneWorker(w), Inv(w), Begin(t)
    PROVE  Inv(w)'
<1>1. UNCHANGED <<life, owned, active, updatesType, deferredObservers, owed,
                  observables, observers, slots>>
  BY DEF Begin, registrations, settings
<1>2. ASSUME NEW op, op # "release", NEW f, Start(t, op, f)
      PROVE  t = w /\ stack[w] = <<>> /\ stack' = [stack EXCEPT ![w] = <<f>>]
  <2>1. op \in Operations[t] /\ stack[t] = <<>> /\ stack' = [stack EXCEPT ![t] = <<f>>]
    BY <1>2 DEF Start
  <2>2. t # w => op \in {"release"}
    BY <2>1 DEF OneWorker
  <2> QED
    BY <1>2, <2>1, <2>2
<1> DEFINE Starts(f) == /\ f \in FrameType /\ GoodFrame(f)
                        /\ f.op \notin {"construct", "destroy", "proxy"}
                        /\ f.op \in Single => f.at = "lock"
                        /\ LiveFrame(f, life, owned, active) /\ SetFrame(f, updatesType)
<1>3. ASSUME NEW op, op # "release", NEW f, Start(t, op, f), Starts(f) PROVE Inv(w)'
  BY <1>1, <1>2, <1>3, StartKeeps
<1> HIDE DEF Starts
<1>4. ASSUME NEW o \in Observers, NEW h \in Observables, owned[o]
      PROVE  /\ Starts([Frame("registerWith", "lock") EXCEPT !.o = o, !.left = {h}])
             /\ MayLeaveNow =>
                   Starts([Frame("unregisterWith", "lock") EXCEPT !.o = o, !.left = {h}])
             /\ Starts([Frame("unregisterWithAll", "lock") EXCEPT !.o = o])
  <2>1. ASSUME NEW op \in {"registerWith", "unregisterWith", "unregisterWithAll"},
               NEW f, f = [Frame(op, "lock") EXCEPT !.o = o, !.left = {h}] \/
                      f = [Frame(op, "lock") EXCEPT !.o = o],
               op = "unregisterWith" => MayLeaveNow
        PROVE  Starts(f)
    <3>1. /\ f \in FrameType /\ f.op = op /\ f.at = "lock" /\ f.o = o /\ f.left \subseteq Observables
          /\ f.locks = {}
      <4>1. op \in Ops /\ "lock" \in Points /\ None \in Observers \cup {None}
        BY <2>1 DEF Ops, Points, MemberFunctions
      <4>2. CASE f = [Frame(op, "lock") EXCEPT !.o = o, !.left = {h}]
        BY <4>1, <4>2 DEF Frame, FrameType
      <4>3. CASE f = [Frame(op, "lock") EXCEPT !.o = o]
        BY <4>1, <4>3 DEF Frame, FrameType
      <4> QED
        BY <2>1, <4>2, <4>3
    <3>2. GoodFrame(f)
      BY <3>1 DEF GoodFrame, PointsOf, LocksOf, InFlight
    <3>3. LiveFrame(f, life, owned, active) /\ SetFrame(f, updatesType)
      BY <1>4, <2>1, <3>1 DEF LiveFrame, SetFrame, MayLeaveNow
    <3> QED
      BY <3>1, <3>2, <3>3 DEF Starts
  <2> QED
    BY <2>1
<1>5. ASSUME NEW o \in Observers, NEW p \in Observers, owned[o], owned[p]
      PROVE  /\ Starts([Frame("registerWithObservables", "lock") EXCEPT !.o = o, !.p = p])
             /\ MayLeaveNow =>
                   Starts([Frame("assign", "lock") EXCEPT !.o = o, !.p = p])
  <2>1. ASSUME NEW op \in {"registerWithObservables", "assign"},
               NEW f, f = [Frame(op, "lock") EXCEPT !.o = o, !.p = p],
               op = "assign" => MayLeaveNow
        PROVE  Starts(f)
    <3>1. /\ f \in FrameType /\ f.op = op /\ f.at = "lock" /\ f.o = o /\ f.p = p /\ f.left = {}
          /\ f.locks = {}
      <4>1. op \in Ops /\ "lock" \in Points /\ None \in Observers \cup {None}
        BY <2>1 DEF Ops, Points, MemberFunctions
      <4> QED
        BY <2>1, <4>1 DEF Frame, FrameType
    <3>2. GoodFrame(f)
      BY <3>1 DEF GoodFrame, PointsOf, LocksOf, InFlight
    <3>3. LiveFrame(f, life, owned, active) /\ SetFrame(f, updatesType)
      BY <1>5, <2>1, <3>1 DEF LiveFrame, SetFrame, MayLeaveNow
    <3> QED
      BY <3>1, <3>2, <3>3 DEF Starts
  <2> QED
    BY <2>1
<1>6. ASSUME NEW h \in Observables PROVE Starts([Frame("notify", "test") EXCEPT !.h = h])
  <2>1. PICK f : f = [Frame("notify", "test") EXCEPT !.h = h]
    OBVIOUS
  <2>2. /\ f \in FrameType /\ f.op = "notify" /\ f.at = "test" /\ f.h = h /\ f.locks = {}
    BY <2>1 DEF Frame, FrameType, Ops, Points
  <2>3. GoodFrame(f)
    BY <2>2 DEF GoodFrame, PointsOf, LocksOf, InFlight, Single
  <2>4. LiveFrame(f, life, owned, active) /\ SetFrame(f, updatesType)
    BY <2>2 DEF LiveFrame, SetFrame, MemberFunctions
  <2> QED
    BY <2>1, <2>2, <2>3, <2>4 DEF Starts, Single
<1>7. Starts(Frame("enable", "lock"))
  <2>1. PICK f : f = Frame("enable", "lock")
    OBVIOUS
  <2>2. /\ f \in FrameType /\ f.op = "enable" /\ f.at = "lock" /\ f.locks = {}
    BY <2>1 DEF Frame, FrameType, Ops, Points
  <2>3. GoodFrame(f)
    BY <2>2 DEF GoodFrame, PointsOf, LocksOf, InFlight, Single
  <2>4. LiveFrame(f, life, owned, active) /\ SetFrame(f, updatesType)
    BY <2>2 DEF LiveFrame, SetFrame, MemberFunctions
  <2> QED
    BY <2>1, <2>2, <2>3, <2>4 DEF Starts, Single
<1>8. CASE \E o \in Observers, h \in Observables :
             /\ owned[o]
             /\ \/ /\ h \in MayWatch[o]
                   /\ Start(t, "registerWith",
                            [Frame("registerWith", "lock") EXCEPT !.o = o, !.left = {h}])
                \/ /\ MayLeaveNow
                   /\ Start(t, "unregisterWith",
                            [Frame("unregisterWith", "lock") EXCEPT !.o = o, !.left = {h}])
                \/ Start(t, "unregisterWithAll",
                         [Frame("unregisterWithAll", "lock") EXCEPT !.o = o])
  BY <1>3, <1>4, <1>8
<1>9. CASE \E o, p \in Observers :
             /\ owned[o] /\ owned[p] /\ observables[p] \subseteq MayWatch[o]
             /\ \/ Start(t, "registerWithObservables",
                         [Frame("registerWithObservables", "lock") EXCEPT !.o = o, !.p = p])
                \/ /\ MayLeaveNow
                   /\ Start(t, "assign", [Frame("assign", "lock") EXCEPT !.o = o, !.p = p])
  BY <1>3, <1>5, <1>9
<1>10. CASE \E h \in Observables :
             Start(t, "notifyObservers", [Frame("notify", "test") EXCEPT !.h = h])
  BY <1>3, <1>6, <1>10
<1>11. CASE Start(t, "enableUpdates", Frame("enable", "lock"))
  BY <1>3, <1>7, <1>11
<1> QED
  BY <1>8, <1>9, <1>10, <1>11 DEF Begin

-----------------------------------------------------------------------------
(* Steps of functions that work for no observer.                           *)

Idles == {"registerWithObservables", "notify", "emit", "enable", "proxy"}

\* The deferred observers that are owed something will still be told.
StillTold(w) ==
    \A q \in Observers : owed'[q] # {} =>
        /\ owed'[q] = owed[q]
        /\ life[q] \in {"new", "alive"} /\ Told(stack[w], deferredObservers, updatesType, q) =>
              Told(stack'[w], deferredObservers', updatesType', q)

\* What is left to show of such a step.
LEMMA IdleStep ==
    ASSUME NEW w \in Threads, Inv(w), stack' \in [Threads -> Seq(FrameType)], StackInv(w)',
           LifeInv(w)', SettingsInv(w)', ~Works(stack[w]), ~Works(stack'[w]),
           \A u \in Threads : u # w => stack'[u] = stack[u],
           UNCHANGED <<life, owned, active, observables, observers, slots>>,
           updatesType' \in {"enabled", "disabled", "deferred"},
           deferredObservers' \in SUBSET Observers,
           owed' \in [Observers -> SUBSET Observables], StillTold(w)
    PROVE  Inv(w)'
<1>1. Types'
  BY DEF Inv, Types
<1>2. AgreeInv'
  BY AgreeIdle DEF Inv
<1>3. OwedInv(w)'
  <2> SUFFICES ASSUME NEW q \in Observers, owed'[q] # {}
               PROVE  /\ \A h \in owed'[q] : q \in observers[h]
                      /\ life[q] \in {"new", "alive"}
                      /\ Told(stack'[w], deferredObservers', updatesType', q)
    BY DEF OwedInv
  <2>1. /\ owed'[q] = owed[q]
        /\ life[q] \in {"new", "alive"} /\ Told(stack[w], deferredObservers, updatesType, q) =>
              Told(stack'[w], deferredObservers', updatesType', q)
    BY DEF StillTold
  <2>2. /\ \A h \in owed[q] : q \in observers[h]
        /\ life[q] \in {"new", "alive"}
        /\ Told(stack[w], deferredObservers, updatesType, q)
    BY <2>1 DEF Inv, OwedInv
  <2> QED
    BY <2>1, <2>2
<1> QED
  BY <1>1, <1>2, <1>3 DEF Inv

\* A step within the top frame.
LEMMA IdleReplace ==
    ASSUME NEW w \in Threads, Inv(w), stack[w] # <<>>, Top(w).op \in Idles,
           NEW f \in FrameType, GoodFrame(f),
           (f.op = Top(w).op /\ f.o = Top(w).o) \/ (Top(w).op = "notify" /\ f.op = "emit"),
           Become(w, f), LiveFrame(f, life, owned, active), SetFrame(f, updatesType),
           UNCHANGED <<life, owned, active, updatesType, deferredObservers,
                       observables, observers, slots>>,
           owed' \in [Observers -> SUBSET Observables], StillTold(w)
    PROVE  Inv(w)'
<1>1. /\ stack' \in [Threads -> Seq(FrameType)] /\ StackInv(w)'
      /\ stack'[w] # <<>> /\ stack'[w][1] = f
      /\ \A u \in Threads : u # w => stack'[u] = stack[u]
  BY ReplaceStack DEF Inv
<1>2. LifeInv(w)' /\ SettingsInv(w)'
  BY ReplaceLife DEF Inv
<1>3. Top(w) = stack[w][1]
  BY TopFacts
<1>4. ~Works(stack[w]) /\ ~Works(stack'[w])
  BY <1>1, <1>3 DEF Works, Idles, Single
<1>5. /\ updatesType' \in {"enabled", "disabled", "deferred"}
      /\ deferredObservers' \in SUBSET Observers
  BY DEF Inv, Types
<1> QED
  BY <1>1, <1>2, <1>4, <1>5, IdleStep

\* A call.
LEMMA IdleCall ==
    ASSUME NEW w \in Threads, Inv(w), stack[w] # <<>>, Top(w).op \in Idles,
           NEW c \in FrameType, GoodFrame(c), NEW f \in FrameType, GoodFrame(f),
           Under(c, f), f.op = Top(w).op, f.o = Top(w).o, Call(w, c, f),
           c.op \in {"notify", "proxy"},
           LiveFrame(f, life, owned, active), SetFrame(f, updatesType),
           LiveFrame(c, life, owned, active), SetFrame(c, updatesType),
           UNCHANGED <<life, owned, active, updatesType, deferredObservers, owed,
                       observables, observers, slots>>,
           StillTold(w)
    PROVE  Inv(w)'
<1>1. /\ stack' \in [Threads -> Seq(FrameType)] /\ StackInv(w)'
      /\ stack'[w] # <<>> /\ stack'[w][1] = c
      /\ \A u \in Threads : u # w => stack'[u] = stack[u]
  BY CallStack DEF Inv
<1>2. LifeInv(w)' /\ SettingsInv(w)'
  <2>1. c.op \notin {"construct", "destroy"}
    OBVIOUS
  <2> QED
    BY <2>1, CallLife DEF Inv
<1>3. Top(w) = stack[w][1]
  BY TopFacts
<1>4. ~Works(stack[w]) /\ ~Works(stack'[w])
  BY <1>1, <1>3 DEF Works, Idles, Single
<1>5. /\ updatesType' \in {"enabled", "disabled", "deferred"}
      /\ deferredObservers' \in SUBSET Observers /\ owed' \in [Observers -> SUBSET Observables]
  BY DEF Inv, Types
<1> QED
  BY <1>1, <1>2, <1>4, <1>5, IdleStep

\* A return.
LEMMA IdleReturn ==
    ASSUME NEW w \in Threads, Inv(w), stack[w] # <<>>, Top(w).op \in Idles, Return(w),
           UNCHANGED <<life, owned, active, updatesType, owed, observables, observers, slots>>,
           deferredObservers' \in SUBSET Observers, StillTold(w)
    PROVE  Inv(w)'
<1>1. /\ stack' \in [Threads -> Seq(FrameType)] /\ StackInv(w)'
      /\ \A u \in Threads : u # w => stack'[u] = stack[u]
  BY ReturnStack DEF Inv
<1>2. LifeInv(w)' /\ SettingsInv(w)'
  <2>1. Top(w).op # "construct"
    BY DEF Idles
  <2> QED
    BY <2>1, ReturnLife DEF Inv
<1>3. ~Works(stack[w]) /\ ~Works(stack'[w])
  <2>1. Top(w) = stack[w][1]
    BY TopFacts
  <2> QED
    BY <2>1, ReturnIdle DEF Works, Idles, Single
<1>4. /\ updatesType' \in {"enabled", "disabled", "deferred"}
      /\ owed' \in [Observers -> SUBSET Observables]
  BY DEF Inv, Types
<1> QED
  BY <1>1, <1>2, <1>3, <1>4, IdleStep

\* A step that changes none of the variables the invariant is about.
LEMMA SameInv ==
    ASSUME NEW w \in Threads, Inv(w),
           UNCHANGED <<life, owned, active, observables, observers, slots, updatesType,
                       deferredObservers, stack, owed>>
    PROVE  Inv(w)'
<1>1. Types' /\ StackInv(w)'
  BY DEF Inv, Types, StackInv
<1>2. LifeInv(w)'
  BY DEF Inv, LifeInv
<1>3. SettingsInv(w)' /\ AgreeInv'
  BY DEF Inv, SettingsInv, AgreeInv
<1>4. OwedInv(w)'
  BY DEF Inv, OwedInv
<1> QED
  BY <1>1, <1>2, <1>3, <1>4 DEF Inv

\* Only the worker runs anything but a destructor.
LEMMA WorkerOnly ==
    ASSUME NEW w \in Threads, NEW t \in Threads, Inv(w), stack[t] # <<>>, Top(t).op # "destroy"
    PROVE  t = w
  BY TopFacts

\* registerWithObservables.
LEMMA RegisterAllKeeps ==
    ASSUME NEW w \in Threads, NEW t \in Threads, Inv(w), RegisterAll(t)
    PROVE  Inv(w)'
<1>1. /\ stack[t] # <<>> /\ Top(t).op = "registerWithObservables"
      /\ UNCHANGED <<life, owned, active, updatesType, deferredObservers, owed,
                     observables, observers, slots>>
  BY DEF RegisterAll, At, registrations, settings
<1>2. t = w
  BY <1>1, WorkerOnly
<1>3. /\ Top(w) = stack[w][1] /\ Top(w) \in FrameType /\ GoodFrame(Top(w))
      /\ Len(stack[w]) \in Nat /\ Len(stack[w]) >= 1
      /\ LiveFrame(Top(w), life, owned, active) /\ SetFrame(Top(w), updatesType)
  BY <1>1, <1>2, TopFacts
<1>4. /\ Top(w).o \in Observers /\ Top(w).p \in Observers /\ Top(w).left \subseteq Observables
      /\ owned[Top(w).o] /\ owned[Top(w).p]
  BY <1>1, <1>2, <1>3 DEF GoodFrame, LiveFrame, MemberFunctions
<1>5. Top(w).op \in Idles /\ owed' \in [Observers -> SUBSET Observables]
  BY <1>1, <1>2 DEF Idles, Inv, Types
<1>6. CASE /\ At(t, {"registerWithObservables"}, "lock")
           /\ Become(t, [Top(t) EXCEPT !.at = "loop", !.left = observables[Top(t).p],
                                       !.locks = {ObserverMutex(Top(t).p)}])
  <2>1. PICK f : f = [Top(w) EXCEPT !.at = "loop", !.left = observables[Top(w).p],
                                    !.locks = {ObserverMutex(Top(w).p)}]
    OBVIOUS
  <2>2. Become(w, f)
    BY <1>2, <1>6, <2>1
  <2>3. observables[Top(w).p] \subseteq Observables /\ {ObserverMutex(Top(w).p)} \subseteq Mutexes
    BY <1>4 DEF Inv, Types, Mutexes
  <2>4. /\ f \in FrameType /\ f.op = Top(w).op /\ f.o = Top(w).o /\ f.p = Top(w).p
        /\ f.at = "loop" /\ f.left = observables[Top(w).p] /\ f.locks = {ObserverMutex(f.p)}
    BY <1>3, <2>1, <2>3 DEF FrameType, Points
  <2>5. GoodFrame(f)
    BY <1>1, <1>2, <1>4, <2>3, <2>4 DEF GoodFrame, PointsOf, LocksOf, InFlight, Single
  <2>6. LiveFrame(f, life, owned, active) /\ SetFrame(f, updatesType)
    BY <1>1, <1>2, <1>4, <2>4, MutexFacts DEF LiveFrame, SetFrame
  <2>7. StillTold(w)
    <3>1. /\ stack'[w] # <<>> /\ stack'[w][1] = f /\ Len(stack'[w]) = Len(stack[w])
          /\ \A i \in 2..Len(stack[w]) : stack'[w][i] = stack[w][i]
      BY <1>1, <1>2, <2>2, <2>4, <2>5, ReplaceStack DEF Inv
    <3>2. stack'[w][1].op = stack[w][1].op /\ stack'[w][1].o = stack[w][1].o
          /\ stack[w][1].op \notin {"enable", "proxy"}
      BY <1>1, <1>2, <1>3, <2>4, <3>1
    <3>3. ASSUME NEW q \in Observers, Told(stack[w], deferredObservers, updatesType, q)
          PROVE  Told(stack'[w], deferredObservers, updatesType, q)
      BY <1>3, <3>1, <3>2, <3>3, ToldReplace
    <3> QED
      BY <1>1, <3>3 DEF StillTold
  <2> QED
    BY <1>1, <1>2, <1>5, <2>2, <2>4, <2>5, <2>6, <2>7, IdleReplace
<1>7. CASE /\ At(t, {"registerWithObservables"}, "loop")
           /\ \E h \in Top(t).left :
                 Call(t, [Frame("registerWith", "lock") EXCEPT !.o = Top(t).o, !.left = {h}],
                      [Top(t) EXCEPT !.left = @ \ {h}])
  <2>1. PICK h \in Top(w).left :
           Call(w, [Frame("registerWith", "lock") EXCEPT !.o = Top(w).o, !.left = {h}],
                [Top(w) EXCEPT !.left = @ \ {h}])
    BY <1>2, <1>7
  <2>2. PICK c : c = [Frame("registerWith", "lock") EXCEPT !.o = Top(w).o, !.left = {h}]
    OBVIOUS
  <2>3. PICK f : f = [Top(w) EXCEPT !.left = @ \ {h}]
    OBVIOUS
  <2>4. Call(w, c, f) /\ Top(w).at = "loop" /\ h \in Observables
    BY <1>2, <1>4, <1>7, <2>1, <2>2, <2>3 DEF At
  <2>5. /\ c \in FrameType /\ c.op = "registerWith" /\ c.at = "lock" /\ c.o = Top(w).o
        /\ c.left = {h} /\ c.locks = {}
    BY <1>4, <2>2, <2>4 DEF Frame, FrameType, Ops, Points, MemberFunctions
  <2>6. /\ f \in FrameType /\ f.op = Top(w).op /\ f.o = Top(w).o /\ f.p = Top(w).p
        /\ f.at = "loop" /\ f.left \subseteq Top(w).left /\ f.locks = Top(w).locks
    BY <1>3, <2>3, <2>4 DEF FrameType
  <2>7. GoodFrame(c) /\ GoodFrame(f) /\ Under(c, f)
    <3>1. GoodFrame(c)
      BY <1>4, <2>4, <2>5 DEF GoodFrame, PointsOf, LocksOf, InFlight
    <3>2. f.at \in PointsOf(f.op) /\ f.locks \in LocksOf(f)
      BY <1>1, <1>2, <1>3, <2>4, <2>6 DEF GoodFrame, PointsOf, LocksOf
    <3>3. GoodFrame(f)
      BY <1>1, <1>2, <1>4, <2>6, <3>2 DEF GoodFrame, Single
    <3> QED
      BY <1>1, <1>2, <2>5, <2>6, <3>1, <3>3 DEF Under
  <2>8. /\ LiveFrame(c, life, owned, active) /\ SetFrame(c, updatesType)
        /\ LiveFrame(f, life, owned, active) /\ SetFrame(f, updatesType)
    BY <1>1, <1>2, <1>3, <1>4, <2>4, <2>5, <2>6 DEF LiveFrame, SetFrame
  <2>9. /\ stack' \in [Threads -> Seq(FrameType)] /\ StackInv(w)'
        /\ stack'[w] # <<>> /\ stack'[w][1] = c
        /\ Len(stack'[w]) = Len(stack[w]) + 1
        /\ \A i \in 3..(Len(stack[w]) + 1) : stack'[w][i] = stack[w][i - 1]
        /\ \A u \in Threads : u # w => stack'[u] = stack[u]
    BY <1>1, <1>2, <2>4, <2>5, <2>6, <2>7, CallStack DEF Inv
  <2>10. LifeInv(w)' /\ SettingsInv(w)'
    <3>1. c.op \notin {"construct", "destroy"}
      BY <2>5
    <3> QED
      BY <1>1, <1>2, <2>4, <2>5, <2>6, <2>7, <2>8, <3>1, CallLife DEF Inv
  <2>11. Types'
    BY <1>1, <2>9 DEF Inv, Types
  <2>12. AgreeInv'
    <3>1. PICK o \in Observers : o = Top(w).o
      BY <1>4
    <3>2. AgreeInv /\ ~Works(stack[w]) /\ Works(stack'[w])
      BY <1>1, <1>2, <1>3, <2>5, <2>9 DEF Inv, Works, Single
    <3>3. life[o] # "dying"
      BY <1>4, <3>1 DEF Inv, LifeInv
    <3>4. /\ \A u \in Threads : u # w /\ Works(stack[u]) => stack[u][1].o \in Observers \ {o}
          /\ \A g \in Observables : Linked(o, g, observables[o], observers, slots)
      BY <3>2, <3>3, NobodyWorks
    <3>5. Working(c, observables, observers, slots)
      BY <2>5, <3>1, <3>4 DEF Working, Watched, InFlight
    <3>6. /\ stack'[w][1].o = o /\ Working(stack'[w][1], observables', observers', slots')
          /\ observables' = observables /\ observers' = observers /\ slots' = slots
      BY <1>1, <2>5, <2>9, <3>1, <3>5
    <3>7. \A u \in Threads : u # w => /\ stack'[u] = stack[u]
                                      /\ Works(stack[u]) => stack[u][1].o \in Observers \ {o}
      BY <2>9, <3>4
    <3> QED
      BY <3>2, <3>6, <3>7, AgreeStep
  <2>13. OwedInv(w)'
    <3>1. stack[w][1].op \notin {"enable", "unregisterWithAll", "proxy"}
      BY <1>1, <1>2, <1>3
    <3>2. ASSUME NEW q \in Observers, Told(stack[w], deferredObservers, updatesType, q)
          PROVE  Told(stack'[w], deferredObservers, updatesType, q)
      BY <1>3, <2>9, <3>1, <3>2, ToldCall
    <3> QED
      BY <1>1, <3>2, OwedStep DEF Inv
  <2> QED
    BY <2>9, <2>10, <2>11, <2>12, <2>13 DEF Inv
<1>8. CASE Return(t)
  <2>1. Return(w) /\ deferredObservers' \in SUBSET Observers
    BY <1>1, <1>2, <1>8 DEF Inv, Types
  <2>2. StillTold(w)
    <3>1. /\ stack'[w] # <<>> <=> Len(stack[w]) > 1
          /\ Len(stack'[w]) = Len(stack[w]) - 1
          /\ \A i \in 1..(Len(stack[w]) - 1) : stack'[w][i] = stack[w][i + 1]
      BY <1>1, <1>2, <2>1, ReturnStack DEF Inv
    <3>2. stack[w][1].op \notin {"enable", "unregisterWithAll", "proxy"}
      BY <1>1, <1>2, <1>3
    <3>3. ASSUME NEW q \in Observers, Told(stack[w], deferredObservers, updatesType, q)
          PROVE  Told(stack'[w], deferredObservers, updatesType, q)
      BY <1>3, <3>1, <3>2, <3>3, ToldReturn
    <3> QED
      BY <1>1, <3>3 DEF StillTold
  <2> QED
    BY <1>1, <1>2, <1>5, <2>1, <2>2, IdleReturn
<1> QED
  BY <1>6, <1>7, <1>8 DEF RegisterAll

-----------------------------------------------------------------------------
(* Notification.                                                           *)

\* notifyObservers looks whether updates are enabled.
LEMMA NotifyTestKeeps ==
    ASSUME NEW w \in Threads, NEW t \in Threads, Inv(w), NotifyTest(t)
    PROVE  Inv(w)'
<1>1. /\ stack[t] # <<>> /\ Top(t).op = "notify" /\ Top(t).at = "test"
      /\ UNCHANGED <<life, owned, active, updatesType, deferredObservers, owed,
                     observables, observers, slots>>
  BY DEF NotifyTest, At, registrations, settings
<1>2. t = w
  BY <1>1, WorkerOnly
<1>3. /\ Top(w) = stack[w][1] /\ Top(w) \in FrameType /\ GoodFrame(Top(w))
      /\ Len(stack[w]) \in Nat /\ Len(stack[w]) >= 1
  BY <1>1, <1>2, TopFacts
<1>4. Top(w).h \in Observables /\ Top(w).locks = {}
  BY <1>1, <1>2, <1>3 DEF GoodFrame, LocksOf
<1>5. slots[Top(w).h] \subseteq Pairs
  BY <1>4 DEF Inv, Types
<1>6. PICK f : /\ Become(w, f)
               /\ \/ f = [Top(w) EXCEPT !.op = "emit", !.at = "loop", !.left = slots[Top(w).h],
                                        !.locks = {}]
                  \/ updatesType # "enabled" /\ f = [Top(w) EXCEPT !.at = "settings"]
  BY <1>2 DEF NotifyTest, Emit
<1>7. /\ f \in FrameType /\ f.h \in Observables /\ f.locks = {}
      /\ \/ f.op = "emit" /\ f.at = "loop"
         \/ f.op = Top(w).op /\ f.o = Top(w).o /\ f.at = "settings" /\ updatesType # "enabled"
  <2>1. CASE f = [Top(w) EXCEPT !.op = "emit", !.at = "loop", !.left = slots[Top(w).h],
                                !.locks = {}]
    BY <1>3, <1>4, <1>5, <2>1 DEF FrameType, Ops, Points
  <2>2. CASE updatesType # "enabled" /\ f = [Top(w) EXCEPT !.at = "settings"]
    BY <1>3, <1>4, <2>2 DEF FrameType, Points
  <2> QED
    BY <1>6, <2>1, <2>2
<1>8. GoodFrame(f)
  BY <1>1, <1>2, <1>7 DEF GoodFrame, PointsOf, LocksOf, InFlight, Single
<1>9. LiveFrame(f, life, owned, active) /\ SetFrame(f, updatesType)
  BY <1>1, <1>2, <1>7 DEF LiveFrame, SetFrame, MemberFunctions
<1>10. Top(w).op \in Idles /\ owed' \in [Observers -> SUBSET Observables]
  BY <1>1, <1>2 DEF Idles, Inv, Types
<1>11. (f.op = Top(w).op /\ f.o = Top(w).o) \/ (Top(w).op = "notify" /\ f.op = "emit")
  BY <1>1, <1>2, <1>7
<1>12. StillTold(w)
  <2>1. /\ stack'[w] # <<>> /\ stack'[w][1] = f /\ Len(stack'[w]) = Len(stack[w])
        /\ \A i \in 2..Len(stack[w]) : stack'[w][i] = stack[w][i]
    BY <1>1, <1>2, <1>6, <1>7, <1>8, <1>11, ReplaceStack DEF Inv
  <2>2. stack[w][1].op = "notify"
    BY <1>1, <1>2, <1>3
  <2>3. ASSUME NEW q \in Observers, Told(stack[w], deferredObservers, updatesType, q)
        PROVE  Told(stack'[w], deferredObservers, updatesType, q)
    BY <1>3, <2>1, <2>2, <2>3, ToldReplace
  <2> QED
    BY <1>1, <2>3 DEF StillTold
<1> QED
  BY <1>1, <1>2, <1>6, <1>7, <1>8, <1>9, <1>10, <1>11, <1>12, IdleReplace

\* notifyObservers adds the observers to the deferred ones; the settings cannot
\* have been enabled by anybody else.
LEMMA NotifySettingsKeeps ==
    ASSUME NEW w \in Threads, NEW t \in Threads, Inv(w), NotifySettings(t)
    PROVE  Inv(w)'
<1>1. /\ stack[t] # <<>> /\ Top(t).op = "notify" /\ Top(t).at = "settings"
      /\ UNCHANGED <<life, owned, active, updatesType, observables, observers, slots>>
  BY DEF NotifySettings, At, registrations
<1>2. t = w
  BY <1>1, WorkerOnly
<1>3. /\ Top(w) = stack[w][1] /\ Top(w) \in FrameType /\ GoodFrame(Top(w))
      /\ Len(stack[w]) \in Nat /\ Len(stack[w]) >= 1 /\ SetFrame(Top(w), updatesType)
  BY <1>1, <1>2, TopFacts
<1>4. PICK h \in Observables : h = Top(w).h
  BY <1>1, <1>2, <1>3 DEF GoodFrame
<1>5. updatesType # "enabled" /\ Return(w)
  BY <1>1, <1>2, <1>3 DEF SetFrame, NotifySettings
<1>6. PICK told : told = IF updatesType = "deferred" THEN observers[h] ELSE {}
  OBVIOUS
<1>7. /\ deferredObservers' = deferredObservers \cup told
      /\ owed' = [o \in Observers |-> IF o \in told /\ life[o] \in {"new", "alive"}
                                      THEN owed[o] \cup {h} ELSE owed[o]]
  BY <1>2, <1>4, <1>6 DEF NotifySettings
<1>8. told \subseteq Observers /\ \A o \in told : o \in observers[h]
  BY <1>6 DEF Inv, Types
<1>9. /\ deferredObservers' \in SUBSET Observers /\ owed' \in [Observers -> SUBSET Observables]
  BY <1>7, <1>8 DEF Inv, Types
<1>10. /\ stack' \in [Threads -> Seq(FrameType)] /\ StackInv(w)'
       /\ Len(stack'[w]) = Len(stack[w]) - 1
       /\ \A i \in 1..(Len(stack[w]) - 1) : stack'[w][i] = stack[w][i + 1]
       /\ stack'[w] # <<>> <=> Len(stack[w]) > 1
       /\ \A u \in Threads : u # w => stack'[u] = stack[u]
  BY <1>1, <1>2, <1>5, ReturnStack DEF Inv
<1>11. LifeInv(w)' /\ SettingsInv(w)'
  <2>1. Top(w).op # "construct"
    BY <1>1, <1>2
  <2> QED
    BY <1>1, <1>2, <1>5, <2>1, ReturnLife DEF Inv
<1>12. Types'
  BY <1>1, <1>9, <1>10 DEF Inv, Types
<1>13. AgreeInv'
  <2>1. ~Works(stack[w]) /\ ~Works(stack'[w]) /\ AgreeInv
    <3>1. ~Works(stack'[w])
      BY <1>1, <1>2, <1>5, ReturnIdle
    <3> QED
      BY <1>1, <1>2, <1>3, <3>1 DEF Works, Single, Inv
  <2> QED
    BY <1>1, <1>10, <2>1, AgreeIdle
<1>14. OwedInv(w)'
  <2> SUFFICES ASSUME NEW q \in Observers, owed'[q] # {}
               PROVE  /\ \A g \in owed'[q] : q \in observers[g]
                      /\ life[q] \in {"new", "alive"}
                      /\ Told(stack'[w], deferredObservers', updatesType, q)
    BY <1>1 DEF OwedInv
  <2>1. CASE q \in told /\ life[q] \in {"new", "alive"}
    <3>1. owed'[q] = owed[q] \cup {h}
      BY <1>7, <2>1
    <3>2. \A g \in owed[q] : q \in observers[g]
      BY DEF Inv, OwedInv
    <3>3. Told(stack'[w], deferredObservers', updatesType, q)
      BY <1>5, <1>7, <2>1 DEF Told
    <3> QED
      BY <1>8, <2>1, <3>1, <3>2, <3>3
  <2>2. CASE ~(q \in told /\ life[q] \in {"new", "alive"})
    <3>1. owed'[q] = owed[q]
      BY <1>7, <2>2
    <3>2. /\ \A g \in owed[q] : q \in observers[g]
          /\ life[q] \in {"new", "alive"}
          /\ Told(stack[w], deferredObservers, updatesType, q)
      BY <3>1 DEF Inv, OwedInv
    <3>3. Told(stack[w], deferredObservers', updatesType, q)
      BY <1>7, <3>2 DEF Told
    <3>4. stack[w][1].op \notin {"enable", "unregisterWithAll", "proxy"}
      BY <1>1, <1>2, <1>3
    <3>5. Told(stack'[w], deferredObservers', updatesType, q)
      BY <1>3, <1>10, <3>3, <3>4, ToldReturn
    <3> QED
      BY <3>1, <3>2, <3>5
  <2> QED
    BY <2>1, <2>2
<1> QED
  BY <1>10, <1>11, <1>12, <1>13, <1>14 DEF Inv

\* enableUpdates takes the deferred observers for its loop.
LEMMA EnableLockKeeps ==
    ASSUME NEW w \in Threads, NEW t \in Threads, Inv(w), EnableLock(t)
    PROVE  Inv(w)'
<1>1. /\ stack[t] # <<>> /\ Top(t).op = "enable" /\ Top(t).at = "lock" /\ updatesType' = "enabled"
      /\ UNCHANGED <<life, owned, active, deferredObservers, owed, observables, observers, slots>>
  BY DEF EnableLock, At, registrations
<1>2. t = w
  BY <1>1, WorkerOnly
<1>3. /\ Top(w) = stack[w][1] /\ Top(w) \in FrameType /\ GoodFrame(Top(w))
      /\ Len(stack[w]) \in Nat /\ Len(stack[w]) >= 1 /\ 1 \in 1..Len(stack[w])
  BY <1>1, <1>2, TopFacts
<1>4. Len(stack[w]) = 1
  BY <1>1, <1>2, <1>3, ThreadFacts, ShapeFacts DEF Inv
<1>5. PICK f : f = [Top(w) EXCEPT !.at = "loop", !.left = deferredObservers \X {1},
                                  !.locks = {Settings}]
  OBVIOUS
<1>6. Become(w, f)
  BY <1>2, <1>5 DEF EnableLock
<1>7. deferredObservers \X {1} \subseteq Pairs /\ Settings \in Mutexes
  BY ClientAssumption DEF Pairs, Mutexes, Inv, Types
<1>8. /\ f \in FrameType /\ f.op = "enable" /\ f.o = Top(w).o /\ f.at = "loop"
      /\ f.left = deferredObservers \X {1} /\ f.locks = {Settings}
  BY <1>1, <1>2, <1>3, <1>5, <1>7 DEF FrameType, Points
<1>9. GoodFrame(f)
  BY <1>8 DEF GoodFrame, PointsOf, LocksOf, InFlight, Single
<1>10. /\ stack' \in [Threads -> Seq(FrameType)] /\ StackInv(w)'
       /\ stack'[w] # <<>> /\ stack'[w][1] = f /\ Len(stack'[w]) = Len(stack[w])
       /\ \A u \in Threads : u # w => stack'[u] = stack[u]
  BY <1>1, <1>2, <1>6, <1>8, <1>9, ReplaceStack DEF Inv
<1>11. \A i \in 1..Len(stack'[w]) : stack'[w][i] = f
  BY <1>4, <1>10
<1>12. LifeInv(w)'
  <2>1. LiveFrame(f, life, owned, active)
    BY <1>8 DEF LiveFrame, MemberFunctions
  <2>2. \A u \in Threads : \A i \in 1..Len(stack'[u]) : LiveFrame(stack'[u][i], life, owned, active)
    BY <1>10, <1>11, <2>1 DEF Inv, LifeInv
  <2>3. \A q \in Observers : life[q] # "new"
    BY <1>1, <1>2, <1>3 DEF Inv, LifeInv, Runs
  <2>4. \A u \in Threads : Runs(stack'[u], "destroy") =>
           Runs(stack[u], "destroy") /\ stack'[u][1].o = stack[u][1].o
    BY <1>8, <1>10 DEF Runs
  <2> QED
    BY <1>1, <2>2, <2>3, <2>4 DEF LifeInv, Inv
<1>13. SettingsInv(w)'
  <2>1. SetFrame(f, updatesType')
    BY <1>1, <1>8 DEF SetFrame
  <2> QED
    BY <1>11, <2>1 DEF SettingsInv
<1>14. StillTold(w)
  <2> SUFFICES ASSUME NEW q \in Observers, Told(stack[w], deferredObservers, updatesType, q),
                      ~MayDropSome
               PROVE  Told(stack'[w], deferredObservers, updatesType', q)
    BY <1>1 DEF StillTold, Told
  <2>1. q \in deferredObservers
    BY <1>1, <1>2, <1>3, <1>4 DEF Told, WillTell, Runs
  <2>2. <<q, 1>> \in f.left
    BY <1>8, <2>1
  <2> QED
    BY <1>4, <1>8, <1>10, <2>2 DEF Told, WillTell
<1>15. ~Works(stack[w]) /\ ~Works(stack'[w])
  BY <1>1, <1>2, <1>3, <1>8, <1>10 DEF Works, Single
<1>16. /\ updatesType' \in {"enabled", "disabled", "deferred"}
       /\ deferredObservers' \in SUBSET Observers /\ owed' \in [Observers -> SUBSET Observables]
  BY <1>1 DEF Inv, Types
<1> QED
  BY <1>1, <1>10, <1>12, <1>13, <1>14, <1>15, <1>16, IdleStep

\* enableUpdates is called by clients only.
LEMMA EnableAlone ==
    ASSUME NEW w \in Threads, Inv(w), stack[w] # <<>>, Top(w).op = "enable"
    PROVE  Len(stack[w]) = 1
<1>1. /\ Top(w) = stack[w][1] /\ 1 \in 1..Len(stack[w])
      /\ stack[w] \in Seq(FrameType) /\ GoodStack(stack[w])
  BY TopFacts, ThreadFacts DEF Inv
<1> QED
  BY <1>1, ShapeFacts

\* A loop goes on to a proxy, or passes it over.
LEMMA CallProxyKeeps ==
    ASSUME NEW w \in Threads, NEW t \in Threads, Inv(w),
           NEW c \in Observers \X (1..MaxConnections), CallProxy(t, c)
    PROVE  Inv(w)'
<1>1. /\ stack[t] # <<>> /\ Top(t).op \in {"emit", "enable"} /\ Top(t).at = "loop"
      /\ UNCHANGED <<life, owned, active, updatesType, deferredObservers, owed,
                     observables, observers, slots>>
  BY DEF CallProxy, At, registrations, settings
<1>2. t = w
  BY <1>1, WorkerOnly
<1>3. /\ Top(w) = stack[w][1] /\ Top(w) \in FrameType /\ GoodFrame(Top(w))
      /\ Len(stack[w]) \in Nat /\ Len(stack[w]) >= 1 /\ 1 \in 1..Len(stack[w])
      /\ SetFrame(Top(w), updatesType)
  BY <1>1, <1>2, TopFacts
<1>4. PICK f : f = [Top(w) EXCEPT !.left = @ \ {c}]
  OBVIOUS
<1>5. PICK g : g = [Frame("proxy", "lock") EXCEPT !.o = c[1]]
  OBVIOUS
<1>6. PICK o \in Observers : o = c[1]
  OBVIOUS
<1>7. /\ f \in FrameType /\ f.op = Top(w).op /\ f.o = Top(w).o /\ f.h = Top(w).h
      /\ f.at = "loop" /\ f.left = Top(w).left \ {c} /\ f.locks = Top(w).locks
  BY <1>1, <1>2, <1>3, <1>4 DEF FrameType
<1>8. /\ g \in FrameType /\ g.op = "proxy" /\ g.at = "lock" /\ g.o = o /\ g.locks = {}
  BY <1>5, <1>6 DEF Frame, FrameType, Ops, Points
<1>9. GoodFrame(f) /\ GoodFrame(g) /\ Under(g, f)
  <2>1. f.at \in PointsOf(f.op) /\ f.locks \in LocksOf(f)
    BY <1>1, <1>2, <1>3, <1>7 DEF GoodFrame, PointsOf, LocksOf
  <2>2. GoodFrame(f)
    BY <1>1, <1>2, <1>3, <1>7, <2>1 DEF GoodFrame, Single
  <2>3. GoodFrame(g)
    BY <1>8 DEF GoodFrame, PointsOf, LocksOf, Single
  <2> QED
    BY <1>1, <1>2, <1>7, <1>8, <2>2, <2>3 DEF Under
<1>10. /\ LiveFrame(f, life, owned, active) /\ SetFrame(f, updatesType)
       /\ LiveFrame(g, life, owned, active) /\ SetFrame(g, updatesType)
  BY <1>1, <1>2, <1>3, <1>7, <1>8 DEF LiveFrame, SetFrame, MemberFunctions
<1>11. Top(w).op \in Idles /\ owed' \in [Observers -> SUBSET Observables]
  BY <1>1, <1>2 DEF Idles, Inv, Types
<1>12. Top(w).op = "enable" => Len(stack[w]) = 1
  BY <1>1, <1>2, EnableAlone
<1>13. CASE life[o] # "freed" /\ (Top(w).op = "emit" => c \in slots[Top(w).h])
  <2>1. Call(w, g, f)
    BY <1>2, <1>4, <1>5, <1>6, <1>13 DEF CallProxy
  <2>2. /\ stack'[w] # <<>> /\ stack'[w][1] = g /\ stack'[w][2] = f
        /\ Len(stack'[w]) = Len(stack[w]) + 1
        /\ \A i \in 3..(Len(stack[w]) + 1) : stack'[w][i] = stack[w][i - 1]
    BY <1>1, <1>2, <1>7, <1>8, <1>9, <2>1, CallStack DEF Inv
  <2>3. ASSUME NEW q \in Observers, Told(stack[w], deferredObservers, updatesType, q)
        PROVE  Told(stack'[w], deferredObservers, updatesType, q)
    <3>1. CASE Top(w).op = "emit"
      <4>1. stack[w][1].op \notin {"enable", "unregisterWithAll", "proxy"}
        BY <1>3, <3>1
      <4> QED
        BY <1>3, <2>2, <2>3, <4>1, ToldCall
    <3>2. CASE Top(w).op = "enable"
      <4>0. Len(stack[w]) = 1 /\ Len(stack'[w]) = Len(stack[w]) + 1
        BY <1>12, <2>2, <3>2
      <4>1. Len(stack[w]) = 1 /\ Len(stack'[w]) = 2
        BY <4>0
      <4>2. CASE WillTell(stack[w], q)
        <5>1. <<q, 1>> \in Top(w).left
          BY <1>3, <4>1, <4>2 DEF WillTell
        <5>2. <<q, 1>> \in f.left \/ g.o = q
          BY <1>6, <1>7, <1>8, <5>1
        <5>3. WillTell(stack'[w], q)
          BY <1>7, <1>8, <2>2, <3>2, <4>1, <5>2 DEF WillTell
        <5> QED
          BY <5>3 DEF Told
      <4>3. CASE ~WillTell(stack[w], q)
        BY <1>3, <2>3, <3>2, <4>3 DEF Told, Runs
      <4> QED
        BY <4>2, <4>3
    <3> QED
      BY <1>1, <1>2, <3>1, <3>2
  <2>4. StillTold(w)
    BY <1>1, <2>3 DEF StillTold
  <2>5. g.op \in {"notify", "proxy"}
    BY <1>8
  <2> QED
    BY <1>1, <1>2, <1>7, <1>8, <1>9, <1>10, <1>11, <2>1, <2>4, <2>5, IdleCall
<1>14. CASE ~(life[o] # "freed" /\ (Top(w).op = "emit" => c \in slots[Top(w).h]))
  <2>1. Become(w, f)
    BY <1>2, <1>4, <1>6, <1>14 DEF CallProxy
  <2>2. /\ stack'[w] # <<>> /\ stack'[w][1] = f /\ Len(stack'[w]) = Len(stack[w])
        /\ \A i \in 2..Len(stack[w]) : stack'[w][i] = stack[w][i]
    BY <1>1, <1>2, <1>7, <1>9, <2>1, ReplaceStack DEF Inv
  <2>3. ASSUME NEW q \in Observers, life[q] \in {"new", "alive"},
               Told(stack[w], deferredObservers, updatesType, q)
        PROVE  Told(stack'[w], deferredObservers, updatesType, q)
    <3>1. CASE Top(w).op = "emit"
      <4>1. /\ stack[w][1].op \notin {"enable", "proxy"}
            /\ stack'[w][1].op = stack[w][1].op /\ stack'[w][1].o = stack[w][1].o
        BY <1>3, <1>7, <2>2, <3>1
      <4> QED
        BY <1>3, <2>2, <2>3, <4>1, ToldReplace
    <3>2. CASE Top(w).op = "enable"
      <4>1. Len(stack[w]) = 1 /\ Len(stack'[w]) = 1
        BY <1>12, <2>2, <3>2
      <4>2. CASE WillTell(stack[w], q)
        <5>1. <<q, 1>> \in Top(w).left
          BY <1>3, <4>1, <4>2 DEF WillTell
        <5>2. o # q
          BY <1>14, <2>3, <3>2
        <5>3. <<q, 1>> \in f.left
          BY <1>6, <1>7, <5>1, <5>2
        <5>4. WillTell(stack'[w], q)
          BY <1>7, <2>2, <3>2, <4>1, <5>3 DEF WillTell
        <5> QED
          BY <5>4 DEF Told
      <4>3. CASE ~WillTell(stack[w], q)
        BY <1>3, <2>3, <3>2, <4>3 DEF Told, Runs
      <4> QED
        BY <4>2, <4>3
    <3> QED
      BY <1>1, <1>2, <3>1, <3>2
  <2>4. StillTold(w)
    BY <1>1, <2>3 DEF StillTold
  <2> QED
    BY <1>1, <1>2, <1>7, <1>9, <1>10, <1>11, <2>1, <2>4, IdleReplace
<1> QED
  BY <1>13, <1>14

\* A loop ends: that of enableUpdates owes nothing to anybody.
LEMMA LoopEndKeeps ==
    ASSUME NEW w \in Threads, NEW t \in Threads, Inv(w), LoopEnd(t)
    PROVE  Inv(w)'
<1>1. /\ stack[t] # <<>> /\ Top(t).op \in {"emit", "enable"} /\ Top(t).at = "loop" /\ Return(t)
      /\ UNCHANGED <<life, owned, active, updatesType, owed, observables, observers, slots>>
  BY DEF LoopEnd, At, registrations
<1>2. t = w
  BY <1>1, WorkerOnly
<1>3. /\ Top(w) = stack[w][1] /\ Top(w) \in FrameType /\ GoodFrame(Top(w))
      /\ Len(stack[w]) \in Nat /\ Len(stack[w]) >= 1 /\ 1 \in 1..Len(stack[w])
      /\ SetFrame(Top(w), updatesType)
  BY <1>1, <1>2, TopFacts
<1>4. Top(w).op \in Idles /\ deferredObservers' \in SUBSET Observers
  BY <1>1, <1>2 DEF Idles, Inv, Types, LoopEnd
<1>5. CASE Top(w).op = "emit"
  <2>1. deferredObservers' = deferredObservers
    BY <1>2, <1>5 DEF LoopEnd
  <2>2. /\ Len(stack'[w]) = Len(stack[w]) - 1
        /\ \A i \in 1..(Len(stack[w]) - 1) : stack'[w][i] = stack[w][i + 1]
        /\ stack'[w] # <<>> <=> Len(stack[w]) > 1
    BY <1>1, <1>2, ReturnStack DEF Inv
  <2>3. stack[w][1].op \notin {"enable", "unregisterWithAll", "proxy"}
    BY <1>3, <1>5
  <2>4. ASSUME NEW q \in Observers, Told(stack[w], deferredObservers, updatesType, q)
        PROVE  Told(stack'[w], deferredObservers, updatesType, q)
    BY <1>3, <2>2, <2>3, <2>4, ToldReturn
  <2>5. StillTold(w)
    BY <1>1, <2>1, <2>4 DEF StillTold
  <2> QED
    BY <1>1, <1>2, <1>4, <2>5, IdleReturn
<1>6. CASE Top(w).op = "enable"
  <2>1. Len(stack[w]) = 1
    BY <1>1, <1>2, <1>6, EnableAlone
  <2>2. Top(w).left = {}
    BY <1>2, <1>6 DEF LoopEnd
  <2>3. updatesType = "enabled"
    BY <1>1, <1>2, <1>3, <1>6 DEF GoodFrame, LocksOf, SetFrame
  <2>4. ASSUME NEW q \in Observers, Told(stack[w], deferredObservers, updatesType, q)
        PROVE  MayDropSome
    BY <1>3, <1>6, <2>1, <2>2, <2>3, <2>4 DEF Told, WillTell, Runs
  <2>5. StillTold(w)
    BY <1>1, <2>4 DEF StillTold, Told
  <2> QED
    BY <1>1, <1>2, <1>4, <2>5, IdleReturn
<1> QED
  BY <1>1, <1>2, <1>5, <1>6

\* Under a proxy is the loop that called it, so that a change of its frame
\* leaves the others to be told.
LEMMA ToldElse ==
    ASSUME NEW w \in Threads, Inv(w), stack[w] # <<>>, Top(w).op = "proxy",
           NEW r, Len(r) = Len(stack[w]), \A i \in 2..Len(stack[w]) : r[i] = stack[w][i], r # <<>>,
           NEW q, q # Top(w).o, NEW D, NEW type, Told(stack[w], D, type, q)
    PROVE  Told(r, D, type, q)
<1>1. /\ Top(w) = stack[w][1] /\ Len(stack[w]) \in Nat /\ Len(stack[w]) >= 1
  BY TopFacts
<1>2. stack[w][Len(stack[w])].op # "proxy"
  BY <1>1, ThreadFacts DEF Inv, GoodStack
<1>3. Len(stack[w]) >= 2
  BY <1>1, <1>2, Lengths
<1>4. r[Len(r)] = stack[w][Len(stack[w])]
  BY <1>1, <1>3
<1> QED
  BY <1>1, <1>4 DEF Told, WillTell, Runs

\* A proxy is locked, unless it is not active.
LEMMA ProxyLockKeeps ==
    ASSUME NEW w \in Threads, NEW t \in Threads, Inv(w), ProxyLock(t)
    PROVE  Inv(w)'
<1>1. /\ stack[t] # <<>> /\ Top(t).op = "proxy" /\ Top(t).at = "lock"
      /\ UNCHANGED <<life, owned, active, updatesType, deferredObservers, owed,
                     observables, observers, slots>>
  BY DEF ProxyLock, At, registrations, settings
<1>2. t = w
  BY <1>1, WorkerOnly
<1>3. /\ Top(w) = stack[w][1] /\ Top(w) \in FrameType /\ GoodFrame(Top(w))
      /\ Len(stack[w]) \in Nat /\ Len(stack[w]) >= 1
  BY <1>1, <1>2, TopFacts
<1>4. PICK o \in Observers : o = Top(w).o
  BY <1>1, <1>2, <1>3 DEF GoodFrame
<1>5. /\ Top(w).op \in Idles /\ deferredObservers' \in SUBSET Observers
      /\ owed' \in [Observers -> SUBSET Observables]
  BY <1>1, <1>2 DEF Idles, Inv, Types
<1>6. CASE active[o]
  <2>1. PICK f : f = [Top(w) EXCEPT !.at = "weak", !.locks = {ProxyMutex(o)}]
    OBVIOUS
  <2>2. Become(w, f)
    BY <1>2, <1>4, <1>6, <2>1 DEF ProxyLock
  <2>3. {ProxyMutex(o)} \subseteq Mutexes
    BY DEF Mutexes
  <2>4. /\ f \in FrameType /\ f.op = "proxy" /\ f.o = o /\ f.at = "weak"
        /\ f.locks = {ProxyMutex(o)}
    BY <1>1, <1>2, <1>3, <1>4, <2>1, <2>3 DEF FrameType, Points
  <2>5. GoodFrame(f)
    BY <2>4 DEF GoodFrame, PointsOf, LocksOf, Single
  <2>6. LiveFrame(f, life, owned, active) /\ SetFrame(f, updatesType)
    BY <1>6, <2>4, MutexFacts DEF LiveFrame, SetFrame, MemberFunctions
  <2>7. StillTold(w)
    <3>1. /\ stack'[w] # <<>> /\ stack'[w][1] = f /\ Len(stack'[w]) = Len(stack[w])
          /\ \A i \in 2..Len(stack[w]) : stack'[w][i] = stack[w][i]
      BY <1>1, <1>2, <1>4, <2>2, <2>4, <2>5, ReplaceStack DEF Inv
    <3>2. /\ stack'[w][1].op = stack[w][1].op /\ stack'[w][1].o = stack[w][1].o
          /\ stack'[w][1].at = "weak" /\ stack[w][1].op = "proxy"
      BY <1>1, <1>2, <1>3, <1>4, <2>4, <3>1
    <3>3. ASSUME NEW q \in Observers, Told(stack[w], deferredObservers, updatesType, q)
          PROVE  Told(stack'[w], deferredObservers, updatesType, q)
      BY <1>3, <3>1, <3>2, <3>3, ToldReplace
    <3> QED
      BY <1>1, <3>3 DEF StillTold
  <2> QED
    BY <1>1, <1>2, <1>4, <1>5, <2>2, <2>4, <2>5, <2>6, <2>7, IdleReplace
<1>7. CASE ~active[o]
  <2>1. Return(w)
    BY <1>2, <1>4, <1>7 DEF ProxyLock
  <2>2. /\ Len(stack'[w]) = Len(stack[w]) - 1
        /\ \A i \in 1..(Len(stack[w]) - 1) : stack'[w][i] = stack[w][i + 1]
        /\ stack'[w] # <<>> <=> Len(stack[w]) > 1
    BY <1>1, <1>2, <2>1, ReturnStack DEF Inv
  <2>3. stack[w][1].op \notin {"enable", "unregisterWithAll"} /\ stack[w][1].o = o
    BY <1>1, <1>2, <1>3, <1>4
  <2>4. ASSUME NEW q \in Observers, life[q] \in {"new", "alive"},
               Told(stack[w], deferredObservers, updatesType, q)
        PROVE  Told(stack'[w], deferredObservers, updatesType, q)
    <3>1. o # q
      BY <1>7, <2>4 DEF Inv, LifeInv
    <3> QED
      BY <1>3, <2>2, <2>3, <2>4, <3>1, ToldReturn
  <2>5. StillTold(w)
    BY <1>1, <2>4 DEF StillTold
  <2> QED
    BY <1>1, <1>2, <1>5, <2>1, <2>5, IdleReturn
<1> QED
  BY <1>6, <1>7

\* The observer is told, unless it is being destroyed; it is not one that is
\* being constructed, for then the constructor would be running.
LEMMA ProxyWeakKeeps ==
    ASSUME NEW w \in Threads, NEW t \in Threads, Inv(w), ProxyWeak(t)
    PROVE  Inv(w)'
<1>1. /\ stack[t] # <<>> /\ Top(t).op = "proxy" /\ Top(t).at = "weak"
      /\ UNCHANGED <<life, owned, active, updatesType, deferredObservers,
                     observables, observers, slots>>
  BY DEF ProxyWeak, At, registrations, settings
<1>2. t = w
  BY <1>1, WorkerOnly
<1>3. /\ Top(w) = stack[w][1] /\ Top(w) \in FrameType /\ GoodFrame(Top(w))
      /\ Len(stack[w]) \in Nat /\ Len(stack[w]) >= 1
      /\ LiveFrame(Top(w), life, owned, active) /\ SetFrame(Top(w), updatesType)
  BY <1>1, <1>2, TopFacts
<1>4. PICK o \in Observers : o = Top(w).o
  BY <1>1, <1>2, <1>3 DEF GoodFrame
<1>5. Top(w).op \in Idles /\ deferredObservers' \in SUBSET Observers
  BY <1>1, <1>2 DEF Idles, Inv, Types
<1>6. life[o] \in {"alive", "dying"}
  <2>1. active[o]
    BY <1>1, <1>2, <1>3, <1>4 DEF LiveFrame
  <2>2. life[o] # "new"
    BY <1>1, <1>2, <1>3 DEF Inv, LifeInv, Runs
  <2> QED
    BY <2>1, <2>2 DEF Inv, LifeInv
<1>7. CASE life[o] = "alive"
  <2>1. PICK f : f = [Top(w) EXCEPT !.at = "body"]
    OBVIOUS
  <2>2. Become(w, f) /\ owed' = [owed EXCEPT ![o] = {}]
    BY <1>2, <1>4, <1>7, <2>1 DEF ProxyWeak
  <2>3. /\ f \in FrameType /\ f.op = "proxy" /\ f.o = o /\ f.at = "body"
        /\ f.locks = Top(w).locks
    BY <1>1, <1>2, <1>3, <1>4, <2>1 DEF FrameType, Points
  <2>4. GoodFrame(f)
    <3>1. f.locks \in LocksOf(f)
      BY <1>1, <1>2, <1>3, <1>4, <2>3 DEF GoodFrame, LocksOf
    <3> QED
      BY <2>3, <3>1 DEF GoodFrame, PointsOf, Single
  <2>5. LiveFrame(f, life, owned, active) /\ SetFrame(f, updatesType)
    BY <1>3, <1>7, <2>3 DEF LiveFrame, SetFrame, MemberFunctions
  <2>6. owed' \in [Observers -> SUBSET Observables]
    BY <2>2 DEF Inv, Types
  <2>7. StillTold(w)
    <3>1. /\ stack'[w] # <<>> /\ Len(stack'[w]) = Len(stack[w])
          /\ \A i \in 2..Len(stack[w]) : stack'[w][i] = stack[w][i]
      BY <1>1, <1>2, <1>4, <2>2, <2>3, <2>4, ReplaceStack DEF Inv
    <3>2. \A q \in Observers : owed'[q] # {} => q # o /\ owed'[q] = owed[q]
      BY <2>2 DEF Inv, Types
    <3>3. ASSUME NEW q \in Observers, q # o, Told(stack[w], deferredObservers, updatesType, q)
          PROVE  Told(stack'[w], deferredObservers, updatesType, q)
      BY <1>1, <1>2, <1>4, <3>1, <3>3, ToldElse
    <3> QED
      BY <1>1, <3>2, <3>3 DEF StillTold
  <2> QED
    BY <1>1, <1>2, <1>4, <1>5, <2>2, <2>3, <2>4, <2>5, <2>6, <2>7, IdleReplace
<1>8. CASE life[o] = "dying"
  <2>1. Return(w) /\ owed' = owed
    BY <1>2, <1>4, <1>8 DEF ProxyWeak
  <2>2. /\ Len(stack'[w]) = Len(stack[w]) - 1
        /\ \A i \in 1..(Len(stack[w]) - 1) : stack'[w][i] = stack[w][i + 1]
        /\ stack'[w] # <<>> <=> Len(stack[w]) > 1
    BY <1>1, <1>2, <2>1, ReturnStack DEF Inv
  <2>3. stack[w][1].op \notin {"enable", "unregisterWithAll"} /\ stack[w][1].o = o
    BY <1>1, <1>2, <1>3, <1>4
  <2>4. ASSUME NEW q \in Observers, life[q] \in {"new", "alive"},
               Told(stack[w], deferredObservers, updatesType, q)
        PROVE  Told(stack'[w], deferredObservers, updatesType, q)
    <3>1. o # q
      BY <1>8, <2>4
    <3> QED
      BY <1>3, <2>2, <2>3, <2>4, <3>1, ToldReturn
  <2>5. StillTold(w)
    BY <1>1, <2>1, <2>4 DEF StillTold
  <2> QED
    BY <1>1, <1>2, <1>5, <2>1, <2>5, IdleReturn
<1> QED
  BY <1>6, <1>7, <1>8

\* A proxy is unlocked.
LEMMA ProxyUnlockKeeps ==
    ASSUME NEW w \in Threads, NEW t \in Threads, Inv(w), ProxyUnlock(t)
    PROVE  Inv(w)'
<1>1. /\ stack[t] # <<>> /\ Top(t).op = "proxy" /\ Top(t).at = "unlock" /\ Return(t)
      /\ UNCHANGED <<life, owned, active, updatesType, deferredObservers, owed,
                     observables, observers, slots>>
  BY DEF ProxyUnlock, At, registrations, settings
<1>2. t = w
  BY <1>1, WorkerOnly
<1>3. /\ Top(w) = stack[w][1] /\ Len(stack[w]) \in Nat /\ Len(stack[w]) >= 1
  BY <1>1, <1>2, TopFacts
<1>4. Top(w).op \in Idles /\ deferredObservers' \in SUBSET Observers
  BY <1>1, <1>2 DEF Idles, Inv, Types
<1>5. /\ Len(stack'[w]) = Len(stack[w]) - 1
      /\ \A i \in 1..(Len(stack[w]) - 1) : stack'[w][i] = stack[w][i + 1]
      /\ stack'[w] # <<>> <=> Len(stack[w]) > 1
  BY <1>1, <1>2, ReturnStack DEF Inv
<1>6. stack[w][1].op \notin {"enable", "unregisterWithAll"} /\ stack[w][1].at = "unlock"
  BY <1>1, <1>2, <1>3
<1>7. ASSUME NEW q \in Observers, Told(stack[w], deferredObservers, updatesType, q)
      PROVE  Told(stack'[w], deferredObservers, updatesType, q)
  BY <1>3, <1>5, <1>6, <1>7, ToldReturn
<1>8. StillTold(w)
  BY <1>1, <1>7 DEF StillTold
<1> QED
  BY <1>1, <1>2, <1>4, <1>8, IdleReturn

\* update() passes the notification on, throws, or returns; if that drops the
\* last reference, the destructor runs under it.
LEMMA BodyKeeps ==
    ASSUME NEW w \in Threads, NEW t \in Threads, Inv(w), Body(t)
    PROVE  Inv(w)'
<1>1. /\ stack[t] # <<>> /\ Top(t).op = "proxy" /\ Top(t).at = "body"
      /\ UNCHANGED <<owned, active, updatesType, deferredObservers, observables, observers, slots>>
  BY DEF Body, At, registrations, settings
<1>2. t = w
  BY <1>1, WorkerOnly
<1>3. /\ Top(w) = stack[w][1] /\ Top(w) \in FrameType /\ GoodFrame(Top(w))
      /\ Len(stack[w]) \in Nat /\ Len(stack[w]) >= 1 /\ 1 \in 1..Len(stack[w])
      /\ LiveFrame(Top(w), life, owned, active) /\ SetFrame(Top(w), updatesType)
  BY <1>1, <1>2, TopFacts
<1>4. PICK o \in Observers : o = Top(w).o
  BY <1>1, <1>2, <1>3 DEF GoodFrame
<1>5. Top(w).op \in Idles /\ Top(w).locks = {ProxyMutex(o)} /\ life[o] = "alive"
  BY <1>1, <1>2, <1>3, <1>4 DEF Idles, GoodFrame, LocksOf, LiveFrame
<1>6. owed' = owed => owed' \in [Observers -> SUBSET Observables]
  BY DEF Inv, Types
<1>7. stack[w][1].op \notin {"enable", "unregisterWithAll"} /\ stack[w][1].at \notin {"lock", "weak"}
  BY <1>1, <1>2, <1>3
<1>8. CASE /\ Forward[Top(t).o] # None
           /\ Call(t, [Frame("notify", "test") EXCEPT !.h = Forward[Top(t).o]],
                   [Top(t) EXCEPT !.left = {Forward[Top(t).o]}])
           /\ UNCHANGED <<life, thrown, owed>>
  <2>1. PICK h : h = Forward[o]
    OBVIOUS
  <2>2. h \in Observables
    BY <1>2, <1>4, <1>8, <2>1, ClientAssumption
  <2>3. PICK c : c = [Frame("notify", "test") EXCEPT !.h = h]
    OBVIOUS
  <2>4. PICK f : f = [Top(w) EXCEPT !.left = {h}]
    OBVIOUS
  <2>5. Call(w, c, f) /\ UNCHANGED <<life, owed>>
    BY <1>2, <1>4, <1>8, <2>1, <2>3, <2>4
  <2>6. /\ c \in FrameType /\ c.op = "notify" /\ c.at = "test" /\ c.h = h /\ c.locks = {}
    BY <2>2, <2>3 DEF Frame, FrameType, Ops, Points
  <2>7. /\ f \in FrameType /\ f.op = "proxy" /\ f.o = o /\ f.at = "body" /\ f.locks = {ProxyMutex(o)}
    BY <1>1, <1>2, <1>3, <1>4, <1>5, <2>2, <2>4 DEF FrameType
  <2>8. GoodFrame(c) /\ GoodFrame(f) /\ Under(c, f)
    <3>1. GoodFrame(c)
      BY <2>2, <2>6 DEF GoodFrame, PointsOf, LocksOf, Single
    <3>2. GoodFrame(f)
      BY <2>7 DEF GoodFrame, PointsOf, LocksOf, Single
    <3> QED
      BY <2>6, <2>7, <3>1, <3>2 DEF Under
  <2>9. /\ LiveFrame(c, life, owned, active) /\ SetFrame(c, updatesType)
        /\ LiveFrame(f, life, owned, active) /\ SetFrame(f, updatesType)
    BY <1>5, <2>6, <2>7, MutexFacts DEF LiveFrame, SetFrame, MemberFunctions
  <2>10. StillTold(w)
    <3>1. /\ stack'[w] # <<>> /\ Len(stack'[w]) = Len(stack[w]) + 1
          /\ \A i \in 3..(Len(stack[w]) + 1) : stack'[w][i] = stack[w][i - 1]
      BY <1>1, <1>2, <1>4, <2>5, <2>6, <2>7, <2>8, CallStack DEF Inv
    <3>2. ASSUME NEW q \in Observers, Told(stack[w], deferredObservers, updatesType, q)
          PROVE  Told(stack'[w], deferredObservers, updatesType, q)
      BY <1>3, <1>7, <3>1, <3>2, ToldCall
    <3> QED
      BY <1>1, <2>5, <3>2 DEF StillTold
  <2>11. c.op \in {"notify", "proxy"}
    BY <2>6
  <2> QED
    BY <1>1, <1>2, <1>4, <1>5, <2>5, <2>6, <2>7, <2>8, <2>9, <2>10, <2>11, IdleCall
<1>9. CASE UNCHANGED <<life, stack, owed>>
  BY <1>1, <1>9, SameInv
<1>10. ASSUME NEW f, f = [Top(w) EXCEPT !.at = "unlock", !.threw = (t \in thrown)]
       PROVE  /\ f \in FrameType /\ f.op = "proxy" /\ f.o = o /\ f.at = "unlock"
              /\ f.p = Top(w).p /\ f.locks = {ProxyMutex(o)} /\ GoodFrame(f)
              /\ LiveFrame(f, life, owned, active) /\ SetFrame(f, updatesType)
  <2>1. /\ f \in FrameType /\ f.op = "proxy" /\ f.o = o /\ f.at = "unlock"
        /\ f.p = Top(w).p /\ f.locks = {ProxyMutex(o)}
    <3>1. "unlock" \in Points /\ (t \in thrown) \in BOOLEAN
      BY DEF Points
    <3>2. PICK b \in BOOLEAN : f = [Top(w) EXCEPT !.at = "unlock", !.threw = b]
      BY <1>10, <3>1
    <3> QED
      BY <1>1, <1>2, <1>3, <1>4, <1>5, <3>1, <3>2 DEF FrameType
  <2>2. GoodFrame(f)
    BY <2>1 DEF GoodFrame, PointsOf, LocksOf, Single
  <2>3. LiveFrame(f, life, owned, active) /\ SetFrame(f, updatesType)
    BY <2>1, MutexFacts DEF LiveFrame, SetFrame, MemberFunctions
  <2> QED
    BY <2>1, <2>2, <2>3
<1>11. CASE /\ Become(t, [Top(t) EXCEPT !.at = "unlock", !.threw = (t \in thrown)])
            /\ UNCHANGED <<life, owed>>
  <2>1. PICK f : f = [Top(w) EXCEPT !.at = "unlock", !.threw = (t \in thrown)]
    OBVIOUS
  <2>2. /\ f \in FrameType /\ f.op = "proxy" /\ f.o = o /\ f.at = "unlock" /\ GoodFrame(f)
        /\ LiveFrame(f, life, owned, active) /\ SetFrame(f, updatesType)
    BY <1>10, <2>1
  <2>3. Become(w, f)
    BY <1>2, <1>11, <2>1
  <2>4. StillTold(w)
    <3>1. /\ stack'[w] # <<>> /\ stack'[w][1] = f /\ Len(stack'[w]) = Len(stack[w])
          /\ \A i \in 2..Len(stack[w]) : stack'[w][i] = stack[w][i]
      BY <1>1, <1>2, <1>4, <2>2, <2>3, ReplaceStack DEF Inv
    <3>2. /\ stack'[w][1].op = stack[w][1].op /\ stack'[w][1].o = stack[w][1].o
      BY <1>1, <1>2, <1>3, <1>4, <2>2, <3>1
    <3>3. ASSUME NEW q \in Observers, Told(stack[w], deferredObservers, updatesType, q)
          PROVE  Told(stack'[w], deferredObservers, updatesType, q)
      BY <1>3, <1>7, <3>1, <3>2, <3>3, ToldReplace
    <3> QED
      BY <1>1, <1>11, <3>3 DEF StillTold
  <2> QED
    BY <1>1, <1>2, <1>4, <1>5, <1>6, <1>11, <2>2, <2>3, <2>4, IdleReplace
<1>12. CASE /\ ~owned[o]
            /\ ~ \E u \in Threads : \E i \in DOMAIN stack[u] :
                    (u = t => i # 1) /\ IsBody(stack[u][i], o)
            /\ life' = [life EXCEPT ![o] = "dying"] /\ owed' = [owed EXCEPT ![o] = {}]
            /\ Call(t, [Frame("destroy", "lock") EXCEPT !.o = o],
                    [Top(t) EXCEPT !.at = "unlock", !.threw = (t \in thrown)])
  <2>1. PICK f : f = [Top(w) EXCEPT !.at = "unlock", !.threw = (t \in thrown)]
    OBVIOUS
  <2>2. /\ f \in FrameType /\ f.op = "proxy" /\ f.o = o /\ f.at = "unlock"
        /\ f.p = Top(w).p /\ f.locks = {ProxyMutex(o)} /\ GoodFrame(f)
        /\ LiveFrame(f, life, owned, active) /\ SetFrame(f, updatesType)
    BY <1>10, <2>1
  <2>3. PICK c : c = [Frame("destroy", "lock") EXCEPT !.o = o]
    OBVIOUS
  <2>4. Call(w, c, f)
    BY <1>2, <1>12, <2>1, <2>3
  <2>5. /\ c \in FrameType /\ c.op = "destroy" /\ c.at = "lock" /\ c.o = o /\ c.left = {}
        /\ c.locks = {}
    BY <2>3 DEF Frame, FrameType, Ops, Points
  <2>6. GoodFrame(c) /\ Under(c, f) /\ SetFrame(c, updatesType)
    BY <2>2, <2>5 DEF GoodFrame, PointsOf, LocksOf, InFlight, Under, SetFrame, Single
  <2>7. /\ stack' \in [Threads -> Seq(FrameType)] /\ StackInv(w)'
        /\ stack'[w] # <<>> /\ stack'[w][1] = c /\ stack'[w][2] = f
        /\ Len(stack'[w]) = Len(stack[w]) + 1
        /\ \A i \in 3..(Len(stack[w]) + 1) : stack'[w][i] = stack[w][i - 1]
        /\ \A u \in Threads : u # w => stack'[u] = stack[u]
    BY <1>1, <1>2, <1>4, <2>2, <2>4, <2>5, <2>6, CallStack DEF Inv
  <2>8. Types'
    BY <1>1, <1>12, <2>7 DEF Inv, Types, Lives
  <2>9. /\ life'[o] = "dying" /\ \A q \in Observers : q # o =>
              life'[q] = life[q] /\ (owned'[q] <=> owned[q])
        /\ ~owned'[o] /\ active' = active
    BY <1>1, <1>12 DEF Inv, Types
  <2>10. \A i \in 1..Len(stack[w]) : stack[w][i].op \notin MemberFunctions
    <3>1. stack[w] \in Seq(FrameType) /\ GoodStack(stack[w]) /\ stack[w] # <<>>
      BY <1>1, <1>2, ThreadFacts DEF Inv
    <3>2. stack[w][1].op \in {"emit", "enable", "proxy", "notify"}
      BY <1>1, <1>2, <1>3
    <3> QED
      BY <3>1, <3>2, ShapeFacts
  <2>11. ASSUME NEW u \in Threads, NEW i \in 1..Len(stack[u]), u = w => i # 1
         PROVE  ~IsBody(stack[u][i], o)
    <3>1. DOMAIN stack[u] = 1..Len(stack[u])
      BY ThreadFacts DEF Inv
    <3> QED
      BY <1>2, <1>12, <2>11, <3>1
  <2>12. Kept(stack'[w], 2, stack[w], o)
    <3> SUFFICES ASSUME NEW i \in 2..Len(stack'[w])
                 PROVE  \E j \in 1..Len(stack[w]) :
                           /\ stack'[w][i].op = stack[w][j].op /\ stack'[w][i].o = stack[w][j].o
                           /\ stack'[w][i].p = stack[w][j].p
                           /\ \/ stack'[w][i].at = stack[w][j].at
                              \/ stack'[w][i].op = "proxy" /\ stack'[w][i].at = "unlock"
                           /\ ~IsBody(stack'[w][i], o)
                           /\ stack[w][j].op \in MemberFunctions =>
                                 o \notin {stack[w][j].o, stack[w][j].p}
      BY DEF Kept
    <3>1. CASE i = 2
      <4>1. stack'[w][i] = f
        BY <2>7, <3>1
      <4>2. ~IsBody(f, o)
        BY <2>2 DEF IsBody
      <4> QED
        BY <1>1, <1>2, <1>3, <1>4, <2>2, <2>10, <4>1, <4>2
    <3>2. CASE i # 2
      <4>1. /\ i \in 3..(Len(stack[w]) + 1) /\ i - 1 \in 1..Len(stack[w]) /\ i - 1 # 1
        BY <1>3, <2>7, <3>2
      <4>2. stack'[w][i] = stack[w][i - 1]
        BY <2>7, <4>1
      <4>3. ~IsBody(stack[w][i - 1], o) /\ stack[w][i - 1].op \notin MemberFunctions
        BY <2>10, <2>11, <4>1
      <4> QED
        BY <4>1, <4>2, <4>3
    <3> QED
      BY <3>1, <3>2
  <2>13. ASSUME NEW u \in Threads, u # w PROVE Kept(stack'[u], 1, stack[u], o)
    <3>1. stack'[u] = stack[u]
      BY <2>7, <2>13
    <3>2. \A i \in 1..Len(stack[u]) : ~IsBody(stack[u][i], o) /\ stack[u][i].op = "destroy"
      BY <2>11, <2>13 DEF Inv, StackInv
    <3> QED
      BY <3>1, <3>2 DEF Kept, MemberFunctions
  <2>14. LifeInv(w)'
    <3>1. Len(stack'[w]) \in Nat /\ ~Runs(stack[w], "construct")
      BY <1>1, <1>2, <1>3, <2>7 DEF Runs
    <3>2. stack'[w][1].op = "destroy" /\ stack'[w][1].o = o /\ stack'[w][1].at = "lock"
      BY <2>5, <2>7
    <3> QED
      BY <1>5, <2>7, <2>9, <2>12, <2>13, <3>1, <3>2, DropLife
  <2>15. SettingsInv(w)'
    <3> SUFFICES ASSUME NEW i \in 1..Len(stack'[w]) PROVE SetFrame(stack'[w][i], updatesType)
      BY <1>1 DEF SettingsInv
    <3>1. CASE i = 1
      BY <2>6, <2>7, <3>1
    <3>2. CASE i = 2
      BY <2>2, <2>7, <3>2
    <3>3. CASE i # 1 /\ i # 2
      <4>1. i \in 3..(Len(stack[w]) + 1) /\ i - 1 \in 1..Len(stack[w])
        BY <1>3, <2>7, <3>3
      <4>2. stack'[w][i] = stack[w][i - 1]
        BY <2>7, <4>1
      <4> QED
        BY <4>1, <4>2 DEF Inv, SettingsInv
    <3> QED
      BY <3>1, <3>2, <3>3
  <2>16. AgreeInv'
    <3>1. AgreeInv /\ ~Works(stack[w]) /\ Works(stack'[w])
      BY <1>1, <1>2, <1>3, <2>5, <2>7 DEF Inv, Works, Single
    <3>2. /\ \A u \in Threads : u # w /\ Works(stack[u]) => stack[u][1].o \in Observers \ {o}
          /\ \A h \in Observables : Linked(o, h, observables[o], observers, slots)
      BY <1>5, <3>1, NobodyWorks
    <3>3. Working(c, observables, observers, slots)
      BY <2>5, <3>2 DEF Working, Watched, InFlight
    <3>4. /\ stack'[w][1].o = o /\ Working(stack'[w][1], observables', observers', slots')
          /\ observables' = observables /\ observers' = observers /\ slots' = slots
      BY <1>1, <2>5, <2>7, <3>3
    <3>5. \A u \in Threads : u # w => /\ stack'[u] = stack[u]
                                      /\ Works(stack[u]) => stack[u][1].o \in Observers \ {o}
      BY <2>7, <3>2
    <3> QED
      BY <3>1, <3>4, <3>5, AgreeStep
  <2>17. OwedInv(w)'
    <3>1. ASSUME NEW q \in Observers, Told(stack[w], deferredObservers, updatesType, q)
          PROVE  Told(stack'[w], deferredObservers, updatesType, q)
      BY <1>3, <1>7, <2>7, <3>1, ToldCall
    <3>2. \A q \in Observers : owed'[q] # {} => owed'[q] = owed[q] /\ life'[q] = life[q]
      BY <1>12, <2>9 DEF Inv, Types
    <3> QED
      BY <1>1, <3>1, <3>2, OwedStep DEF Inv
  <2> QED
    BY <2>7, <2>8, <2>14, <2>15, <2>16, <2>17 DEF Inv
<1> QED
  BY <1>2, <1>4, <1>8, <1>9, <1>11, <1>12 DEF Body

-----------------------------------------------------------------------------
(* The invariant.                                                          *)

LEMMA InitInv == ASSUME NEW w \in Threads, Init PROVE Inv(w)
<1>1. Types
  BY DEF Init, Types, Lives
<1>2. \A t \in Threads : stack[t] = <<>> /\ Len(stack[t]) = 0
  BY DEF Init
<1>3. StackInv(w) /\ SettingsInv(w)
  BY <1>2 DEF StackInv, GoodStack, SettingsInv
<1>4. LifeInv(w)
  BY <1>2 DEF Init, LifeInv, Runs
<1>5. AgreeInv
  BY <1>2 DEF Init, AgreeInv, Works, Linked
<1>6. OwedInv(w)
  BY DEF Init, OwedInv
<1> QED
  BY <1>1, <1>3, <1>4, <1>5, <1>6 DEF Inv

LEMMA NextInv ==
    ASSUME NEW w \in Threads, OneWorker(w), Inv(w), [Next]_vars
    PROVE  Inv(w)'
<1>1. CASE UNCHANGED vars
  BY <1>1, SameInv DEF vars, registrations, settings
<1>2. CASE Next
  <2>1. PICK t \in Threads : Client(t) \/ Step(t)
    BY <1>2 DEF Next
  <2>2. CASE Client(t)
    BY <2>2, BeginKeeps, ConstructKeeps, ReleaseKeeps, DisableKeeps DEF Client
  <2>3. CASE \/ LockObserver(t) \/ Deactivate(t)
             \/ \E h \in Observables : JoinInsert(t, h) \/ LeaveErase(t, h)
             \/ JoinConnect(t) \/ JoinEnd(t) \/ RegisterAll(t)
    BY <2>3, LockObserverKeeps, DeactivateKeeps, JoinInsertKeeps, LeaveEraseKeeps,
       JoinConnectKeeps, JoinEndKeeps, RegisterAllKeeps
  <2>4. CASE \/ LeaveTest(t) \/ LeaveSettings(t) \/ LeaveDisconnect(t) \/ LeaveEnd(t)
             \/ AssignCopy(t)
    BY <2>4, LeaveTestKeeps, LeaveSettingsKeeps, LeaveDisconnectKeeps, LeaveEndKeeps, AssignKeeps
  <2>5. CASE \/ NotifyTest(t) \/ NotifySettings(t) \/ EnableLock(t) \/ LoopEnd(t)
             \/ \E c \in Observers \X (1..MaxConnections) : CallProxy(t, c)
    BY <2>5, NotifyTestKeeps, NotifySettingsKeeps, EnableLockKeeps, LoopEndKeeps, CallProxyKeeps
  <2>6. CASE ProxyLock(t) \/ ProxyWeak(t) \/ Body(t) \/ ProxyUnlock(t)
    BY <2>6, ProxyLockKeeps, ProxyWeakKeeps, BodyKeeps, ProxyUnlockKeeps
  <2> QED
    BY <2>1, <2>2, <2>3, <2>4, <2>5, <2>6 DEF Step
<1> QED
  BY <1>1, <1>2

\* The invariant holds of every behaviour with one worker.
LEMMA AlwaysInv == ASSUME NEW w \in Threads, OneWorker(w) PROVE Spec => []Inv(w)
<1>1. Init => Inv(w)
  BY InitInv
<1>2. Inv(w) /\ [Next]_vars => Inv(w)'
  BY NextInv
<1> QED
  BY <1>1, <1>2, PTL DEF Spec

-----------------------------------------------------------------------------
(* The theorems.                                                           *)

\* A proxy runs update() only on observers that are alive, and looks only into
\* memory that has not been freed, whatever the collectors destroy meanwhile
\* (Observer::Proxy::update and deactivate, observable.hpp:359-378).
THEOREM UpdatesReachTheLiving ==
    ASSUME NEW w \in Threads, OneWorker(w) PROVE Spec => []UpdatesLiveObjects
<1>1. ASSUME Inv(w) PROVE UpdatesLiveObjects
  <2>1. \A o \in Observers : active[o] => life[o] \in {"new", "alive", "dying"}
    BY <1>1 DEF Inv, LifeInv
  <2>2. ASSUME NEW t \in Threads, NEW f \in Frames(t), f.op = "proxy"
        PROVE  /\ f.at = "weak" => life[f.o] # "freed"
               /\ f.at = "body" => life[f.o] = "alive"
    <3>1. PICK i \in DOMAIN stack[t] : f = stack[t][i]
      BY <2>2 DEF Frames
    <3>2. i \in 1..Len(stack[t]) /\ GoodFrame(f)
      BY <1>1, <3>1, ThreadFacts DEF Inv
    <3>3. LiveFrame(f, life, owned, active) /\ f.o \in Observers
      BY <1>1, <2>2, <3>1, <3>2 DEF Inv, LifeInv, GoodFrame
    <3> QED
      BY <2>1, <2>2, <3>3 DEF LiveFrame
  <2> QED
    BY <2>1, <2>2 DEF UpdatesLiveObjects
<1> QED
  BY <1>1, AlwaysInv, PTL

\* An observer that is neither being worked on nor half way through its life is
\* on the list and on the signal of exactly the observables it watches, although
\* insertion and connection, and their undoing, are separate steps
\* (Observable::registerObserver and unregisterObserver, observable.hpp:547-599).
THEOREM ListsAndSignalsAgree ==
    ASSUME NEW w \in Threads, OneWorker(w) PROVE Spec => []RegistrationsAgree
<1>1. ASSUME Inv(w) PROVE RegistrationsAgree
  <2> SUFFICES ASSUME NEW o \in Observers, NEW h \in Observables, ~InUse(o),
                      life[o] \in {"unborn", "alive", "freed"}
               PROVE  /\ o \in observers[h] <=> h \in observables[o]
                      /\ Connections(h, o) # {} <=> h \in observables[o]
    BY DEF RegistrationsAgree
  <2>1. Works(stack[w]) => stack[w][1].o # o
    <3> SUFFICES ASSUME Works(stack[w]), stack[w][1].o = o PROVE FALSE
      OBVIOUS
    <3>1. /\ Top(w) = stack[w][1] /\ LiveFrame(Top(w), life, owned, active)
          /\ 1 \in DOMAIN stack[w]
      BY <1>1, TopFacts, ThreadFacts DEF Works, Inv
    <3>2. stack[w][1].op # "destroy"
      BY <3>1 DEF LiveFrame
    <3>3. stack[w][1] \in Frames(w)
      BY <3>1 DEF Frames
    <3> QED
      BY <3>2, <3>3 DEF Works, Single, MemberFunctions, InUse
  <2>2. Linked(o, h, observables[o], observers, slots)
    BY <1>1, <2>1, NobodyWorks
  <2> QED
    BY <2>2 DEF Linked, Connections
<1> QED
  BY <1>1, AlwaysInv, PTL

\* Whenever the settings are not locked, what an observer is owed is on the list
\* of deferred updates: enableUpdates has told everybody, also when update()
\* throws, destroys observers or notifies others
\* (ObservableSettings::enableUpdates, observable.hpp:472-501).  The hypothesis on
\* clients is needed: unregisterObserver takes an observer that leaves one
\* observable off the list of deferred updates altogether (547-552).
THEOREM DeferralsAreKept ==
    ASSUME NEW w \in Threads, OneWorker(w), ~MayDropSome PROVE Spec => []NoLostDeferral
<1>1. ASSUME Inv(w) PROVE NoLostDeferral
  <2> SUFFICES ASSUME \A t \in Threads : Settings \notin Held(t), NEW o \in Observers,
                      owed[o] # {}, ~InUse(o)
               PROVE  o \in deferredObservers /\ updatesType # "enabled"
    BY DEF NoLostDeferral
  <2>1. Told(stack[w], deferredObservers, updatesType, o)
    BY <1>1 DEF Inv, OwedInv
  <2>2. /\ Len(stack[w]) \in Nat /\ DOMAIN stack[w] = 1..Len(stack[w])
        /\ \A i \in 1..Len(stack[w]) : GoodFrame(stack[w][i])
        /\ stack[w] # <<>> => 1 \in 1..Len(stack[w]) /\ Len(stack[w]) >= 1
    BY <1>1, ThreadFacts DEF Inv
  <2>3. ~WillTell(stack[w], o)
    <3> SUFFICES ASSUME WillTell(stack[w], o) PROVE FALSE
      OBVIOUS
    <3>1. PICK f : f = stack[w][Len(stack[w])]
      OBVIOUS
    <3>2. stack[w] # <<>> /\ f.op = "enable" /\ f.at = "loop"
      BY <3>1 DEF WillTell
    <3>3. Len(stack[w]) \in 1..Len(stack[w])
      BY <2>2, <3>2
    <3>4. f.locks = {Settings}
      BY <2>2, <3>1, <3>2, <3>3 DEF GoodFrame, LocksOf
    <3>5. Settings \in Held(w)
      BY <2>2, <3>1, <3>3, <3>4 DEF Held, Frames
    <3> QED
      BY <3>5
  <2>4. ~(Runs(stack[w], "unregisterWithAll") /\ stack[w][1].o = o)
    <3> SUFFICES ASSUME Runs(stack[w], "unregisterWithAll"), stack[w][1].o = o PROVE FALSE
      OBVIOUS
    <3>1. stack[w][1] \in Frames(w)
      BY <2>2 DEF Frames, Runs
    <3> QED
      BY <3>1 DEF Runs, InUse, MemberFunctions
  <2> QED
    BY <2>1, <2>3, <2>4 DEF Told
<1> QED
  BY <1>1, AlwaysInv, PTL

\* A collector holds at most the mutex of the observer it destroys.
LEMMA CollectorHolds ==
    ASSUME NEW w \in Threads, NEW u \in Threads, u # w, Inv(w), NEW m \in Held(u)
    PROVE  /\ stack[u] # <<>> /\ Runs(stack[u], "destroy") /\ Top(u) = stack[u][1]
           /\ Top(u).o \in Observers /\ life[Top(u).o] = "dying" /\ m = ObserverMutex(Top(u).o)
<1>1. PICK f \in Frames(u) : m \in f.locks
  BY DEF Held
<1>2. PICK i \in DOMAIN stack[u] : f = stack[u][i]
  BY DEF Frames
<1>3. i \in 1..Len(stack[u]) /\ stack[u] # <<>>
  BY <1>2, ThreadFacts DEF Inv
<1>4. /\ Top(u) = stack[u][1] /\ Top(u).op = "destroy" /\ Len(stack[u]) = 1
      /\ GoodFrame(Top(u))
  BY <1>3, ThreadFacts DEF Inv
<1>5. f = Top(u)
  BY <1>2, <1>3, <1>4
<1>6. Top(u).o \in Observers /\ life[Top(u).o] = "dying"
  BY <1>3, <1>4, TopFacts DEF LiveFrame
<1>7. m = ObserverMutex(Top(u).o)
  BY <1>1, <1>4, <1>5 DEF GoodFrame, LocksOf
<1> QED
  BY <1>3, <1>4, <1>6, <1>7 DEF Runs

\* The mutex of an observer is wanted by its destructor, or by member functions
\* called through references to it.
LEMMA ObserverWanted ==
    ASSUME NEW w \in Threads, NEW t \in Threads, Inv(w), stack[t] # <<>>, NEW o \in Observers,
           life[o] = "dying", ObserverMutex(o) \in Wants(Top(t))
    PROVE  Runs(stack[t], "destroy") /\ Top(t) = stack[t][1] /\ Top(t).o = o
<1>1. /\ Top(t) = stack[t][1] /\ GoodFrame(Top(t)) /\ LiveFrame(Top(t), life, owned, active)
  BY TopFacts
<1>2. ~owned[o]
  BY DEF Inv, LifeInv
<1>3. /\ Top(t).at # "settings" /\ ~(Top(t).op = "enable" /\ Top(t).at = "lock")
      /\ ~(Top(t).op = "proxy" /\ Top(t).at = "lock") /\ Top(t).at # "deactivate"
  <2>1. ObserverMutex(o) # Settings /\ ObserverMutex(o) # ProxyMutex(Top(t).o)
    BY MutexFacts
  <2>2. Top(t).at # "settings"
    BY <2>1 DEF Wants, MemberFunctions
  <2>3. ~(Top(t).op = "enable" /\ Top(t).at = "lock")
    BY <2>1 DEF Wants, MemberFunctions
  <2>4. ~(Top(t).op = "proxy" /\ Top(t).at = "lock")
    BY <2>1 DEF Wants, MemberFunctions
  <2>5. Top(t).at # "deactivate"
    BY <2>1 DEF Wants, MemberFunctions
  <2> QED
    BY <2>2, <2>3, <2>4, <2>5
<1>4. CASE Top(t).at = "lock"
  <2>1. Top(t).op # "registerWithObservables"
    BY <1>1, <1>2, <1>3, <1>4, MutexFacts DEF Wants, LiveFrame
  <2>2. Top(t).op \in MemberFunctions \cup {"destroy"} /\ Top(t).o = o
    BY <1>3, <1>4, <2>1, MutexFacts DEF Wants
  <2>3. Top(t).op \notin MemberFunctions
    BY <1>1, <1>2, <2>2 DEF LiveFrame
  <2> QED
    BY <1>1, <2>2, <2>3 DEF Runs
<1>5. CASE Top(t).at # "lock"
  <2>1. Top(t).at = "copy" /\ Top(t).p = o
    BY <1>3, <1>5, MutexFacts DEF Wants
  <2>2. Top(t).op = "assign"
    BY <1>1, <2>1 DEF GoodFrame, PointsOf
  <2> QED
    BY <1>1, <1>2, <2>1, <2>2 DEF LiveFrame
<1> QED
  BY <1>4, <1>5

\* No threads wait for each other in a circle, and the worker never for itself:
\* it locks the settings again neither while it holds them nor for enableUpdates
\* (observable.hpp:365-378, 400-412, 479-501, 552-572, 605-625).
THEOREM NobodyDeadlocks ==
    ASSUME NEW w \in Threads, OneWorker(w) PROVE Spec => []NoDeadlock
<1>1. ASSUME Inv(w) PROVE NoDeadlock
  <2> SUFFICES ASSUME NEW D \in SUBSET Threads, D # {},
                      \A t \in D :
                         /\ stack[t] # <<>>
                         /\ \E m \in Wants(Top(t)), u \in D : m \in Held(u) /\ (u = t => m = Settings)
               PROVE  FALSE
    BY DEF NoDeadlock
  <2>1. w \in D
    <3> SUFFICES ASSUME w \notin D PROVE FALSE
      OBVIOUS
    <3>1. PICK t \in D : TRUE
      OBVIOUS
    <3>2. PICK m \in Wants(Top(t)), u \in D : m \in Held(u) /\ (u = t => m = Settings)
      OBVIOUS
    <3>3. t \in Threads /\ u \in Threads /\ u # w /\ stack[t] # <<>>
      OBVIOUS
    <3>4. /\ Runs(stack[u], "destroy") /\ Top(u) = stack[u][1] /\ Top(u).o \in Observers
          /\ life[Top(u).o] = "dying" /\ m = ObserverMutex(Top(u).o)
      BY <1>1, <3>2, <3>3, CollectorHolds
    <3>5. Runs(stack[t], "destroy") /\ Top(t) = stack[t][1] /\ Top(t).o = Top(u).o
      BY <1>1, <3>2, <3>3, <3>4, ObserverWanted
    <3>6. t = u
      BY <1>1, <3>3, <3>4, <3>5 DEF Inv, LifeInv
    <3> QED
      BY <3>2, <3>4, <3>6, MutexFacts
  <2>2. PICK m \in Wants(Top(w)), u \in D : m \in Held(u) /\ (u = w => m = Settings)
    BY <2>1
  <2>3. /\ stack[w] # <<>> /\ Top(w) = stack[w][1] /\ GoodFrame(Top(w))
        /\ SetFrame(Top(w), updatesType) /\ DOMAIN stack[w] = 1..Len(stack[w])
        /\ 1 \in 1..Len(stack[w])
    BY <1>1, <2>1, TopFacts, ThreadFacts DEF Inv
  <2>4. CASE u # w
    <3>1. /\ Runs(stack[u], "destroy") /\ Top(u) = stack[u][1] /\ Top(u).o \in Observers
          /\ life[Top(u).o] = "dying" /\ m = ObserverMutex(Top(u).o)
      BY <1>1, <2>2, <2>4, CollectorHolds
    <3>2. Runs(stack[w], "destroy") /\ Top(w).o = Top(u).o
      BY <1>1, <2>2, <2>3, <3>1, ObserverWanted
    <3> QED
      BY <1>1, <2>3, <2>4, <3>1, <3>2 DEF Inv, LifeInv
  <2>5. CASE u = w
    <3>1. m = Settings /\ Settings \in Held(w)
      BY <2>2, <2>5
    <3>2. PICK f \in Frames(w) : Settings \in f.locks
      BY <3>1 DEF Held
    <3>3. PICK i \in 1..Len(stack[w]) : f = stack[w][i]
      BY <2>3, <3>2 DEF Frames
    <3>4. updatesType = "enabled"
      BY <1>1, <3>2, <3>3 DEF Inv, SettingsInv, SetFrame
    <3>5. Top(w).at # "settings"
      BY <2>3, <3>4 DEF SetFrame
    <3>6. Top(w).op = "enable" /\ Top(w).at = "lock"
      BY <2>2, <3>1, <3>5, MutexFacts DEF Wants
    <3>7. Top(w).locks = {}
      BY <2>3, <3>6 DEF GoodFrame, LocksOf
    <3>8. Len(stack[w]) = 1
      BY <1>1, <2>3, <3>6, EnableAlone
    <3>9. f = Top(w)
      BY <2>3, <3>3, <3>8
    <3> QED
      BY <3>2, <3>7, <3>9
  <2> QED
    BY <2>4, <2>5
<1> QED
  BY <1>1, AlwaysInv, PTL
=============================================================================
