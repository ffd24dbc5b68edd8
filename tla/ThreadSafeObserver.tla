------------------------- MODULE ThreadSafeObserver -------------------------
(***************************************************************************)
(* The thread-safe build of the observer pattern                           *)
(* (QL_ENABLE_THREAD_SAFE_OBSERVER_PATTERN):                               *)
(* QuantLib/ql/patterns/observable.hpp, lines 304-662.                     *)
(*                                                                         *)
(* An observable no longer calls its observers through raw pointers but    *)
(* through proxies, connected to a boost::signals2 signal.  A proxy holds  *)
(* its mutex while update() runs and the destructor of the observer        *)
(* deactivates it first.  (The proxy is created by the first registration; *)
(* the model has it from the start.)  Every observer is owned by shared    *)
(* pointers, as in the use the build is made for: a collector thread drops *)
(* the last reference while other threads work.                            *)
(*                                                                         *)
(* Each thread has a call stack, top first; the mutexes it holds are those *)
(* in its frames.  The mutex of an observable is only held around one      *)
(* access to observers_ and is left out, that access being one step; so    *)
(* are the mutexes inside the signal.                                      *)
(***************************************************************************)
EXTENDS Naturals, Sequences

CONSTANTS
    Threads,
    Observers,
    Observables,
    Operations, \* Operations[t]: what client code does on thread t
    MayWatch,   \* MayWatch[o]: the observables o may be registered with
    Forward,    \* Forward[o]: the observable that update() of o notifies
    None,       \* no observable
    MayThrow,   \* update() may throw
    MayDropSome, \* an observer may leave one of its observables, or be assigned
                 \* to, while updates are deferred
    MaxConnections \* connections of one proxy to one signal that are told apart

ASSUME ClientAssumption ==
    /\ None \notin Observers \cup Observables
    /\ MayWatch \in [Observers -> SUBSET Observables]
    /\ Forward \in [Observers -> Observables \cup {None}]
    /\ MayThrow \in BOOLEAN /\ MayDropSome \in BOOLEAN
    /\ MaxConnections \in Nat \ {0}

VARIABLES
    life,              \* of an observer: "unborn", "new" (in its constructor),
                       \* "alive", "dying" (in its destructor) or "freed"
    owned,             \* client code holds a reference to the observer
    active,            \* Observer::Proxy::active_
    observables,       \* Observer::observables_
    observers,         \* Observable::observers_, proxies named by observer
    slots,             \* connections to Observable::sig_, each of a proxy: a
                       \* proxy that is registered again is connected again
    updatesType,       \* ObservableSettings::updatesType_
    deferredObservers, \* ObservableSettings::deferredObservers_
    stack,             \* call stack of each thread
    thrown,            \* threads with an exception on its way up
    owed               \* history: owed[o], the observables that notified while
                       \* updates were deferred, of which o has not been told

registrations == <<observables, observers, slots>>
settings == <<updatesType, deferredObservers>>
vars == <<life, owned, active, registrations, settings, stack, thrown, owed>>

-----------------------------------------------------------------------------
Settings == <<"settings">>
ObserverMutex(o) == <<"observer", o>>
ProxyMutex(o) == <<"proxy", o>>

\* An activation of operation op, at a point of it: for observers o and p and
\* observable h, with observers or observables left to go over.
Frame(op, at) ==
    [op |-> op, at |-> at, o |-> None, p |-> None, h |-> None, left |-> {},
     locks |-> {}, threw |-> FALSE]

Top(t) == stack[t][1]
At(t, ops, at) == stack[t] # <<>> /\ Top(t).op \in ops /\ Top(t).at = at
Frames(t) == {stack[t][i] : i \in DOMAIN stack[t]}
Held(t) == UNION {f.locks : f \in Frames(t)}

\* Mutexes are recursive, but for that of the settings.
Free(t, m) ==
    /\ \A u \in Threads \ {t} : m \notin Held(u)
    /\ m = Settings => m \notin Held(t)

Become(t, f) == stack' = [stack EXCEPT ![t] = <<f>> \o Tail(@)]
Call(t, callee, f) == stack' = [stack EXCEPT ![t] = <<callee, f>> \o Tail(@)]
Return(t) == stack' = [stack EXCEPT ![t] = Tail(@)]

Joins == {"construct", "registerWith", "assign"}
Leaves == {"unregisterWith", "unregisterWithAll", "assign", "destroy"}
MemberFunctions == {"registerWith", "registerWithObservables", "unregisterWith",
                    "unregisterWithAll", "assign"}

Connections(h, o) == {c \in slots[h] : c[1] = o}

\* Some thread runs a member function of o, or one with o as argument; it holds
\* a reference of its own.
InUse(o) ==
    \E t \in Threads : \E f \in Frames(t) :
        f.op \in MemberFunctions \cup {"construct"} /\ o \in {f.o, f.p}
\* The proxy of o runs update(), in frame f, with a reference of its own.
IsBody(f, o) == f.op = "proxy" /\ f.o = o /\ f.at = "body"
Updating(o) == \E t \in Threads : \E f \in Frames(t) : IsBody(f, o)

-----------------------------------------------------------------------------
(* Client calls.                                                           *)

Start(t, op, f) ==
    /\ op \in Operations[t]
    /\ stack[t] = <<>>
    /\ stack' = [stack EXCEPT ![t] = <<f>>]

\* What clients do, not what the code checks: leave one observable, or change
\* those they have for others, while updates are deferred.
MayLeaveNow == updatesType = "deferred" => MayDropSome

\* Calls of member functions.
Begin(t) ==
    /\ \/ \E o \in Observers, h \in Observables :
             /\ owned[o]
             /\ \/ /\ h \in MayWatch[o]
                   /\ Start(t, "registerWith",
                            [Frame("registerWith", "lock") EXCEPT !.o = o, !.left = {h}])
                \/ /\ MayLeaveNow
                   /\ Start(t, "unregisterWith",
                            [Frame("unregisterWith", "lock") EXCEPT !.o = o, !.left = {h}])
                \/ Start(t, "unregisterWithAll",
                         [Frame("unregisterWithAll", "lock") EXCEPT !.o = o])
       \/ \E o, p \in Observers :
             /\ owned[o] /\ owned[p] /\ observables[p] \subseteq MayWatch[o]
             /\ \/ Start(t, "registerWithObservables",
                         [Frame("registerWithObservables", "lock") EXCEPT !.o = o, !.p = p])
                \/ /\ MayLeaveNow
                   /\ Start(t, "assign", [Frame("assign", "lock") EXCEPT !.o = o, !.p = p])
       \/ \E h \in Observables :
             Start(t, "notifyObservers", [Frame("notify", "test") EXCEPT !.h = h])
       \/ Start(t, "enableUpdates", Frame("enable", "lock"))
    /\ UNCHANGED <<life, owned, active, registrations, settings, thrown, owed>>

\* The constructor of o registers with the observables in H: those of another
\* observer if it is Observer(const Observer&), any that the constructor of a
\* derived class chooses otherwise.
Construct(t, o, H) ==
    /\ life[o] = "unborn"
    /\ H \subseteq MayWatch[o]
    /\ life' = [life EXCEPT ![o] = "new"]
    /\ active' = [active EXCEPT ![o] = TRUE]
    /\ Start(t, "construct", [Frame("construct", "join") EXCEPT !.o = o, !.left = H])
    /\ UNCHANGED <<owned, registrations, settings, thrown, owed>>

\* Client code drops its reference to o; the last one to go runs ~Observer.
Release(t, o) ==
    /\ owned[o] /\ ~InUse(o)
    /\ "release" \in Operations[t] /\ stack[t] = <<>>
    /\ owned' = [owned EXCEPT ![o] = FALSE]
    /\ IF Updating(o)
       THEN UNCHANGED <<life, owed, stack>>
       ELSE /\ life' = [life EXCEPT ![o] = "dying"]
            /\ owed' = [owed EXCEPT ![o] = {}]
            /\ stack' = [stack EXCEPT ![t] = <<[Frame("destroy", "lock") EXCEPT !.o = o]>>]
    /\ UNCHANGED <<active, registrations, settings, thrown>>

disableUpdates(t, deferred) ==
    /\ "disableUpdates" \in Operations[t] /\ stack[t] = <<>>
    /\ Free(t, Settings)
    /\ updatesType' = IF deferred THEN "deferred" ELSE "disabled"
    /\ UNCHANGED <<life, owned, active, registrations, deferredObservers, stack, thrown, owed>>

-----------------------------------------------------------------------------
(* Registration.  Joining and leaving are loops over the observables left. *)

\* Observer::registerWith, unregisterWith, unregisterWithAll, operator= and
\* ~Observer begin with locking the observer.
LockObserver(t) ==
    /\ At(t, MemberFunctions \ {"registerWithObservables"}, "lock") \/ At(t, {"destroy"}, "lock")
    /\ LET f == Top(t)
           next == CASE f.op = "registerWith" -> "join"
                     [] f.op = "destroy" -> "deactivate"
                     [] OTHER -> "leave"
           left == IF f.op \in {"registerWith", "unregisterWith"} THEN f.left
                                                                  ELSE observables[f.o]
       IN  /\ Free(t, ObserverMutex(f.o))
           /\ Become(t, [f EXCEPT !.at = next, !.left = left,
                                  !.locks = {ObserverMutex(f.o)}])
    /\ UNCHANGED <<life, owned, active, registrations, settings, thrown, owed>>

\* registerObserver puts the proxy into observers_ ...
JoinInsert(t, h) ==
    /\ At(t, Joins, "join")
    /\ h \in Top(t).left
    /\ observers' = [observers EXCEPT ![h] = @ \cup {Top(t).o}]
    /\ Become(t, [Top(t) EXCEPT !.at = "connect", !.h = h])
    /\ UNCHANGED <<life, owned, active, observables, slots, settings, thrown, owed>>

\* ... and then connects it to the signal, without asking whether it is.
JoinConnect(t) ==
    /\ At(t, Joins, "connect")
    /\ LET f == Top(t)
           n == CHOOSE k \in 1..MaxConnections :
                    /\ \A i \in 1..(k - 1) : <<f.o, i>> \in slots[f.h]
                    /\ k = MaxConnections \/ <<f.o, k>> \notin slots[f.h]
       IN  /\ slots' = [slots EXCEPT ![f.h] = @ \cup {<<f.o, n>>}]
           /\ observables' = [observables EXCEPT ![f.o] = @ \cup {f.h}]
           /\ Become(t, [f EXCEPT !.at = "join", !.left = @ \ {f.h}])
    /\ UNCHANGED <<life, owned, active, observers, settings, thrown, owed>>

\* After its constructor the observer belongs to a shared pointer.
JoinEnd(t) ==
    /\ At(t, Joins, "join")
    /\ Top(t).left = {}
    /\ IF Top(t).op = "construct"
       THEN /\ life' = [life EXCEPT ![Top(t).o] = "alive"]
            /\ owned' = [owned EXCEPT ![Top(t).o] = TRUE]
       ELSE UNCHANGED <<life, owned>>
    /\ Return(t)
    /\ UNCHANGED <<active, registrations, settings, thrown, owed>>

\* registerWithObservables holds the mutex of the other observer around its
\* calls of registerWith.
RegisterAll(t) ==
    /\ \/ /\ At(t, {"registerWithObservables"}, "lock")
          /\ Free(t, ObserverMutex(Top(t).p))
          /\ Become(t, [Top(t) EXCEPT !.at = "loop", !.left = observables[Top(t).p],
                                      !.locks = {ObserverMutex(Top(t).p)}])
       \/ /\ At(t, {"registerWithObservables"}, "loop")
          /\ \E h \in Top(t).left :
                Call(t, [Frame("registerWith", "lock") EXCEPT !.o = Top(t).o, !.left = {h}],
                     [Top(t) EXCEPT !.left = @ \ {h}])
       \/ At(t, {"registerWithObservables"}, "loop") /\ Top(t).left = {} /\ Return(t)
    /\ UNCHANGED <<life, owned, active, registrations, settings, thrown, owed>>

\* unregisterObserver takes the proxy out of observers_ ...
LeaveErase(t, h) ==
    /\ At(t, Leaves, "leave")
    /\ h \in Top(t).left
    /\ observers' = [observers EXCEPT ![h] = @ \ {Top(t).o}]
    /\ owed' = [owed EXCEPT ![Top(t).o] = @ \ {h}]
    /\ Become(t, [Top(t) EXCEPT !.at = "test", !.h = h])
    /\ UNCHANGED <<life, owned, active, observables, slots, settings, thrown>>

\* Mutant: the settings are locked without looking first.
LeaveTestBlindly(t) ==
    /\ At(t, Leaves, "test")
    /\ Become(t, [Top(t) EXCEPT !.at = "settings"])
    /\ UNCHANGED <<life, owned, active, registrations, settings, thrown, owed>>

\* ... looks whether updates are deferred ...
LeaveTest(t) ==
    /\ At(t, Leaves, "test")
    /\ Become(t, [Top(t) EXCEPT !.at = IF updatesType = "deferred" THEN "settings"
                                                                   ELSE "disconnect"])
    /\ UNCHANGED <<life, owned, active, registrations, settings, thrown, owed>>

\* ... and if so, looks again with the settings locked ...
LeaveSettings(t) ==
    /\ At(t, Leaves, "settings")
    /\ Free(t, Settings)
    /\ deferredObservers' = IF updatesType = "deferred" THEN deferredObservers \ {Top(t).o}
                                                        ELSE deferredObservers
    /\ Become(t, [Top(t) EXCEPT !.at = "disconnect"])
    /\ UNCHANGED <<life, owned, active, registrations, updatesType, thrown, owed>>

\* observables_ after h has been left.  operator= keeps it until the other
\* observer's takes its place, which matters when an observer is assigned to itself.
Forgets(f) == IF f.op = "assign" THEN observables[f.o] ELSE observables[f.o] \ {f.h}

\* Mutant: the proxy stays connected.
LeaveConnected(t) ==
    /\ At(t, Leaves, "disconnect")
    /\ LET f == Top(t)
       IN  /\ observables' = [observables EXCEPT ![f.o] = Forgets(f)]
           /\ Become(t, [f EXCEPT !.at = "leave", !.left = @ \ {f.h}])
    /\ UNCHANGED <<life, owned, active, observers, slots, settings, thrown, owed>>

\* ... and undoes every connection of the proxy.
LeaveDisconnect(t) ==
    /\ At(t, Leaves, "disconnect")
    /\ LET f == Top(t)
       IN  /\ slots' = [slots EXCEPT ![f.h] = @ \ Connections(f.h, f.o)]
           /\ observables' = [observables EXCEPT ![f.o] = Forgets(f)]
           /\ Become(t, [f EXCEPT !.at = "leave", !.left = @ \ {f.h}])
    /\ UNCHANGED <<life, owned, active, observers, settings, thrown, owed>>

\* operator= goes on with the observables of the other observer, copied under
\* its mutex; the destructor ends and the memory is freed.
LeaveEnd(t) ==
    /\ At(t, Leaves, "leave")
    /\ LET f == Top(t)
       IN  /\ f.left = {}
           /\ \/ /\ f.op = "assign"
                 /\ Become(t, [f EXCEPT !.at = "copy"])
                 /\ UNCHANGED life
              \/ /\ f.op = "destroy"
                 /\ life' = [life EXCEPT ![f.o] = "freed"]
                 /\ Return(t)
              \/ f.op \notin {"assign", "destroy"} /\ Return(t) /\ UNCHANGED life
    /\ UNCHANGED <<owned, active, registrations, settings, thrown, owed>>

AssignCopy(t) ==
    /\ At(t, {"assign"}, "copy")
    /\ LET f == Top(t)
       IN  /\ Free(t, ObserverMutex(f.p))
           /\ observables' = [observables EXCEPT ![f.o] = observables[f.p]]
           /\ Become(t, [f EXCEPT !.at = "join", !.left = observables[f.p]])
    /\ UNCHANGED <<life, owned, active, observers, slots, settings, thrown, owed>>

\* Mutant: the proxy is deactivated without its mutex.
DeactivateAtOnce(t) ==
    /\ At(t, {"destroy"}, "deactivate")
    /\ active' = [active EXCEPT ![Top(t).o] = FALSE]
    /\ Become(t, [Top(t) EXCEPT !.at = "leave"])
    /\ UNCHANGED <<life, owned, registrations, settings, thrown, owed>>

\* Proxy::deactivate, called by the destructor, waits for a running update.
Deactivate(t) ==
    /\ At(t, {"destroy"}, "deactivate")
    /\ Free(t, ProxyMutex(Top(t).o))
    /\ active' = [active EXCEPT ![Top(t).o] = FALSE]
    /\ Become(t, [Top(t) EXCEPT !.at = "leave"])
    /\ UNCHANGED <<life, owned, registrations, settings, thrown, owed>>

-----------------------------------------------------------------------------
(* Notification.                                                           *)

\* sig_(): the proxies connected now are called one after the other.
Emit(t, locks) ==
    Become(t, [Top(t) EXCEPT !.op = "emit", !.at = "loop", !.left = slots[Top(t).h],
                             !.locks = locks])

\* Observable::notifyObservers looks whether updates are enabled ...
NotifyTest(t) ==
    /\ At(t, {"notify"}, "test")
    /\ \/ updatesType = "enabled" /\ Emit(t, {})
       \/ updatesType # "enabled" /\ Become(t, [Top(t) EXCEPT !.at = "settings"])
    /\ UNCHANGED <<life, owned, active, registrations, settings, thrown, owed>>

\* ... and if not, looks again with the settings locked, and keeps them locked
\* while it calls the proxies or adds them to the deferred ones.
NotifySettings(t) ==
    /\ At(t, {"notify"}, "settings")
    /\ Free(t, Settings)
    /\ LET told == IF updatesType = "deferred" THEN observers[Top(t).h] ELSE {}
       IN  /\ deferredObservers' = deferredObservers \cup told
           /\ owed' = [o \in Observers |->
                          IF o \in told /\ life[o] \in {"new", "alive"}
                          THEN owed[o] \cup {Top(t).h} ELSE owed[o]]
    /\ IF updatesType = "enabled" THEN Emit(t, {Settings}) ELSE Return(t)
    /\ UNCHANGED <<life, owned, active, registrations, updatesType, thrown>>

\* enableUpdates keeps the settings locked while it calls the proxies.
EnableLock(t) ==
    /\ At(t, {"enable"}, "lock")
    /\ Free(t, Settings)
    /\ updatesType' = "enabled"
    /\ Become(t, [Top(t) EXCEPT !.at = "loop", !.left = deferredObservers \X {1},
                                !.locks = {Settings}])
    /\ UNCHANGED <<life, owned, active, registrations, deferredObservers, thrown, owed>>

\* One round of either loop, for connection c.  A proxy that is gone is passed
\* over, and by the signal also one that has been disconnected in the meantime.
\* enableUpdates has caught what the last proxy threw; the signal catches nothing.
CallProxy(t, c) ==
    /\ At(t, {"emit", "enable"}, "loop")
    /\ t \in thrown => Top(t).op = "enable"
    /\ c \in Top(t).left
    /\ thrown' = thrown \ {t}
    /\ LET rest == [Top(t) EXCEPT !.left = @ \ {c}]
       IN  IF life[c[1]] # "freed" /\ (Top(t).op = "emit" => c \in slots[Top(t).h])
           THEN Call(t, [Frame("proxy", "lock") EXCEPT !.o = c[1]], rest)
           ELSE Become(t, rest)
    /\ UNCHANGED <<life, owned, active, registrations, settings, owed>>

\* Mutant: the first exception ends enableUpdates.
LoopEndOnThrow(t) ==
    /\ At(t, {"emit", "enable"}, "loop")
    /\ Top(t).left = {} \/ t \in thrown
    /\ deferredObservers' = IF Top(t).op = "enable" THEN {} ELSE deferredObservers
    /\ thrown' = IF Tail(stack[t]) = <<>> THEN thrown \ {t} ELSE thrown
    /\ Return(t)
    /\ UNCHANGED <<life, owned, active, registrations, updatesType, owed>>

\* The end of either loop.
LoopEnd(t) ==
    /\ At(t, {"emit", "enable"}, "loop")
    /\ Top(t).left = {} \/ (t \in thrown /\ Top(t).op = "emit")
    /\ deferredObservers' = IF Top(t).op = "enable" THEN {} ELSE deferredObservers
    /\ thrown' = IF Tail(stack[t]) = <<>> THEN thrown \ {t} ELSE thrown
    /\ Return(t)
    /\ UNCHANGED <<life, owned, active, registrations, updatesType, owed>>

\* Proxy::update locks the proxy, does nothing if it is not active ...
ProxyLock(t) ==
    /\ At(t, {"proxy"}, "lock")
    /\ Free(t, ProxyMutex(Top(t).o))
    /\ IF active[Top(t).o]
       THEN Become(t, [Top(t) EXCEPT !.at = "weak", !.locks = {ProxyMutex(Top(t).o)}])
       ELSE Return(t)
    /\ UNCHANGED <<life, owned, active, registrations, settings, thrown, owed>>

\* ... and takes a reference to the observer; there is none to take when it is
\* being destroyed, and during its construction update() is called without.
ProxyWeak(t) ==
    /\ At(t, {"proxy"}, "weak")
    /\ LET o == Top(t).o
       IN  IF life[o] \in {"new", "alive"}
           THEN /\ Become(t, [Top(t) EXCEPT !.at = "body"])
                /\ owed' = [owed EXCEPT ![o] = {}]
           ELSE Return(t) /\ UNCHANGED owed
    /\ UNCHANGED <<life, owned, active, registrations, settings, thrown>>

\* update() of a derived class may pass the notification on, once, may throw,
\* and returns.
Body(t) ==
    /\ At(t, {"proxy"}, "body")
    /\ \/ /\ t \notin thrown
          /\ Top(t).left = {} /\ Forward[Top(t).o] # None
          /\ Call(t, [Frame("notify", "test") EXCEPT !.h = Forward[Top(t).o]],
                  [Top(t) EXCEPT !.left = {Forward[Top(t).o]}])
          /\ UNCHANGED <<life, thrown, owed>>
       \/ /\ MayThrow /\ t \notin thrown
          /\ thrown' = thrown \cup {t}
          /\ UNCHANGED <<life, stack, owed>>
       \/ \* The reference is dropped: if it was the last, ~Observer runs here.
          /\ thrown' = thrown \ {t}
          /\ LET o == Top(t).o
                 f == [Top(t) EXCEPT !.at = "unlock", !.threw = (t \in thrown)]
             IN  IF owned[o] \/ life[o] = "new"
                      \/ \E u \in Threads : \E i \in DOMAIN stack[u] :
                            /\ u = t => i # 1
                            /\ IsBody(stack[u][i], o)
                 THEN Become(t, f) /\ UNCHANGED <<life, owed>>
                 ELSE /\ life' = [life EXCEPT ![o] = "dying"]
                      /\ owed' = [owed EXCEPT ![o] = {}]
                      /\ Call(t, [Frame("destroy", "lock") EXCEPT !.o = o], f)
    /\ UNCHANGED <<owned, active, registrations, settings>>

ProxyUnlock(t) ==
    /\ At(t, {"proxy"}, "unlock")
    /\ thrown' = IF Top(t).threw THEN thrown \cup {t} ELSE thrown
    /\ Return(t)
    /\ UNCHANGED <<life, owned, active, registrations, settings, owed>>

-----------------------------------------------------------------------------
Init ==
    /\ life = [o \in Observers |-> "unborn"]
    /\ owned = [o \in Observers |-> FALSE]
    /\ active = [o \in Observers |-> FALSE]
    /\ observables = [o \in Observers |-> {}]
    /\ observers = [h \in Observables |-> {}]
    /\ slots = [h \in Observables |-> {}]
    /\ updatesType = "enabled"
    /\ deferredObservers = {}
    /\ stack = [t \in Threads |-> <<>>]
    /\ thrown = {}
    /\ owed = [o \in Observers |-> {}]

Client(t) ==
    \/ Begin(t)
    \/ \E o \in Observers, H \in SUBSET Observables : Construct(t, o, H)
    \/ \E o \in Observers : Release(t, o)
    \/ \E deferred \in BOOLEAN : disableUpdates(t, deferred)

Step(t) ==
    \/ LockObserver(t) \/ Deactivate(t)
    \/ \E h \in Observables : JoinInsert(t, h) \/ LeaveErase(t, h)
    \/ JoinConnect(t) \/ JoinEnd(t) \/ RegisterAll(t)
    \/ LeaveTest(t) \/ LeaveSettings(t) \/ LeaveDisconnect(t) \/ LeaveEnd(t) \/ AssignCopy(t)
    \/ NotifyTest(t) \/ NotifySettings(t) \/ EnableLock(t) \/ LoopEnd(t)
    \/ \E c \in Observers \X (1..MaxConnections) : CallProxy(t, c)
    \/ ProxyLock(t) \/ ProxyWeak(t) \/ Body(t) \/ ProxyUnlock(t)

Next == \E t \in Threads : Client(t) \/ Step(t)
Spec == Init /\ [][Next]_vars

-----------------------------------------------------------------------------
\* An update() never runs on an observer that is being constructed or destroyed,
\* a proxy never looks into the memory of one that is gone, and one that still
\* would, being active, belongs to an observer that is there
\* (observable.hpp:359-378, 608-611).
UpdatesLiveObjects ==
    /\ \A o \in Observers : active[o] => life[o] \in {"new", "alive", "dying"}
    /\ \A t \in Threads : \A f \in Frames(t) : f.op = "proxy" =>
          /\ f.at = "weak" => life[f.o] # "freed"
          /\ f.at = "body" => life[f.o] = "alive"

\* The mutex that the next step of frame f locks, if any.
Wants(f) ==
    CASE f.at = "settings" -> {Settings}
      [] f.op = "enable" /\ f.at = "lock" -> {Settings}
      [] f.op = "proxy" /\ f.at = "lock" -> {ProxyMutex(f.o)}
      [] f.op = "registerWithObservables" /\ f.at = "lock" -> {ObserverMutex(f.p)}
      [] f.op \in MemberFunctions \cup {"destroy"} /\ f.at = "lock" -> {ObserverMutex(f.o)}
      [] f.at = "deactivate" -> {ProxyMutex(f.o)}
      [] f.at = "copy" -> {ObserverMutex(f.p)}
      [] OTHER -> {}

\* No set of threads waits for each other, and none for itself: settings, proxies
\* and observers are locked in orders that differ from function to function.
NoDeadlock ==
    ~ \E D \in (SUBSET Threads) \ {{}} : \A t \in D :
          /\ stack[t] # <<>>
          /\ \E m \in Wants(Top(t)), u \in D : m \in Held(u) /\ (u = t => m = Settings)

\* A change announced while updates are deferred is kept until its observer has
\* been told, and none is left once enableUpdates is over, whatever is destroyed
\* meanwhile, whichever thread switches updates, and although update() may throw
\* (observable.hpp:472-501, 547-572).  It holds for clients that leave everything
\* or nothing while updates are deferred: who leaves one observable loses the
\* changes of the others (547-552), as in ObserverPattern.
NoLostDeferral ==
    (\A t \in Threads : Settings \notin Held(t)) =>
        \A o \in Observers : owed[o] # {} /\ ~InUse(o) =>
            o \in deferredObservers /\ updatesType # "enabled"

\* An observer nobody is working on is on the list of an observable, and
\* connected to its signal, exactly if it watches it.
RegistrationsAgree ==
    \A o \in Observers, h \in Observables :
        ~InUse(o) /\ life[o] \in {"unborn", "alive", "freed"} =>
            /\ o \in observers[h] <=> h \in observables[o]
            /\ Connections(h, o) # {} <=> h \in observables[o]
=============================================================================
