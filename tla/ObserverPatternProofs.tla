----------------------- MODULE ObserverPatternProofs -----------------------
(***************************************************************************)
(* Proofs about ObserverPattern, for any sets of observers and observables.*)
(* The types and the agreement of registrations need nothing of the        *)
(* client; what is said of deferred notifications needs a disciplined one. *)
(***************************************************************************)
EXTENDS ObserverPattern, TLAPS

\* The settings flags never contradict each other and every variable keeps its
\* type, whatever the client calls (observable.hpp:55-81).
THEOREM TypeCorrect == Spec => []TypeOK
<1>1. Init => TypeOK
  BY DEF Init, TypeOK
<1>2. TypeOK /\ [Next]_vars => TypeOK'
  <2> SUFFICES ASSUME TypeOK, [Next]_vars PROVE TypeOK'
    OBVIOUS
  <2> USE DEF TypeOK
  <2>1. CASE Register
    <3> USE <2>1 DEF settings, running, Moved, DeferredAfterUnregister, OwedWithout
    <3>0. PICK o \in Observers :
            \/ Construct(o)
            \/ \E p \in Observers :
                  CopyConstruct(o, p) \/ Assign(o, p) \/ registerWithObservables(o, p)
            \/ \E h \in Observables : registerWith(o, h) \/ unregisterWith(o, h)
            \/ unregisterWithAll(o)
            \/ Destroy(o)
      BY DEF Register
    <3>1. CASE Construct(o)
      BY <3>1 DEF Construct, Register
    <3>2. ASSUME NEW p \in Observers, CopyConstruct(o, p) PROVE TypeOK'
      BY <3>2 DEF CopyConstruct, Register
    <3>3. ASSUME NEW p \in Observers, Assign(o, p) PROVE TypeOK'
      BY <3>3 DEF Assign, Register
    <3>4. ASSUME NEW p \in Observers, registerWithObservables(o, p) PROVE TypeOK'
      BY <3>4 DEF registerWithObservables, Register
    <3>5. ASSUME NEW h \in Observables, registerWith(o, h) PROVE TypeOK'
      BY <3>5 DEF registerWith, Register
    <3>6. ASSUME NEW h \in Observables, unregisterWith(o, h) PROVE TypeOK'
      BY <3>6 DEF unregisterWith, Register
    <3>7. CASE unregisterWithAll(o)
      BY <3>7 DEF unregisterWithAll, Register
    <3>8. CASE Destroy(o)
      BY <3>8 DEF Destroy, Register
    <3> QED
      BY <3>0, <3>1, <3>2, <3>3, <3>4, <3>5, <3>6, <3>7, <3>8
  <2>2. ASSUME NEW deferred \in BOOLEAN, disableUpdates(deferred) PROVE TypeOK'
    BY <2>2 DEF disableUpdates, registrations, running
  <2>3. CASE enableUpdates
    BY <2>3 DEF enableUpdates, StartLoop, registrations, running
  <2>4. ASSUME NEW h \in Observables, notifyObservers(h) PROVE TypeOK'
    BY <2>4 DEF notifyObservers, registerDeferredObservers, StartLoop,
                registrations, settings, running
  <2>5. ASSUME NEW h \in Observables, NEW k \in Observables, AssignObservable(h, k)
        PROVE  TypeOK'
    BY <2>4, <2>5 DEF AssignObservable
  <2>6. ASSUME NEW o \in Observers, NEW D \in SUBSET Observers, Update(o, D)
        PROVE  TypeOK'
    BY <2>6 DEF Update, OwedWithout, settings
  <2>7. CASE EndLoop
    BY <2>7 DEF EndLoop, registrations, settings
  <2>8. CASE UNCHANGED vars
    BY <2>8 DEF vars, registrations, settings, running
  <2> QED
    BY <2>1, <2>2, <2>3, <2>4, <2>5, <2>6, <2>7, <2>8 DEF Next
<1> QED
  BY <1>1, <1>2, PTL DEF Spec

\* The registration operations keep the two sides of a registration together.
LEMMA RegisterAgrees ==
    ASSUME TypeOK, RegistrationsAgree, Register
    PROVE  RegistrationsAgree'
<1> USE DEF TypeOK, RegistrationsAgree
<1>0. PICK o \in Observers :
        \/ Construct(o)
        \/ \E p \in Observers :
              CopyConstruct(o, p) \/ Assign(o, p) \/ registerWithObservables(o, p)
        \/ \E h \in Observables : registerWith(o, h) \/ unregisterWith(o, h)
        \/ unregisterWithAll(o)
        \/ Destroy(o)
  BY DEF Register
<1>1. CASE Construct(o)
  BY <1>1 DEF Construct
<1>2. ASSUME NEW p \in Observers, CopyConstruct(o, p) PROVE RegistrationsAgree'
  BY <1>2 DEF CopyConstruct, Moved
<1>3. ASSUME NEW p \in Observers, Assign(o, p) PROVE RegistrationsAgree'
  BY <1>3 DEF Assign, Moved
<1>4. ASSUME NEW p \in Observers, registerWithObservables(o, p)
      PROVE  RegistrationsAgree'
  BY <1>4 DEF registerWithObservables, Moved
<1>5. ASSUME NEW h \in Observables, registerWith(o, h) PROVE RegistrationsAgree'
  BY <1>5 DEF registerWith, Moved
<1>6. ASSUME NEW h \in Observables, unregisterWith(o, h) PROVE RegistrationsAgree'
  BY <1>6 DEF unregisterWith, Moved
<1>7. CASE unregisterWithAll(o)
  BY <1>7 DEF unregisterWithAll, Moved
<1>8. CASE Destroy(o)
  BY <1>8 DEF Destroy, Moved
<1> QED
  BY <1>0, <1>1, <1>2, <1>3, <1>4, <1>5, <1>6, <1>7, <1>8

\* No observable ever holds the address of an observer that does not watch it:
\* copies, assignments, destruction and destruction from within an update()
\* included, for every client (observable.hpp:207-217, 251-301).
THEOREM RegistrationsAlwaysAgree == Spec => []RegistrationsAgree
<1>1. Init => RegistrationsAgree
  BY DEF Init, RegistrationsAgree
<1>2. TypeOK /\ RegistrationsAgree /\ [Next]_vars => RegistrationsAgree'
  <2> SUFFICES ASSUME TypeOK, RegistrationsAgree, [Next]_vars
               PROVE  RegistrationsAgree'
    OBVIOUS
  <2>1. ASSUME UNCHANGED registrations PROVE RegistrationsAgree'
    BY <2>1 DEF registrations, RegistrationsAgree
  <2>2. CASE Register
    BY <2>2, RegisterAgrees
  <2>3. ASSUME NEW o \in Observers, NEW D \in SUBSET Observers, Update(o, D)
        PROVE  RegistrationsAgree'
    BY <2>3 DEF Update, TypeOK, RegistrationsAgree
  <2>4. ASSUME NEW deferred \in BOOLEAN, disableUpdates(deferred)
        PROVE  UNCHANGED registrations
    BY <2>4 DEF disableUpdates
  <2>5. CASE enableUpdates
    BY <2>1, <2>5 DEF enableUpdates
  <2>6. ASSUME NEW h \in Observables, notifyObservers(h)
        PROVE  UNCHANGED registrations
    BY <2>6 DEF notifyObservers
  <2>7. ASSUME NEW h \in Observables, NEW k \in Observables, AssignObservable(h, k)
        PROVE  UNCHANGED registrations
    BY <2>6, <2>7 DEF AssignObservable
  <2>8. CASE EndLoop
    BY <2>1, <2>8 DEF EndLoop
  <2>9. CASE UNCHANGED vars
    BY <2>1, <2>9 DEF vars
  <2> QED
    BY <2>1, <2>2, <2>3, <2>4, <2>5, <2>6, <2>7, <2>8, <2>9 DEF Next
<1> QED
  BY <1>1, <1>2, TypeCorrect, PTL DEF Spec

-----------------------------------------------------------------------------
(* Deferred notifications, for a client that does not downgrade deferred   *)
(* updates to disabled ones, does not leave single observables while       *)
(* updates are deferred, and whose update() destroys no other observer     *)
(* when run by enableUpdates.  None of the three can be dropped: with any  *)
(* one of the flags set in ObserverPattern.cfg TLC finds a counterexample. *)

Disciplined == ~MayDowngrade /\ ~MayDropSome /\ ~MayDestroyInEnable

\* The inductive invariant.  Outside enableUpdates an observer waits in
\* deferredObservers exactly when it is owed something by an observable it
\* still watches, and that happens only while updates are deferred; a running
\* loop, with updates enabled, still has ahead of it everyone it must reach.
OwedIsWatched == \A o \in Observers : owed[o] \subseteq observables[o]
DeferredIsOwed ==
    \A o \in Observers : o \in deferredObservers \ visited <=> owed[o] # {}
DeferredOnlyWhileDeferring ==
    deferredObservers # {} => updatesDeferred \/ loop = "enable"
LoopReachesDue ==
    IF loop = "none" THEN due = {} /\ visited = {}
                     ELSE updatesEnabled /\ due \subseteq Pending
DInv == OwedIsWatched /\ DeferredIsOwed /\ DeferredOnlyWhileDeferring /\ LoopReachesDue

\* What the inductive invariant gives: the three properties of the runs.
LEMMA DInvSuffices ==
    ASSUME TypeOK, RegistrationsAgree, DInv
    PROVE  NoUnregisteredUpdate /\ NoLostDeferral /\ EveryoneReached
<1> USE DEF TypeOK, DInv, DeferredIsOwed
<1>1. NoLostDeferral
  BY DEF NoLostDeferral
<1>2. EveryoneReached
  BY DEF EveryoneReached, LoopReachesDue, DeferredOnlyWhileDeferring
<1>3. NoUnregisteredUpdate
  <2>1. CASE loop = "notify"
    BY <2>1 DEF NoUnregisteredUpdate, Pending, Iterated, RegistrationsAgree
  <2>2. CASE loop # "notify"
    BY <2>2 DEF NoUnregisteredUpdate, OwedIsWatched, RegistrationsAgree
  <2> QED
    BY <2>1, <2>2
<1> QED
  BY <1>1, <1>2, <1>3

\* Every registration operation keeps the invariant: whoever leaves an
\* observable while updates are deferred leaves all of them.
LEMMA RegisterKeepsDInv ==
    ASSUME TypeOK, RegistrationsAgree, DInv, Disciplined, Register
    PROVE  DInv'
<1> USE DEF TypeOK, DInv, OwedIsWatched, DeferredIsOwed, DeferredOnlyWhileDeferring,
            LoopReachesDue, Disciplined, settings, running
<1>0. PICK o \in Observers :
        \/ Construct(o)
        \/ \E p \in Observers :
              CopyConstruct(o, p) \/ Assign(o, p) \/ registerWithObservables(o, p)
        \/ \E h \in Observables : registerWith(o, h) \/ unregisterWith(o, h)
        \/ unregisterWithAll(o)
        \/ Destroy(o)
  BY DEF Register
<1>a. /\ loop = "none" /\ loop' = loop /\ visited = {} /\ visited' = {}
      /\ due' = due /\ due = {} /\ updatesDeferred' = updatesDeferred
  BY DEF Register
<1>b. ~updatesDeferred => deferredObservers = {} /\ \A p \in Observers : owed[p] = {}
  BY <1>a
<1>1. CASE Construct(o)
  BY <1>1, <1>a DEF Construct
<1>2. ASSUME NEW p \in Observers, CopyConstruct(o, p) PROVE DInv'
  BY <1>2, <1>a DEF CopyConstruct, RegistrationsAgree
<1>3. ASSUME NEW p \in Observers, Assign(o, p) PROVE DInv'
  BY <1>3, <1>a, <1>b DEF Assign, DeferredAfterUnregister, OwedWithout
<1>4. ASSUME NEW p \in Observers, registerWithObservables(o, p) PROVE DInv'
  BY <1>4, <1>a DEF registerWithObservables
<1>5. ASSUME NEW h \in Observables, registerWith(o, h) PROVE DInv'
  BY <1>5, <1>a DEF registerWith
<1>6. ASSUME NEW h \in Observables, unregisterWith(o, h) PROVE DInv'
  BY <1>6, <1>a, <1>b DEF unregisterWith, DeferredAfterUnregister, OwedWithout
<1>7. CASE unregisterWithAll(o)
  BY <1>7, <1>a, <1>b DEF unregisterWithAll, DeferredAfterUnregister, OwedWithout
<1>8. CASE Destroy(o)
  BY <1>8, <1>a, <1>b DEF Destroy, DeferredAfterUnregister, OwedWithout
<1> QED
  BY <1>0, <1>1, <1>2, <1>3, <1>4, <1>5, <1>6, <1>7, <1>8

\* For a disciplined client, deferred notifications work as the settings class
\* promises: nobody is updated who is not there or watches nothing, no deferred
\* change is lost, and every loop reaches everyone although update() may throw
\* or, in notifyObservers, destroy other observers (observable.hpp:157-248).
THEOREM DeferredNotificationsSound ==
    ASSUME Disciplined
    PROVE  Spec => [](NoUnregisteredUpdate /\ NoLostDeferral /\ EveryoneReached)
<1>1. Init => DInv
  BY DEF Init, DInv, OwedIsWatched, DeferredIsOwed, DeferredOnlyWhileDeferring,
         LoopReachesDue
<1>2. TypeOK /\ RegistrationsAgree /\ DInv /\ [Next]_vars => DInv'
  <2> SUFFICES ASSUME TypeOK, RegistrationsAgree, DInv, [Next]_vars PROVE DInv'
    OBVIOUS
  <2>1. CASE Register
    BY <2>1, RegisterKeepsDInv
  <2> USE DEF TypeOK, DInv, OwedIsWatched, DeferredIsOwed,
              DeferredOnlyWhileDeferring, LoopReachesDue, Pending, Iterated
  <2>2. ASSUME NEW deferred \in BOOLEAN, disableUpdates(deferred) PROVE DInv'
    BY <2>2 DEF disableUpdates, registrations, running, Disciplined
  <2>3. CASE enableUpdates
    BY <2>3 DEF enableUpdates, StartLoop, registrations, running
  <2>4. ASSUME NEW h \in Observables, notifyObservers(h) PROVE DInv'
    <3>1. CASE updatesEnabled
      BY <2>4, <3>1 DEF notifyObservers, StartLoop, registrations, settings, running
    <3>2. CASE ~updatesEnabled
      BY <2>4, <3>2 DEF notifyObservers, registerDeferredObservers, registrations,
                        settings, running, RegistrationsAgree
    <3> QED
      BY <3>1, <3>2
  <2>5. ASSUME NEW h \in Observables, NEW k \in Observables, AssignObservable(h, k)
        PROVE  DInv'
    BY <2>4, <2>5 DEF AssignObservable
  <2>6. ASSUME NEW o \in Observers, NEW D \in SUBSET Observers, Update(o, D)
        PROVE  DInv'
    <3>1. CASE loop = "notify"
      BY <2>6, <3>1 DEF Update, OwedWithout, settings
    <3>2. CASE loop = "enable"
      BY <2>6, <3>2 DEF Update, OwedWithout, settings, Disciplined
    <3> QED
      BY <2>6, <3>1, <3>2 DEF Update
  <2>7. CASE EndLoop
    BY <2>7 DEF EndLoop, registrations, settings
  <2>8. CASE UNCHANGED vars
    BY <2>8 DEF vars, registrations, settings, running
  <2> QED
    BY <2>1, <2>2, <2>3, <2>4, <2>5, <2>6, <2>7, <2>8 DEF Next
<1>3. TypeOK /\ RegistrationsAgree /\ DInv
        => NoUnregisteredUpdate /\ NoLostDeferral /\ EveryoneReached
  BY DInvSuffices
<1> QED
  BY <1>1, <1>2, <1>3, TypeCorrect, RegistrationsAlwaysAgree, PTL DEF Spec

\* Nobody is updated who is not alive or is registered with nothing, not even
\* when the loop over deferred observers runs (observable.hpp:157-248).
THEOREM NobodyUnregisteredUpdated == ASSUME Disciplined PROVE Spec => []NoUnregisteredUpdate
  BY DeferredNotificationsSound, PTL

\* A notification loop reaches every observer it must, although update() may
\* throw or, in notifyObservers, destroy others (observable.hpp:209-248).
THEOREM LoopsReachEveryone == ASSUME Disciplined PROVE Spec => []EveryoneReached
  BY DeferredNotificationsSound, PTL
=============================================================================
