-------------------------- MODULE ObserverPattern --------------------------
(***************************************************************************)
(* QuantLib's observer pattern, single-threaded build:                     *)
(* QuantLib/ql/patterns/observable.hpp, lines 40-302.                      *)
(*                                                                         *)
(* An Observer keeps shared pointers to the Observables it watches; an     *)
(* Observable keeps raw pointers to its Observers; the ObservableSettings  *)
(* singleton can switch notification off, and can collect the raw pointers *)
(* of the observers whose notification is deferred.  The model tells       *)
(* observers apart by their address: an address whose observer has been    *)
(* destroyed may be given to a later one.                                  *)
(*                                                                         *)
(* Observables are never destroyed here: every registered observer shares  *)
(* their ownership, so one dies only when no observer watches it.          *)
(***************************************************************************)

CONSTANTS
    Observers,      \* addresses of Observer objects
    Observables,    \* Observable objects
    \* What the client code does.  Each flag admits calls that the class
    \* interface does not forbid.
    MayDowngrade,       \* disableUpdates(false) after disableUpdates(true)
    MayDropSome,        \* stop watching an observable, or assign, while
                        \* updates are deferred
    MayDestroyInEnable  \* an update() run by enableUpdates() destroys
                        \* another observer

ASSUME FlagsAssumption ==
    /\ MayDowngrade \in BOOLEAN
    /\ MayDropSome \in BOOLEAN
    /\ MayDestroyInEnable \in BOOLEAN

VARIABLES
    alive,              \* observers constructed and not yet destroyed
    observables,        \* Observer::observables_
    observers,          \* Observable::observers_
    updatesEnabled,     \* ObservableSettings::updatesEnabled_
    updatesDeferred,    \* ObservableSettings::updatesDeferred_
    deferredObservers,  \* ObservableSettings::deferredObservers_
    loop,               \* the loop over observers that is running, if any:
                        \* "none", "notify" or "enable"
    source,             \* the observable whose observers_ "notify" goes over
    visited,            \* the observers the loop has passed
    successful,         \* the loop's local flag
    raised,             \* the last loop ended with an exception
    owed,               \* history: owed[o], the observables that notified while
                        \* updates were deferred and that o, not yet told, has
                        \* been watching since
    due                 \* history: the observers the running loop must reach

registrations == <<alive, observables, observers>>
settings == <<updatesEnabled, updatesDeferred>>
running == <<loop, source, visited, successful, raised>>
vars == <<registrations, settings, deferredObservers, running, owed, due>>

-----------------------------------------------------------------------------
(* Registration.  Both sides are updated together; a null pointer makes    *)
(* these calls do nothing.                                                 *)

\* Mutant: leaving never forgets the pending notification.
KeepsDeferredPointer(o, H) == deferredObservers

\* Observable::unregisterObserver(o) by the observables in H: the pending
\* notification is forgotten only while updates are deferred.
DeferredAfterUnregister(o, H) ==
    IF updatesDeferred /\ H # {} THEN deferredObservers \ {o}
                                 ELSE deferredObservers

\* observers_ when o leaves the observables in Old and joins those in New.
Moved(o, Old, New) ==
    [h \in Observables |-> IF h \in New THEN observers[h] \cup {o}
                           ELSE IF h \in Old THEN observers[h] \ {o}
                           ELSE observers[h]]

\* What is still owed once the observers in D have left the observables in H.
OwedWithout(D, H) ==
    [o \in Observers |-> IF o \in D THEN owed[o] \ H ELSE owed[o]]

\* Observer()
Construct(o) ==
    /\ o \notin alive
    /\ alive' = alive \cup {o}
    /\ UNCHANGED <<observables, observers, deferredObservers, owed>>

\* Observer(const Observer&): the copy watches what the original watches.
CopyConstruct(o, p) ==
    /\ o \notin alive
    /\ p \in alive
    /\ alive' = alive \cup {o}
    /\ observables' = [observables EXCEPT ![o] = observables[p]]
    /\ observers' = Moved(o, {}, observables[p])
    /\ UNCHANGED <<deferredObservers, owed>>

\* Mutant: the old registrations are not undone.
AssignKeepsOld(o, p) ==
    /\ {o, p} \subseteq alive
    /\ updatesDeferred => MayDropSome
    /\ observables' = [observables EXCEPT ![o] = observables[p]]
    /\ observers' = Moved(o, {}, observables[p])
    /\ owed' = OwedWithout({o}, Observables \ observables[p])
    /\ UNCHANGED <<alive, deferredObservers>>

\* operator=: leave every observable, then join those of p (p may be o).
Assign(o, p) ==
    /\ {o, p} \subseteq alive
    /\ updatesDeferred => MayDropSome
    /\ deferredObservers' = DeferredAfterUnregister(o, observables[o])
    /\ observables' = [observables EXCEPT ![o] = observables[p]]
    /\ observers' = Moved(o, observables[o], observables[p])
    /\ owed' = OwedWithout({o}, Observables \ observables[p])
    /\ UNCHANGED alive

\* ~Observer()
Destroy(o) ==
    /\ o \in alive
    /\ alive' = alive \ {o}
    /\ deferredObservers' = DeferredAfterUnregister(o, observables[o])
    /\ observables' = [observables EXCEPT ![o] = {}]
    /\ observers' = Moved(o, observables[o], {})
    /\ owed' = OwedWithout({o}, Observables)

registerWith(o, h) ==
    /\ o \in alive
    /\ observables' = [observables EXCEPT ![o] = @ \cup {h}]
    /\ observers' = Moved(o, {}, {h})
    /\ UNCHANGED <<alive, deferredObservers, owed>>

registerWithObservables(o, p) ==
    /\ {o, p} \subseteq alive
    /\ observables' = [observables EXCEPT ![o] = @ \cup observables[p]]
    /\ observers' = Moved(o, {}, observables[p])
    /\ UNCHANGED <<alive, deferredObservers, owed>>

\* h need not be watched by o: the pending notification goes all the same.
unregisterWith(o, h) ==
    /\ o \in alive
    /\ updatesDeferred => MayDropSome
    /\ deferredObservers' = DeferredAfterUnregister(o, {h})
    /\ observables' = [observables EXCEPT ![o] = @ \ {h}]
    /\ observers' = Moved(o, {h}, {})
    /\ owed' = OwedWithout({o}, {h})
    /\ UNCHANGED alive

unregisterWithAll(o) ==
    /\ o \in alive
    /\ deferredObservers' = DeferredAfterUnregister(o, observables[o])
    /\ observables' = [observables EXCEPT ![o] = {}]
    /\ observers' = Moved(o, observables[o], {})
    /\ owed' = OwedWithout({o}, Observables)
    /\ UNCHANGED alive

Register ==
    /\ loop = "none"
    /\ \E o \in Observers :
          \/ Construct(o)
          \/ \E p \in Observers :
                CopyConstruct(o, p) \/ Assign(o, p) \/ registerWithObservables(o, p)
          \/ \E h \in Observables : registerWith(o, h) \/ unregisterWith(o, h)
          \/ unregisterWithAll(o)
          \/ Destroy(o)
    /\ UNCHANGED <<settings, running, due>>

-----------------------------------------------------------------------------
(* Settings and notification.  update() belongs to classes derived from    *)
(* Observer.  It may throw, and it may release the last owner of other     *)
(* observers.  (The nested notifications of LazyObject::update are the     *)
(* subject of module LazyObject.)                                          *)

disableUpdates(deferred) ==
    /\ loop = "none"
    /\ updatesDeferred /\ ~deferred => MayDowngrade
    /\ updatesEnabled' = FALSE
    /\ updatesDeferred' = deferred
    /\ UNCHANGED <<registrations, deferredObservers, running, owed, due>>

\* Mutant: the pending observers are replaced instead of added to.
ReplacesDeferredObservers(O) ==
    deferredObservers' = IF updatesDeferred THEN O ELSE deferredObservers

registerDeferredObservers(O) ==
    deferredObservers' = IF updatesDeferred THEN deferredObservers \cup O
                                            ELSE deferredObservers

StartLoop(kind, h, D) ==
    /\ loop' = kind
    /\ source' = h
    /\ visited' = {}
    /\ successful' = TRUE
    /\ due' = D
    /\ UNCHANGED raised

notifyObservers(h) ==
    /\ loop = "none"
    /\ \/ /\ ~updatesEnabled
          /\ registerDeferredObservers(observers[h])
          /\ owed' = [o \in Observers |->
                         IF updatesDeferred /\ o \in observers[h]
                         THEN owed[o] \cup {h} ELSE owed[o]]
          /\ UNCHANGED <<running, due>>
       \/ /\ updatesEnabled
          /\ observers[h] # {}
          /\ StartLoop("notify", h, observers[h])
          /\ UNCHANGED <<deferredObservers, owed>>
    /\ UNCHANGED <<registrations, settings>>

\* Observable::operator= notifies the observers of the assigned observable;
\* neither it nor the copy constructor copies the observers.
AssignObservable(h, k) == h # k /\ notifyObservers(h)

\* Mutant: the deferral flag survives.
EnableKeepsDeferral ==
    /\ loop = "none"
    /\ updatesEnabled' = TRUE
    /\ IF deferredObservers # {}
       THEN StartLoop("enable", source, {o \in Observers : owed[o] # {}})
       ELSE UNCHANGED <<running, due>>
    /\ UNCHANGED <<registrations, updatesDeferred, deferredObservers, owed>>

enableUpdates ==
    /\ loop = "none"
    /\ updatesEnabled' = TRUE
    /\ updatesDeferred' = FALSE
    /\ IF deferredObservers # {}
       THEN StartLoop("enable", source, {o \in Observers : owed[o] # {}})
       ELSE UNCHANGED <<running, due>>
    /\ UNCHANGED <<registrations, deferredObservers, owed>>

\* The set the running loop iterates over, and what is left of it.
Iterated == IF loop = "notify" THEN observers[source] ELSE deferredObservers
Pending == Iterated \ visited

\* One round of a loop: update() of o returns or throws, after destroying
\* the observers in D.  Updates are enabled while a loop runs, so the
\* destructors in D leave deferredObservers alone.  Calling update() through
\* the pointer of a destroyed observer is undefined behaviour: a state where
\* that is the next step violates NoUnregisteredUpdate.
Update(o, D) ==
    /\ loop # "none"
    /\ o \in Pending \cap alive
    /\ D \subseteq alive \ {o}
    /\ loop = "enable" /\ D # {} => MayDestroyInEnable
    /\ visited' = visited \cup {o}
    /\ successful' \in {successful, FALSE}
    /\ alive' = alive \ D
    /\ observables' = [p \in Observers |-> IF p \in D THEN {} ELSE observables[p]]
    /\ observers' = [h \in Observables |-> observers[h] \ D]
    /\ owed' = OwedWithout(D \cup {o}, Observables)
    /\ due' = due \ (D \cup {o})
    /\ UNCHANGED <<settings, deferredObservers, loop, source, raised>>

\* Mutant: the first exception leaves the loop.
EndLoopOnThrow ==
    /\ loop # "none"
    /\ Pending = {} \/ ~successful
    /\ deferredObservers' = IF loop = "enable" THEN {} ELSE deferredObservers
    /\ loop' = "none"
    /\ visited' = {}
    /\ successful' = TRUE
    /\ raised' = ~successful
    /\ UNCHANGED <<registrations, settings, source, owed, due>>

\* The loop is over: enableUpdates clears the set before it may throw.
EndLoop ==
    /\ loop # "none"
    /\ Pending = {}
    /\ deferredObservers' = IF loop = "enable" THEN {} ELSE deferredObservers
    /\ loop' = "none"
    /\ visited' = {}
    /\ successful' = TRUE
    /\ raised' = ~successful
    /\ UNCHANGED <<registrations, settings, source, owed, due>>

-----------------------------------------------------------------------------
Init ==
    /\ alive = {}
    /\ observables = [o \in Observers |-> {}]
    /\ observers = [h \in Observables |-> {}]
    /\ updatesEnabled = TRUE
    /\ updatesDeferred = FALSE
    /\ deferredObservers = {}
    /\ loop = "none"
    /\ source \in Observables
    /\ visited = {}
    /\ successful = TRUE
    /\ raised = FALSE
    /\ owed = [o \in Observers |-> {}]
    /\ due = {}

Next ==
    \/ Register
    \/ \E deferred \in BOOLEAN : disableUpdates(deferred)
    \/ enableUpdates
    \/ \E h \in Observables : notifyObservers(h)
    \/ \E h, k \in Observables : AssignObservable(h, k)
    \/ \E o \in Observers, D \in SUBSET Observers : Update(o, D)
    \/ EndLoop

Spec == Init /\ [][Next]_vars

-----------------------------------------------------------------------------
\* Types, and the two settings flags are consistent: updates are deferred only
\* while they are disabled (observable.hpp:59-63, 157-159).
TypeOK ==
    /\ alive \subseteq Observers
    /\ observables \in [Observers -> SUBSET Observables]
    /\ observers \in [Observables -> SUBSET Observers]
    /\ updatesEnabled \in BOOLEAN
    /\ updatesDeferred \in BOOLEAN
    /\ updatesDeferred => ~updatesEnabled
    /\ deferredObservers \subseteq Observers
    /\ loop \in {"none", "notify", "enable"}
    /\ source \in Observables
    /\ visited \subseteq Observers
    /\ successful \in BOOLEAN
    /\ raised \in BOOLEAN
    /\ owed \in [Observers -> SUBSET Observables]
    /\ due \subseteq Observers

\* The two sides of every registration agree, through copies, assignments and
\* destruction: an observable never holds the address of an observer that does
\* not watch it, in particular of one that is no longer there.
RegistrationsAgree ==
    /\ \A o \in Observers, h \in Observables :
          o \in observers[h] <=> h \in observables[o]
    /\ \A o \in Observers \ alive : observables[o] = {}

\* update() "will be called by the observables the instance registered with"
\* (observable.hpp:134-136): whoever is about to be updated, now or when
\* deferred updates are let through, exists and watches some observable.
NoUnregisteredUpdate ==
    \A o \in (IF loop = "notify" THEN Pending ELSE deferredObservers \ visited) :
        o \in alive /\ observables[o] # {}

\* A change announced while updates are deferred is flagged "for later
\* notification" (observable.hpp:221) and stays flagged until the observer is
\* told, whatever else is announced, and whatever it registers with, copies or
\* destroys in the meantime.  It holds of clients that leave all their
\* observables or none while updates are deferred: an observer that leaves one,
\* or is assigned another's, is taken off the list (observable.hpp:214) and hears
\* nothing of what the others announced.
NoLostDeferral ==
    \A o \in Observers : owed[o] # {} => o \in deferredObservers \ visited

\* A notification reaches every observer even when some update() throws or
\* destroys other observers (observable.hpp:232-238): a finished loop leaves
\* nobody behind, and with updates enabled no deferred change is left over.
EveryoneReached ==
    loop = "none" => due = {} /\ (updatesEnabled => \A o \in Observers : owed[o] = {})
=============================================================================
