------------------------ MODULE MCThreadSafeObserver ------------------------
(* Small instances of ThreadSafeObserver for TLC.                          *)
EXTENDS ThreadSafeObserver

CONSTANTS worker, other, o1, o2, h1, h2

\* o1 watches h1 and passes its changes on as changes of h2, as a lazy object
\* does; o2 may watch both.
Layers == [o \in Observers |-> IF o = o1 THEN {h1} ELSE {h1, h2}]
Forwards == [o \in Observers |-> IF o = o1 THEN h2 ELSE None]

\* One thread does everything, the other collects garbage.
Collecting ==
    [t \in Threads |->
        IF t = worker
        THEN {"construct", "registerWith", "registerWithObservables", "unregisterWith",
              "unregisterWithAll", "assign", "notifyObservers", "disableUpdates",
              "enableUpdates", "release"}
        ELSE {"release"}]

\* Two threads notify, and one of them switches updates on and off.
Switching ==
    [t \in Threads |->
        IF t = worker THEN {"construct", "notifyObservers"}
                      ELSE {"notifyObservers", "disableUpdates", "enableUpdates"}]

\* No update() passes a notification on.  Two threads notify, one of them works
\* on observers besides, the other switches updates on and off.
Forwardless == [o \in Observers |-> None]
Racing ==
    [t \in Threads |->
        IF t = worker
        THEN {"construct", "registerWith", "unregisterWithAll", "notifyObservers", "release"}
        ELSE {"notifyObservers", "disableUpdates", "enableUpdates"}]
=============================================================================
