------------------------- MODULE MCObserverPattern -------------------------
(* Small instances of ObserverPattern for TLC.                             *)
EXTENDS ObserverPattern, TLC

\* Addresses are interchangeable, and so are observables.
Symmetric == Permutations(Observers) \cup Permutations(Observables)
=============================================================================
