--------------------------- MODULE IndexFixings ---------------------------
(***************************************************************************)
(* Past fixings of interest-rate indexes and who depends on them:          *)
(* QuantLib/ql/index.hpp, indexes/indexmanager.cpp,                        *)
(* indexes/interestrateindex.cpp, cashflows/floatingratecoupon.cpp and     *)
(* instruments/swap.cpp.                                                   *)
(*                                                                         *)
(* The index manager maps the name of an index to an ObservableValue, the  *)
(* history of its fixings with an Observable of its own.  An index object  *)
(* registers with that Observable when it is built, coupons with their     *)
(* index, a swap with its coupons.  Fixing dates that are past are read    *)
(* from the history, others forecast from a curve.                         *)
(*                                                                         *)
(* A notification calls nobody who reads (Valuation has such observers),   *)
(* and finds the new data in place: it is one step, which clears           *)
(* calculated_ of the swaps it reaches.  Swaps are modelled together with  *)
(* the index object they are built on; none of their coupons is paid yet.  *)
(***************************************************************************)
EXTENDS Integers, Sequences

CONSTANTS
    Names,       \* of indexes, all in one case
    Swaps,       \* each with an index object of its own
    NameOf,      \* the name of that index
    FixingDates, \* FloatingRateCoupon::fixingDate of the coupons of a swap
    Dates,       \* of fixings, and evaluation dates
    Holidays,    \* the dates that are not valid fixing dates
    Values,      \* of fixings
    Levels,      \* of the forecasting curve
    Observables, \* heap addresses of the Observables of histories
    None,        \* no fixing, no curve, no Observable; Null<Real>()
    Failed,      \* what a fixing() that throws yields
    MayClear,        \* clients clear histories that index objects observe
    MayEnforceLate   \* clients set enforcesTodaysHistoricFixings at any time

ASSUME FixingsAssumption ==
    /\ NameOf \in [Swaps -> Names]
    /\ FixingDates \in [Swaps -> SUBSET Dates]
    /\ Dates \subseteq Int
    /\ Holidays \subseteq Dates
    /\ None \notin Values \cup Levels \cup Observables
    /\ MayClear \in BOOLEAN /\ MayEnforceLate \in BOOLEAN

VARIABLES
    today,      \* the evaluation date
    enforces,   \* Settings::enforcesTodaysHistoricFixings_
    curve,      \* the curve the indexes' handle leads to, None if it is empty
    notifier,   \* the Observable of IndexManager::data_[name], None: no entry
    history,    \* its value, the fixings
    watched,    \* the Observable that the index of a swap is registered with;
                \* None: there is no such swap
    calculated, \* LazyObject::calculated_ of swaps
    result      \* the fixings that went into their results

varsF == <<today, enforces, curve, notifier, history, watched, calculated, result>>

-----------------------------------------------------------------------------
Empty == [d \in Dates |-> None]
isValidFixingDate(d) == d \notin Holidays
Fresh == Observables \ ({notifier[n] : n \in Names} \cup {watched[s] : s \in Swaps})
Built == {s \in Swaps : watched[s] # None}
WatchersOf(o) == {s \in Built : watched[s] = o}

\* LazyObject::update of swaps S, called through their coupons and indexes.
Notify(S) == calculated' = [s \in Swaps |-> calculated[s] /\ s \notin S]

\* IndexManager::data_[n]: reading it creates an empty entry if there is none.
Touch(n) ==
    \/ notifier[n] # None /\ UNCHANGED notifier
    \/ notifier[n] = None /\ \E o \in Fresh : notifier' = [notifier EXCEPT ![n] = o]

-----------------------------------------------------------------------------
(* Adding fixings.                                                         *)

\* Mutant: the first fixing that is refused ends the loop.
AddUntilRefused(acc, item, forceOverwrite) ==
    LET old == acc.fixings[item.date]
    IN  IF ~acc.ok \/ ~isValidFixingDate(item.date)
              \/ (~forceOverwrite /\ old \notin {None, item.value})
        THEN [acc EXCEPT !.ok = FALSE]
        ELSE [acc EXCEPT !.fixings[item.date] = item.value]

\* One round of the loop in Index::addFixings: a fixing is stored if its date is
\* valid and has none yet, or in any case if forceOverwrite; one that is there
\* already is passed over, any other makes the call throw when the loop is over.
AddOne(acc, item, forceOverwrite) ==
    LET old == acc.fixings[item.date]
    IN  IF isValidFixingDate(item.date) /\ (forceOverwrite \/ old = None)
        THEN [acc EXCEPT !.fixings[item.date] = item.value]
        ELSE IF isValidFixingDate(item.date) /\ old = item.value THEN acc
        ELSE [acc EXCEPT !.ok = FALSE]

\* What addFixings makes of a history, and whether it returns; the list has one
\* fixing (addFixing) or two.
AddAll(fixings, list, forceOverwrite) ==
    LET one == AddOne([fixings |-> fixings, ok |-> TRUE], list[1], forceOverwrite)
    IN  IF Len(list) = 1 THEN one ELSE AddOne(one, list[2], forceOverwrite)

\* Mutant: observers are notified only if the call does not throw.
AddSilently(n, list, forceOverwrite) ==
    /\ Touch(n)
    /\ history' = [history EXCEPT ![n] = AddAll(@, list, forceOverwrite).fixings]
    /\ Notify(IF AddAll(history[n], list, forceOverwrite).ok THEN WatchersOf(notifier[n]) ELSE {})
    /\ UNCHANGED <<today, enforces, curve, watched, result>>

\* The fixings are stored, and observers notified, also if the call throws then.
addFixings(n, list, forceOverwrite) ==
    /\ Touch(n)
    /\ history' = [history EXCEPT ![n] = AddAll(@, list, forceOverwrite).fixings]
    /\ Notify(WatchersOf(notifier[n]))
    /\ UNCHANGED <<today, enforces, curve, watched, result>>

\* IndexManager::clearHistory: the entry goes, and with it the Observable unless
\* index objects hold it.  Nobody is notified.
clearHistory(n) ==
    /\ MayClear \/ WatchersOf(notifier[n]) = {}
    /\ notifier' = [notifier EXCEPT ![n] = None]
    /\ history' = [history EXCEPT ![n] = Empty]
    /\ UNCHANGED <<today, enforces, curve, watched, calculated, result>>

-----------------------------------------------------------------------------
(* Swaps.                                                                  *)

\* An index, coupons on it and a swap are constructed: the index registers with
\* the evaluation date, the curve and the Observable of its history.
Build(s) ==
    /\ watched[s] = None
    /\ Touch(NameOf[s])
    /\ watched' = [watched EXCEPT ![s] = notifier'[NameOf[s]]]
    /\ UNCHANGED <<today, enforces, curve, history, calculated, result>>

Drop(s) ==
    /\ s \in Built
    /\ watched' = [watched EXCEPT ![s] = None]
    /\ calculated' = [calculated EXCEPT ![s] = FALSE]
    /\ result' = [result EXCEPT ![s] = None]
    /\ UNCHANGED <<today, enforces, curve, notifier, history>>

\* IborIndex::forecastFixing, which needs a curve.
forecastFixing == IF curve = None THEN Failed ELSE curve

\* InterestRateIndex::fixing of date d by the index of s.
fixing(s, d) ==
    LET past == history[NameOf[s]][d]
    IN  IF ~isValidFixingDate(d) THEN Failed
        ELSE IF d > today THEN forecastFixing
        ELSE IF past # None THEN past
        ELSE IF d < today \/ enforces THEN Failed
        ELSE forecastFixing

\* A result of s is asked for: LazyObject::calculate, with the fixings of all
\* the coupons.
Ask(s) ==
    /\ s \in Built /\ ~calculated[s]
    /\ IF \E d \in FixingDates[s] : d <= today THEN Touch(NameOf[s]) ELSE UNCHANGED notifier
    /\ LET fixings == [d \in FixingDates[s] |-> fixing(s, d)]
           ok == \A d \in FixingDates[s] : fixings[d] # Failed
       IN  /\ calculated' = [calculated EXCEPT ![s] = ok]
           /\ result' = IF ok THEN [result EXCEPT ![s] = fixings] ELSE result
    /\ UNCHANGED <<today, enforces, curve, history, watched>>

-----------------------------------------------------------------------------
(* Settings and curve.                                                     *)

\* Indexes and coupons observe the evaluation date.
setEvaluationDate(d) ==
    /\ today' = d
    /\ Notify(Built)
    /\ UNCHANGED <<enforces, curve, notifier, history, watched, result>>

\* A plain variable: nobody is notified.
setEnforces(b) ==
    /\ MayEnforceLate \/ \A s \in Swaps : ~calculated[s]
    /\ enforces' = b
    /\ UNCHANGED <<today, curve, notifier, history, watched, calculated, result>>

\* The handle of the forecasting curve, or what it leads to, changes.
setCurve(l) ==
    /\ curve' = l
    /\ Notify(Built)
    /\ UNCHANGED <<today, enforces, notifier, history, watched, result>>

InitF ==
    /\ today \in Dates
    /\ enforces = FALSE
    /\ curve = None
    /\ notifier = [n \in Names |-> None]
    /\ history = [n \in Names |-> Empty]
    /\ watched = [s \in Swaps |-> None]
    /\ calculated = [s \in Swaps |-> FALSE]
    /\ result = [s \in Swaps |-> None]

Items == [date : Dates, value : Values]
Batches == {<<x>> : x \in Items} \cup (Items \X Items)

NextF ==
    \/ \E n \in Names, list \in Batches, forceOverwrite \in BOOLEAN :
          addFixings(n, list, forceOverwrite)
    \/ \E n \in Names : clearHistory(n)
    \/ \E s \in Swaps : Build(s) \/ Drop(s) \/ Ask(s)
    \/ \E d \in Dates : setEvaluationDate(d)
    \/ \E b \in BOOLEAN : setEnforces(b)
    \/ \E l \in Levels \cup {None} : setCurve(l)

SpecF == InitF /\ [][NextF]_varsF

-----------------------------------------------------------------------------
\* The result of a swap that counts as calculated is what the fixings, the date,
\* the settings and the curve of this moment give: every fixing that is added
\* finds its way to it, also through another index object of the same name
\* ("observer notifying of changes in the index fixings", indexmanager.hpp:47),
\* every new date and every new curve.  It holds of clients that clear no history
\* that index objects observe, which tells nobody and leaves them with an
\* observable of which nobody hears again (indexmanager.cpp:64), and that change
\* enforcesTodaysHistoricFixings under no result, which is a plain flag
\* (settings.hpp:169).
SwapIsCurrent ==
    \A s \in Swaps : calculated[s] =>
        result[s] = [d \in FixingDates[s] |-> fixing(s, d)]

\* The last value that a list gives for a date.
LastGiven(list, d) ==
    LET K == {k \in DOMAIN list : list[k].date = d}
    IN  list[CHOOSE k \in K : \A j \in K : j <= k].value

\* What addFixings does to the history as it is now, for every list: every valid
\* date in it has a fixing afterwards, whatever else was refused; without
\* forceOverwrite no fixing that was there has changed; and if the call returns,
\* what is stored is what the list says, for a date that occurs twice the last.
AddsWhatItCan ==
    \A n \in Names, list \in Batches, forceOverwrite \in BOOLEAN :
        LET after == AddAll(history[n], list, forceOverwrite)
            given == {list[k].date : k \in DOMAIN list}
        IN  /\ \A d \in given \ Holidays : after.fixings[d] # None
            /\ \A d \in Dates :
                  (~forceOverwrite /\ history[n][d] # None) \/ d \notin given \ Holidays =>
                      after.fixings[d] = history[n][d]
            /\ after.ok => \A d \in given : after.fixings[d] = LastGiven(list, d)
=============================================================================
