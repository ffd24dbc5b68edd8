--------------------------- MODULE ExchangeRates ---------------------------
(***************************************************************************)
(* The store of exchange rates: QuantLib/ql/currencies/                    *)
(* exchangeratemanager.cpp and exchangerate.cpp.                           *)
(*                                                                         *)
(* Rates are added for a period, in whichever direction they are quoted;   *)
(* a rate nobody added is derived from a chain of others.  A lookup is     *)
(* modelled by the set of rates it may return, empty if it throws: which   *)
(* chain is found first depends on the order of the keys of a map and is   *)
(* "unspecified" (exchangeratemanager.hpp:60-62).                          *)
(*                                                                         *)
(* Rates are positive and only ever multiplied and divided, so the model   *)
(* keeps their logarithms, as integers: products are sums here.            *)
(***************************************************************************)
EXTENDS Integers, Sequences

CONSTANTS
    Currencies,
    Link,       \* Currency::triangulationCurrency, NoLink if there is none
    NoLink,
    KnownRates, \* the entries of addKnownRates, newest first
    Quotations, \* what clients add: source, target, startDate, endDate
    MaxRates    \* bound on the number of entries

ASSUME RatesAssumption ==
    /\ Link \in [Currencies -> Currencies \cup {NoLink}]
    /\ NoLink \notin Currencies
    /\ Len(KnownRates) <= MaxRates

VARIABLE data \* ExchangeRateManager::data_, its lists put together, newest first

-----------------------------------------------------------------------------
(* Class ExchangeRate.                                                     *)

\* A rate; rateChain is <<>> for one given by the user.
Rate(source, target, rate, rateChain) ==
    [source |-> source, target |-> target, rate |-> rate, rateChain |-> rateChain]
Ends(r) == {r.source, r.target}

\* Mutant: both rates are taken to lead away from the common currency.
ChainAlways(r, s) ==
    LET Derived(source, target, rate) == {Rate(source, target, rate, <<r, s>>)}
    IN  IF r.source = s.source THEN Derived(r.target, s.target, s.rate - r.rate)
        ELSE IF r.source = s.target THEN Derived(r.target, s.source, s.rate - r.rate)
        ELSE IF r.target = s.source THEN Derived(r.source, s.target, r.rate + s.rate)
        ELSE IF r.target = s.target THEN Derived(r.source, s.source, r.rate - s.rate)
        ELSE {}

\* ExchangeRate::chain, nothing for rates that are not chainable.
chain(r, s) ==
    LET Derived(source, target, rate) == {Rate(source, target, rate, <<r, s>>)}
    IN  IF r.source = s.source THEN Derived(r.target, s.target, s.rate - r.rate)
        ELSE IF r.source = s.target THEN Derived(r.target, s.source, -(r.rate + s.rate))
        ELSE IF r.target = s.source THEN Derived(r.source, s.target, r.rate + s.rate)
        ELSE IF r.target = s.target THEN Derived(r.source, s.source, r.rate - s.rate)
        ELSE {}

\* ExchangeRate::exchange of an amount of money, if r applies to its currency.
RECURSIVE exchange(_, _)
exchange(r, money) ==
    IF r.rateChain = <<>>
    THEN IF money.currency = r.source
         THEN {[currency |-> r.target, value |-> money.value + r.rate]}
         ELSE IF money.currency = r.target
         THEN {[currency |-> r.source, value |-> money.value - r.rate]}
         ELSE {}
    ELSE LET first == r.rateChain[1]
             second == r.rateChain[2]
             Through(f, g) == UNION {exchange(g, m) : m \in exchange(f, money)}
         IN  IF money.currency \in Ends(first) THEN Through(first, second)
             ELSE IF money.currency \in Ends(second) THEN Through(second, first)
             ELSE {}

-----------------------------------------------------------------------------
(* Class ExchangeRateManager.                                              *)

\* The entries for two currencies, in either direction, newest first: their key
\* is the same.
Entries(source, target) ==
    SelectSeq(data, LAMBDA e : Ends(e.rate) = {source, target})

valid_at(e, date) == e.startDate <= date /\ date <= e.endDate

\* Mutant: only the newest entry is looked at.
FetchNewest(source, target, date) ==
    LET rates == Entries(source, target)
    IN  {rates[k].rate : k \in {j \in DOMAIN rates : j = 1 /\ valid_at(rates[j], date)}}

\* The newest rate that is valid on the date, if any.
fetch(source, target, date) ==
    LET rates == Entries(source, target)
    IN  {rates[k].rate : k \in {j \in DOMAIN rates :
            /\ valid_at(rates[j], date)
            /\ \A i \in 1..(j - 1) : ~valid_at(rates[i], date)}}

\* Every rate that chain makes of one of R and one of S.
ChainAll(R, S) == UNION {chain(r, s) : r \in R, s \in S}

\* A direct rate, or any chain of rates that goes to no currency twice.
RECURSIVE smartLookup(_, _, _, _)
smartLookup(source, target, date, forbidden) ==
    IF fetch(source, target, date) # {} THEN fetch(source, target, date)
    ELSE UNION {ChainAll(fetch(source, other, date),
                         smartLookup(other, target, date, forbidden \cup {source})) :
                    other \in Currencies \ (forbidden \cup {source})}

RECURSIVE lookup(_, _, _, _)
lookup(source, target, date, type) ==
    IF source = target THEN {Rate(source, target, 0, <<>>)}
    ELSE IF type = "Direct" \/ target = Link[source] THEN fetch(source, target, date)
    ELSE IF Link[source] # NoLink
    THEN ChainAll(fetch(source, Link[source], date),
                  lookup(Link[source], target, date, "Derived"))
    ELSE IF source = Link[target] THEN fetch(source, target, date)
    ELSE IF Link[target] # NoLink
    THEN ChainAll(lookup(source, Link[target], date, "Derived"),
                  fetch(Link[target], target, date))
    ELSE smartLookup(source, target, date, {})

\* The n-th entry gets the rate 2^n, so that the sums tell which rates went in.
add(q) ==
    /\ Len(data) < MaxRates
    /\ data' = <<[rate |-> Rate(q.source, q.target, 2 ^ Len(data), <<>>),
                  startDate |-> q.startDate, endDate |-> q.endDate]>> \o data

clear == data' = KnownRates

InitX == data = KnownRates
NextX == clear \/ \E q \in Quotations : add(q)

-----------------------------------------------------------------------------
\* The days on which some rate may be valid.
Days == UNION {q.startDate..q.endDate : q \in Quotations}

\* The currencies that rates valid on the date connect with source.
Reachable(source, date) ==
    LET valid == {k \in DOMAIN data : valid_at(data[k], date)}
        near(S) == {c \in Currencies : \E s \in S, k \in valid : Ends(data[k].rate) = {s, c}}
        grow[n \in Nat] == IF n = 0 THEN {source} ELSE grow[n - 1] \cup near(grow[n - 1])
    IN  grow[Len(data)]

\* "If Derived, ... derived rates are allowed" (exchangeratemanager.hpp:57-58): for
\* currencies without triangulation a rate is found exactly when some chain of
\* rates valid on the date leads from the one to the other, however many dead
\* ends, reversed or outdated rates there are on the way.
LookupComplete ==
    \A date \in Days : \A s, t \in {c \in Currencies : Link[c] = NoLink} :
        lookup(s, t, date, "Derived") # {} <=> t \in Reachable(s, date)

\* Whatever rate a lookup finds, and whichever way round its parts are quoted,
\* money goes from source to target and back through it without loss or gain,
\* and a unit of the rate's own source is worth rate() of its target
\* (exchangerate.hpp:47-48).
RatesConvert ==
    \A date \in Days, s, t \in Currencies : \A r \in lookup(s, t, date, "Derived") :
        /\ Ends(r) = {s, t}
        /\ \A from \in {s, t} : \E there \in exchange(r, [currency |-> from, value |-> 0]) :
              /\ from # there.currency \/ s = t
              /\ there.value = (IF from = r.source THEN r.rate ELSE -r.rate)
              /\ \E back \in exchange(r, there) : back = [currency |-> from, value |-> 0]
=============================================================================
