--------------------------- MODULE MCMarketData ---------------------------
(* Small instances of MarketData for TLC.                                  *)
EXTENDS MarketData, TLC

CONSTANTS EUR, FRF, USD, GBP

Entry(source, target, startDate, endDate) ==
    [source |-> source, target |-> target, startDate |-> startDate, endDate |-> endDate]

\* FRF is converted through EUR, from day 2 on.
Triangulation == [c \in Currencies |-> IF c = FRF THEN EUR ELSE NoLink]
Known == <<[rate |-> Rate(EUR, FRF, 1, <<>>), startDate |-> 2, endDate |-> 3]>>

\* Rates in both directions, overlapping and not, that make chains of up to three
\* rates with dead ends.
Quoted == {Entry(USD, EUR, 1, 3), Entry(GBP, USD, 1, 2), Entry(USD, GBP, 2, 3),
           Entry(EUR, GBP, 3, 3), Entry(USD, FRF, 1, 2), Entry(FRF, GBP, 1, 3)}

\* The coupons of a swap are fixed on days 1 and 3; day 2 is a holiday.
Named == [s \in Swaps |-> CHOOSE n \in Names : TRUE]
Fixed == [s \in Swaps |-> {1, 3}]

Symmetric == Permutations(Observables) \cup Permutations(Swaps) \cup Permutations(Values)
=============================================================================
