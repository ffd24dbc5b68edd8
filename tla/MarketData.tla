---------------------------- MODULE MarketData ----------------------------
(***************************************************************************)
(* The two stores of market data, index fixings and exchange rates.  They  *)
(* are singletons that share nothing: any interleaving of their steps      *)
(* gives each of them a behaviour of its own, and every property here is   *)
(* about one of them.  So it is enough that one moves while the other is   *)
(* as it was in the beginning.                                             *)
(***************************************************************************)
EXTENDS IndexFixings, ExchangeRates

vars == <<varsF, data>>

Init == InitF /\ InitX
Next ==
    \/ InitX /\ NextF /\ UNCHANGED data
    \/ InitF /\ NextX /\ UNCHANGED varsF
Spec == Init /\ [][Next]_vars
=============================================================================
