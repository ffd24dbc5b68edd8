---------------------------- MODULE MCValuation ----------------------------
(* Small instances of Valuation for TLC.                                   *)
EXTENDS Valuation

CONSTANTS h1, h2, i1, e1, e2

\* h1, if relative, one day after the evaluation date; h2, if fixed, on day 3.
Pillars == [h \in Helpers |-> IF h \in Relative THEN 1 ELSE 3]

\* Instruments expire on day 3.
Maturities == [i \in Instruments |-> 3]

\* e1 watches the instrument, e2 the curve.
Watching == [e \in Eagers |-> IF e = e1 THEN i1 ELSE Curve]
=============================================================================
