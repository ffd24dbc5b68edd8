----------------------------- MODULE Valuation -----------------------------
(***************************************************************************)
(* Pricing at an evaluation date: QuantLib/ql/settings.hpp (Settings,      *)
(* SavedSettings), termstructures/bootstraphelper.hpp, termstructure.cpp,  *)
(* termstructures/yield/piecewiseyieldcurve.hpp with                       *)
(* iterativebootstrap.hpp, instrument.hpp and pricingengine.hpp.           *)
(*                                                                         *)
(*   evaluation date, quotes -> helpers -> curve -> engine -> instruments  *)
(*                                                                         *)
(* and observers of the curve or of instruments whose update() reads what  *)
(* they observe at once.  The evaluation date is cached three times: in    *)
(* the helpers, in the reference date of the curve, and in every result.   *)
(* It is observed by the helpers that are relative to it, by the curve and *)
(* by some instruments, so a change of it reaches most objects along       *)
(* several paths, in an order nobody controls.                             *)
(*                                                                         *)
(* A calculation calls no observer, so reading a result is one step; the   *)
(* loops of notifyObservers are frames of a stack, as in LazyObject.       *)
(* Dates are numbers.  Prices are abstracted to what went into them.       *)
(***************************************************************************)
EXTENDS Integers, Sequences

CONSTANTS
    Helpers,     \* bootstrap helpers, each with a quote of its own
    Relative,    \* those derived from RelativeDateBootstrapHelper
    Pillar,      \* pillarDate() of a helper; if relative, from the evaluation date
    Instruments,
    Maturity,    \* of an instrument: the date of its last event
    WatchDate,   \* the instruments that observe the evaluation date
    Eagers,      \* observers that read what they observe in update()
    Watched,     \* what an eager observer observes, an instrument or Curve
    Dates,       \* evaluation dates that clients set
    Today,       \* Date::todaysDate()
    Values,      \* valid values of a quote
    None,        \* the null date; an invalid quote; no pricing engine
    Zero,        \* the value of an expired instrument
    Failed,      \* what a calculation that throws yields
    EvaluationDate, Curve, Engine \* the objects there is one of

ASSUME ValuationAssumption ==
    /\ Relative \subseteq Helpers
    /\ Pillar \in [Helpers -> Nat]
    /\ Maturity \in [Instruments -> Nat]
    /\ WatchDate \subseteq Instruments
    /\ Watched \in [Eagers -> Instruments \cup {Curve}]
    /\ Dates \cup {Today} \subseteq Nat

\* What bootstrapping and pricing can yield.
Curves == [ref : Nat, nodes : SUBSET (Nat \X Values)]
Prices == [curve : Curves, ref : Nat]

\* Objects are of one kind each, and the special values are no objects, numbers
\* or results.
ASSUME KindsAssumption ==
    /\ Helpers \cap Instruments = {} /\ Helpers \cap Eagers = {} /\ Instruments \cap Eagers = {}
    /\ {EvaluationDate, Curve, Engine} \cap (Helpers \cup Instruments \cup Eagers) = {}
    /\ EvaluationDate # Curve /\ EvaluationDate # Engine /\ Curve # Engine
    /\ None \notin {Zero, Failed, Engine} \cup Values \cup Prices
    /\ Failed \notin {Zero} \cup Curves \cup Prices
    /\ Zero \notin Prices

VARIABLES
    evaluationDate, \* Settings::evaluationDate_
    saved,          \* the date a SavedSettings object holds, None if there is none
    quote,          \* the quote of each helper
    helperDate,     \* RelativeDateBootstrapHelper::evaluationDate_
    updated,        \* TermStructure::updated_ of the curve
    referenceDate,  \* TermStructure::referenceDate_ of the curve
    built,          \* LazyObject::calculated_ of the curve
    curve,          \* what the curve was bootstrapped from
    engine,         \* Instrument::engine_
    calculated,     \* LazyObject::calculated_ of instruments
    frozen,         \* LazyObject::frozen_ of instruments
    npv,            \* Instrument::NPV_, None before the first calculation
    view,           \* what each eager observer read in its last update()
    stack,          \* the call stack
    thrown          \* an exception is on its way to the top frame

vars == <<evaluationDate, saved, quote, helperDate, updated, referenceDate, built, curve,
          engine, calculated, frozen, npv, view, stack, thrown>>
curveVars == <<updated, referenceDate, built, curve>>
instrumentVars == <<calculated, npv>>

-----------------------------------------------------------------------------
(* Dates and bootstrapping.                                                *)

\* Settings::DateProxy::operator Date
DateOf(d) == IF d = None THEN Today ELSE d
Date == DateOf(evaluationDate)

\* pillarDate() of helper h whose dates were initialized at date d.
pillarDate(h, d) == IF h \in Relative THEN d + Pillar[h] ELSE Pillar[h]

\* IterativeBootstrap::initialize and calculate, for a curve with reference date
\* ref and the given pillars: expired helpers are skipped; it throws if none is
\* left, if two have the same pillar or if a quote is invalid.
Bootstrap(ref, pillar) ==
    LET alive == {h \in Helpers : pillar[h] > ref}
    IN  IF \/ alive = {}
           \/ \E h \in alive : quote[h] = None
           \/ \E h, k \in alive : h # k /\ pillar[h] = pillar[k]
        THEN Failed
        ELSE [ref |-> ref, nodes |-> {<<pillar[h], quote[h]>> : h \in alive}]

\* TermStructure::referenceDate as it would be returned now.
ReferenceDate == IF updated THEN referenceDate ELSE Date

CurveResult ==
    IF built THEN curve
    ELSE Bootstrap(ReferenceDate, [h \in Helpers |-> pillarDate(h, helperDate[h])])

\* A result of the curve is read, which bootstraps it if need be: a failure
\* leaves it to be bootstrapped again, but with its reference date up to date.
ReadCurve ==
    /\ updated' = TRUE
    /\ referenceDate' = ReferenceDate
    /\ built' = (CurveResult # Failed)
    /\ curve' = IF CurveResult = Failed THEN curve ELSE CurveResult

-----------------------------------------------------------------------------
(* Instruments.                                                            *)

\* isExpired(): its last event has occurred.
isExpired(i) == Maturity[i] <= Date

\* What the engine makes of a curve with data c and reference date ref.
PriceOf(c, ref) == IF c = Failed THEN Failed ELSE [curve |-> c, ref |-> ref]

\* What Instrument::NPV returns, or Failed.
NPV(i) ==
    IF isExpired(i) THEN Zero
    ELSE IF calculated[i] \/ frozen[i] THEN (IF npv[i] = None THEN Failed ELSE npv[i])
    ELSE IF engine[i] = None THEN Failed
    ELSE PriceOf(CurveResult, ReferenceDate)

\* NPV() is called: Instrument::calculate and performCalculations.
ReadNPV(i) ==
    /\ IF isExpired(i) \/ ~(calculated[i] \/ frozen[i])
       THEN /\ calculated' = [calculated EXCEPT ![i] = NPV(i) # Failed]
            /\ npv' = IF NPV(i) = Failed THEN npv ELSE [npv EXCEPT ![i] = NPV(i)]
       ELSE UNCHANGED instrumentVars
    /\ IF isExpired(i) \/ calculated[i] \/ frozen[i] \/ engine[i] = None
       THEN UNCHANGED curveVars ELSE ReadCurve

-----------------------------------------------------------------------------
(* Notification.                                                           *)

ObserversOf(n) ==
    {e \in Eagers : Watched[e] = n} \cup
    (IF n = EvaluationDate THEN Relative \cup WatchDate \cup {Curve}
     ELSE IF n \in Helpers THEN {Curve}
     ELSE IF n = Curve THEN {Engine}
     ELSE IF n = Engine THEN {i \in Instruments : engine[i] = Engine}
     ELSE {})

NotifyFrame(n) == [op |-> "notify", left |-> ObserversOf(n), flag |-> FALSE]
\* The rest of PiecewiseYieldCurve::update, after LazyObject::update.
CurveFrame == [op |-> "curve", left |-> {}, flag |-> FALSE]

Idle == stack = <<>>
Top == stack[1]
TopIs(op) == ~Idle /\ Top.op = op

\* RelativeDateBootstrapHelper::update, BootstrapHelper::update
UpdateHelper(h, rest) ==
    /\ helperDate' = [helperDate EXCEPT ![h] = IF h \in Relative THEN Date ELSE @]
    /\ stack' = <<NotifyFrame(h)>> \o rest
    /\ UNCHANGED <<curveVars, instrumentVars, view, thrown>>

\* Mutant: the reference date of the curve is not looked up again.
CurveKeepsDate(rest) ==
    /\ built' = FALSE
    /\ stack' = IF built THEN <<NotifyFrame(Curve)>> \o rest ELSE rest
    /\ UNCHANGED <<updated, helperDate, referenceDate, curve, instrumentVars, view, thrown>>

\* PiecewiseYieldCurve::update: LazyObject::update, which notifies if the curve
\* has been bootstrapped, and after that the reference date.
UpdateCurve(rest) ==
    /\ built' = FALSE
    /\ \/ built /\ stack' = <<NotifyFrame(Curve), CurveFrame>> \o rest /\ UNCHANGED updated
       \/ ~built /\ stack' = rest /\ updated' = FALSE
    /\ UNCHANGED <<helperDate, referenceDate, curve, instrumentVars, view, thrown>>

\* Mutant: an instrument does not pass the notification on.
InstrumentSilent(i, rest) ==
    /\ calculated' = [calculated EXCEPT ![i] = FALSE]
    /\ stack' = rest
    /\ UNCHANGED <<helperDate, curveVars, npv, view, thrown>>

\* LazyObject::update of an instrument.
UpdateInstrument(i, rest) ==
    /\ calculated' = [calculated EXCEPT ![i] = FALSE]
    /\ stack' = IF calculated[i] /\ ~frozen[i] THEN <<NotifyFrame(i)>> \o rest ELSE rest
    /\ UNCHANGED <<helperDate, curveVars, npv, view, thrown>>

\* update() of an observer that reads what it observes.
UpdateEager(e, rest) ==
    /\ LET seen == IF Watched[e] = Curve THEN PriceOf(CurveResult, ReferenceDate)
                   ELSE NPV(Watched[e])
       IN  /\ view' = [view EXCEPT ![e] = seen]
           /\ thrown' = (seen = Failed)
    /\ IF Watched[e] = Curve THEN ReadCurve /\ UNCHANGED instrumentVars ELSE ReadNPV(Watched[e])
    /\ stack' = rest
    /\ UNCHANGED helperDate

\* One round of the loop in notifyObservers.
NotifyNext(o) ==
    /\ TopIs("notify") /\ ~thrown
    /\ o \in Top.left
    /\ LET rest == <<[Top EXCEPT !.left = @ \ {o}]>> \o Tail(stack)
       IN  \/ o \in Helpers /\ UpdateHelper(o, rest)
           \/ o = Curve /\ UpdateCurve(rest)
           \/ /\ o = Engine   \* GenericEngine::update
              /\ stack' = <<NotifyFrame(Engine)>> \o rest
              /\ UNCHANGED <<helperDate, curveVars, instrumentVars, view, thrown>>
           \/ o \in Instruments /\ UpdateInstrument(o, rest)
           \/ o \in Eagers /\ UpdateEager(o, rest)
    /\ UNCHANGED <<evaluationDate, saved, quote, engine, frozen>>

NotifyCatch ==
    /\ TopIs("notify") /\ thrown
    /\ thrown' = FALSE
    /\ stack' = <<[Top EXCEPT !.flag = TRUE]>> \o Tail(stack)
    /\ UNCHANGED <<evaluationDate, saved, quote, helperDate, curveVars, engine, calculated,
                   frozen, npv, view>>

\* After the loop: throw if some update() did.
NotifyEnd ==
    /\ TopIs("notify") /\ ~thrown /\ Top.left = {}
    /\ thrown' = (Top.flag /\ Tail(stack) # <<>>)
    /\ stack' = Tail(stack)
    /\ UNCHANGED <<evaluationDate, saved, quote, helperDate, curveVars, engine, calculated,
                   frozen, npv, view>>

\* PiecewiseYieldCurve::update goes on; not if an observer has thrown.
UpdateCurveEnd ==
    /\ TopIs("curve")
    /\ updated' = (updated /\ thrown)
    /\ stack' = Tail(stack)
    /\ UNCHANGED <<evaluationDate, saved, quote, helperDate, referenceDate, built, curve,
                   engine, calculated, frozen, npv, view, thrown>>

-----------------------------------------------------------------------------
(* What a client may call.                                                 *)

\* ObservableValue::operator= of the evaluation date, which always notifies.
Assign(d) ==
    /\ evaluationDate' = d
    /\ stack' = <<NotifyFrame(EvaluationDate)>>

\* Settings::evaluationDate() = d; resetEvaluationDate() for None.
setEvaluationDate(d) ==
    /\ Idle
    /\ Assign(d)
    /\ UNCHANGED <<saved, quote, helperDate, curveVars, engine, calculated, frozen, npv,
                   view, thrown>>

anchorEvaluationDate ==
    /\ Idle
    /\ evaluationDate = None
    /\ Assign(Today)
    /\ UNCHANGED <<saved, quote, helperDate, curveVars, engine, calculated, frozen, npv,
                   view, thrown>>

\* A SavedSettings object is built ...
Save ==
    /\ Idle
    /\ saved = None
    /\ saved' = Date
    /\ UNCHANGED <<evaluationDate, quote, helperDate, curveVars, engine, calculated, frozen,
                   npv, view, stack, thrown>>

\* ... and destroyed.
Restore ==
    /\ Idle
    /\ saved # None
    /\ saved' = None
    /\ IF Date # saved THEN Assign(saved) ELSE UNCHANGED <<evaluationDate, stack>>
    /\ UNCHANGED <<quote, helperDate, curveVars, engine, calculated, frozen, npv, view, thrown>>

\* SimpleQuote::setValue of the quote of h; it notifies the helper.
setValue(h, v) ==
    /\ Idle
    /\ quote[h] # v
    /\ quote' = [quote EXCEPT ![h] = v]
    /\ stack' = <<[op |-> "notify", left |-> {h}, flag |-> FALSE]>>
    /\ UNCHANGED <<evaluationDate, saved, helperDate, curveVars, engine, calculated, frozen,
                   npv, view, thrown>>

\* A client asks for the value of i.
Ask(i) ==
    /\ Idle
    /\ ReadNPV(i)
    /\ UNCHANGED <<evaluationDate, saved, quote, helperDate, engine, frozen, view, stack, thrown>>

\* A client reads the curve.
AskCurve ==
    /\ Idle
    /\ ReadCurve
    /\ UNCHANGED <<evaluationDate, saved, quote, helperDate, engine, calculated, frozen, npv,
                   view, stack, thrown>>

\* Mutant: the engine is changed without a word.
EngineSilently(i, e) ==
    /\ Idle
    /\ engine' = [engine EXCEPT ![i] = e]
    /\ UNCHANGED <<evaluationDate, saved, quote, helperDate, curveVars, calculated, frozen,
                   npv, view, stack, thrown>>

\* Instrument::setPricingEngine, which ends in update().
setPricingEngine(i, e) ==
    /\ Idle
    /\ engine' = [engine EXCEPT ![i] = e]
    /\ UpdateInstrument(i, <<>>)
    /\ UNCHANGED <<evaluationDate, saved, quote, frozen>>

freeze(i) ==
    /\ Idle
    /\ frozen' = [frozen EXCEPT ![i] = TRUE]
    /\ UNCHANGED <<evaluationDate, saved, quote, helperDate, curveVars, engine, calculated,
                   npv, view, stack, thrown>>

unfreeze(i) ==
    /\ Idle
    /\ frozen[i]
    /\ frozen' = [frozen EXCEPT ![i] = FALSE]
    /\ stack' = <<NotifyFrame(i)>>
    /\ UNCHANGED <<evaluationDate, saved, quote, helperDate, curveVars, engine, calculated,
                   npv, view, thrown>>

-----------------------------------------------------------------------------
Init ==
    /\ evaluationDate = None
    /\ saved = None
    /\ quote \in [Helpers -> Values]
    /\ helperDate = [h \in Helpers |-> Today]
    /\ updated = FALSE
    /\ referenceDate = None
    /\ built = FALSE
    /\ curve = None
    /\ engine = [i \in Instruments |-> None]
    /\ calculated = [i \in Instruments |-> FALSE]
    /\ frozen = [i \in Instruments |-> FALSE]
    /\ npv = [i \in Instruments |-> None]
    /\ view = [e \in Eagers |-> None]
    /\ stack = <<>>
    /\ thrown = FALSE

Client ==
    \/ \E d \in Dates \cup {None} : setEvaluationDate(d)
    \/ anchorEvaluationDate \/ Save \/ Restore \/ AskCurve
    \/ \E h \in Helpers, v \in Values \cup {None} : setValue(h, v)
    \/ \E i \in Instruments : Ask(i) \/ freeze(i) \/ unfreeze(i)
    \/ \E i \in Instruments, e \in {Engine, None} : setPricingEngine(i, e)

Step ==
    \/ \E o \in Helpers \cup Instruments \cup Eagers \cup {Curve, Engine} : NotifyNext(o)
    \/ NotifyCatch \/ NotifyEnd \/ UpdateCurveEnd

Next == Client \/ Step
Spec == Init /\ [][Next]_vars

-----------------------------------------------------------------------------
\* What the curve is when everything is bootstrapped from scratch.
CurveTruth == Bootstrap(Date, [h \in Helpers |-> pillarDate(h, Date)])
NPVTruth(i) ==
    IF isExpired(i) THEN Zero
    ELSE IF engine[i] = None THEN Failed ELSE PriceOf(CurveTruth, Date)

\* Between calls, a bootstrapped curve is what bootstrapping it from scratch would
\* give; its reference date, and the dates cached in the helpers, are those of the
\* evaluation date.
CurveIsCurrent ==
    Idle => /\ built => curve = CurveTruth
            /\ ReferenceDate = Date
            /\ \A h \in Relative : helperDate[h] = Date

\* Between calls, the value of an instrument that is not frozen is what pricing it
\* from scratch would give, whatever is cached on the way (lazyobject.hpp:74-81).
NPVIsCurrent == Idle => \A i \in Instruments : ~frozen[i] => NPV(i) = NPVTruth(i)

\* The last thing an observer saw, if it saw anything, is what is true when the
\* call is over: "otherways non-lazy observers would be served obsolete data"
\* (lazyobject.hpp:107-108).
ViewIsCurrent ==
    Idle => \A e \in Eagers :
        LET n == Watched[e]
        IN  view[e] \in {None, Failed} \/
            IF n = Curve THEN view[e] = PriceOf(CurveTruth, Date)
            ELSE frozen[n] \/ view[e] = NPVTruth(n)

=============================================================================
