-------------------------- MODULE ValuationProofs --------------------------
(***************************************************************************)
(* Proofs about Valuation, for any helpers, instruments, observers, dates  *)
(* and quotes: the curve, the values of instruments and what observers     *)
(* have seen are those of the evaluation date and the quotes when a call   *)
(* is over, in whichever order observers are notified and whoever throws.  *)
(***************************************************************************)
EXTENDS Valuation, SequenceTheorems, TLAPS

\* A curve that is read while it notifies is repaired: some helper notifies it
\* a second time, or nobody reads it then (piecewiseyieldcurve.hpp:231-240).
Repaired == Relative # {} \/ Eagers = {}

\* An instrument that may expire observes the evaluation date (instrument.hpp:149).
ExpiryWatched ==
    \A i \in Instruments \ WatchDate : \A d \in Dates \cup {Today} : Maturity[i] > d

-----------------------------------------------------------------------------
(* The invariant.                                                          *)

Objects == Helpers \cup Instruments \cup Eagers \cup {Curve, Engine}
Frames == [op : {"notify", "curve"}, left : SUBSET Objects, flag : BOOLEAN]

Types ==
    /\ evaluationDate \in Dates \cup {Today, None} /\ saved \in Dates \cup {Today, None}
    /\ quote \in [Helpers -> Values \cup {None}]
    /\ helperDate \in [Helpers -> Nat]
    /\ updated \in BOOLEAN /\ (updated => referenceDate \in Nat)
    /\ built \in BOOLEAN /\ (built => curve \in Curves)
    /\ engine \in [Instruments -> {Engine, None}]
    /\ calculated \in [Instruments -> BOOLEAN] /\ frozen \in [Instruments -> BOOLEAN]
    /\ npv \in [Instruments -> Prices \cup {Zero, None}]
    /\ \A i \in Instruments : calculated[i] => npv[i] # None
    /\ view \in [Eagers -> Prices \cup {Zero, None, Failed}]
    /\ stack \in Seq(Frames)
    /\ thrown \in BOOLEAN

\* Some loop on the stack s is going to call update() of x.
Told(s, x) == \E k \in 1..Len(s) : x \in s[k].left

\* The curve is going to be updated, by itself or through a helper.
Pending(s) == \E x \in Helpers \cup {Curve} : Told(s, x)

\* The curve is notifying its observers.
InCurve(s) == \E k \in 1..Len(s) : s[k].op = "curve"

\* A helper has just been updated, and the curve is next.
CurveNext(s) == Len(s) = 2 /\ s[1].left = {Curve}

\* The curve will be updated twice.
TwoToCome(s) ==
    /\ s # <<>> /\ Curve \in s[Len(s)].left
    /\ CurveNext(s) \/ \E h \in Helpers : h \in s[Len(s)].left

\* What the curve's own notification reaches: the engine, instruments priced by
\* it, and observers of these or of the curve.
Beyond(x, eng, fr) ==
    /\ x \notin Helpers \cup {Curve}
    /\ x \in Instruments => eng[x] = Engine
    /\ x \in Eagers /\ Watched[x] # Curve => eng[Watched[x]] = Engine /\ ~fr[Watched[x]]

Shape(s, eng, fr) ==
    \A k \in 1..Len(s) :
        /\ (\E h \in Helpers : h \in s[k].left) => k = Len(s)
        /\ Curve \in s[k].left => k = Len(s) \/ (k = 1 /\ CurveNext(s))
        /\ s[k].op = "curve" =>
              /\ k < Len(s) /\ s[k].left = {}
              /\ \A j \in 1..(k - 1) : s[j].op = "notify" /\ \A x \in s[j].left : Beyond(x, eng, fr)

\* An exception is on its way to the update() of the curve.
Doomed(s, t) ==
    \E k \in 1..Len(s) : s[k].op = "curve" /\ (t \/ \E j \in 1..(k - 1) : s[j].flag)
Flagged(s) == \E k \in 1..Len(s) : s[k].flag

RefOK == updated => referenceDate = Date

\* The curve is not bootstrapped, and cannot be as things are.
Hopeless == ~built /\ CurveResult = Failed

\* As long as the curve has an old reference date, it will be updated again after
\* it has forgotten that date; unless nobody reads the curve in between.
RefInv ==
    \/ RefOK
    \/ TwoToCome(stack)
    \/ Pending(stack) /\ (InCurve(stack) \/ Hopeless)
    \/ ~built /\ CurveNext(stack)
    \/ Eagers = {} /\ (Pending(stack) \/ (InCurve(stack) /\ ~built))

\* Only observers that read throw, and the notification of the curve only if it
\* cannot be bootstrapped.
ThrowInv ==
    /\ thrown \/ Flagged(stack) => Eagers # {}
    /\ Doomed(stack, thrown) => Hopeless

HelperInv == \A h \in Relative : helperDate[h] = Date \/ Told(stack, h)
BuiltInv == built => Pending(stack) \/ curve = CurveTruth

CurveInv ==
    Types /\ Shape(stack, engine, frozen) /\ RefInv /\ ThrowInv /\ HelperInv /\ BuiltInv

-----------------------------------------------------------------------------
(* Stacks.                                                                 *)

\* A call: every frame moves down by one.
LEMMA PushFacts ==
    ASSUME NEW s \in Seq(Frames), NEW f \in Frames
    PROVE  /\ <<f>> \o s \in Seq(Frames)
           /\ Len(s) \in Nat /\ Len(<<f>> \o s) = Len(s) + 1
           /\ (<<f>> \o s)[1] = f
           /\ \A k \in 1..Len(s) : (<<f>> \o s)[k + 1] = s[k]
           /\ \A k \in 2..(Len(s) + 1) : (<<f>> \o s)[k] = s[k - 1]
           /\ <<f>> \o s # <<>>
  OBVIOUS

\* A return.
LEMMA PopFacts ==
    ASSUME NEW s \in Seq(Frames), s # <<>>
    PROVE  /\ Len(s) \in Nat \ {0} /\ s[1] \in Frames
           /\ Tail(s) \in Seq(Frames) /\ Len(Tail(s)) = Len(s) - 1
           /\ \A k \in 1..(Len(s) - 1) : Tail(s)[k] = s[k + 1]
           /\ s = <<s[1]>> \o Tail(s)
  OBVIOUS

LEMMA EmptyFacts ==
    ASSUME NEW s \in Seq(Frames)
    PROVE  Len(s) \in Nat /\ (s = <<>> <=> Len(s) = 0) /\ \A k \in 1..Len(s) : s[k] \in Frames
  OBVIOUS

\* What is said of a stack with a frame on top, in terms of the rest.
LEMMA PushSays ==
    ASSUME NEW s \in Seq(Frames), NEW f \in Frames
    PROVE  /\ \A x : Told(<<f>> \o s, x) <=> x \in f.left \/ Told(s, x)
           /\ InCurve(<<f>> \o s) <=> f.op = "curve" \/ InCurve(s)
           /\ \A t \in BOOLEAN : Doomed(<<f>> \o s, t) <=>
                 (f.op = "curve" /\ t) \/ (f.flag /\ InCurve(s)) \/ Doomed(s, t)
           /\ Flagged(<<f>> \o s) <=> f.flag \/ Flagged(s)
           /\ s # <<>> => (<<f>> \o s)[Len(<<f>> \o s)] = s[Len(s)]
<1> DEFINE p == <<f>> \o s
<1>1. /\ Len(s) \in Nat /\ Len(p) = Len(s) + 1 /\ p[1] = f
      /\ \A k \in 1..Len(s) : p[k + 1] = s[k]
      /\ \A k \in 2..(Len(s) + 1) : p[k] = s[k - 1]
  BY PushFacts
<1>e. s # <<>> => Len(s) >= 1
  BY EmptyFacts
<1> HIDE DEF p
<1>2. \A x : Told(p, x) <=> x \in f.left \/ Told(s, x)
  BY <1>1 DEF Told
<1>3. InCurve(p) <=> f.op = "curve" \/ InCurve(s)
  BY <1>1 DEF InCurve
<1>4. Flagged(p) <=> f.flag \/ Flagged(s)
  <2>1. ASSUME Flagged(p) PROVE f.flag \/ Flagged(s)
    <3>1. PICK k \in 1..Len(p) : p[k].flag
      BY <2>1 DEF Flagged
    <3>2. k = 1 \/ (k - 1 \in 1..Len(s) /\ p[k] = s[k - 1])
      BY <1>1
    <3> QED
      BY <3>1, <3>2, <1>1 DEF Flagged
  <2>2. ASSUME f.flag PROVE Flagged(p)
    BY <2>2, <1>1 DEF Flagged
  <2>3. ASSUME Flagged(s) PROVE Flagged(p)
    <3>1. PICK k \in 1..Len(s) : s[k].flag
      BY <2>3 DEF Flagged
    <3>2. k + 1 \in 1..Len(p) /\ p[k + 1] = s[k]
      BY <1>1
    <3> QED
      BY <3>1, <3>2 DEF Flagged
  <2> QED
    BY <2>1, <2>2, <2>3
<1>5. ASSUME NEW t \in BOOLEAN
      PROVE  Doomed(p, t) <=> (f.op = "curve" /\ t) \/ (f.flag /\ InCurve(s)) \/ Doomed(s, t)
  <2>1. ASSUME Doomed(p, t)
        PROVE  (f.op = "curve" /\ t) \/ (f.flag /\ InCurve(s)) \/ Doomed(s, t)
    <3>1. PICK k \in 1..Len(p) : p[k].op = "curve" /\ (t \/ \E j \in 1..(k - 1) : p[j].flag)
      BY <2>1 DEF Doomed
    <3>2. CASE k = 1
      <4>1. 1..(k - 1) = {} /\ p[k] = f
        BY <3>2, <1>1
      <4> QED
        BY <3>1, <4>1
    <3>3. CASE k # 1
      <4>1. k - 1 \in 1..Len(s) /\ s[k - 1].op = "curve"
        BY <3>1, <3>3, <1>1
      <4>2. CASE t
        BY <4>1, <4>2 DEF Doomed
      <4>3. CASE ~t
        <5>1. PICK j \in 1..(k - 1) : p[j].flag
          BY <3>1, <4>3
        <5>2. CASE j = 1
          BY <5>1, <5>2, <4>1, <1>1 DEF InCurve
        <5>3. CASE j # 1
          <6>1. j - 1 \in 1..((k - 1) - 1) /\ s[j - 1].flag
            BY <5>1, <5>3, <1>1, <3>3
          <6> QED
            BY <6>1, <4>1 DEF Doomed
        <5> QED
          BY <5>2, <5>3
      <4> QED
        BY <4>2, <4>3
    <3> QED
      BY <3>2, <3>3
  <2>2. ASSUME f.op = "curve" /\ t PROVE Doomed(p, t)
    BY <2>2, <1>1 DEF Doomed
  <2>3. ASSUME f.flag, InCurve(s) PROVE Doomed(p, t)
    <3>1. PICK k \in 1..Len(s) : s[k].op = "curve"
      BY <2>3 DEF InCurve
    <3>2. k + 1 \in 1..Len(p) /\ p[k + 1].op = "curve" /\ 1 \in 1..((k + 1) - 1) /\ p[1].flag
      BY <3>1, <1>1, <2>3
    <3> QED
      BY <3>2 DEF Doomed
  <2>4. ASSUME Doomed(s, t) PROVE Doomed(p, t)
    <3>1. PICK k \in 1..Len(s) : s[k].op = "curve" /\ (t \/ \E j \in 1..(k - 1) : s[j].flag)
      BY <2>4 DEF Doomed
    <3>2. k + 1 \in 1..Len(p) /\ p[k + 1].op = "curve"
      BY <3>1, <1>1
    <3>3. ASSUME NEW j \in 1..(k - 1), s[j].flag
          PROVE  j + 1 \in 1..((k + 1) - 1) /\ p[j + 1].flag
      BY <3>3, <1>1
    <3> QED
      BY <3>1, <3>2, <3>3 DEF Doomed
  <2> QED
    BY <2>1, <2>2, <2>3, <2>4
<1>6. s # <<>> => p[Len(p)] = s[Len(s)]
  BY <1>1, <1>e
<1> QED
  BY <1>2, <1>3, <1>4, <1>5, <1>6 DEF p

\* The same of a stack whose top frame is taken apart.
LEMMA PopSays ==
    ASSUME NEW s \in Seq(Frames), s # <<>>
    PROVE  /\ \A x : Told(s, x) <=> x \in s[1].left \/ Told(Tail(s), x)
           /\ InCurve(s) <=> s[1].op = "curve" \/ InCurve(Tail(s))
           /\ \A t \in BOOLEAN : Doomed(s, t) <=>
                 (s[1].op = "curve" /\ t) \/ (s[1].flag /\ InCurve(Tail(s))) \/ Doomed(Tail(s), t)
           /\ Flagged(s) <=> s[1].flag \/ Flagged(Tail(s))
           /\ Tail(s) # <<>> => s[Len(s)] = Tail(s)[Len(Tail(s))]
<1>1. s[1] \in Frames /\ Tail(s) \in Seq(Frames) /\ s = <<s[1]>> \o Tail(s)
  BY PopFacts
<1>2. PICK f \in Frames : f = s[1]
  BY <1>1
<1>3. PICK r \in Seq(Frames) : r = Tail(s)
  BY <1>1
<1>4. s = <<f>> \o r
  BY <1>1, <1>2, <1>3
<1>5. /\ \A x : Told(s, x) <=> x \in f.left \/ Told(r, x)
      /\ InCurve(s) <=> f.op = "curve" \/ InCurve(r)
      /\ \A t \in BOOLEAN : Doomed(s, t) <=>
            (f.op = "curve" /\ t) \/ (f.flag /\ InCurve(r)) \/ Doomed(r, t)
      /\ Flagged(s) <=> f.flag \/ Flagged(r)
      /\ r # <<>> => s[Len(s)] = r[Len(r)]
  BY <1>4, PushSays
<1> QED
  BY <1>2, <1>3, <1>5

LEMMA EmptySays ==
    /\ \A x : ~Told(<<>>, x)
    /\ ~InCurve(<<>>) /\ ~Flagged(<<>>)
    /\ \A t \in BOOLEAN : ~Doomed(<<>>, t)
    /\ ~Pending(<<>>) /\ ~CurveNext(<<>>) /\ ~TwoToCome(<<>>)
    /\ \A eng, fr : Shape(<<>>, eng, fr)
<1>1. Len(<<>>) = 0 /\ \A k \in 1..0 : FALSE
  OBVIOUS
<1> QED
  BY <1>1 DEF Told, InCurve, Flagged, Doomed, Pending, CurveNext, TwoToCome, Shape

LEMMA ShapePush ==
    ASSUME NEW s \in Seq(Frames), NEW f \in Frames, NEW eng, NEW fr, Shape(s, eng, fr),
           s # <<>>, ~CurveNext(s), \A h \in Helpers : h \notin f.left,
           Curve \in f.left => f.left = {Curve} /\ Len(s) = 1,
           f.op = "curve" => f.left = {},
           InCurve(s) => f.op = "notify" /\ \A x \in f.left : Beyond(x, eng, fr)
    PROVE  Shape(<<f>> \o s, eng, fr)
<1> DEFINE p == <<f>> \o s
<1>1. /\ Len(s) \in Nat /\ Len(p) = Len(s) + 1 /\ p[1] = f
      /\ \A k \in 2..(Len(s) + 1) : p[k] = s[k - 1]
  BY PushFacts
<1>2. Len(s) >= 1
  BY EmptyFacts
<1> HIDE DEF p
<1>3. ASSUME NEW k \in 1..Len(p)
      PROVE  /\ (\E h \in Helpers : h \in p[k].left) => k = Len(p)
             /\ Curve \in p[k].left => k = Len(p) \/ (k = 1 /\ CurveNext(p))
             /\ p[k].op = "curve" =>
                   /\ k < Len(p) /\ p[k].left = {}
                   /\ \A j \in 1..(k - 1) :
                         p[j].op = "notify" /\ \A x \in p[j].left : Beyond(x, eng, fr)
  <2>1. CASE k = 1
    <3>1. p[k] = f /\ k < Len(p) /\ \A j \in 1..(k - 1) : FALSE
      BY <1>1, <1>2, <2>1
    <3>2. Curve \in f.left => CurveNext(p)
      BY <1>1 DEF CurveNext
    <3> QED
      BY <3>1, <3>2, <2>1
  <2>2. CASE k # 1
    <3>1. k - 1 \in 1..Len(s) /\ p[k] = s[k - 1]
      BY <1>1, <2>2
    <3>2. /\ (\E h \in Helpers : h \in p[k].left) => k - 1 = Len(s)
          /\ Curve \in p[k].left => k - 1 = Len(s)
          /\ p[k].op = "curve" =>
                /\ k - 1 < Len(s) /\ p[k].left = {}
                /\ \A j \in 1..((k - 1) - 1) :
                      s[j].op = "notify" /\ \A x \in s[j].left : Beyond(x, eng, fr)
      BY <3>1 DEF Shape
    <3>3. ASSUME p[k].op = "curve", NEW j \in 1..(k - 1)
          PROVE  p[j].op = "notify" /\ \A x \in p[j].left : Beyond(x, eng, fr)
      <4>1. CASE j = 1
        <5>1. InCurve(s)
          BY <3>1, <3>3 DEF InCurve
        <5> QED
          BY <4>1, <5>1, <1>1
      <4>2. CASE j # 1
        <5>1. j - 1 \in 1..((k - 1) - 1) /\ p[j] = s[j - 1]
          BY <4>2, <1>1
        <5> QED
          BY <5>1, <3>2, <3>3
      <4> QED
        BY <4>1, <4>2
    <3> QED
      BY <3>2, <3>3, <1>1
  <2> QED
    BY <2>1, <2>2
<1>4. Shape(p, eng, fr)
  BY <1>3 DEF Shape
<1> QED
  BY <1>4 DEF p

LEMMA ShapePop ==
    ASSUME NEW s \in Seq(Frames), s # <<>>, NEW eng, NEW fr, Shape(s, eng, fr)
    PROVE  Shape(Tail(s), eng, fr)
<1> DEFINE p == Tail(s)
<1>1. /\ Len(s) \in Nat \ {0} /\ Len(p) = Len(s) - 1
      /\ \A k \in 1..(Len(s) - 1) : p[k] = s[k + 1]
  BY PopFacts
<1> HIDE DEF p
<1>2. ASSUME NEW k \in 1..Len(p)
      PROVE  /\ (\E h \in Helpers : h \in p[k].left) => k = Len(p)
             /\ Curve \in p[k].left => k = Len(p)
             /\ p[k].op = "curve" =>
                   /\ k < Len(p) /\ p[k].left = {}
                   /\ \A j \in 1..(k - 1) :
                         p[j].op = "notify" /\ \A x \in p[j].left : Beyond(x, eng, fr)
  <2>1. k + 1 \in 1..Len(s) /\ p[k] = s[k + 1] /\ k + 1 # 1
    BY <1>1
  <2>2. /\ (\E h \in Helpers : h \in p[k].left) => k + 1 = Len(s)
        /\ Curve \in p[k].left => k + 1 = Len(s)
        /\ p[k].op = "curve" =>
              /\ k + 1 < Len(s) /\ p[k].left = {}
              /\ \A j \in 1..((k + 1) - 1) :
                    s[j].op = "notify" /\ \A x \in s[j].left : Beyond(x, eng, fr)
    BY <2>1 DEF Shape
  <2>3. \A j \in 1..(k - 1) : j + 1 \in 1..((k + 1) - 1) /\ p[j] = s[j + 1]
    BY <1>1
  <2>4. k + 1 = Len(s) => k = Len(p)
    BY <1>1
  <2>5. k + 1 < Len(s) => k < Len(p)
    BY <1>1
  <2> QED
    BY <2>2, <2>3, <2>4, <2>5
<1>3. Shape(p, eng, fr)
  BY <1>2 DEF Shape
<1> QED
  BY <1>3 DEF p

LEMMA ShapeReplace ==
    ASSUME NEW s \in Seq(Frames), s # <<>>, NEW f \in Frames, NEW eng, NEW fr,
           Shape(s, eng, fr), f.op = s[1].op, f.left \subseteq s[1].left,
           Curve \in f.left => Len(s) = 1 \/ f.left = s[1].left
    PROVE  Shape(<<f>> \o Tail(s), eng, fr)
<1> DEFINE p == <<f>> \o Tail(s)
<1>1. Tail(s) \in Seq(Frames) /\ Len(s) \in Nat \ {0} /\ Len(Tail(s)) = Len(s) - 1
  BY PopFacts
<1>2. Len(p) = Len(s) /\ p[1] = f /\ \A k \in 2..Len(s) : p[k] = s[k]
  <2>1. /\ Len(p) = Len(Tail(s)) + 1 /\ p[1] = f
        /\ \A k \in 2..(Len(Tail(s)) + 1) : p[k] = Tail(s)[k - 1]
    BY <1>1, PushFacts
  <2>2. \A k \in 1..(Len(s) - 1) : Tail(s)[k] = s[k + 1]
    BY PopFacts
  <2>3. ASSUME NEW k \in 2..Len(s) PROVE p[k] = s[k]
    <3>1. k \in 2..(Len(Tail(s)) + 1) /\ k - 1 \in 1..(Len(s) - 1) /\ (k - 1) + 1 = k
      BY <1>1
    <3>2. Tail(s)[k - 1] = s[(k - 1) + 1]
      BY <2>2, <3>1
    <3> QED
      BY <2>1, <3>1, <3>2
  <2> QED
    BY <2>1, <2>3, <1>1
<1> HIDE DEF p
<1>3. \A k \in 1..Len(s) : p[k].left \subseteq s[k].left /\ p[k].op = s[k].op
  BY <1>1, <1>2
<1>4. ASSUME NEW k \in 1..Len(p)
      PROVE  /\ (\E h \in Helpers : h \in p[k].left) => k = Len(p)
             /\ Curve \in p[k].left => k = Len(p) \/ (k = 1 /\ CurveNext(p))
             /\ p[k].op = "curve" =>
                   /\ k < Len(p) /\ p[k].left = {}
                   /\ \A j \in 1..(k - 1) :
                         p[j].op = "notify" /\ \A x \in p[j].left : Beyond(x, eng, fr)
  <2>1. k \in 1..Len(s)
    BY <1>2
  <2>2. /\ (\E h \in Helpers : h \in s[k].left) => k = Len(s)
        /\ Curve \in s[k].left => k = Len(s) \/ (k = 1 /\ CurveNext(s))
        /\ s[k].op = "curve" =>
              /\ k < Len(s) /\ s[k].left = {}
              /\ \A j \in 1..(k - 1) :
                    s[j].op = "notify" /\ \A x \in s[j].left : Beyond(x, eng, fr)
    BY <2>1 DEF Shape
  <2>3. \A j \in 1..(k - 1) : j \in 1..Len(s)
    BY <2>1, <1>1
  <2>4. ASSUME Curve \in p[k].left PROVE k = Len(p) \/ (k = 1 /\ CurveNext(p))
    <3>1. k = Len(s) \/ (k = 1 /\ CurveNext(s))
      BY <2>4, <2>1, <2>2, <1>3
    <3>2. ASSUME k = 1, CurveNext(s), Len(s) # 1 PROVE CurveNext(p)
      BY <3>2, <2>4, <1>2 DEF CurveNext
    <3> QED
      BY <3>1, <3>2, <1>2
  <2>5. (\E h \in Helpers : h \in p[k].left) => k = Len(p)
    BY <2>1, <2>2, <1>2, <1>3
  <2>6. ASSUME p[k].op = "curve"
        PROVE  /\ k < Len(p) /\ p[k].left = {}
               /\ \A j \in 1..(k - 1) :
                     p[j].op = "notify" /\ \A x \in p[j].left : Beyond(x, eng, fr)
    BY <2>6, <2>1, <2>2, <2>3, <1>2, <1>3
  <2> QED
    BY <2>4, <2>5, <2>6
<1>5. Shape(p, eng, fr)
  BY <1>4 DEF Shape
<1> QED
  BY <1>5 DEF p

\* The stack once o has been taken from the top frame.
Rest(o) == <<[Top EXCEPT !.left = @ \ {o}]>> \o Tail(stack)

LEMMA RestFacts ==
    ASSUME stack \in Seq(Frames), Shape(stack, engine, frozen), ~Idle, NEW o \in Top.left
    PROVE  /\ Rest(o) \in Seq(Frames) /\ Rest(o) # <<>> /\ Len(Rest(o)) = Len(stack)
           /\ Shape(Rest(o), engine, frozen)
           /\ \A x : Told(Rest(o), x) => Told(stack, x)
           /\ \A x : x # o /\ Told(stack, x) => Told(Rest(o), x)
           /\ InCurve(Rest(o)) <=> InCurve(stack)
           /\ \A t \in BOOLEAN : Doomed(Rest(o), t) <=> Doomed(stack, t)
           /\ Flagged(Rest(o)) <=> Flagged(stack)
           /\ ~CurveNext(Rest(o))
           /\ o # Curve => ~CurveNext(stack)
           /\ \A x : x # o /\ x \in stack[Len(stack)].left => x \in Rest(o)[Len(Rest(o))].left
           /\ o \in Helpers => Len(stack) = 1
           /\ o = Curve => Len(stack) = 1 \/ CurveNext(stack)
           /\ Told(stack, o) /\ o \in Objects
<1> DEFINE f == [Top EXCEPT !.left = @ \ {o}]
<1>1. /\ stack # <<>> /\ Top = stack[1] /\ Top \in Frames /\ Len(stack) \in Nat \ {0}
      /\ Tail(stack) \in Seq(Frames) /\ Len(Tail(stack)) = Len(stack) - 1
      /\ \A k \in 1..(Len(stack) - 1) : Tail(stack)[k] = stack[k + 1]
  BY PopFacts DEF Idle, Top
<1>2. /\ f \in Frames /\ f.left = Top.left \ {o} /\ f.op = Top.op /\ f.flag = Top.flag
      /\ o \in Objects
  BY <1>1 DEF Frames
<1> HIDE DEF f
<1>3. Rest(o) = <<f>> \o Tail(stack)
  BY DEF Rest, f
<1>4. /\ Rest(o) \in Seq(Frames) /\ Rest(o) # <<>> /\ Len(Rest(o)) = Len(stack)
      /\ Rest(o)[1] = f
  BY <1>1, <1>2, <1>3, PushFacts
<1>5. /\ \A x : Told(Rest(o), x) <=> x \in f.left \/ Told(Tail(stack), x)
      /\ InCurve(Rest(o)) <=> f.op = "curve" \/ InCurve(Tail(stack))
      /\ \A t \in BOOLEAN : Doomed(Rest(o), t) <=>
            (f.op = "curve" /\ t) \/ (f.flag /\ InCurve(Tail(stack))) \/ Doomed(Tail(stack), t)
      /\ Flagged(Rest(o)) <=> f.flag \/ Flagged(Tail(stack))
      /\ Tail(stack) # <<>> => Rest(o)[Len(Rest(o))] = Tail(stack)[Len(Tail(stack))]
  <2>1. PICK r \in Seq(Frames) : r = Tail(stack)
    BY <1>1
  <2>2. Rest(o) = <<f>> \o r
    BY <2>1, <1>3
  <2>3. /\ \A x : Told(Rest(o), x) <=> x \in f.left \/ Told(r, x)
        /\ InCurve(Rest(o)) <=> f.op = "curve" \/ InCurve(r)
        /\ \A t \in BOOLEAN : Doomed(Rest(o), t) <=>
              (f.op = "curve" /\ t) \/ (f.flag /\ InCurve(r)) \/ Doomed(r, t)
        /\ Flagged(Rest(o)) <=> f.flag \/ Flagged(r)
        /\ r # <<>> => Rest(o)[Len(Rest(o))] = r[Len(r)]
    BY <2>2, <1>2, PushSays
  <2> QED
    BY <2>1, <2>3
<1>6. /\ \A x : Told(stack, x) <=> x \in Top.left \/ Told(Tail(stack), x)
      /\ InCurve(stack) <=> Top.op = "curve" \/ InCurve(Tail(stack))
      /\ \A t \in BOOLEAN : Doomed(stack, t) <=>
            (Top.op = "curve" /\ t) \/ (Top.flag /\ InCurve(Tail(stack))) \/ Doomed(Tail(stack), t)
      /\ Flagged(stack) <=> Top.flag \/ Flagged(Tail(stack))
      /\ Tail(stack) # <<>> => stack[Len(stack)] = Tail(stack)[Len(Tail(stack))]
  BY <1>1, PopSays
<1>7. /\ o \in Helpers => Len(stack) = 1
      /\ Curve \in Top.left => Len(stack) = 1 \/ CurveNext(stack)
      /\ CurveNext(stack) => Top.left = {Curve}
  <2>1. 1 \in 1..Len(stack)
    BY <1>1
  <2>2. /\ (\E h \in Helpers : h \in Top.left) => 1 = Len(stack)
        /\ Curve \in Top.left => 1 = Len(stack) \/ CurveNext(stack)
    BY <1>1, <2>1 DEF Shape
  <2> QED
    BY <1>1, <2>2 DEF CurveNext
<1>8. Curve \in f.left => Len(stack) = 1
  BY <1>2, <1>7
<1>9. Shape(Rest(o), engine, frozen)
  BY <1>1, <1>2, <1>3, <1>8, ShapeReplace
<1>10. ~CurveNext(Rest(o))
  <2> SUFFICES ASSUME CurveNext(Rest(o)) PROVE FALSE
    OBVIOUS
  <2>1. Len(stack) = 2 /\ Curve \in f.left
    BY <1>4 DEF CurveNext
  <2> QED
    BY <2>1, <1>8
<1>11. ASSUME NEW x, x # o, x \in stack[Len(stack)].left PROVE x \in Rest(o)[Len(Rest(o))].left
  <2>1. CASE Tail(stack) # <<>>
    BY <2>1, <1>5, <1>6, <1>11
  <2>2. CASE Tail(stack) = <<>>
    <3>1. Len(stack) = 1
      <4>1. \A s \in Seq(Frames) : s = <<>> => Len(s) = 0
        BY EmptyFacts
      <4>2. Len(Tail(stack)) = 0
        BY <4>1, <2>2, <1>1, Zenon
      <4> QED
        BY <4>2, <1>1
    <3> QED
      BY <3>1, <1>1, <1>2, <1>4, <1>11
  <2> QED
    BY <2>1, <2>2
<1>12. /\ \A x : Told(Rest(o), x) => Told(stack, x)
       /\ \A x : x # o /\ Told(stack, x) => Told(Rest(o), x)
       /\ Told(stack, o)
  BY <1>2, <1>5, <1>6
<1>13. o # Curve => ~CurveNext(stack)
  BY <1>7
<1>14. /\ InCurve(Rest(o)) <=> InCurve(stack)
       /\ \A t \in BOOLEAN : Doomed(Rest(o), t) <=> Doomed(stack, t)
       /\ Flagged(Rest(o)) <=> Flagged(stack)
  BY <1>2, <1>5, <1>6
<1> QED
  BY <1>2, <1>4, <1>7, <1>9, <1>10, <1>11, <1>12, <1>13, <1>14

-----------------------------------------------------------------------------
(* Dates, bootstrapping and reading.                                       *)

LEMMA DateFacts ==
    ASSUME Types PROVE Date \in Dates \cup {Today} /\ Date \in Nat
  BY ValuationAssumption DEF Types, Date, DateOf

LEMMA BootstrapFacts ==
    ASSUME Types, NEW ref \in Nat, NEW pillar \in [Helpers -> Nat]
    PROVE  Bootstrap(ref, pillar) \in Curves \cup {Failed}
<1> DEFINE alive == {h \in Helpers : pillar[h] > ref}
           nodes == {<<pillar[h], quote[h]>> : h \in alive}
<1>1. ASSUME \A h \in alive : quote[h] # None PROVE nodes \in SUBSET (Nat \X Values)
  BY <1>1 DEF Types
<1>2. ASSUME nodes \in SUBSET (Nat \X Values)
      PROVE  [ref |-> ref, nodes |-> nodes] \in Curves
  BY <1>2 DEF Curves
<1>3. CASE \A h \in alive : quote[h] # None
  BY <1>1, <1>2, <1>3 DEF Bootstrap
<1>4. CASE \E h \in alive : quote[h] = None
  BY <1>4 DEF Bootstrap
<1> QED
  BY <1>3, <1>4

LEMMA PillarFacts ==
    ASSUME NEW d \in [Helpers -> Nat]
    PROVE  [h \in Helpers |-> pillarDate(h, d[h])] \in [Helpers -> Nat]
  BY ValuationAssumption DEF pillarDate

LEMMA CurveFacts ==
    ASSUME Types
    PROVE  /\ ReferenceDate \in Nat
           /\ CurveResult \in Curves \cup {Failed} /\ CurveTruth \in Curves \cup {Failed}
           /\ built => CurveResult = curve /\ curve # Failed
<1>1. ReferenceDate \in Nat /\ Date \in Nat
  BY DateFacts DEF ReferenceDate, Types
<1>2. [h \in Helpers |-> pillarDate(h, helperDate[h])] \in [Helpers -> Nat]
  BY PillarFacts DEF Types
<1>3. [h \in Helpers |-> pillarDate(h, Date)] \in [Helpers -> Nat]
  BY <1>1, ValuationAssumption DEF pillarDate
<1>4. built => curve \in Curves /\ curve # Failed
  BY KindsAssumption DEF Types
<1>5. Bootstrap(ReferenceDate, [h \in Helpers |-> pillarDate(h, helperDate[h])])
         \in Curves \cup {Failed}
  BY <1>1, <1>2, BootstrapFacts
<1>6. CurveTruth \in Curves \cup {Failed}
  BY <1>1, <1>3, BootstrapFacts DEF CurveTruth
<1> QED
  BY <1>1, <1>4, <1>5, <1>6 DEF CurveResult

\* When every date is the evaluation date, bootstrapping gives the true curve.
LEMMA FreshCurve ==
    ASSUME Types, RefOK, ~built, \A h \in Relative : helperDate[h] = Date
    PROVE  CurveResult = CurveTruth
<1>1. ReferenceDate = Date
  BY DEF RefOK, ReferenceDate
<1>2. \A h \in Helpers : pillarDate(h, helperDate[h]) = pillarDate(h, Date)
  BY DEF pillarDate
<1>3. [h \in Helpers |-> pillarDate(h, helperDate[h])] = [h \in Helpers |-> pillarDate(h, Date)]
  BY <1>2
<1> QED
  BY <1>1, <1>3 DEF CurveResult, CurveTruth

\* A step that at most reads the curve.
Reads ==
    /\ UNCHANGED curveVars \/ ReadCurve
    /\ UNCHANGED <<evaluationDate, quote, helperDate>>

LEMMA ReadsFacts ==
    ASSUME Types, Reads
    PROVE  /\ Date' = Date /\ CurveTruth' = CurveTruth /\ ReferenceDate' = ReferenceDate
           /\ RefOK' <=> RefOK
           /\ built => built' /\ curve' = curve
           /\ Hopeless => Hopeless'
           /\ built' /\ ~built => ReadCurve /\ curve' = CurveResult /\ CurveResult # Failed
           /\ updated' \in BOOLEAN /\ (updated' => referenceDate' \in Nat)
           /\ built' \in BOOLEAN /\ (built' => curve' \in Curves)
           /\ CurveResult' = CurveResult
<1>1. Date' = Date
  BY DEF Reads, Date, DateOf
<1>2. \A ref, pillar : Bootstrap(ref, pillar)' = Bootstrap(ref, pillar)
  BY DEF Reads, Bootstrap
<1>3. CurveTruth' = CurveTruth
  BY <1>1 DEF CurveTruth, Bootstrap, Reads
<1>4. /\ ReferenceDate \in Nat
      /\ CurveResult \in Curves \cup {Failed}
      /\ built => CurveResult = curve /\ curve # Failed
  BY CurveFacts
<1>5. CASE UNCHANGED curveVars
  <2>1. ReferenceDate' = ReferenceDate
    BY <1>1, <1>5 DEF ReferenceDate, curveVars
  <2>2. CurveResult' = CurveResult
    BY <2>1, <1>5 DEF CurveResult, Bootstrap, Reads, curveVars
  <2> QED
    BY <2>1, <2>2, <1>1, <1>3, <1>5 DEF curveVars, RefOK, Hopeless, Types
<1>6. CASE ReadCurve
  <2>1. /\ updated' = TRUE /\ referenceDate' = ReferenceDate
        /\ built' = (CurveResult # Failed)
        /\ curve' = IF CurveResult = Failed THEN curve ELSE CurveResult
    BY <1>6 DEF ReadCurve
  <2>2. ReferenceDate' = ReferenceDate
    BY <2>1 DEF ReferenceDate
  <2>3. RefOK' <=> RefOK
    BY <2>1, <1>1 DEF RefOK, ReferenceDate
  <2>4. CurveResult' = CurveResult
    <3>1. CASE CurveResult = Failed
      <4>1. ~built /\ ~built'
        BY <3>1, <1>4, <2>1
      <4> QED
        BY <4>1, <2>2 DEF CurveResult, Bootstrap, Reads
    <3>2. CASE CurveResult # Failed
      BY <3>2, <2>1 DEF CurveResult
    <3> QED
      BY <3>1, <3>2
  <2> QED
    BY <2>1, <2>2, <2>3, <2>4, <1>1, <1>3, <1>4, <1>6 DEF Hopeless
<1> QED
  BY <1>5, <1>6 DEF Reads

\* While there are observers to read it, a curve with an old reference date has
\* an update to come.
LEMMA OldIsPending ==
    ASSUME RefInv, ~Pending(stack), Idle \/ Eagers # {}
    PROVE  RefOK
<1>1. ~CurveNext(stack)
  <2> SUFFICES ASSUME CurveNext(stack) PROVE FALSE
    OBVIOUS
  <2>1. 1 \in 1..Len(stack) /\ Curve \in stack[1].left
    BY DEF CurveNext
  <2> QED
    BY <2>1 DEF Pending, Told
<1>2. TwoToCome(stack) => stack # <<>> /\ Curve \in stack[Len(stack)].left
  BY DEF TwoToCome
<1>3. Idle => ~InCurve(stack)
  BY EmptySays DEF Idle
<1>4. \A s : Len(s) \in Nat \ {0} /\ Curve \in s[Len(s)].left => Pending(s)
  BY DEF Pending, Told
<1> QED
  BY <1>1, <1>2, <1>3, <1>4 DEF RefInv

\* A step that at most reads the curve and does not change who is going to notify
\* it keeps the invariant; observers read, and clients between calls.
LEMMA CurveKeep ==
    ASSUME CurveInv, Types', Shape(stack, engine, frozen)', ThrowInv', Reads,
           \A x \in Helpers \cup {Curve} : Told(stack', x) <=> Told(stack, x),
           InCurve(stack) => InCurve(stack'),
           TwoToCome(stack) => TwoToCome(stack'),
           CurveNext(stack) => CurveNext(stack') /\ UNCHANGED built,
           ~built /\ built' => Idle \/ Eagers # {}
    PROVE  CurveInv'
<1>1. /\ Types /\ RefInv /\ HelperInv /\ BuiltInv
      /\ Date' = Date /\ CurveTruth' = CurveTruth
      /\ RefOK' <=> RefOK
      /\ built => built' /\ curve' = curve
      /\ Hopeless => Hopeless'
      /\ built' /\ ~built => curve' = CurveResult
  BY ReadsFacts DEF CurveInv
<1>2. Pending(stack') <=> Pending(stack)
  BY DEF Pending
<1>3. RefInv'
  <2>1. CASE RefOK
    BY <2>1, <1>1 DEF RefInv
  <2>2. CASE TwoToCome(stack)
    BY <2>2 DEF RefInv
  <2>3. CASE Pending(stack) /\ (InCurve(stack) \/ Hopeless)
    BY <2>3, <1>1, <1>2 DEF RefInv
  <2>4. CASE ~built /\ CurveNext(stack)
    BY <2>4 DEF RefInv
  <2>5. CASE Eagers = {} /\ Pending(stack)
    BY <2>5, <1>2 DEF RefInv
  <2>6. CASE Eagers = {} /\ InCurve(stack) /\ ~built
    <3>1. ~Idle
      BY <2>6, EmptySays DEF Idle
    <3> QED
      BY <2>6, <3>1 DEF RefInv
  <2> QED
    BY <2>1, <2>2, <2>3, <2>4, <2>5, <2>6, <1>1 DEF RefInv
<1>4. HelperInv'
  <2>1. Relative \subseteq Helpers /\ UNCHANGED helperDate
    BY ValuationAssumption DEF Reads
  <2> QED
    BY <2>1, <1>1 DEF HelperInv
<1>5. BuiltInv'
  <2> SUFFICES ASSUME built', ~Pending(stack') PROVE curve' = CurveTruth'
    BY DEF BuiltInv
  <2>1. CASE built
    BY <2>1, <1>1, <1>2 DEF BuiltInv
  <2>2. CASE ~built
    <3>1. RefOK
      BY <2>2, <1>1, <1>2, OldIsPending
    <3>2. \A h \in Relative : helperDate[h] = Date
      BY <1>1, <1>2, ValuationAssumption DEF HelperInv, Pending
    <3> QED
      BY <2>2, <3>1, <3>2, <1>1, FreshCurve
  <2> QED
    BY <2>1, <2>2
<1> QED
  BY <1>3, <1>4, <1>5 DEF CurveInv

-----------------------------------------------------------------------------
(* Steps of a loop.                                                        *)

LEMMA ObserverFacts ==
    ASSUME Types
    PROVE  /\ \A n : /\ NotifyFrame(n) \in Frames
                     /\ NotifyFrame(n).left = ObserversOf(n)
                     /\ NotifyFrame(n).op = "notify" /\ NotifyFrame(n).flag = FALSE
           /\ CurveFrame \in Frames /\ CurveFrame.left = {}
           /\ CurveFrame.op = "curve" /\ CurveFrame.flag = FALSE
           /\ ObserversOf(EvaluationDate) = Relative \cup WatchDate \cup {Curve}
           /\ \A h \in Helpers : ObserversOf(h) = {Curve}
           /\ ObserversOf(Curve) = {e \in Eagers : Watched[e] = Curve} \cup {Engine}
           /\ ObserversOf(Engine) = {i \in Instruments : engine[i] = Engine}
           /\ \A i \in Instruments : ObserversOf(i) = {e \in Eagers : Watched[e] = i}
<1>1. \A n : ObserversOf(n) \subseteq Objects
  BY ValuationAssumption DEF ObserversOf, Objects
<1>2. \A n : /\ NotifyFrame(n) \in Frames
             /\ NotifyFrame(n).left = ObserversOf(n)
             /\ NotifyFrame(n).op = "notify" /\ NotifyFrame(n).flag = FALSE
  BY <1>1 DEF NotifyFrame, Frames
<1>3. /\ CurveFrame \in Frames /\ CurveFrame.left = {}
      /\ CurveFrame.op = "curve" /\ CurveFrame.flag = FALSE
  BY DEF CurveFrame, Frames
<1>4. \A e \in Eagers : Watched[e] \in Instruments \cup {Curve}
  BY ValuationAssumption
<1>5. ObserversOf(EvaluationDate) = Relative \cup WatchDate \cup {Curve}
  BY <1>4, KindsAssumption DEF ObserversOf
<1>6. \A h \in Helpers : ObserversOf(h) = {Curve}
  <2> SUFFICES ASSUME NEW h \in Helpers PROVE ObserversOf(h) = {Curve}
    OBVIOUS
  <2>1. h # EvaluationDate /\ {e \in Eagers : Watched[e] = h} = {}
    BY <1>4, KindsAssumption
  <2> QED
    BY <2>1 DEF ObserversOf
<1>7. ObserversOf(Curve) = {e \in Eagers : Watched[e] = Curve} \cup {Engine}
  BY KindsAssumption DEF ObserversOf
<1>8. ObserversOf(Engine) = {i \in Instruments : engine[i] = Engine}
  <2>1. {e \in Eagers : Watched[e] = Engine} = {}
    BY <1>4, KindsAssumption
  <2> QED
    BY <2>1, KindsAssumption DEF ObserversOf
<1>9. \A i \in Instruments : ObserversOf(i) = {e \in Eagers : Watched[e] = i}
  BY KindsAssumption DEF ObserversOf
<1> QED
  BY <1>2, <1>3, <1>5, <1>6, <1>7, <1>8, <1>9

\* The loop calls an observer that is neither a helper nor the curve, and that
\* returns at once ...
LEMMA QuietReturn ==
    ASSUME CurveInv, ~Idle, NEW o \in Top.left, o \notin Helpers \cup {Curve},
           stack' = Rest(o), UNCHANGED <<engine, frozen>>
    PROVE  /\ stack' \in Seq(Frames) /\ Shape(stack, engine, frozen)'
           /\ \A x \in Helpers \cup {Curve} : Told(stack', x) <=> Told(stack, x)
           /\ InCurve(stack') <=> InCurve(stack)
           /\ \A t \in BOOLEAN : Doomed(stack', t) <=> Doomed(stack, t)
           /\ Flagged(stack') <=> Flagged(stack)
           /\ TwoToCome(stack) => TwoToCome(stack')
           /\ ~CurveNext(stack)
<1>1. stack \in Seq(Frames) /\ Shape(stack, engine, frozen)
  BY DEF CurveInv, Types
<1>2. /\ Rest(o) \in Seq(Frames) /\ Rest(o) # <<>>
      /\ Shape(Rest(o), engine, frozen)
      /\ \A x : Told(Rest(o), x) => Told(stack, x)
      /\ \A x : x # o /\ Told(stack, x) => Told(Rest(o), x)
      /\ InCurve(Rest(o)) <=> InCurve(stack)
      /\ \A t \in BOOLEAN : Doomed(Rest(o), t) <=> Doomed(stack, t)
      /\ Flagged(Rest(o)) <=> Flagged(stack)
      /\ ~CurveNext(stack)
      /\ \A x : x # o /\ x \in stack[Len(stack)].left => x \in Rest(o)[Len(Rest(o))].left
  BY <1>1, RestFacts
<1>3. TwoToCome(stack) => TwoToCome(Rest(o))
  <2>1. \A x \in Helpers \cup {Curve} : x # o
    OBVIOUS
  <2> QED
    BY <1>2, <2>1 DEF TwoToCome
<1>4. Shape(stack, engine, frozen)'
  BY <1>2
<1> QED
  BY <1>2, <1>3, <1>4

\* ... or notifies in turn.
LEMMA QuietCall ==
    ASSUME CurveInv, ~Idle, NEW o \in Top.left, o \notin Helpers \cup {Curve},
           NEW f \in Frames, f.op = "notify", ~f.flag, \A x \in Helpers \cup {Curve} : x \notin f.left,
           InCurve(stack) => \A x \in f.left : Beyond(x, engine, frozen),
           stack' = <<f>> \o Rest(o), UNCHANGED <<engine, frozen>>
    PROVE  /\ stack' \in Seq(Frames) /\ Shape(stack, engine, frozen)'
           /\ \A x \in Helpers \cup {Curve} : Told(stack', x) <=> Told(stack, x)
           /\ InCurve(stack') <=> InCurve(stack)
           /\ \A t \in BOOLEAN : Doomed(stack', t) <=> Doomed(stack, t)
           /\ Flagged(stack') <=> Flagged(stack)
           /\ TwoToCome(stack) => TwoToCome(stack')
           /\ ~CurveNext(stack)
           /\ \A x : Told(stack', x) <=> x \in f.left \/ Told(Rest(o), x)
<1>1. stack \in Seq(Frames) /\ Shape(stack, engine, frozen)
  BY DEF CurveInv, Types
<1>2. /\ Rest(o) \in Seq(Frames) /\ Rest(o) # <<>>
      /\ Shape(Rest(o), engine, frozen)
      /\ \A x : Told(Rest(o), x) => Told(stack, x)
      /\ \A x : x # o /\ Told(stack, x) => Told(Rest(o), x)
      /\ InCurve(Rest(o)) <=> InCurve(stack)
      /\ \A t \in BOOLEAN : Doomed(Rest(o), t) <=> Doomed(stack, t)
      /\ Flagged(Rest(o)) <=> Flagged(stack)
      /\ ~CurveNext(stack) /\ ~CurveNext(Rest(o))
      /\ \A x : x # o /\ x \in stack[Len(stack)].left => x \in Rest(o)[Len(Rest(o))].left
  BY <1>1, RestFacts
<1>3. PICK r \in Seq(Frames) : r = Rest(o)
  BY <1>2
<1>4. PICK s : s = <<f>> \o r
  OBVIOUS
<1>5. /\ \A x : Told(s, x) <=> x \in f.left \/ Told(r, x)
      /\ InCurve(s) <=> f.op = "curve" \/ InCurve(r)
      /\ \A t \in BOOLEAN : Doomed(s, t) <=>
            (f.op = "curve" /\ t) \/ (f.flag /\ InCurve(r)) \/ Doomed(r, t)
      /\ Flagged(s) <=> f.flag \/ Flagged(r)
      /\ s[Len(s)] = r[Len(r)]
      /\ s \in Seq(Frames) /\ s # <<>>
  BY <1>2, <1>3, <1>4, PushSays, PushFacts
<1>6. Shape(s, engine, frozen)
  <2>1. Curve \in f.left => f.left = {Curve} /\ Len(r) = 1
    OBVIOUS
  <2>2. \A h \in Helpers : h \notin f.left
    OBVIOUS
  <2>3. InCurve(r) => f.op = "notify" /\ \A x \in f.left : Beyond(x, engine, frozen)
    BY <1>2, <1>3
  <2>4. Shape(r, engine, frozen) /\ r # <<>> /\ ~CurveNext(r)
    BY <1>2, <1>3
  <2>5. Shape(<<f>> \o r, engine, frozen)
    BY <2>1, <2>2, <2>3, <2>4, ShapePush
  <2> QED
    BY <2>5, <1>4
<1>7. TwoToCome(stack) => TwoToCome(s)
  <2>1. \A x \in Helpers \cup {Curve} : x # o
    OBVIOUS
  <2> QED
    BY <1>2, <1>3, <1>5, <2>1 DEF TwoToCome
<1>8. stack' = s
  BY <1>3, <1>4
<1>9. Shape(stack, engine, frozen)'
  BY <1>6, <1>8
<1>10. \A t \in BOOLEAN : Doomed(s, t) <=> Doomed(stack, t)
  BY <1>2, <1>3, <1>5
<1>11. /\ \A x \in Helpers \cup {Curve} : Told(s, x) <=> Told(stack, x)
       /\ InCurve(s) <=> InCurve(stack)
       /\ Flagged(s) <=> Flagged(stack)
       /\ \A x : Told(s, x) <=> x \in f.left \/ Told(Rest(o), x)
  BY <1>2, <1>3, <1>5
<1> QED
  BY <1>2, <1>5, <1>7, <1>8, <1>9, <1>10, <1>11

\* While the curve notifies, what is called is beyond it.
LEMMA TopBeyond ==
    ASSUME Types, Shape(stack, engine, frozen), TopIs("notify"), InCurve(stack), NEW o \in Top.left
    PROVE  Beyond(o, engine, frozen)
<1>1. PICK k \in 1..Len(stack) : stack[k].op = "curve"
  BY DEF InCurve
<1>2. k # 1
  BY <1>1 DEF TopIs, Top
<1>3. Len(stack) \in Nat
  BY EmptyFacts DEF Types
<1>4. 1 \in 1..(k - 1)
  BY <1>2, <1>3
<1> QED
  BY <1>1, <1>4 DEF Shape, Top

LEMMA PriceFacts ==
    ASSUME Types
    PROVE  /\ PriceOf(CurveResult, ReferenceDate) \in Prices \cup {Failed}
           /\ PriceOf(CurveResult, ReferenceDate) = Failed <=> CurveResult = Failed
           /\ \A i \in Instruments :
                /\ NPV(i) \in Prices \cup {Zero, Failed}
                /\ NPV(i) = Failed <=>
                      /\ ~isExpired(i)
                      /\ \/ (calculated[i] \/ frozen[i]) /\ npv[i] = None
                         \/ ~(calculated[i] \/ frozen[i]) /\ (engine[i] = None \/ CurveResult = Failed)
<1>1. /\ ReferenceDate \in Nat
      /\ CurveResult \in Curves \cup {Failed}
  BY CurveFacts
<1>2. \A c \in Curves, d \in Nat : PriceOf(c, d) \in Prices
  <2>1. \A c \in Curves, d \in Nat : [curve |-> c, ref |-> d] \in Prices
    BY DEF Prices
  <2> QED
    BY <2>1, KindsAssumption DEF PriceOf
<1>3. Failed \notin Prices /\ Failed # Zero
  BY KindsAssumption
<1>4. /\ PriceOf(CurveResult, ReferenceDate) \in Prices \cup {Failed}
      /\ PriceOf(CurveResult, ReferenceDate) = Failed <=> CurveResult = Failed
  BY <1>1, <1>2, <1>3 DEF PriceOf
<1>5. ASSUME NEW i \in Instruments
      PROVE  /\ NPV(i) \in Prices \cup {Zero, Failed}
             /\ NPV(i) = Failed <=>
                   /\ ~isExpired(i)
                   /\ \/ (calculated[i] \/ frozen[i]) /\ npv[i] = None
                      \/ ~(calculated[i] \/ frozen[i]) /\ (engine[i] = None \/ CurveResult = Failed)
  <2>1. npv[i] \in Prices \cup {Zero, None}
    BY DEF Types
  <2>2. CASE isExpired(i)
    BY <2>2, <1>3 DEF NPV
  <2>3. CASE ~isExpired(i) /\ (calculated[i] \/ frozen[i])
    BY <2>1, <2>3, <1>3 DEF NPV
  <2>4. CASE ~isExpired(i) /\ ~(calculated[i] \/ frozen[i])
    BY <2>4, <1>4 DEF NPV
  <2> QED
    BY <2>2, <2>3, <2>4
<1> QED
  BY <1>4, <1>5

LEMMA ReadNPVFacts ==
    ASSUME Types, NEW i \in Instruments, ReadNPV(i)
    PROVE  /\ UNCHANGED curveVars \/ ReadCurve
           /\ calculated' \in [Instruments -> BOOLEAN]
           /\ npv' \in [Instruments -> Prices \cup {Zero, None}]
           /\ \A j \in Instruments : calculated'[j] => npv'[j] # None
           /\ \A j \in Instruments \ {i} : calculated'[j] = calculated[j] /\ npv'[j] = npv[j]
<1>1. NPV(i) \in Prices \cup {Zero, Failed} /\ None \notin Prices \cup {Zero, Failed}
  BY PriceFacts, KindsAssumption
<1>2. UNCHANGED curveVars \/ ReadCurve
  BY DEF ReadNPV
<1>3. CASE isExpired(i) \/ ~(calculated[i] \/ frozen[i])
  <2>1. /\ calculated' = [calculated EXCEPT ![i] = NPV(i) # Failed]
        /\ npv' = IF NPV(i) = Failed THEN npv ELSE [npv EXCEPT ![i] = NPV(i)]
    BY <1>3 DEF ReadNPV
  <2>2. CASE NPV(i) = Failed
    <3>1. calculated' = [calculated EXCEPT ![i] = FALSE] /\ npv' = npv
      BY <2>1, <2>2
    <3> QED
      BY <3>1, <1>2 DEF Types
  <2>3. CASE NPV(i) # Failed
    <3>1. calculated' = [calculated EXCEPT ![i] = TRUE] /\ npv' = [npv EXCEPT ![i] = NPV(i)]
      BY <2>1, <2>3
    <3>2. NPV(i) \in Prices \cup {Zero}
      BY <2>3, <1>1
    <3> HIDE DEF NPV
    <3> QED
      BY <3>1, <3>2, <1>1, <1>2 DEF Types
  <2> QED
    BY <2>2, <2>3
<1>4. CASE ~(isExpired(i) \/ ~(calculated[i] \/ frozen[i]))
  <2>1. UNCHANGED instrumentVars
    BY <1>4 DEF ReadNPV
  <2> QED
    BY <2>1, <1>2 DEF Types, instrumentVars
<1> QED
  BY <1>3, <1>4

\* What is the same for all objects but helpers and the curve.
Loop == TopIs("notify") /\ ~thrown /\ UNCHANGED <<evaluationDate, saved, quote, engine, frozen>>

LEMMA EngineStep ==
    ASSUME CurveInv, Loop, Engine \in Top.left,
           stack' = <<NotifyFrame(Engine)>> \o Rest(Engine),
           UNCHANGED <<helperDate, curveVars, instrumentVars, view, thrown>>
    PROVE  CurveInv'
<1>1. /\ Types /\ ThrowInv /\ ~Idle /\ Reads
      /\ UNCHANGED <<evaluationDate, saved, quote, engine, frozen>>
      /\ Engine \notin Helpers \cup {Curve} /\ Engine # EvaluationDate
  BY KindsAssumption DEF CurveInv, Loop, TopIs, Reads
<1>2. PICK f \in Frames : f = NotifyFrame(Engine)
  BY <1>1, ObserverFacts
<1>3. f.op = "notify" /\ ~f.flag /\ f.left = {i \in Instruments : engine[i] = Engine}
  BY <1>1, <1>2, ObserverFacts
<1>4. \A x \in f.left : Beyond(x, engine, frozen)
  BY <1>3, KindsAssumption DEF Beyond
<1>5. /\ stack' \in Seq(Frames) /\ Shape(stack, engine, frozen)'
      /\ \A x \in Helpers \cup {Curve} : Told(stack', x) <=> Told(stack, x)
      /\ InCurve(stack') <=> InCurve(stack)
      /\ \A t \in BOOLEAN : Doomed(stack', t) <=> Doomed(stack, t)
      /\ Flagged(stack') <=> Flagged(stack)
      /\ TwoToCome(stack) => TwoToCome(stack')
      /\ ~CurveNext(stack)
  <2>1. \A x \in Helpers \cup {Curve} : x \notin f.left
    BY <1>4 DEF Beyond
  <2> QED
    BY <1>1, <1>2, <1>3, <1>4, <2>1, QuietCall
<1>6. Types'
  BY <1>1, <1>5 DEF Types, curveVars, instrumentVars
<1>7. ThrowInv'
  <2>1. (Hopeless => Hopeless') /\ thrown' = thrown /\ thrown \in BOOLEAN
    BY <1>1, ReadsFacts DEF Types
  <2> QED
    BY <2>1, <1>1, <1>5 DEF ThrowInv
<1> QED
  BY <1>1, <1>5, <1>6, <1>7, CurveKeep DEF curveVars

LEMMA InstrumentStep ==
    ASSUME CurveInv, Loop, NEW i \in Instruments, i \in Top.left, UpdateInstrument(i, Rest(i))
    PROVE  CurveInv'
<1>1. /\ Types /\ ThrowInv /\ ~Idle /\ Reads /\ Shape(stack, engine, frozen)
      /\ UNCHANGED <<evaluationDate, saved, quote, helperDate, curveVars, engine, frozen, npv, view, thrown>>
      /\ calculated' = [calculated EXCEPT ![i] = FALSE]
      /\ stack' = IF calculated[i] /\ ~frozen[i] THEN <<NotifyFrame(i)>> \o Rest(i) ELSE Rest(i)
      /\ i \notin Helpers \cup {Curve}
  BY KindsAssumption DEF CurveInv, Loop, TopIs, Reads, UpdateInstrument
<1>2. /\ stack' \in Seq(Frames) /\ Shape(stack, engine, frozen)'
      /\ \A x \in Helpers \cup {Curve} : Told(stack', x) <=> Told(stack, x)
      /\ InCurve(stack') <=> InCurve(stack)
      /\ \A t \in BOOLEAN : Doomed(stack', t) <=> Doomed(stack, t)
      /\ Flagged(stack') <=> Flagged(stack)
      /\ TwoToCome(stack) => TwoToCome(stack')
      /\ ~CurveNext(stack)
  <2>1. CASE calculated[i] /\ ~frozen[i]
    <3>1. stack' = <<NotifyFrame(i)>> \o Rest(i)
      BY <2>1, <1>1
    <3>2. PICK f \in Frames : f = NotifyFrame(i)
      BY <1>1, ObserverFacts
    <3>3. f.op = "notify" /\ ~f.flag /\ f.left = {e \in Eagers : Watched[e] = i}
      BY <1>1, <3>2, ObserverFacts
    <3>4. \A x \in Helpers \cup {Curve} : x \notin f.left
      BY <3>3, KindsAssumption
    <3>5. ASSUME InCurve(stack), NEW x \in f.left PROVE Beyond(x, engine, frozen)
      <4>1. engine[i] = Engine
        <5>1. Beyond(i, engine, frozen)
          BY <1>1, <3>5, TopBeyond DEF Loop
        <5> QED
          BY <5>1 DEF Beyond
      <4> QED
        BY <4>1, <2>1, <3>3, <3>4, KindsAssumption DEF Beyond
    <3> QED
      BY <1>1, <3>1, <3>2, <3>3, <3>4, <3>5, QuietCall
  <2>2. CASE ~(calculated[i] /\ ~frozen[i])
    <3>1. stack' = Rest(i)
      BY <2>2, <1>1
    <3> QED
      BY <1>1, <3>1, QuietReturn
  <2> QED
    BY <2>1, <2>2
<1>3. Types'
  <2>1. /\ calculated' \in [Instruments -> BOOLEAN]
        /\ \A j \in Instruments : calculated'[j] => calculated[j]
    BY <1>1 DEF Types
  <2> QED
    BY <1>1, <1>2, <2>1 DEF Types, curveVars
<1>4. ThrowInv'
  <2>1. (Hopeless => Hopeless') /\ thrown' = thrown /\ thrown \in BOOLEAN
    BY <1>1, ReadsFacts DEF Types
  <2> QED
    BY <2>1, <1>1, <1>2 DEF ThrowInv
<1> QED
  BY <1>1, <1>2, <1>3, <1>4, CurveKeep DEF curveVars

LEMMA DoomedFacts ==
    ASSUME NEW s, NEW t \in BOOLEAN
    PROVE  /\ Doomed(s, t) <=> Doomed(s, FALSE) \/ (t /\ InCurve(s))
           /\ Doomed(s, t) => InCurve(s)
  BY DEF Doomed, InCurve, Flagged

\* What an eager observer reads.
Seen(e) ==
    IF Watched[e] = Curve THEN PriceOf(CurveResult, ReferenceDate) ELSE NPV(Watched[e])

\* An observer that the curve's notification reaches fails only if the curve does.
LEMMA SeenFails ==
    ASSUME Types, NEW e \in Eagers, Beyond(e, engine, frozen), Seen(e) = Failed
    PROVE  Hopeless
<1>1. built => CurveResult # Failed
  BY CurveFacts
<1>2. CASE Watched[e] = Curve
  BY <1>1, <1>2, PriceFacts DEF Seen, Hopeless
<1>3. CASE Watched[e] # Curve
  <2>1. Watched[e] \in Instruments /\ engine[Watched[e]] = Engine /\ ~frozen[Watched[e]]
    BY <1>3, ValuationAssumption DEF Beyond
  <2>2. PICK i \in Instruments : i = Watched[e]
    BY <2>1
  <2>3. NPV(i) = Failed /\ engine[i] # None /\ ~frozen[i] /\ (calculated[i] => npv[i] # None)
    BY <2>1, <2>2, <1>3, KindsAssumption DEF Seen, Types
  <2>4. CurveResult = Failed
    BY <2>3, PriceFacts
  <2> QED
    BY <1>1, <2>4 DEF Hopeless
<1> QED
  BY <1>2, <1>3

LEMMA EagerStep ==
    ASSUME CurveInv, Loop, NEW e \in Eagers, e \in Top.left, UpdateEager(e, Rest(e))
    PROVE  CurveInv'
<1>1. /\ Types /\ ThrowInv /\ ~Idle /\ Shape(stack, engine, frozen)
      /\ UNCHANGED <<evaluationDate, saved, quote, helperDate, engine, frozen>>
      /\ view' = [view EXCEPT ![e] = Seen(e)]
      /\ thrown' = (Seen(e) = Failed) /\ ~thrown /\ thrown \in BOOLEAN
      /\ stack' = Rest(e)
      /\ e \notin Helpers \cup {Curve}
  BY KindsAssumption DEF CurveInv, Loop, TopIs, UpdateEager, Seen, Types
<1>2. /\ stack' \in Seq(Frames) /\ Shape(stack, engine, frozen)'
      /\ \A x \in Helpers \cup {Curve} : Told(stack', x) <=> Told(stack, x)
      /\ InCurve(stack') <=> InCurve(stack)
      /\ \A t \in BOOLEAN : Doomed(stack', t) <=> Doomed(stack, t)
      /\ Flagged(stack') <=> Flagged(stack)
      /\ TwoToCome(stack) => TwoToCome(stack')
      /\ ~CurveNext(stack)
  BY <1>1, QuietReturn
<1>3. /\ UNCHANGED curveVars \/ ReadCurve
      /\ calculated' \in [Instruments -> BOOLEAN]
      /\ npv' \in [Instruments -> Prices \cup {Zero, None}]
      /\ \A j \in Instruments : calculated'[j] => npv'[j] # None
      /\ Seen(e) \in Prices \cup {Zero, Failed}
  <2>1. CASE Watched[e] = Curve
    BY <2>1, <1>1, PriceFacts DEF UpdateEager, instrumentVars, Types, Seen
  <2>2. CASE Watched[e] # Curve
    <3>1. PICK i \in Instruments : i = Watched[e]
      BY <2>2, ValuationAssumption
    <3>2. ReadNPV(i) /\ Seen(e) = NPV(i)
      BY <2>2, <3>1 DEF UpdateEager, Seen
    <3> QED
      BY <3>2, <1>1, PriceFacts, ReadNPVFacts
  <2> QED
    BY <2>1, <2>2
<1>4. Reads
  BY <1>1, <1>3 DEF Reads
<1>5. Types'
  <2>1. view' \in [Eagers -> Prices \cup {Zero, None, Failed}]
    BY <1>1, <1>3 DEF Types
  <2>2. /\ updated' \in BOOLEAN /\ (updated' => referenceDate' \in Nat)
        /\ built' \in BOOLEAN /\ (built' => curve' \in Curves)
    BY <1>1, <1>4, ReadsFacts
  <2> QED
    BY <1>1, <1>2, <1>3, <2>1, <2>2 DEF Types
<1>6. ThrowInv'
  <2>1. Hopeless => Hopeless'
    BY <1>1, <1>4, ReadsFacts
  <2>2. PICK t \in BOOLEAN : t = thrown'
    BY <1>1
  <2>3. Doomed(stack', t) <=> Doomed(stack, FALSE) \/ (t /\ InCurve(stack))
    BY <1>2, DoomedFacts
  <2>4. Doomed(stack, FALSE) => Hopeless
    BY <1>1 DEF ThrowInv
  <2>5. ASSUME t, InCurve(stack) PROVE Hopeless
    <3>1. Beyond(e, engine, frozen)
      BY <1>1, <2>5, TopBeyond DEF Loop
    <3> QED
      BY <3>1, <2>2, <2>5, <1>1, SeenFails
  <2> QED
    BY <2>1, <2>2, <2>3, <2>4, <2>5 DEF ThrowInv
<1>7. ~built /\ built' => Idle \/ Eagers # {}
  OBVIOUS
<1> QED
  BY <1>2, <1>4, <1>5, <1>6, <1>7, CurveKeep

\* A loop that may call a helper or the curve is not within the curve's update().
LEMMA NotInCurve ==
    ASSUME Types, Shape(stack, engine, frozen), TopIs("notify"),
           Len(stack) = 1 \/ Len(stack) = 2
    PROVE  ~InCurve(stack)
<1> SUFFICES ASSUME NEW k \in 1..Len(stack), stack[k].op = "curve" PROVE FALSE
  BY DEF InCurve
<1>1. k # 1
  BY DEF TopIs, Top
<1>2. k < Len(stack)
  BY DEF Shape
<1>3. PICK n \in Nat : n = Len(stack)
  BY EmptyFacts DEF Types
<1>4. k \in 1..n /\ k < n /\ (n = 1 \/ n = 2)
  BY <1>2, <1>3
<1> QED
  BY <1>1, <1>4

LEMMA HelperStep ==
    ASSUME CurveInv, Loop, NEW h \in Helpers, h \in Top.left, UpdateHelper(h, Rest(h))
    PROVE  CurveInv'
<1>1. /\ Types /\ RefInv /\ ThrowInv /\ HelperInv /\ ~Idle /\ Shape(stack, engine, frozen)
      /\ UNCHANGED <<evaluationDate, saved, quote, curveVars, engine, frozen, instrumentVars, view, thrown>>
      /\ helperDate' = [helperDate EXCEPT ![h] = IF h \in Relative THEN Date ELSE @]
      /\ stack' = <<NotifyFrame(h)>> \o Rest(h)
      /\ h # Curve /\ ~thrown /\ stack \in Seq(Frames)
  BY KindsAssumption DEF CurveInv, Loop, TopIs, UpdateHelper, Types
<1>2. PICK f \in Frames : f = NotifyFrame(h)
  BY <1>1, ObserverFacts
<1>3. f.op = "notify" /\ ~f.flag /\ f.left = {Curve}
  BY <1>1, <1>2, ObserverFacts
<1>4. PICK r \in Seq(Frames) : r = Rest(h)
  BY <1>1, RestFacts
<1>5. /\ r # <<>> /\ Len(r) = 1 /\ Len(stack) = 1
      /\ Shape(r, engine, frozen)
      /\ \A x : x # h /\ Told(stack, x) => Told(r, x)
      /\ InCurve(r) <=> InCurve(stack)
      /\ Flagged(r) <=> Flagged(stack)
      /\ ~CurveNext(r)
      /\ \A x : x # h /\ x \in stack[Len(stack)].left => x \in r[Len(r)].left
  BY <1>1, <1>4, RestFacts
<1>6. ~InCurve(stack)
  BY <1>1, <1>5, NotInCurve DEF Loop
<1>7. PICK s : s = <<f>> \o r
  OBVIOUS
<1>8. stack' = s
  BY <1>1, <1>2, <1>4, <1>7
<1>9. /\ s \in Seq(Frames) /\ s # <<>> /\ Len(s) = 2 /\ s[1] = f
      /\ \A x : Told(s, x) <=> x \in f.left \/ Told(r, x)
      /\ InCurve(s) <=> f.op = "curve" \/ InCurve(r)
      /\ Flagged(s) <=> f.flag \/ Flagged(r)
      /\ s[Len(s)] = r[Len(r)]
  BY <1>5, <1>7, PushFacts, PushSays
<1>10. CurveNext(s) /\ Pending(s) /\ ~InCurve(s) /\ (Flagged(s) <=> Flagged(stack))
  BY <1>3, <1>5, <1>6, <1>9 DEF CurveNext, Pending
<1>11. Shape(s, engine, frozen)
  <2>1. \A k \in Helpers : k \notin f.left
    BY <1>3, KindsAssumption
  <2> QED
    BY <1>3, <1>5, <1>6, <1>7, <2>1, ShapePush
<1>12. Date' = Date /\ CurveTruth' = CurveTruth /\ (RefOK' <=> RefOK)
  <2>1. Date' = Date
    BY <1>1 DEF Date, DateOf
  <2> QED
    BY <2>1, <1>1 DEF RefOK, CurveTruth, Bootstrap, curveVars
<1>13. Types'
  <2>1. Date \in Nat
    BY <1>1, DateFacts
  <2>2. helperDate' \in [Helpers -> Nat]
    BY <2>1, <1>1 DEF Types
  <2>3. stack' \in Seq(Frames)
    BY <1>8, <1>9
  <2> QED
    BY <1>1, <2>2, <2>3 DEF Types, curveVars, instrumentVars
<1>14. RefInv'
  <2>1. CASE RefOK
    BY <2>1, <1>12 DEF RefInv
  <2>2. CASE TwoToCome(stack)
    <3>1. Curve \in s[Len(s)].left
      BY <2>2, <1>1, <1>5, <1>9 DEF TwoToCome
    <3> QED
      BY <3>1, <1>8, <1>9, <1>10 DEF RefInv, TwoToCome
  <2>3. CASE ~built
    BY <2>3, <1>1, <1>8, <1>10 DEF RefInv, curveVars
  <2>4. CASE Eagers = {}
    BY <2>4, <1>8, <1>10 DEF RefInv
  <2> QED
    BY <2>1, <2>2, <2>3, <2>4, <1>1, <1>6 DEF RefInv, Hopeless
<1>15. ThrowInv'
  <2>1. PICK t \in BOOLEAN : t = thrown' /\ t = thrown
    BY <1>1 DEF Types
  <2>2. ~Doomed(s, t)
    BY <1>10, DoomedFacts
  <2>3. t \/ Flagged(s) => Eagers # {}
    BY <2>1, <1>1, <1>10 DEF ThrowInv
  <2> QED
    BY <2>1, <2>2, <2>3, <1>8 DEF ThrowInv
<1>16. HelperInv'
  <2> SUFFICES ASSUME NEW k \in Relative PROVE helperDate'[k] = Date' \/ Told(stack', k)
    BY DEF HelperInv
  <2>1. helperDate \in [Helpers -> Nat] /\ k \in Helpers
    BY <1>1, ValuationAssumption DEF Types
  <2>2. CASE k = h
    BY <2>1, <2>2, <1>1, <1>12
  <2>3. CASE k # h
    <3>1. helperDate'[k] = helperDate[k]
      BY <2>1, <2>3, <1>1
    <3>2. Told(stack, k) => Told(stack', k)
      BY <2>3, <1>5, <1>8, <1>9
    <3> QED
      BY <3>1, <3>2, <1>1, <1>12 DEF HelperInv
  <2> QED
    BY <2>2, <2>3
<1>17. BuiltInv'
  BY <1>8, <1>10 DEF BuiltInv
<1>18. Shape(stack, engine, frozen)'
  BY <1>1, <1>8, <1>11
<1> QED
  BY <1>13, <1>14, <1>15, <1>16, <1>17, <1>18 DEF CurveInv

LEMMA TwoFrames ==
    ASSUME NEW f \in Frames, NEW g \in Frames, NEW s \in Seq(Frames)
    PROVE  <<f, g>> \o s = <<f>> \o (<<g>> \o s)
<1> DEFINE a == <<f, g>> \o s
           p == <<g>> \o s
           b == <<f>> \o p
<1>1. /\ a \in Seq(Frames) /\ Len(s) \in Nat /\ Len(a) = Len(s) + 2
      /\ a[1] = f /\ a[2] = g
      /\ \A k \in 3..(Len(s) + 2) : a[k] = s[k - 2]
  OBVIOUS
<1>2. /\ p \in Seq(Frames) /\ Len(p) = Len(s) + 1 /\ p[1] = g
      /\ \A k \in 2..(Len(s) + 1) : p[k] = s[k - 1]
  BY PushFacts
<1> HIDE DEF a, p
<1>3. /\ b \in Seq(Frames) /\ Len(b) = Len(p) + 1 /\ b[1] = f
      /\ \A k \in 2..(Len(p) + 1) : b[k] = p[k - 1]
  BY <1>2, PushFacts
<1> HIDE DEF b
<1>4. ASSUME NEW k \in 1..Len(a) PROVE a[k] = b[k]
  <2>1. k = 1 \/ k = 2 \/ k \in 3..(Len(s) + 2)
    BY <1>1
  <2>2. CASE k = 1
    BY <2>2, <1>1, <1>3
  <2>3. CASE k = 2
    BY <2>3, <1>1, <1>2, <1>3
  <2>4. CASE k \in 3..(Len(s) + 2)
    <3>1. /\ k \in 2..(Len(p) + 1) /\ k - 1 \in 2..(Len(s) + 1) /\ (k - 1) - 1 = k - 2
      BY <2>4, <1>1, <1>2
    <3> QED
      BY <2>4, <3>1, <1>1, <1>2, <1>3
  <2> QED
    BY <2>1, <2>2, <2>3, <2>4
<1>5. Len(a) = Len(b)
  BY <1>1, <1>2, <1>3
<1>6. a = b
  BY <1>1, <1>3, <1>4, <1>5, SeqEqual
<1> QED
  BY <1>6 DEF a, b, p

\* The curve, which is not bootstrapped, is told: it forgets its reference date.
LEMMA CurveStepUnbuilt ==
    ASSUME CurveInv, Loop, Curve \in Top.left, UpdateCurve(Rest(Curve)), ~built
    PROVE  CurveInv'
<1>1. /\ Types /\ ThrowInv /\ HelperInv /\ ~Idle /\ Shape(stack, engine, frozen)
      /\ UNCHANGED <<evaluationDate, saved, quote, helperDate, referenceDate, curve, engine, frozen,
                     instrumentVars, view, thrown>>
      /\ built' = FALSE /\ updated' = FALSE /\ stack' = Rest(Curve)
      /\ ~thrown /\ stack \in Seq(Frames)
  BY DEF CurveInv, Loop, TopIs, UpdateCurve, Types
<1>2. /\ Rest(Curve) \in Seq(Frames) /\ Shape(Rest(Curve), engine, frozen)
      /\ \A x : x # Curve /\ Told(stack, x) => Told(Rest(Curve), x)
      /\ InCurve(Rest(Curve)) <=> InCurve(stack)
      /\ Flagged(Rest(Curve)) <=> Flagged(stack)
      /\ Len(stack) = 1 \/ CurveNext(stack)
  BY <1>1, RestFacts
<1>3. ~InCurve(stack)
  BY <1>1, <1>2, NotInCurve DEF Loop, CurveNext
<1>4. Date' = Date
  BY <1>1 DEF Date, DateOf
<1>5. Types'
  BY <1>1, <1>2 DEF Types, instrumentVars
<1>6. RefInv' /\ BuiltInv'
  BY <1>1 DEF RefInv, RefOK, BuiltInv
<1>7. ThrowInv'
  <2>1. PICK t \in BOOLEAN : t = thrown' /\ t = thrown
    BY <1>1 DEF Types
  <2>2. ~Doomed(Rest(Curve), t)
    BY <1>2, <1>3, DoomedFacts
  <2>3. t \/ Flagged(Rest(Curve)) => Eagers # {}
    BY <2>1, <1>1, <1>2 DEF ThrowInv
  <2> QED
    BY <2>1, <2>2, <2>3, <1>1 DEF ThrowInv
<1>8. HelperInv'
  <2>1. \A h \in Relative : h # Curve
    BY ValuationAssumption, KindsAssumption
  <2>2. \A h \in Relative : Told(stack, h) => Told(stack', h)
    BY <1>1, <1>2, <2>1
  <2> QED
    BY <2>2, <1>1, <1>4 DEF HelperInv
<1>9. Shape(stack, engine, frozen)'
  BY <1>1, <1>2
<1> QED
  BY <1>5, <1>6, <1>7, <1>8, <1>9 DEF CurveInv

\* The stack when the curve, which has been bootstrapped, is told.
LEMMA CurveCall ==
    ASSUME CurveInv, Loop, Curve \in Top.left,
           stack' = <<NotifyFrame(Curve), CurveFrame>> \o Rest(Curve), UNCHANGED <<engine, frozen>>
    PROVE  /\ stack' \in Seq(Frames) /\ Shape(stack, engine, frozen)'
           /\ \A x : Told(stack', x) <=> x \in ObserversOf(Curve) \/ Told(Rest(Curve), x)
           /\ InCurve(stack') /\ ~InCurve(stack) /\ ~Doomed(stack', FALSE)
           /\ Flagged(stack') <=> Flagged(stack)
<1>1. Types /\ ~Idle /\ Shape(stack, engine, frozen) /\ stack \in Seq(Frames)
  BY DEF CurveInv, Loop, TopIs, Types
<1>2. PICK r \in Seq(Frames) : r = Rest(Curve)
  BY <1>1, RestFacts
<1>3. /\ r # <<>> /\ Shape(r, engine, frozen)
      /\ InCurve(r) <=> InCurve(stack)
      /\ Flagged(r) <=> Flagged(stack)
      /\ ~CurveNext(r)
      /\ Len(stack) = 1 \/ CurveNext(stack)
  BY <1>1, <1>2, RestFacts
<1>4. ~InCurve(stack)
  BY <1>1, <1>3, NotInCurve DEF Loop, CurveNext
<1>5. PICK f \in Frames, g \in Frames : f = NotifyFrame(Curve) /\ g = CurveFrame
  BY <1>1, ObserverFacts
<1>6. /\ f.op = "notify" /\ ~f.flag /\ f.left = ObserversOf(Curve)
      /\ f.left = {e \in Eagers : Watched[e] = Curve} \cup {Engine}
      /\ g.op = "curve" /\ ~g.flag /\ g.left = {}
  BY <1>1, <1>5, ObserverFacts
<1>7. PICK p : p = <<g>> \o r
  OBVIOUS
<1>8. /\ p \in Seq(Frames) /\ p # <<>> /\ p[1] = g
      /\ \A x : Told(p, x) <=> Told(r, x)
      /\ InCurve(p)
      /\ Flagged(p) <=> Flagged(r)
      /\ Doomed(p, FALSE) <=> Doomed(r, FALSE)
  <2>1. /\ \A x : Told(p, x) <=> x \in g.left \/ Told(r, x)
        /\ InCurve(p) <=> g.op = "curve" \/ InCurve(r)
        /\ \A t \in BOOLEAN : Doomed(p, t) <=>
              (g.op = "curve" /\ t) \/ (g.flag /\ InCurve(r)) \/ Doomed(r, t)
        /\ Flagged(p) <=> g.flag \/ Flagged(r)
    BY <1>7, PushSays
  <2>2. p \in Seq(Frames) /\ p # <<>> /\ p[1] = g
    BY <1>7, PushFacts
  <2> QED
    BY <2>1, <2>2, <1>6
<1>9. Shape(p, engine, frozen)
  BY <1>3, <1>4, <1>6, <1>7, ShapePush
<1>10. PICK s : s = <<f>> \o p
  OBVIOUS
<1>11. /\ \A x : Told(s, x) <=> x \in f.left \/ Told(p, x)
       /\ InCurve(s)
       /\ Flagged(s) <=> Flagged(p)
       /\ Doomed(s, FALSE) <=> Doomed(p, FALSE)
       /\ s \in Seq(Frames)
  <2>1. /\ \A x : Told(s, x) <=> x \in f.left \/ Told(p, x)
        /\ InCurve(s) <=> f.op = "curve" \/ InCurve(p)
        /\ \A t \in BOOLEAN : Doomed(s, t) <=>
              (f.op = "curve" /\ t) \/ (f.flag /\ InCurve(p)) \/ Doomed(p, t)
        /\ Flagged(s) <=> f.flag \/ Flagged(p)
    BY <1>8, <1>10, PushSays
  <2>2. s \in Seq(Frames)
    BY <1>8, <1>10, PushFacts
  <2> QED
    BY <2>1, <2>2, <1>6, <1>8
<1>12. Shape(s, engine, frozen)
  <2>1. ~CurveNext(p)
    BY <1>6, <1>8 DEF CurveNext
  <2>2. \A x \in f.left : Beyond(x, engine, frozen)
    BY <1>6, KindsAssumption DEF Beyond
  <2>3. (\A h \in Helpers : h \notin f.left) /\ Curve \notin f.left
    BY <2>2 DEF Beyond
  <2> QED
    BY <1>6, <1>8, <1>9, <1>10, <2>1, <2>2, <2>3, ShapePush
<1>13. stack' = s
  BY <1>2, <1>5, <1>7, <1>10, TwoFrames
<1>14. ~Doomed(r, FALSE)
  BY <1>3, <1>4, DoomedFacts
<1>15. Shape(stack, engine, frozen)'
  BY <1>12, <1>13
<1> QED
  BY <1>2, <1>3, <1>4, <1>6, <1>8, <1>11, <1>13, <1>14, <1>15

\* It is bootstrapped: it notifies before it forgets its reference date.
LEMMA CurveStepBuilt ==
    ASSUME CurveInv, Loop, Curve \in Top.left, UpdateCurve(Rest(Curve)), built
    PROVE  CurveInv'
<1>1. /\ Types /\ RefInv /\ ThrowInv /\ HelperInv /\ ~Idle /\ Shape(stack, engine, frozen)
      /\ UNCHANGED <<evaluationDate, saved, quote, helperDate, updated, referenceDate, curve, engine,
                     frozen, instrumentVars, view, thrown>>
      /\ built' = FALSE /\ stack' = <<NotifyFrame(Curve), CurveFrame>> \o Rest(Curve)
      /\ ~thrown /\ stack \in Seq(Frames)
  BY DEF CurveInv, Loop, TopIs, UpdateCurve, Types
<1>2. /\ stack' \in Seq(Frames) /\ Shape(stack, engine, frozen)'
      /\ \A x : Told(stack', x) <=> x \in ObserversOf(Curve) \/ Told(Rest(Curve), x)
      /\ InCurve(stack') /\ ~InCurve(stack) /\ ~Doomed(stack', FALSE)
      /\ Flagged(stack') <=> Flagged(stack)
  BY <1>1, CurveCall
<1>3. /\ \A x : x # Curve /\ Told(stack, x) => Told(Rest(Curve), x)
      /\ CurveNext(stack) /\ Curve \in stack[Len(stack)].left => Told(Rest(Curve), Curve)
  <2>1. \A x : x # Curve /\ Told(stack, x) => Told(Rest(Curve), x)
    BY <1>1, RestFacts
  <2>2. ASSUME CurveNext(stack), Curve \in stack[Len(stack)].left PROVE Told(Rest(Curve), Curve)
    <3>1. Rest(Curve) \in Seq(Frames) /\ Len(stack) = 2 /\ Len(Rest(Curve)) = 2 /\ stack # <<>>
      BY <1>1, <2>2, RestFacts DEF CurveNext, Idle
    <3>2. PICK f \in Frames, r \in Seq(Frames) :
             f = [Top EXCEPT !.left = @ \ {Curve}] /\ r = Tail(stack)
      <4>1. Top \in Frames /\ Tail(stack) \in Seq(Frames)
        BY <1>1, <3>1, PopFacts DEF Top
      <4> QED
        BY <4>1 DEF Frames
    <3>3. Rest(Curve) = <<f>> \o r
      BY <3>2 DEF Rest
    <3>4. Len(r) = 1 /\ r[1] = stack[2]
      <4>1. /\ Len(Tail(stack)) = Len(stack) - 1
            /\ \A k \in 1..(Len(stack) - 1) : Tail(stack)[k] = stack[k + 1]
        BY <1>1, <3>1, PopFacts
      <4>2. 1 \in 1..(2 - 1) /\ 2 - 1 = 1 /\ 1 + 1 = 2
        OBVIOUS
      <4> QED
        BY <4>1, <4>2, <3>1, <3>2
    <3>5. Told(r, Curve)
      <4>1. Curve \in r[1].left /\ 1 \in 1..Len(r)
        BY <2>2, <3>1, <3>4
      <4> QED
        BY <4>1 DEF Told
    <3> QED
      BY <3>3, <3>5, PushSays
  <2> QED
    BY <2>1, <2>2
<1>4. Date' = Date /\ (RefOK' <=> RefOK)
  BY <1>1 DEF Date, DateOf, RefOK
<1>5. Types'
  BY <1>1, <1>2 DEF Types, instrumentVars
<1>6. RefInv'
  <2>1. CASE RefOK
    BY <2>1, <1>4 DEF RefInv
  <2>2. CASE TwoToCome(stack)
    <3>1. ASSUME NEW h \in Helpers, h \in stack[Len(stack)].left PROVE Told(Rest(Curve), h)
      <4>1. Len(stack) \in 1..Len(stack)
        BY <1>1, EmptyFacts DEF Idle
      <4>2. Told(stack, h)
        BY <4>1, <3>1 DEF Told
      <4>3. h # Curve
        BY KindsAssumption
      <4> QED
        BY <4>2, <4>3, <1>3
    <3>2. \E x \in Helpers \cup {Curve} : Told(stack', x)
      BY <2>2, <3>1, <1>2, <1>3 DEF TwoToCome
    <3> QED
      BY <3>2, <1>2 DEF RefInv, Pending
  <2>3. CASE Eagers = {}
    BY <2>3, <1>1, <1>2 DEF RefInv
  <2> QED
    BY <2>1, <2>2, <2>3, <1>1, <1>2 DEF RefInv, Hopeless
<1>7. BuiltInv'
  BY <1>1 DEF BuiltInv
<1>8. ThrowInv'
  <2>1. thrown' = FALSE /\ thrown = FALSE
    BY <1>1 DEF Types
  <2>2. Flagged(stack') => Eagers # {}
    BY <1>1, <1>2 DEF ThrowInv
  <2> QED
    BY <2>1, <2>2, <1>2 DEF ThrowInv
<1>9. HelperInv'
  <2>1. \A h \in Relative : h # Curve
    BY ValuationAssumption, KindsAssumption
  <2>2. \A h \in Relative : Told(stack, h) => Told(stack', h)
    BY <1>2, <1>3, <2>1
  <2> QED
    BY <2>2, <1>1, <1>4 DEF HelperInv
<1> QED
  BY <1>2, <1>5, <1>6, <1>7, <1>8, <1>9 DEF CurveInv

LEMMA CatchStep ==
    ASSUME CurveInv, NotifyCatch
    PROVE  CurveInv'
<1>1. /\ Types /\ ThrowInv /\ stack # <<>> /\ Reads /\ Shape(stack, engine, frozen)
      /\ UNCHANGED <<evaluationDate, saved, quote, helperDate, curveVars, engine, calculated, frozen, npv, view>>
      /\ thrown /\ thrown' = FALSE /\ stack \in Seq(Frames) /\ Top = stack[1]
      /\ stack' = <<[Top EXCEPT !.flag = TRUE]>> \o Tail(stack)
      /\ Top.op = "notify"
  BY DEF CurveInv, NotifyCatch, TopIs, Idle, Types, Reads, Top
<1>2. PICK f \in Frames, r \in Seq(Frames) : f = [Top EXCEPT !.flag = TRUE] /\ r = Tail(stack)
  <2>1. Top \in Frames /\ Tail(stack) \in Seq(Frames)
    BY <1>1, PopFacts
  <2> QED
    BY <2>1 DEF Frames
<1>3. f.op = "notify" /\ f.left = Top.left /\ f.flag
  <2>1. Top \in Frames
    BY <1>1, PopFacts
  <2> QED
    BY <2>1, <1>1, <1>2 DEF Frames
<1>4. PICK s : s = <<f>> \o r
  OBVIOUS
<1>5. stack' = s
  BY <1>1, <1>2, <1>4
<1>6. /\ \A x : Told(s, x) <=> x \in f.left \/ Told(r, x)
      /\ InCurve(s) <=> f.op = "curve" \/ InCurve(r)
      /\ \A t \in BOOLEAN : Doomed(s, t) <=>
            (f.op = "curve" /\ t) \/ (f.flag /\ InCurve(r)) \/ Doomed(r, t)
      /\ r # <<>> => s[Len(s)] = r[Len(r)]
      /\ s \in Seq(Frames) /\ s # <<>> /\ Len(s) = Len(r) + 1 /\ s[1] = f
  BY <1>4, PushSays, PushFacts
<1>7. /\ \A x : Told(stack, x) <=> x \in Top.left \/ Told(r, x)
      /\ InCurve(stack) <=> Top.op = "curve" \/ InCurve(r)
      /\ r # <<>> => stack[Len(stack)] = r[Len(r)]
      /\ Len(stack) \in Nat \ {0} /\ Len(r) = Len(stack) - 1
  BY <1>1, <1>2, PopSays, PopFacts
<1>8. Len(s) = Len(stack)
  BY <1>6, <1>7
<1>9. s[Len(s)].left = stack[Len(stack)].left
  <2>1. CASE r # <<>>
    BY <2>1, <1>6, <1>7
  <2>2. CASE r = <<>>
    <3>1. Len(stack) = 1
      BY <2>2, <1>7, EmptyFacts
    <3> QED
      BY <3>1, <1>1, <1>3, <1>6, <1>8
  <2> QED
    BY <2>1, <2>2
<1>10. CurveNext(stack) <=> CurveNext(s)
  BY <1>1, <1>3, <1>6, <1>8 DEF CurveNext
<1>11. TwoToCome(stack) => TwoToCome(s)
  BY <1>6, <1>9, <1>10 DEF TwoToCome
<1>12. Shape(s, engine, frozen)
  BY <1>1, <1>2, <1>3, <1>4, ShapeReplace
<1>13. Shape(stack, engine, frozen)'
  BY <1>1, <1>5, <1>12
<1>14. ThrowInv'
  <2>1. Eagers # {}
    BY <1>1 DEF ThrowInv
  <2>2. ASSUME Doomed(s, FALSE) PROVE Hopeless
    <3>1. InCurve(stack)
      BY <2>2, <1>3, <1>6, <1>7, DoomedFacts
    <3>2. Doomed(stack, TRUE)
      BY <3>1, DoomedFacts
    <3>3. thrown = TRUE
      BY <1>1 DEF Types
    <3> QED
      BY <3>2, <3>3, <1>1 DEF ThrowInv
  <2>3. Hopeless => Hopeless'
    BY <1>1, ReadsFacts
  <2> QED
    BY <2>1, <2>2, <2>3, <1>1, <1>5 DEF ThrowInv
<1>15. Types'
  BY <1>1, <1>5, <1>6 DEF Types, curveVars
<1>16. /\ \A x \in Helpers \cup {Curve} : Told(s, x) <=> Told(stack, x)
       /\ InCurve(stack) => InCurve(s)
  BY <1>1, <1>3, <1>6, <1>7
<1> QED
  BY <1>1, <1>5, <1>10, <1>11, <1>13, <1>14, <1>15, <1>16, CurveKeep DEF curveVars

\* A frame whose loop is over goes.
LEMMA ReturnFacts ==
    ASSUME CurveInv, ~Idle, Top.left = {}, stack' = Tail(stack), UNCHANGED <<engine, frozen>>
    PROVE  /\ stack' \in Seq(Frames) /\ Shape(stack, engine, frozen)'
           /\ \A x : Told(stack', x) <=> Told(stack, x)
           /\ InCurve(stack) <=> Top.op = "curve" \/ InCurve(stack')
           /\ \A t \in BOOLEAN : Doomed(stack, t) <=>
                 (Top.op = "curve" /\ t) \/ (Top.flag /\ InCurve(stack')) \/ Doomed(stack', t)
           /\ Flagged(stack) <=> Top.flag \/ Flagged(stack')
           /\ TwoToCome(stack) => TwoToCome(stack')
           /\ ~CurveNext(stack)
           /\ Top.flag \in BOOLEAN
<1>1. /\ Types /\ Shape(stack, engine, frozen) /\ stack # <<>> /\ stack \in Seq(Frames)
      /\ Top = stack[1]
  BY DEF CurveInv, Types, Idle, Top
<1>2. PICK r \in Seq(Frames) : r = Tail(stack)
  BY <1>1, PopFacts
<1>3. /\ \A x : Told(stack, x) <=> x \in Top.left \/ Told(r, x)
      /\ InCurve(stack) <=> Top.op = "curve" \/ InCurve(r)
      /\ \A t \in BOOLEAN : Doomed(stack, t) <=>
            (Top.op = "curve" /\ t) \/ (Top.flag /\ InCurve(r)) \/ Doomed(r, t)
      /\ Flagged(stack) <=> Top.flag \/ Flagged(r)
      /\ r # <<>> => stack[Len(stack)] = r[Len(r)]
      /\ Len(stack) \in Nat \ {0} /\ Len(r) = Len(stack) - 1 /\ Top \in Frames
  <2>1. Len(stack) \in Nat \ {0} /\ Len(r) = Len(stack) - 1 /\ Top \in Frames
    BY <1>1, <1>2, PopFacts
  <2>2. /\ \A x : Told(stack, x) <=> x \in stack[1].left \/ Told(r, x)
        /\ InCurve(stack) <=> stack[1].op = "curve" \/ InCurve(r)
        /\ \A t \in BOOLEAN : Doomed(stack, t) <=>
              (stack[1].op = "curve" /\ t) \/ (stack[1].flag /\ InCurve(r)) \/ Doomed(r, t)
        /\ Flagged(stack) <=> stack[1].flag \/ Flagged(r)
        /\ r # <<>> => stack[Len(stack)] = r[Len(r)]
    BY <1>1, <1>2, PopSays
  <2> QED
    BY <2>1, <2>2, <1>1, Zenon
<1>4. ~CurveNext(stack)
  BY <1>1 DEF CurveNext
<1>5. ASSUME TwoToCome(stack) PROVE TwoToCome(r)
  <2>1. r # <<>>
    <3> SUFFICES ASSUME r = <<>> PROVE FALSE
      OBVIOUS
    <3>1. Len(stack) = 1
      BY <1>3, EmptyFacts
    <3> QED
      BY <3>1, <1>1, <1>5 DEF TwoToCome
  <2> QED
    BY <2>1, <1>3, <1>4, <1>5 DEF TwoToCome
<1>6. Shape(r, engine, frozen)
  BY <1>1, <1>2, ShapePop
<1>7. Shape(stack, engine, frozen)'
  BY <1>2, <1>6
<1>8. Top.flag \in BOOLEAN
  BY <1>3 DEF Frames
<1>9. \A t \in BOOLEAN : Doomed(stack, t) <=>
        (Top.op = "curve" /\ t) \/ (Top.flag /\ InCurve(stack')) \/ Doomed(stack', t)
  BY <1>2, <1>3
<1>10. Flagged(stack) <=> Top.flag \/ Flagged(stack')
  BY <1>2, <1>3
<1> QED
  BY <1>2, <1>3, <1>4, <1>5, <1>7, <1>8, <1>9, <1>10

LEMMA EndStep ==
    ASSUME CurveInv, NotifyEnd
    PROVE  CurveInv'
<1>1. /\ Types /\ ThrowInv /\ ~Idle /\ Reads
      /\ UNCHANGED <<evaluationDate, saved, quote, helperDate, curveVars, engine, calculated, frozen, npv, view>>
      /\ thrown = FALSE /\ Top.op = "notify" /\ Top.left = {} /\ stack' = Tail(stack)
      /\ thrown' = (Top.flag /\ Tail(stack) # <<>>)
  BY DEF CurveInv, NotifyEnd, TopIs, Types, Reads
<1>2. /\ stack' \in Seq(Frames) /\ Shape(stack, engine, frozen)'
      /\ \A x : Told(stack', x) <=> Told(stack, x)
      /\ InCurve(stack) <=> InCurve(stack')
      /\ Doomed(stack, FALSE) <=> (Top.flag /\ InCurve(stack')) \/ Doomed(stack', FALSE)
      /\ Flagged(stack) <=> Top.flag \/ Flagged(stack')
      /\ TwoToCome(stack) => TwoToCome(stack')
      /\ ~CurveNext(stack)
      /\ Top.flag \in BOOLEAN
  BY <1>1, ReturnFacts
<1>3. PICK t \in BOOLEAN : t = thrown' /\ (t => Top.flag)
  BY <1>1, <1>2
<1>4. Types'
  BY <1>1, <1>2, <1>3 DEF Types, curveVars
<1>5. ThrowInv'
  <2>1. t \/ Flagged(stack') => Eagers # {}
    BY <1>1, <1>2, <1>3 DEF ThrowInv
  <2>2. Doomed(stack', t) => Doomed(stack, FALSE)
    BY <1>2, <1>3, DoomedFacts
  <2>3. Doomed(stack, FALSE) => Hopeless'
    BY <1>1, ReadsFacts DEF ThrowInv
  <2> QED
    BY <2>1, <2>2, <2>3, <1>3 DEF ThrowInv
<1> QED
  BY <1>1, <1>2, <1>4, <1>5, CurveKeep DEF curveVars

\* The curve forgets its reference date; if one of its observers has thrown it
\* does not, but then it is not bootstrapped either.
LEMMA CurveEndStep ==
    ASSUME CurveInv, UpdateCurveEnd
    PROVE  CurveInv'
<1>1. /\ Types /\ RefInv /\ ThrowInv /\ HelperInv /\ BuiltInv /\ ~Idle /\ Shape(stack, engine, frozen)
      /\ UNCHANGED <<evaluationDate, saved, quote, helperDate, referenceDate, built, curve, engine,
                     calculated, frozen, npv, view, thrown>>
      /\ updated' = (updated /\ thrown) /\ stack' = Tail(stack)
      /\ Top.op = "curve" /\ Top = stack[1]
      /\ updated \in BOOLEAN /\ thrown \in BOOLEAN
  BY DEF CurveInv, UpdateCurveEnd, TopIs, Types, Top
<1>2. Len(stack) \in Nat /\ 1 \in 1..Len(stack)
  <2>1. Len(stack) \in Nat \ {0}
    BY <1>1, PopFacts DEF Types, Idle
  <2> QED
    BY <2>1
<1>3. Top.left = {}
  BY <1>1, <1>2 DEF Shape
<1>4. /\ stack' \in Seq(Frames) /\ Shape(stack, engine, frozen)'
      /\ \A x : Told(stack', x) <=> Told(stack, x)
      /\ \A t \in BOOLEAN : Doomed(stack, t) <=> t \/ (Top.flag /\ InCurve(stack')) \/ Doomed(stack', t)
      /\ Flagged(stack) <=> Top.flag \/ Flagged(stack')
      /\ TwoToCome(stack) => TwoToCome(stack')
      /\ ~CurveNext(stack)
  BY <1>1, <1>3, ReturnFacts
<1>5. Pending(stack') <=> Pending(stack)
  BY <1>4 DEF Pending
<1>6. Date' = Date /\ CurveTruth' = CurveTruth
  <2>1. Date' = Date
    BY <1>1 DEF Date, DateOf
  <2> QED
    BY <2>1, <1>1 DEF CurveTruth, Bootstrap
<1>7. Types'
  BY <1>1, <1>4 DEF Types
<1>8. HelperInv' /\ BuiltInv'
  BY <1>1, <1>4, <1>5, <1>6 DEF HelperInv, BuiltInv
<1>9. CASE thrown
  <2>1. Hopeless /\ Eagers # {}
    BY <1>1, <1>4, <1>9 DEF ThrowInv
  <2>2. Reads /\ (RefOK' <=> RefOK)
    BY <1>1, <1>6, <1>9 DEF Reads, curveVars, RefOK
  <2>3. Hopeless'
    BY <2>1, <2>2, <1>1, ReadsFacts
  <2>4. ThrowInv'
    BY <2>1, <2>3 DEF ThrowInv
  <2>5. RefInv'
    BY <2>1, <2>2, <2>3, <1>1, <1>4, <1>5 DEF RefInv
  <2> QED
    BY <2>4, <2>5, <1>4, <1>7, <1>8 DEF CurveInv
<1>10. CASE ~thrown
  <2>1. updated' = FALSE
    BY <1>1, <1>10
  <2>2. RefInv'
    BY <2>1 DEF RefInv, RefOK
  <2>3. ~InCurve(stack')
    <3> SUFFICES ASSUME InCurve(Tail(stack)) PROVE FALSE
      BY <1>1
    <3>1. PICK k \in 1..Len(Tail(stack)) : Tail(stack)[k].op = "curve"
      BY DEF InCurve
    <3>2. k + 1 \in 1..Len(stack) /\ stack[k + 1].op = "curve" /\ 1 \in 1..((k + 1) - 1)
      <4>1. /\ Len(Tail(stack)) = Len(stack) - 1
            /\ \A j \in 1..(Len(stack) - 1) : Tail(stack)[j] = stack[j + 1]
        BY <1>1, PopFacts DEF Types, Idle
      <4>2. k \in 1..(Len(stack) - 1)
        BY <4>1
      <4>3. stack[k + 1].op = "curve"
        BY <3>1, <4>1, <4>2
      <4> QED
        BY <4>2, <4>3, <1>2
    <3>3. stack[1].op = "notify"
      BY <3>2, <1>1 DEF Shape
    <3> QED
      BY <3>3, <1>1
  <2>4. ~Doomed(stack', thrown) /\ (Flagged(stack') => Eagers # {})
    BY <2>3, <1>1, <1>4, DoomedFacts DEF ThrowInv
  <2>5. ThrowInv'
    BY <2>4, <1>1, <1>10 DEF ThrowInv
  <2> QED
    BY <2>2, <2>5, <1>4, <1>7, <1>8 DEF CurveInv
<1> QED
  BY <1>9, <1>10

-----------------------------------------------------------------------------
(* Steps of clients, between calls.                                        *)

LEMMA OneFrame ==
    ASSUME NEW f \in Frames, f.op = "notify", ~f.flag
    PROVE  /\ <<f>> \in Seq(Frames) /\ Len(<<f>>) = 1 /\ <<f>>[1] = f /\ <<f>> # <<>>
           /\ \A x : Told(<<f>>, x) <=> x \in f.left
           /\ ~InCurve(<<f>>) /\ ~Flagged(<<f>>) /\ ~CurveNext(<<f>>)
           /\ \A t \in BOOLEAN : ~Doomed(<<f>>, t)
           /\ \A eng, fr : Shape(<<f>>, eng, fr)
<1> DEFINE s == <<f>>
<1>1. s \in Seq(Frames) /\ Len(s) = 1 /\ s[1] = f /\ s # <<>>
  OBVIOUS
<1> HIDE DEF s
<1>2. \A k \in 1..Len(s) : k = 1 /\ k = Len(s) /\ s[k] = f
  BY <1>1
<1>3. 1 \in 1..Len(s)
  BY <1>1
<1>4. \A x : Told(s, x) <=> x \in f.left
  BY <1>1, <1>2, <1>3 DEF Told
<1>5. ~InCurve(s)
  BY <1>2 DEF InCurve
<1>6. ~Flagged(s) /\ ~CurveNext(s)
  BY <1>1, <1>2 DEF Flagged, CurveNext
<1>7. \A t \in BOOLEAN : ~Doomed(s, t)
  BY <1>5, DoomedFacts
<1>8. \A eng, fr : Shape(s, eng, fr)
  BY <1>2 DEF Shape
<1> QED
  BY <1>1, <1>4, <1>5, <1>6, <1>7, <1>8 DEF s

LEMMA IdleFacts ==
    ASSUME Idle
    PROVE  /\ \A x : ~Told(stack, x)
           /\ ~InCurve(stack) /\ ~Flagged(stack) /\ ~Pending(stack)
           /\ ~CurveNext(stack) /\ ~TwoToCome(stack)
  BY EmptySays DEF Idle

\* A client reads, or makes an instrument notify.
LEMMA IdleStep ==
    ASSUME CurveInv, Idle, Types', Reads, UNCHANGED thrown,
           \/ stack' = <<>>
           \/ \E f \in Frames : /\ f.op = "notify" /\ ~f.flag /\ stack' = <<f>>
                                /\ \A x \in Helpers \cup {Curve} : x \notin f.left
    PROVE  CurveInv'
<1>1. /\ \A x \in Helpers \cup {Curve} : ~Told(stack', x)
      /\ ~Flagged(stack') /\ \A t \in BOOLEAN : ~Doomed(stack', t)
      /\ \A eng, fr : Shape(stack', eng, fr)
  <2>1. CASE stack' = <<>>
    BY <2>1, EmptySays
  <2>2. CASE stack' # <<>>
    <3>1. PICK f \in Frames : /\ f.op = "notify" /\ ~f.flag /\ stack' = <<f>>
                              /\ \A x \in Helpers \cup {Curve} : x \notin f.left
      BY <2>2
    <3>2. /\ \A x : Told(<<f>>, x) <=> x \in f.left
          /\ ~Flagged(<<f>>) /\ \A t \in BOOLEAN : ~Doomed(<<f>>, t)
          /\ \A eng, fr : Shape(<<f>>, eng, fr)
      BY <3>1, OneFrame
    <3> QED
      BY <3>1, <3>2
  <2> QED
    BY <2>1, <2>2
<1>2. /\ \A x : ~Told(stack, x)
      /\ ~InCurve(stack) /\ ~CurveNext(stack) /\ ~TwoToCome(stack)
  BY IdleFacts
<1>3. ThrowInv'
  <2>1. PICK t \in BOOLEAN : t = thrown' /\ t = thrown
    BY DEF Types
  <2>2. t => Eagers # {}
    BY <2>1 DEF CurveInv, ThrowInv
  <2>3. ~Doomed(stack', t)
    BY <1>1
  <2> QED
    BY <1>1, <2>1, <2>2, <2>3 DEF ThrowInv
<1>4. Shape(stack, engine, frozen)'
  BY <1>1
<1> QED
  BY <1>1, <1>2, <1>3, <1>4, CurveKeep

\* The evaluation date is set: the helpers and the curve will be told.
LEMMA AssignStep ==
    ASSUME CurveInv, Repaired, Idle, NEW d \in Dates \cup {Today, None}, Assign(d),
           saved' \in Dates \cup {Today, None},
           UNCHANGED <<quote, helperDate, curveVars, engine, calculated, frozen, npv, view, thrown>>
    PROVE  CurveInv'
<1>1. Types /\ ThrowInv /\ evaluationDate' = d /\ stack' = <<NotifyFrame(EvaluationDate)>>
  BY DEF CurveInv, Assign
<1>2. PICK f \in Frames : f = NotifyFrame(EvaluationDate)
  BY <1>1, ObserverFacts
<1>3. f.op = "notify" /\ ~f.flag /\ f.left = Relative \cup WatchDate \cup {Curve}
  BY <1>1, <1>2, ObserverFacts
<1>4. PICK s : s = <<f>>
  OBVIOUS
<1>5. /\ s \in Seq(Frames) /\ Len(s) = 1 /\ s[1] = f /\ s # <<>>
      /\ \A x : Told(s, x) <=> x \in f.left
      /\ ~Flagged(s) /\ \A t \in BOOLEAN : ~Doomed(s, t)
      /\ Shape(s, engine, frozen)
  BY <1>3, <1>4, OneFrame
<1>6. stack' = s
  BY <1>1, <1>2, <1>4
<1>7. Pending(s)
  BY <1>3, <1>5 DEF Pending
<1>8. Types'
  BY <1>1, <1>5, <1>6 DEF Types, curveVars
<1>9. RefInv'
  <2>1. CASE Relative # {}
    <3>1. Curve \in s[Len(s)].left /\ \E h \in Helpers : h \in s[Len(s)].left
      BY <2>1, <1>3, <1>5, ValuationAssumption
    <3> QED
      BY <3>1, <1>5, <1>6 DEF RefInv, TwoToCome
  <2>2. CASE Eagers = {}
    BY <2>2, <1>6, <1>7 DEF RefInv
  <2> QED
    BY <2>1, <2>2 DEF Repaired
<1>10. ThrowInv'
  <2>1. PICK t \in BOOLEAN : t = thrown' /\ t = thrown
    BY <1>1 DEF Types
  <2>2. t => Eagers # {}
    BY <2>1, <1>1 DEF ThrowInv
  <2>3. ~Doomed(s, t)
    BY <1>5
  <2> QED
    BY <1>5, <1>6, <2>1, <2>2, <2>3 DEF ThrowInv
<1>11. HelperInv'
  BY <1>3, <1>5, <1>6 DEF HelperInv
<1>12. BuiltInv'
  BY <1>6, <1>7 DEF BuiltInv
<1>13. Shape(stack, engine, frozen)'
  BY <1>5, <1>6
<1> QED
  BY <1>8, <1>9, <1>10, <1>11, <1>12, <1>13 DEF CurveInv

LEMMA QuoteStep ==
    ASSUME CurveInv, NEW h \in Helpers, NEW v \in Values \cup {None}, setValue(h, v)
    PROVE  CurveInv'
<1>1. /\ Types /\ RefInv /\ ThrowInv /\ HelperInv /\ Idle
      /\ UNCHANGED <<evaluationDate, saved, helperDate, curveVars, engine, calculated, frozen, npv, view, thrown>>
      /\ quote' = [quote EXCEPT ![h] = v]
      /\ stack' = <<[op |-> "notify", left |-> {h}, flag |-> FALSE]>>
  BY DEF CurveInv, setValue
<1>2. PICK f \in Frames : f = [op |-> "notify", left |-> {h}, flag |-> FALSE]
  BY DEF Frames, Objects
<1>3. f.op = "notify" /\ ~f.flag /\ f.left = {h}
  BY <1>2
<1>4. PICK s : s = <<f>>
  OBVIOUS
<1>5. /\ s \in Seq(Frames)
      /\ \A x : Told(s, x) <=> x \in f.left
      /\ ~Flagged(s) /\ \A t \in BOOLEAN : ~Doomed(s, t)
      /\ Shape(s, engine, frozen)
  BY <1>3, <1>4, OneFrame
<1>6. stack' = s
  BY <1>1, <1>2, <1>4
<1>7. Pending(s)
  BY <1>3, <1>5 DEF Pending
<1>8. Types'
  <2>1. quote' \in [Helpers -> Values \cup {None}]
    BY <1>1 DEF Types
  <2> QED
    BY <2>1, <1>1, <1>5, <1>6 DEF Types, curveVars
<1>9. RefInv'
  <2>1. RefOK
    BY <1>1, IdleFacts, OldIsPending
  <2>2. RefOK'
    BY <2>1, <1>1 DEF RefOK, Date, DateOf, curveVars
  <2> QED
    BY <2>2 DEF RefInv
<1>10. ThrowInv'
  <2>1. PICK t \in BOOLEAN : t = thrown' /\ t = thrown
    BY <1>1 DEF Types
  <2>2. t => Eagers # {}
    BY <2>1, <1>1 DEF ThrowInv
  <2>3. ~Doomed(s, t)
    BY <1>5
  <2> QED
    BY <1>5, <1>6, <2>1, <2>2, <2>3 DEF ThrowInv
<1>11. HelperInv'
  <2>1. \A k \in Relative : helperDate[k] = Date
    BY <1>1, IdleFacts DEF HelperInv
  <2> QED
    BY <2>1, <1>1 DEF HelperInv, Date, DateOf
<1>12. BuiltInv'
  BY <1>6, <1>7 DEF BuiltInv
<1>13. Shape(stack, engine, frozen)'
  BY <1>1, <1>5, <1>6
<1> QED
  BY <1>8, <1>9, <1>10, <1>11, <1>12, <1>13 DEF CurveInv

LEMMA AskStep ==
    ASSUME CurveInv, NEW i \in Instruments, Ask(i)
    PROVE  CurveInv'
<1>1. /\ Types /\ Idle /\ ReadNPV(i)
      /\ UNCHANGED <<evaluationDate, saved, quote, helperDate, engine, frozen, view, stack, thrown>>
  BY DEF CurveInv, Ask
<1>2. /\ UNCHANGED curveVars \/ ReadCurve
      /\ calculated' \in [Instruments -> BOOLEAN]
      /\ npv' \in [Instruments -> Prices \cup {Zero, None}]
      /\ \A j \in Instruments : calculated'[j] => npv'[j] # None
  BY <1>1, ReadNPVFacts
<1>3. Reads
  BY <1>1, <1>2 DEF Reads
<1>4. /\ updated' \in BOOLEAN /\ (updated' => referenceDate' \in Nat)
      /\ built' \in BOOLEAN /\ (built' => curve' \in Curves)
  BY <1>1, <1>3, ReadsFacts
<1>5. Types'
  BY <1>1, <1>2, <1>4 DEF Types
<1> QED
  BY <1>1, <1>3, <1>5, IdleStep DEF Idle

LEMMA AskCurveStep ==
    ASSUME CurveInv, AskCurve
    PROVE  CurveInv'
<1>1. /\ Types /\ Idle /\ Reads
      /\ UNCHANGED <<evaluationDate, saved, quote, helperDate, engine, calculated, frozen, npv, view, stack, thrown>>
  BY DEF CurveInv, AskCurve, Reads
<1>2. /\ updated' \in BOOLEAN /\ (updated' => referenceDate' \in Nat)
      /\ built' \in BOOLEAN /\ (built' => curve' \in Curves)
  BY <1>1, ReadsFacts
<1>3. Types'
  BY <1>1, <1>2 DEF Types
<1> QED
  BY <1>1, <1>3, IdleStep DEF Idle

\* The frame in which an instrument notifies is one that IdleStep allows.
LEMMA InstrumentFrame ==
    ASSUME Types, NEW i \in Instruments
    PROVE  \E f \in Frames : /\ f = NotifyFrame(i) /\ f.op = "notify" /\ ~f.flag
                             /\ f.left = {e \in Eagers : Watched[e] = i}
                             /\ \A x \in Helpers \cup {Curve} : x \notin f.left
<1>1. PICK f \in Frames : f = NotifyFrame(i)
  BY ObserverFacts
<1>2. f.op = "notify" /\ ~f.flag /\ f.left = {e \in Eagers : Watched[e] = i}
  BY <1>1, ObserverFacts
<1>3. \A x \in Helpers \cup {Curve} : x \notin f.left
  BY <1>2, KindsAssumption
<1> QED
  BY <1>1, <1>2, <1>3

LEMMA SetEngineStep ==
    ASSUME CurveInv, NEW i \in Instruments, NEW e \in {Engine, None}, setPricingEngine(i, e)
    PROVE  CurveInv'
<1>1. /\ Types /\ Idle /\ Reads
      /\ UNCHANGED <<evaluationDate, saved, quote, helperDate, curveVars, frozen, npv, view, thrown>>
      /\ engine' = [engine EXCEPT ![i] = e]
      /\ calculated' = [calculated EXCEPT ![i] = FALSE]
      /\ stack' = IF calculated[i] /\ ~frozen[i] THEN <<NotifyFrame(i)>> \o <<>> ELSE <<>>
  BY DEF CurveInv, setPricingEngine, UpdateInstrument, Reads
<1>2. PICK f \in Frames : /\ f = NotifyFrame(i) /\ f.op = "notify" /\ ~f.flag
                          /\ \A x \in Helpers \cup {Curve} : x \notin f.left
  BY <1>1, InstrumentFrame
<1>3. <<f>> \o <<>> = <<f>> /\ <<f>> \in Seq(Frames) /\ <<>> \in Seq(Frames)
  OBVIOUS
<1>4. (stack' = <<>> \/ stack' = <<f>>) /\ stack' \in Seq(Frames)
  BY <1>1, <1>2, <1>3
<1>5. Types'
  <2>1. /\ calculated' \in [Instruments -> BOOLEAN] /\ engine' \in [Instruments -> {Engine, None}]
        /\ \A j \in Instruments : calculated'[j] => calculated[j]
    BY <1>1 DEF Types
  <2> QED
    BY <2>1, <1>1, <1>4 DEF Types, curveVars
<1> QED
  BY <1>1, <1>2, <1>4, <1>5, IdleStep

LEMMA UnfreezeStep ==
    ASSUME CurveInv, NEW i \in Instruments, unfreeze(i)
    PROVE  CurveInv'
<1>1. /\ Types /\ Idle /\ Reads
      /\ UNCHANGED <<evaluationDate, saved, quote, helperDate, curveVars, engine, calculated, npv, view, thrown>>
      /\ frozen' = [frozen EXCEPT ![i] = FALSE]
      /\ stack' = <<NotifyFrame(i)>>
  BY DEF CurveInv, unfreeze, Reads
<1>2. PICK f \in Frames : /\ f = NotifyFrame(i) /\ f.op = "notify" /\ ~f.flag
                          /\ \A x \in Helpers \cup {Curve} : x \notin f.left
  BY <1>1, InstrumentFrame
<1>3. stack' = <<f>> /\ stack' \in Seq(Frames)
  BY <1>1, <1>2
<1>4. Types'
  <2>1. frozen' \in [Instruments -> BOOLEAN]
    BY <1>1 DEF Types
  <2> QED
    BY <2>1, <1>1, <1>3 DEF Types, curveVars
<1> QED
  BY <1>1, <1>2, <1>3, <1>4, IdleStep

LEMMA FreezeStep ==
    ASSUME CurveInv, NEW i \in Instruments, freeze(i)
    PROVE  CurveInv'
<1>1. /\ Types /\ Idle /\ Reads
      /\ UNCHANGED <<evaluationDate, saved, quote, helperDate, curveVars, engine, calculated, npv, view, stack, thrown>>
      /\ frozen' = [frozen EXCEPT ![i] = TRUE]
  BY DEF CurveInv, freeze, Reads
<1>2. frozen' \in [Instruments -> BOOLEAN]
  BY <1>1 DEF Types
<1>3. Types'
  BY <1>1, <1>2 DEF Types, curveVars
<1> QED
  BY <1>1, <1>3, IdleStep DEF Idle

LEMMA SaveStep ==
    ASSUME CurveInv, Save
    PROVE  CurveInv'
<1>1. /\ Types /\ Idle /\ Reads
      /\ UNCHANGED <<evaluationDate, quote, helperDate, curveVars, engine, calculated, frozen, npv, view, stack, thrown>>
      /\ saved' = Date
  BY DEF CurveInv, Save, Reads
<1>2. Types'
  BY <1>1, DateFacts DEF Types, curveVars
<1> QED
  BY <1>1, <1>2, IdleStep DEF Idle

LEMMA RestoreStep ==
    ASSUME CurveInv, Repaired, Restore
    PROVE  CurveInv'
<1>1. /\ Types /\ Idle /\ saved' = None
      /\ UNCHANGED <<quote, helperDate, curveVars, engine, calculated, frozen, npv, view, thrown>>
      /\ saved \in Dates \cup {Today, None}
  BY DEF CurveInv, Restore, Types
<1>2. CASE Date # saved
  <2>1. Assign(saved)
    BY <1>2 DEF Restore
  <2> QED
    BY <2>1, <1>1, AssignStep
<1>3. CASE Date = saved
  <2>1. UNCHANGED <<evaluationDate, stack>>
    BY <1>3 DEF Restore
  <2>2. Reads
    BY <2>1, <1>1 DEF Reads
  <2>3. Types'
    BY <2>1, <1>1 DEF Types, curveVars
  <2> QED
    BY <2>1, <2>2, <2>3, <1>1, IdleStep DEF Idle
<1> QED
  BY <1>2, <1>3

LEMMA InitCurve == Init => CurveInv
<1> SUFFICES ASSUME Init PROVE CurveInv
  OBVIOUS
<1>1. /\ \A x : ~Told(stack, x)
      /\ ~Flagged(stack)
      /\ \A t \in BOOLEAN : ~Doomed(stack, t)
      /\ \A eng, fr : Shape(stack, eng, fr)
  BY EmptySays DEF Init
<1>2. Types
  <2>1. quote \in [Helpers -> Values \cup {None}] /\ helperDate \in [Helpers -> Nat]
    BY ValuationAssumption DEF Init
  <2>2. /\ calculated \in [Instruments -> BOOLEAN] /\ frozen \in [Instruments -> BOOLEAN]
        /\ \A i \in Instruments : calculated[i] => npv[i] # None
    BY DEF Init
  <2>3. /\ engine \in [Instruments -> {Engine, None}]
        /\ npv \in [Instruments -> Prices \cup {Zero, None}]
        /\ view \in [Eagers -> Prices \cup {Zero, None, Failed}]
        /\ stack \in Seq(Frames)
    BY DEF Init
  <2> QED
    BY <2>1, <2>2, <2>3 DEF Init, Types
<1>3. RefInv
  BY DEF Init, RefInv, RefOK
<1>4. ThrowInv
  BY <1>1 DEF Init, ThrowInv
<1>5. HelperInv
  <2>1. Date = Today
    BY DEF Init, Date, DateOf
  <2>2. \A h \in Relative : helperDate[h] = Today
    BY ValuationAssumption DEF Init
  <2> QED
    BY <2>1, <2>2 DEF HelperInv
<1>6. BuiltInv
  BY DEF Init, BuiltInv
<1> QED
  BY <1>1, <1>2, <1>3, <1>4, <1>5, <1>6 DEF CurveInv

LEMMA NotifyStep ==
    ASSUME CurveInv, NEW o \in Helpers \cup Instruments \cup Eagers \cup {Curve, Engine}, NotifyNext(o)
    PROVE  /\ Loop /\ o \in Top.left
           /\ \/ o \in Helpers /\ UpdateHelper(o, Rest(o))
              \/ o = Curve /\ UpdateCurve(Rest(Curve))
              \/ /\ o = Engine /\ stack' = <<NotifyFrame(Engine)>> \o Rest(Engine)
                 /\ UNCHANGED <<helperDate, curveVars, instrumentVars, view, thrown>>
              \/ o \in Instruments /\ UpdateInstrument(o, Rest(o))
              \/ o \in Eagers /\ UpdateEager(o, Rest(o))
  BY DEF NotifyNext, Loop, Rest

LEMMA NextCurve == ASSUME Repaired, CurveInv, [Next]_vars PROVE CurveInv'
<1>1. ASSUME NEW o \in Helpers \cup Instruments \cup Eagers \cup {Curve, Engine}, NotifyNext(o)
      PROVE  CurveInv'
  <2>1. /\ Loop /\ o \in Top.left
        /\ \/ o \in Helpers /\ UpdateHelper(o, Rest(o))
           \/ o = Curve /\ UpdateCurve(Rest(Curve))
           \/ /\ o = Engine /\ stack' = <<NotifyFrame(Engine)>> \o Rest(Engine)
              /\ UNCHANGED <<helperDate, curveVars, instrumentVars, view, thrown>>
           \/ o \in Instruments /\ UpdateInstrument(o, Rest(o))
           \/ o \in Eagers /\ UpdateEager(o, Rest(o))
    BY <1>1, NotifyStep
  <2>2. CASE o \in Helpers /\ UpdateHelper(o, Rest(o))
    BY <2>1, <2>2, HelperStep
  <2>3. CASE o = Curve /\ UpdateCurve(Rest(Curve))
    BY <2>1, <2>3, CurveStepBuilt, CurveStepUnbuilt
  <2>4. CASE /\ o = Engine /\ stack' = <<NotifyFrame(Engine)>> \o Rest(Engine)
             /\ UNCHANGED <<helperDate, curveVars, instrumentVars, view, thrown>>
    BY <2>1, <2>4, EngineStep
  <2>5. CASE o \in Instruments /\ UpdateInstrument(o, Rest(o))
    BY <2>1, <2>5, InstrumentStep
  <2>6. CASE o \in Eagers /\ UpdateEager(o, Rest(o))
    BY <2>1, <2>6, EagerStep
  <2> QED
    BY <2>1, <2>2, <2>3, <2>4, <2>5, <2>6
<1>2. CASE NotifyCatch \/ NotifyEnd \/ UpdateCurveEnd
  BY <1>2, CatchStep, EndStep, CurveEndStep
<1>3. CASE Client
  <2>1. ASSUME NEW d \in Dates \cup {None}, setEvaluationDate(d) PROVE CurveInv'
    BY <2>1, AssignStep DEF setEvaluationDate, CurveInv, Types
  <2>2. CASE anchorEvaluationDate
    BY <2>2, AssignStep DEF anchorEvaluationDate, CurveInv, Types
  <2>3. CASE Save
    BY <2>3, SaveStep
  <2>4. CASE Restore
    BY <2>4, RestoreStep
  <2>5. CASE AskCurve
    BY <2>5, AskCurveStep
  <2>6. ASSUME NEW h \in Helpers, NEW v \in Values \cup {None}, setValue(h, v) PROVE CurveInv'
    BY <2>6, QuoteStep
  <2>7. ASSUME NEW i \in Instruments, Ask(i) \/ freeze(i) \/ unfreeze(i) PROVE CurveInv'
    BY <2>7, AskStep, FreezeStep, UnfreezeStep
  <2>8. ASSUME NEW i \in Instruments, NEW e \in {Engine, None}, setPricingEngine(i, e) PROVE CurveInv'
    BY <2>8, SetEngineStep
  <2> QED
    BY <1>3, <2>1, <2>2, <2>3, <2>4, <2>5, <2>6, <2>7, <2>8 DEF Client
<1>4. CASE UNCHANGED vars
  <2>1. /\ UNCHANGED <<evaluationDate, saved, quote, helperDate, updated, referenceDate, built, curve>>
        /\ UNCHANGED <<engine, calculated, frozen, npv, view, stack, thrown>>
    BY <1>4 DEF vars
  <2>2. Reads /\ UNCHANGED built
    BY <2>1 DEF Reads, curveVars
  <2>3. Types'
    BY <2>1 DEF CurveInv, Types
  <2>4. Shape(stack, engine, frozen)'
    BY <2>1 DEF CurveInv
  <2>5. ThrowInv'
    <3>1. PICK t \in BOOLEAN : t = thrown /\ t = thrown'
      BY <2>1 DEF CurveInv, Types
    <3>2. (t \/ Flagged(stack) => Eagers # {}) /\ (Doomed(stack, t) => Hopeless)
      BY <3>1 DEF CurveInv, ThrowInv
    <3>3. Hopeless => Hopeless'
      BY <2>2, ReadsFacts DEF CurveInv
    <3> QED
      BY <2>1, <3>1, <3>2, <3>3 DEF ThrowInv
  <2> QED
    BY <2>1, <2>2, <2>3, <2>4, <2>5, CurveKeep
<1> QED
  BY <1>1, <1>2, <1>3, <1>4 DEF Next, Step

\* The invariant says that a curve is current when no call is under way.
LEMMA CurveInvSays == CurveInv => CurveIsCurrent
<1> SUFFICES ASSUME CurveInv, Idle PROVE (built => curve = CurveTruth) /\ ReferenceDate = Date
                                         /\ \A h \in Relative : helperDate[h] = Date
  BY DEF CurveIsCurrent
<1>1. RefOK
  BY IdleFacts, OldIsPending DEF CurveInv
<1> QED
  BY <1>1, IdleFacts DEF CurveInv, BuiltInv, HelperInv, RefOK, ReferenceDate

\* Whichever observers are told first and whichever throw, after a change of the
\* evaluation date or of a quote a bootstrapped curve is the one that would be
\* bootstrapped from scratch, and every cached date is the evaluation date: some
\* helper is relative to the evaluation date, or nobody reads the curve while it
\* notifies (piecewiseyieldcurve.hpp:231-240, bootstraphelper.hpp, termstructure.cpp).
THEOREM CurveCurrent == Repaired => (Spec => []CurveIsCurrent)
<1> SUFFICES ASSUME Repaired PROVE Spec => []CurveIsCurrent
  OBVIOUS
<1>1. CurveInv /\ [Next]_vars => CurveInv'
  BY NextCurve
<1> QED
  BY <1>1, InitCurve, CurveInvSays, PTL DEF Spec

-----------------------------------------------------------------------------
(* The values of instruments, and what observers have seen.                *)

\* A value has been worked out by the engine, if it is not that of an expired
\* instrument; it is current, or the instrument is going to be told, through the
\* engine or through the curve if need be.
Valued(i) ==
    /\ calculated[i] /\ npv[i] # Zero => engine[i] = Engine
    /\ calculated[i] /\ ~Told(stack, i) =>
          /\ npv[i] = Zero <=> isExpired(i)
          /\ npv[i] # Zero /\ ~Told(stack, Engine) =>
                built /\ (Pending(stack) \/ npv[i] = PriceOf(curve, Date))

\* The same for what an observer has seen.
Shown(e) ==
    ~Told(stack, e) /\ view[e] \notin {None, Failed} =>
        IF Watched[e] = Curve THEN built /\ (Pending(stack) \/ view[e] = PriceOf(curve, Date))
        ELSE \/ frozen[Watched[e]]
             \/ calculated[Watched[e]] /\ (Told(stack, Watched[e]) \/ view[e] = npv[Watched[e]])

ValueInv == (\A i \in Instruments : Valued(i)) /\ (\A e \in Eagers : Shown(e))

\* A bootstrapped curve is left as it is, or x will be told.
Kept(x) ==
    built => \/ Told(stack', x)
             \/ built' /\ (Pending(stack') \/ (~Pending(stack) /\ curve' = curve /\ Date' = Date))

LEMMA ValuedKeep ==
    ASSUME NEW i \in Instruments, Valued(i), Kept(Engine),
           UNCHANGED npv[i], UNCHANGED engine[i],
           calculated[i]' => calculated[i] /\ (Told(stack, i) => Told(stack', i)),
           Told(stack, Engine) /\ engine[i] = Engine => Told(stack', Engine) \/ Told(stack', i),
           (isExpired(i)' <=> isExpired(i)) \/ Told(stack', i)
    PROVE  Valued(i)'
<1>1. calculated[i]' /\ npv[i]' # Zero => engine[i]' = Engine
  BY DEF Valued
<1>2. ASSUME calculated[i]', ~Told(stack', i)
      PROVE  /\ npv[i]' = Zero <=> isExpired(i)'
             /\ npv[i]' # Zero /\ ~Told(stack', Engine) =>
                   built' /\ (Pending(stack') \/ npv[i]' = PriceOf(curve, Date)')
  <2>1. calculated[i] /\ ~Told(stack, i) /\ (isExpired(i)' <=> isExpired(i))
    BY <1>2
  <2>2. npv[i] = Zero <=> isExpired(i)
    BY <2>1 DEF Valued
  <2>3. ASSUME npv[i] # Zero, ~Told(stack', Engine)
        PROVE  built' /\ (Pending(stack') \/ npv[i] = PriceOf(curve, Date)')
    <3>1. engine[i] = Engine
      BY <2>1, <2>3 DEF Valued
    <3>2. ~Told(stack, Engine)
      BY <3>1, <2>3, <1>2
    <3>3. built /\ (Pending(stack) \/ npv[i] = PriceOf(curve, Date))
      BY <3>2, <2>1, <2>3 DEF Valued
    <3>4. built' /\ (Pending(stack') \/ (~Pending(stack) /\ curve' = curve /\ Date' = Date))
      BY <3>3, <2>3 DEF Kept
    <3> QED
      BY <3>3, <3>4 DEF PriceOf
  <2> QED
    BY <2>1, <2>2, <2>3
<1> QED
  BY <1>1, <1>2 DEF Valued

LEMMA ShownKeep ==
    ASSUME NEW e \in Eagers, Shown(e), Watched[e] = Curve => Kept(e), UNCHANGED view[e],
           Told(stack, e) => Told(stack', e),
           Watched[e] # Curve /\ frozen[Watched[e]] => frozen[Watched[e]]' \/ Told(stack', e),
           Watched[e] # Curve /\ calculated[Watched[e]] =>
              \/ Told(stack', e)
              \/ frozen[Watched[e]]'
              \/ /\ calculated[Watched[e]]'
                 /\ \/ Told(stack', Watched[e])
                    \/ ~Told(stack, Watched[e]) /\ UNCHANGED npv[Watched[e]]
    PROVE  Shown(e)'
<1> SUFFICES ASSUME ~Told(stack', e), view[e] \notin {None, Failed}
             PROVE  IF Watched[e] = Curve
                    THEN built' /\ (Pending(stack') \/ view[e] = PriceOf(curve, Date)')
                    ELSE \/ frozen[Watched[e]]'
                         \/ /\ calculated[Watched[e]]'
                            /\ Told(stack', Watched[e]) \/ view[e] = npv[Watched[e]]'
  BY DEF Shown
<1>1. CASE Watched[e] = Curve
  <2>1. built /\ (Pending(stack) \/ view[e] = PriceOf(curve, Date))
    BY <1>1 DEF Shown
  <2>2. built' /\ (Pending(stack') \/ (~Pending(stack) /\ curve' = curve /\ Date' = Date))
    BY <1>1, <2>1 DEF Kept
  <2> QED
    BY <1>1, <2>1, <2>2 DEF PriceOf
<1>2. CASE Watched[e] # Curve
  BY <1>2 DEF Shown
<1> QED
  BY <1>1, <1>2

\* A step that leaves the instruments and the observers alone, and calls none.
LEMMA ValueKeep ==
    ASSUME ValueInv, UNCHANGED <<engine, calculated, npv, view>>,
           \A x \in Instruments \cup Eagers \cup {Engine} : Told(stack, x) => Told(stack', x),
           \A i \in Instruments : (isExpired(i)' <=> isExpired(i)) \/ Told(stack', i),
           \A e \in Eagers : Watched[e] # Curve /\ frozen[Watched[e]] =>
              frozen'[Watched[e]] \/ Told(stack', e),
           Kept(Engine), \A e \in Eagers : Watched[e] = Curve => Kept(e)
    PROVE  ValueInv'
<1>1. ASSUME NEW i \in Instruments PROVE Valued(i)'
  BY ValuedKeep DEF ValueInv
<1>2. ASSUME NEW e \in Eagers PROVE Shown(e)'
  <2>1. Watched[e] # Curve => Watched[e] \in Instruments
    BY ValuationAssumption
  <2> QED
    BY <2>1, ShownKeep DEF ValueInv
<1> QED
  BY <1>1, <1>2 DEF ValueInv

\* Reading the curve leaves a bootstrapped one as it is.
LEMMA ReadKeeps ==
    ASSUME Types, Reads, Pending(stack') <=> Pending(stack)
    PROVE  \A x : Kept(x)
  BY ReadsFacts DEF Kept

\* What a reader of the curve gets is current, or the curve will be told.
LEMMA ReadIsCurrent ==
    ASSUME CurveInv, Reads, ReadCurve, CurveResult # Failed, Idle \/ Eagers # {},
           Pending(stack') <=> Pending(stack)
    PROVE  /\ built'
           /\ Pending(stack') \/ PriceOf(CurveResult, ReferenceDate) = PriceOf(curve, Date)'
<1>1. built' /\ curve' = CurveResult
  BY DEF ReadCurve
<1>2. Date' = Date
  BY ReadsFacts DEF CurveInv
<1>3. ASSUME ~Pending(stack) PROVE ReferenceDate = Date
  BY <1>3, OldIsPending DEF CurveInv, RefOK, ReferenceDate
<1> QED
  BY <1>1, <1>2, <1>3 DEF PriceOf

\* The value of i is read.
LEMMA ReadValue ==
    ASSUME CurveInv, ValueInv, NEW i \in Instruments, ReadNPV(i), Idle \/ Eagers # {},
           UNCHANGED <<evaluationDate, quote, helperDate, engine, frozen>>,
           \A x \in Instruments \cup {Engine} : Told(stack, x) => Told(stack', x),
           Pending(stack') <=> Pending(stack)
    PROVE  /\ \A j \in Instruments : Valued(j)'
           /\ \A x : Kept(x)
           /\ \A j \in Instruments : calculated[j] =>
                 calculated'[j] /\ (Told(stack', j) \/ npv'[j] = npv[j])
           /\ ~frozen[i] /\ NPV(i) # Failed => calculated'[i] /\ npv'[i] = NPV(i)
<1>1. Types /\ (UNCHANGED curveVars \/ ReadCurve)
      /\ \A j \in Instruments \ {i} : calculated'[j] = calculated[j] /\ npv'[j] = npv[j]
  BY ReadNPVFacts DEF CurveInv
<1>2. Reads
  BY <1>1 DEF Reads
<1>3. \A x : Kept(x)
  BY <1>1, <1>2, ReadKeeps
<1>4. Date' = Date /\ \A j \in Instruments : isExpired(j)' <=> isExpired(j)
  BY <1>1, <1>2, ReadsFacts DEF isExpired
<1>5. ASSUME NEW j \in Instruments \ {i} PROVE Valued(j)'
  BY <1>1, <1>3, <1>4, ValuedKeep DEF ValueInv
<1>6. /\ calculated \in [Instruments -> BOOLEAN] /\ npv \in [Instruments -> Prices \cup {Zero, None}]
      /\ calculated[i] => npv[i] # None
      /\ engine[i] \in {Engine, None} /\ Valued(i) /\ engine' = engine
  BY <1>1 DEF Types, ValueInv
<1> DEFINE Goal == /\ Valued(i)'
                   /\ calculated[i] => calculated'[i] /\ (Told(stack', i) \/ npv'[i] = npv[i])
                   /\ ~frozen[i] /\ NPV(i) # Failed => calculated'[i] /\ npv'[i] = NPV(i)
<1>7. ASSUME isExpired(i) PROVE Goal
  <2>1. NPV(i) = Zero /\ Zero # Failed
    BY <1>7, KindsAssumption DEF NPV
  <2>2. /\ calculated' = [calculated EXCEPT ![i] = NPV(i) # Failed]
        /\ npv' = IF NPV(i) = Failed THEN npv ELSE [npv EXCEPT ![i] = NPV(i)]
    BY <1>7 DEF ReadNPV
  <2>3. calculated' = [calculated EXCEPT ![i] = TRUE] /\ npv' = [npv EXCEPT ![i] = Zero]
    BY <2>1, <2>2
  <2>4. calculated'[i] /\ npv'[i] = Zero
    BY <2>3, <1>6
  <2>5. Valued(i)'
    BY <2>4, <1>4, <1>7 DEF Valued
  <2>6. calculated[i] => Told(stack', i) \/ npv'[i] = npv[i]
    BY <2>4, <1>6, <1>7 DEF Valued
  <2> QED
    BY <2>1, <2>4, <2>5, <2>6
<1>8. ASSUME ~isExpired(i), calculated[i] \/ frozen[i] PROVE Goal
  <2>1. calculated' = calculated /\ npv' = npv
    BY <1>8 DEF ReadNPV, instrumentVars
  <2>2. Valued(i)'
    BY <2>1, <1>3, <1>4, <1>6, ValuedKeep
  <2>3. calculated[i] => NPV(i) = npv[i]
    BY <1>6, <1>8 DEF NPV
  <2> QED
    BY <2>1, <2>2, <2>3, <1>8
<1>9. ASSUME ~isExpired(i), ~(calculated[i] \/ frozen[i]) PROVE Goal
  <2>1. /\ calculated' = [calculated EXCEPT ![i] = NPV(i) # Failed]
        /\ npv' = IF NPV(i) = Failed THEN npv ELSE [npv EXCEPT ![i] = NPV(i)]
    BY <1>9 DEF ReadNPV
  <2>2. CASE NPV(i) = Failed
    <3>1. ~calculated'[i]
      BY <2>1, <2>2, <1>6
    <3> QED
      BY <3>1, <2>2, <1>9 DEF Valued
  <2>3. CASE NPV(i) # Failed
    <3>1. calculated'[i] /\ npv'[i] = NPV(i)
      <4>1. calculated' = [calculated EXCEPT ![i] = TRUE] /\ npv' = [npv EXCEPT ![i] = NPV(i)]
        BY <2>1, <2>3
      <4> QED
        BY <4>1, <1>6
    <3>2. engine[i] = Engine /\ ReadCurve /\ NPV(i) = PriceOf(CurveResult, ReferenceDate)
      BY <2>3, <1>6, <1>9 DEF NPV, ReadNPV
    <3>3. CurveResult # Failed /\ NPV(i) # Zero
      BY <3>2, <2>3, <1>1, PriceFacts, KindsAssumption
    <3>4. built' /\ (Pending(stack') \/ NPV(i) = PriceOf(curve, Date)')
      BY <3>2, <3>3, <1>2, ReadIsCurrent
    <3>5. Valued(i)'
      BY <3>1, <3>2, <3>3, <3>4, <1>4, <1>6, <1>9 DEF Valued
    <3> QED
      BY <3>1, <3>5, <1>9
  <2> QED
    BY <2>2, <2>3
<1>10. Goal
  BY <1>7, <1>8, <1>9
<1> HIDE DEF Goal
<1>11. \A j \in Instruments : Valued(j)'
  BY <1>5, <1>10 DEF Goal
<1>12. \A j \in Instruments : calculated[j] =>
          calculated'[j] /\ (Told(stack', j) \/ npv'[j] = npv[j])
  BY <1>1, <1>10 DEF Goal
<1> QED
  BY <1>3, <1>10, <1>11, <1>12 DEF Goal

\* An observer, or a client, reads the value of i; other observers keep theirs.
LEMMA ShownRead ==
    ASSUME NEW i \in Instruments, NEW e \in Eagers, Shown(e), \A x : Kept(x), UNCHANGED view[e],
           UNCHANGED frozen,
           Told(stack, e) => Told(stack', e),
           \A x \in Instruments : Told(stack, x) => Told(stack', x),
           \A j \in Instruments : calculated[j] =>
              calculated'[j] /\ (Told(stack', j) \/ npv'[j] = npv[j])
    PROVE  Shown(e)'
<1>1. Watched[e] # Curve => Watched[e] \in Instruments
  BY ValuationAssumption
<1>2. Watched[e] # Curve /\ calculated[Watched[e]] =>
         /\ calculated[Watched[e]]'
         /\ \/ Told(stack', Watched[e])
            \/ ~Told(stack, Watched[e]) /\ UNCHANGED npv[Watched[e]]
  BY <1>1
<1> QED
  BY <1>2, ShownKeep

LEMMA PushTold ==
    ASSUME Types, NEW s \in Seq(Frames), NEW n
    PROVE  \A x : Told(<<NotifyFrame(n)>> \o s, x) <=> x \in ObserversOf(n) \/ Told(s, x)
<1>1. PICK f \in Frames : f = NotifyFrame(n) /\ f.left = ObserversOf(n)
  BY ObserverFacts
<1>2. \A x : Told(<<f>> \o s, x) <=> x \in f.left \/ Told(s, x)
  BY PushSays
<1> QED
  BY <1>1, <1>2

\* The rest of the loop, when o is called.
LEMMA RestTold ==
    ASSUME CurveInv, Loop, NEW o \in Top.left
    PROVE  /\ Types /\ Rest(o) \in Seq(Frames)
           /\ \A x : Told(Rest(o), x) => Told(stack, x)
           /\ \A x : x # o /\ Told(stack, x) => Told(Rest(o), x)
           /\ Date' = Date /\ \A i \in Instruments : isExpired(i)' <=> isExpired(i)
<1>1. Types /\ ~Idle /\ stack \in Seq(Frames) /\ Shape(stack, engine, frozen)
  BY DEF CurveInv, Types, Loop, TopIs
<1>2. Date' = Date
  BY DEF Loop, Date, DateOf
<1> QED
  BY <1>1, <1>2, RestFacts DEF isExpired

LEMMA HelperValue ==
    ASSUME CurveInv, ValueInv, Loop, NEW h \in Helpers, h \in Top.left, UpdateHelper(h, Rest(h))
    PROVE  ValueInv'
<1>1. /\ Types /\ Rest(h) \in Seq(Frames)
      /\ \A x : x # h /\ Told(stack, x) => Told(Rest(h), x)
      /\ Date' = Date /\ \A i \in Instruments : isExpired(i)' <=> isExpired(i)
  BY RestTold
<1>2. /\ UNCHANGED <<engine, calculated, npv, view>> /\ UNCHANGED <<frozen, built, curve>>
      /\ stack' = <<NotifyFrame(h)>> \o Rest(h)
  BY DEF Loop, UpdateHelper, instrumentVars, curveVars
<1>3. \A x : Told(stack', x) <=> x = Curve \/ Told(Rest(h), x)
  <2>1. ObserversOf(h) = {Curve}
    BY <1>1, ObserverFacts
  <2> QED
    BY <2>1, <1>1, <1>2, PushTold
<1>4. \A x \in Instruments \cup Eagers \cup {Engine} : Told(stack, x) => Told(stack', x)
  BY <1>1, <1>3, KindsAssumption
<1>5. \A x : Kept(x)
  BY <1>2, <1>3 DEF Kept, Pending
<1> QED
  BY <1>1, <1>2, <1>4, <1>5, ValueKeep

LEMMA CurveValue ==
    ASSUME CurveInv, ValueInv, Loop, Curve \in Top.left, UpdateCurve(Rest(Curve))
    PROVE  ValueInv'
<1>1. /\ Types /\ Rest(Curve) \in Seq(Frames)
      /\ \A x : x # Curve /\ Told(stack, x) => Told(Rest(Curve), x)
      /\ Date' = Date /\ \A i \in Instruments : isExpired(i)' <=> isExpired(i)
  BY RestTold
<1>2. UNCHANGED <<engine, calculated, npv, view>> /\ UNCHANGED frozen
  BY DEF Loop, UpdateCurve, instrumentVars
<1>3. CASE built
  <2>1. \A x : Told(stack', x) <=> x \in ObserversOf(Curve) \/ Told(Rest(Curve), x)
    BY <1>2, <1>3, CurveCall DEF UpdateCurve
  <2>2. ObserversOf(Curve) = {e \in Eagers : Watched[e] = Curve} \cup {Engine}
    BY <1>1, ObserverFacts
  <2>3. Kept(Engine) /\ \A e \in Eagers : Watched[e] = Curve => Kept(e)
    BY <2>1, <2>2 DEF Kept
  <2>4. \A x \in Instruments \cup Eagers \cup {Engine} : Told(stack, x) => Told(stack', x)
    BY <1>1, <2>1, KindsAssumption
  <2> QED
    BY <2>3, <2>4, <1>1, <1>2, ValueKeep
<1>4. CASE ~built
  <2>1. stack' = Rest(Curve)
    BY <1>4 DEF UpdateCurve
  <2>2. \A x : Kept(x)
    BY <1>4 DEF Kept
  <2>3. \A x \in Instruments \cup Eagers \cup {Engine} : Told(stack, x) => Told(stack', x)
    BY <1>1, <2>1, KindsAssumption
  <2> QED
    BY <2>2, <2>3, <1>1, <1>2, ValueKeep
<1> QED
  BY <1>3, <1>4

\* The engine notifies the instruments that it prices.
LEMMA EngineValue ==
    ASSUME CurveInv, ValueInv, Loop, Engine \in Top.left,
           stack' = <<NotifyFrame(Engine)>> \o Rest(Engine),
           UNCHANGED <<helperDate, curveVars, instrumentVars, view, thrown>>
    PROVE  ValueInv'
<1>1. /\ Types /\ Rest(Engine) \in Seq(Frames)
      /\ \A x : Told(Rest(Engine), x) => Told(stack, x)
      /\ \A x : x # Engine /\ Told(stack, x) => Told(Rest(Engine), x)
      /\ Date' = Date /\ \A i \in Instruments : isExpired(i)' <=> isExpired(i)
  BY RestTold
<1>2. UNCHANGED engine /\ UNCHANGED <<calculated, npv>> /\ UNCHANGED <<frozen, built, curve, view>>
  BY DEF Loop, instrumentVars, curveVars
<1>3. \A x : Told(stack', x) <=> x \in {i \in Instruments : engine[i] = Engine} \/ Told(Rest(Engine), x)
  BY <1>1, PushTold, ObserverFacts
<1>4. \A x \in Instruments \cup Eagers \cup Helpers \cup {Curve} : Told(stack, x) => Told(stack', x)
  BY <1>1, <1>3, KindsAssumption
<1>5. \A x : Kept(x)
  <2>1. Pending(stack) => Pending(stack')
    BY <1>4 DEF Pending
  <2> QED
    BY <2>1, <1>1, <1>2 DEF Kept
<1>6. ASSUME NEW i \in Instruments PROVE Valued(i)'
  BY <1>1, <1>2, <1>3, <1>4, <1>5, ValuedKeep DEF ValueInv
<1>7. ASSUME NEW e \in Eagers PROVE Shown(e)'
  <2>1. Watched[e] # Curve => Watched[e] \in Instruments
    BY ValuationAssumption
  <2> QED
    BY <2>1, <1>2, <1>4, <1>5, ShownKeep DEF ValueInv
<1> QED
  BY <1>6, <1>7 DEF ValueInv

\* An instrument is updated: its value goes, and if there was one those who have
\* seen it will be told; unless it is frozen.
LEMMA UpdateValue ==
    ASSUME Types, ValueInv, NEW i \in Instruments, NEW rest \in Seq(Frames),
           UpdateInstrument(i, rest), UNCHANGED <<evaluationDate, frozen>>,
           \A j \in Instruments \ {i} : UNCHANGED engine[j],
           \A x : x # i /\ Told(stack, x) => Told(rest, x)
    PROVE  ValueInv'
<1>1. /\ calculated' = [calculated EXCEPT ![i] = FALSE] /\ calculated \in [Instruments -> BOOLEAN]
      /\ stack' = IF calculated[i] /\ ~frozen[i] THEN <<NotifyFrame(i)>> \o rest ELSE rest
      /\ UNCHANGED <<built, curve, npv, view>>
  BY DEF UpdateInstrument, curveVars, Types
<1>2. ~calculated'[i] /\ \A j \in Instruments \ {i} : calculated'[j] = calculated[j]
  BY <1>1
<1>3. ObserversOf(i) = {e \in Eagers : Watched[e] = i}
  BY ObserverFacts
<1>4. /\ \A x : x # i /\ Told(stack, x) => Told(stack', x)
      /\ calculated[i] /\ ~frozen[i] => \A e \in Eagers : Watched[e] = i => Told(stack', e)
  <2>1. CASE calculated[i] /\ ~frozen[i]
    BY <2>1, <1>1, <1>3, PushTold
  <2>2. CASE ~(calculated[i] /\ ~frozen[i])
    BY <2>2, <1>1
  <2> QED
    BY <2>1, <2>2
<1>5. Date' = Date /\ \A j \in Instruments : isExpired(j)' <=> isExpired(j)
  BY DEF isExpired, Date, DateOf
<1>6. \A x : Kept(x)
  <2>1. \A x \in Helpers \cup {Curve} : x # i
    BY KindsAssumption
  <2>2. Pending(stack) => Pending(stack')
    BY <1>4, <2>1 DEF Pending
  <2> QED
    BY <2>2, <1>1, <1>5 DEF Kept
<1>7. ASSUME NEW j \in Instruments PROVE Valued(j)'
  <2>1. CASE j = i
    BY <2>1, <1>2 DEF Valued
  <2>2. CASE j # i
    <3>1. Engine # i
      BY KindsAssumption
    <3> QED
      BY <2>2, <3>1, <1>1, <1>2, <1>4, <1>5, <1>6, ValuedKeep DEF ValueInv
  <2> QED
    BY <2>1, <2>2
<1>8. ASSUME NEW e \in Eagers PROVE Shown(e)'
  <2>1. e # i /\ (Watched[e] # Curve => Watched[e] \in Instruments)
    BY ValuationAssumption, KindsAssumption
  <2>2. CASE Watched[e] = i
    BY <2>1, <2>2, <1>1, <1>4, <1>6, ShownKeep DEF ValueInv
  <2>3. CASE Watched[e] # i
    <3>1. Watched[e] # Curve => calculated'[Watched[e]] = calculated[Watched[e]]
      BY <2>1, <2>3, <1>2
    <3> QED
      BY <2>1, <2>3, <3>1, <1>1, <1>4, <1>6, ShownKeep DEF ValueInv
  <2> QED
    BY <2>2, <2>3
<1> QED
  BY <1>7, <1>8 DEF ValueInv

\* An observer reads what it observes.
LEMMA EagerValue ==
    ASSUME CurveInv, ValueInv, Loop, NEW e \in Eagers, e \in Top.left, UpdateEager(e, Rest(e))
    PROVE  ValueInv'
<1>1. /\ Types /\ Rest(e) \in Seq(Frames)
      /\ \A x : Told(Rest(e), x) => Told(stack, x)
      /\ \A x : x # e /\ Told(stack, x) => Told(Rest(e), x)
      /\ Date' = Date /\ \A i \in Instruments : isExpired(i)' <=> isExpired(i)
  BY RestTold
<1>2. /\ UNCHANGED <<evaluationDate, quote, helperDate, engine, frozen>>
      /\ stack' = Rest(e) /\ view' = [view EXCEPT ![e] = Seen(e)]
      /\ view \in [Eagers -> Prices \cup {Zero, None, Failed}]
  BY <1>1 DEF Loop, UpdateEager, Seen, Types
<1>3. view'[e] = Seen(e) /\ \A k \in Eagers \ {e} : view'[k] = view[k]
  BY <1>2
<1>4. /\ \A x \in Instruments \cup {Engine} : Told(stack, x) => Told(stack', x)
      /\ \A k \in Eagers \ {e} : Told(stack, k) => Told(stack', k)
  BY <1>1, <1>2, KindsAssumption
<1>5. Pending(stack') <=> Pending(stack)
  <2>1. \A x \in Helpers \cup {Curve} : x # e
    BY KindsAssumption
  <2> QED
    BY <2>1, <1>1, <1>2 DEF Pending
<1>6. CASE Watched[e] = Curve
  <2>1. /\ Seen(e) = PriceOf(CurveResult, ReferenceDate)
        /\ ReadCurve /\ UNCHANGED <<calculated, npv>>
    BY <1>6 DEF Seen, UpdateEager, instrumentVars
  <2>2. Reads
    BY <2>1, <1>2 DEF Reads
  <2>3. \A x : Kept(x)
    BY <2>2, <1>1, <1>5, ReadKeeps
  <2>4. ASSUME NEW i \in Instruments PROVE Valued(i)'
    BY <2>1, <2>3, <1>1, <1>2, <1>4, ValuedKeep DEF ValueInv
  <2>5. Shown(e)'
    <3> SUFFICES ASSUME Seen(e) # Failed
                 PROVE  built' /\ (Pending(stack') \/ Seen(e) = PriceOf(curve, Date)')
      BY <1>3, <1>6 DEF Shown
    <3>1. CurveResult # Failed
      BY <2>1, <1>1, PriceFacts
    <3> QED
      BY <2>1, <2>2, <3>1, <1>5, ReadIsCurrent
  <2>6. ASSUME NEW k \in Eagers \ {e} PROVE Shown(k)'
    <3>1. Watched[k] # Curve => Watched[k] \in Instruments
      BY ValuationAssumption
    <3> QED
      BY <3>1, <2>1, <2>3, <1>2, <1>3, <1>4, ShownKeep DEF ValueInv
  <2> QED
    BY <2>4, <2>5, <2>6 DEF ValueInv
<1>7. CASE Watched[e] # Curve
  <2>1. PICK i \in Instruments : i = Watched[e]
    BY <1>7, ValuationAssumption
  <2>2. ReadNPV(i) /\ Seen(e) = NPV(i)
    BY <1>7, <2>1 DEF Seen, UpdateEager
  <2>3. /\ \A j \in Instruments : Valued(j)'
        /\ \A x : Kept(x)
        /\ \A j \in Instruments : calculated[j] =>
              calculated'[j] /\ (Told(stack', j) \/ npv'[j] = npv[j])
        /\ ~frozen[i] /\ NPV(i) # Failed => calculated'[i] /\ npv'[i] = NPV(i)
    BY <2>2, <1>2, <1>4, <1>5, ReadValue
  <2>4. Shown(e)'
    BY <2>1, <2>2, <2>3, <1>2, <1>3, <1>7 DEF Shown
  <2>5. ASSUME NEW k \in Eagers \ {e} PROVE Shown(k)'
    BY <2>3, <1>2, <1>3, <1>4, ShownRead DEF ValueInv
  <2> QED
    BY <2>3, <2>4, <2>5 DEF ValueInv
<1> QED
  BY <1>6, <1>7

LEMMA ValueSame ==
    ASSUME ValueInv, UNCHANGED <<engine, calculated, npv, view>>, UNCHANGED <<frozen, evaluationDate>>,
           built => built' /\ curve' = curve, \A x : Told(stack', x) <=> Told(stack, x)
    PROVE  ValueInv'
<1>1. Date' = Date /\ \A i \in Instruments : isExpired(i)' <=> isExpired(i)
  BY DEF isExpired, Date, DateOf
<1>2. \A x : Kept(x)
  BY <1>1 DEF Kept, Pending
<1> QED
  BY <1>1, <1>2, ValueKeep

LEMMA CatchValue ==
    ASSUME CurveInv, ValueInv, NotifyCatch
    PROVE  ValueInv'
<1>1. /\ stack # <<>> /\ stack \in Seq(Frames) /\ Top = stack[1]
      /\ UNCHANGED <<engine, calculated, npv, view>> /\ UNCHANGED <<frozen, evaluationDate>>
      /\ UNCHANGED <<built, curve>>
      /\ stack' = <<[Top EXCEPT !.flag = TRUE]>> \o Tail(stack)
  BY DEF CurveInv, NotifyCatch, TopIs, Idle, Types, Top, curveVars
<1>2. Top \in Frames
  BY <1>1, PopFacts
<1>3. PICK f \in Frames, r \in Seq(Frames) :
         f = [Top EXCEPT !.flag = TRUE] /\ r = Tail(stack) /\ f.left = Top.left
  <2>1. Tail(stack) \in Seq(Frames)
    BY <1>1, PopFacts
  <2>2. [Top EXCEPT !.flag = TRUE] \in Frames /\ [Top EXCEPT !.flag = TRUE].left = Top.left
    BY <1>2 DEF Frames
  <2> QED
    BY <2>1, <2>2
<1>4. \A x : Told(<<f>> \o r, x) <=> x \in f.left \/ Told(r, x)
  BY PushSays
<1>5. \A x : Told(stack, x) <=> x \in Top.left \/ Told(r, x)
  BY <1>1, <1>3, PopSays
<1> QED
  BY <1>1, <1>3, <1>4, <1>5, ValueSame

LEMMA EndValue ==
    ASSUME CurveInv, ValueInv, NotifyEnd \/ UpdateCurveEnd
    PROVE  ValueInv'
<1>1. /\ ~Idle /\ stack' = Tail(stack)
      /\ UNCHANGED <<engine, calculated, npv, view>> /\ UNCHANGED <<frozen, evaluationDate>>
      /\ UNCHANGED <<built, curve>>
      /\ Top.left = {} \/ Top.op = "curve"
  BY DEF NotifyEnd, UpdateCurveEnd, TopIs, curveVars
<1>2. Top.left = {}
  <2>1. Len(stack) \in Nat \ {0}
    BY <1>1, PopFacts DEF CurveInv, Types, Idle
  <2>2. 1 \in 1..Len(stack)
    BY <2>1
  <2> QED
    BY <2>2, <1>1 DEF CurveInv, Shape, Top
<1>3. \A x : Told(stack', x) <=> Told(stack, x)
  BY <1>1, <1>2, ReturnFacts
<1> QED
  BY <1>1, <1>3, ValueSame

\* The evaluation date is set: the instruments that may expire will be told.
LEMMA AssignValue ==
    ASSUME ExpiryWatched, CurveInv, CurveInv', ValueInv, Idle, NEW d, Assign(d),
           UNCHANGED <<quote, helperDate, curveVars, engine, calculated, frozen, npv, view, thrown>>
    PROVE  ValueInv'
<1>1. Types /\ Date \in Dates \cup {Today} /\ Date' \in Dates \cup {Today}
  <2>1. Types /\ Types'
    BY DEF CurveInv
  <2> QED
    BY <2>1, ValuationAssumption DEF Types, Date, DateOf
<1>2. \A x : Told(stack', x) <=> x \in Relative \cup WatchDate \cup {Curve}
  <2>1. PICK f \in Frames : f = NotifyFrame(EvaluationDate)
    BY <1>1, ObserverFacts
  <2>2. f.op = "notify" /\ ~f.flag /\ f.left = Relative \cup WatchDate \cup {Curve}
    BY <1>1, <2>1, ObserverFacts
  <2>3. \A x : Told(<<f>>, x) <=> x \in f.left
    BY <2>2, OneFrame
  <2> QED
    BY <2>1, <2>2, <2>3 DEF Assign
<1>3. \A x : Kept(x)
  BY <1>2 DEF Kept, Pending, curveVars
<1>4. ASSUME NEW i \in Instruments PROVE (isExpired(i)' <=> isExpired(i)) \/ Told(stack', i)
  <2>1. CASE i \in WatchDate
    BY <2>1, <1>2
  <2>2. CASE i \notin WatchDate
    <3>1. Maturity[i] > Date /\ Maturity[i] > Date'
      BY <2>2, <1>1 DEF ExpiryWatched
    <3>2. Maturity[i] \in Nat /\ Date \in Nat /\ Date' \in Nat
      BY <1>1, ValuationAssumption
    <3> QED
      BY <3>1, <3>2 DEF isExpired
  <2> QED
    BY <2>1, <2>2
<1>5. \A x : ~Told(stack, x)
  BY IdleFacts
<1> QED
  BY <1>3, <1>4, <1>5, ValueKeep

LEMMA QuoteValue ==
    ASSUME CurveInv, ValueInv, NEW h \in Helpers, NEW v \in Values \cup {None}, setValue(h, v)
    PROVE  ValueInv'
<1>1. /\ Idle /\ UNCHANGED <<engine, calculated, npv, view>> /\ UNCHANGED <<frozen, evaluationDate>>
      /\ UNCHANGED built
      /\ stack' = <<[op |-> "notify", left |-> {h}, flag |-> FALSE]>>
  BY DEF setValue, curveVars
<1>2. PICK f \in Frames : f = [op |-> "notify", left |-> {h}, flag |-> FALSE]
  BY DEF Frames, Objects
<1>3. f.op = "notify" /\ ~f.flag /\ f.left = {h}
  BY <1>2
<1>4. \A x : Told(stack', x) <=> x = h
  BY <1>1, <1>2, <1>3, OneFrame
<1>5. \A x : Kept(x)
  BY <1>1, <1>4 DEF Kept, Pending
<1>6. \A i \in Instruments : isExpired(i)' <=> isExpired(i)
  BY <1>1 DEF isExpired, Date, DateOf
<1> QED
  BY <1>1, <1>5, <1>6, IdleFacts, ValueKeep

LEMMA AskValue ==
    ASSUME CurveInv, ValueInv, NEW i \in Instruments, Ask(i)
    PROVE  ValueInv'
<1>1. /\ Idle /\ ReadNPV(i)
      /\ UNCHANGED <<evaluationDate, quote, helperDate, engine, frozen>> /\ UNCHANGED <<view, stack>>
  BY DEF Ask
<1>2. /\ \A x : Told(stack', x) <=> Told(stack, x)
      /\ Pending(stack') <=> Pending(stack)
  BY <1>1
<1>3. /\ \A j \in Instruments : Valued(j)'
      /\ \A x : Kept(x)
      /\ \A j \in Instruments : calculated[j] =>
            calculated'[j] /\ (Told(stack', j) \/ npv'[j] = npv[j])
  BY <1>1, <1>2, ReadValue
<1>4. ASSUME NEW e \in Eagers PROVE Shown(e)'
  BY <1>1, <1>2, <1>3, ShownRead DEF ValueInv
<1> QED
  BY <1>3, <1>4 DEF ValueInv

LEMMA AskCurveValue ==
    ASSUME CurveInv, ValueInv, AskCurve
    PROVE  ValueInv'
<1>1. /\ Types /\ Reads
      /\ UNCHANGED <<engine, calculated, npv, view>> /\ UNCHANGED <<frozen, evaluationDate>>
      /\ UNCHANGED stack
  BY DEF CurveInv, AskCurve, Reads
<1>2. built => built' /\ curve' = curve
  BY <1>1, ReadsFacts
<1> QED
  BY <1>1, <1>2, ValueSame

LEMMA SetEngineValue ==
    ASSUME CurveInv, ValueInv, NEW i \in Instruments, NEW e \in {Engine, None}, setPricingEngine(i, e)
    PROVE  ValueInv'
<1>1. /\ Types /\ Idle /\ UpdateInstrument(i, <<>>) /\ UNCHANGED <<evaluationDate, frozen>>
      /\ engine' = [engine EXCEPT ![i] = e] /\ engine \in [Instruments -> {Engine, None}]
  BY DEF CurveInv, setPricingEngine, Types
<1>2. \A j \in Instruments \ {i} : UNCHANGED engine[j]
  BY <1>1
<1>3. <<>> \in Seq(Frames)
  OBVIOUS
<1> QED
  BY <1>1, <1>2, <1>3, IdleFacts, UpdateValue

LEMMA FreezeValue ==
    ASSUME CurveInv, ValueInv, NEW i \in Instruments, freeze(i) \/ unfreeze(i)
    PROVE  ValueInv'
<1>1. /\ Types /\ Idle /\ UNCHANGED <<engine, calculated, npv, view>> /\ UNCHANGED <<evaluationDate, built, curve>>
      /\ frozen \in [Instruments -> BOOLEAN]
      /\ \/ frozen' = [frozen EXCEPT ![i] = TRUE] /\ stack' = stack
         \/ frozen' = [frozen EXCEPT ![i] = FALSE] /\ stack' = <<NotifyFrame(i)>>
  BY DEF CurveInv, freeze, unfreeze, curveVars, Types
<1>2. Date' = Date /\ \A j \in Instruments : isExpired(j)' <=> isExpired(j)
  BY <1>1 DEF isExpired, Date, DateOf
<1>3. \A x : Kept(x)
  BY <1>1, <1>2, IdleFacts DEF Kept
<1>4. ASSUME NEW k \in Eagers, Watched[k] # Curve, frozen[Watched[k]]
      PROVE  frozen'[Watched[k]] \/ Told(stack', k)
  <2>1. Watched[k] \in Instruments
    BY <1>4, ValuationAssumption
  <2>2. CASE frozen' = [frozen EXCEPT ![i] = TRUE]
    BY <2>1, <2>2, <1>1, <1>4
  <2>3. CASE frozen' = [frozen EXCEPT ![i] = FALSE] /\ stack' = <<NotifyFrame(i)>>
    <3>1. PICK f \in Frames : /\ f = NotifyFrame(i) /\ f.op = "notify" /\ ~f.flag
                              /\ f.left = {e \in Eagers : Watched[e] = i}
      BY <1>1, InstrumentFrame
    <3>2. \A x : Told(<<f>>, x) <=> x \in f.left
      BY <3>1, OneFrame
    <3>3. CASE Watched[k] = i
      BY <2>3, <3>1, <3>2, <3>3
    <3>4. CASE Watched[k] # i
      BY <2>1, <2>3, <3>4, <1>1, <1>4
    <3> QED
      BY <3>3, <3>4
  <2> QED
    BY <2>2, <2>3, <1>1
<1> QED
  BY <1>1, <1>2, <1>3, <1>4, IdleFacts, ValueKeep

LEMMA InitValue == Init => ValueInv
<1> SUFFICES ASSUME Init PROVE ValueInv
  OBVIOUS
<1>1. \A i \in Instruments : ~calculated[i]
  BY DEF Init
<1>2. \A e \in Eagers : view[e] = None
  BY DEF Init
<1> QED
  BY <1>1, <1>2 DEF ValueInv, Valued, Shown

LEMMA NextValue ==
    ASSUME Repaired, ExpiryWatched, CurveInv, ValueInv, [Next]_vars
    PROVE  ValueInv'
<1>0. CurveInv'
  BY NextCurve
<1>1. ASSUME NEW o \in Helpers \cup Instruments \cup Eagers \cup {Curve, Engine}, NotifyNext(o)
      PROVE  ValueInv'
  <2>1. /\ Loop /\ o \in Top.left
        /\ \/ o \in Helpers /\ UpdateHelper(o, Rest(o))
           \/ o = Curve /\ UpdateCurve(Rest(Curve))
           \/ /\ o = Engine /\ stack' = <<NotifyFrame(Engine)>> \o Rest(Engine)
              /\ UNCHANGED <<helperDate, curveVars, instrumentVars, view, thrown>>
           \/ o \in Instruments /\ UpdateInstrument(o, Rest(o))
           \/ o \in Eagers /\ UpdateEager(o, Rest(o))
    BY <1>1, NotifyStep
  <2>2. CASE o \in Helpers /\ UpdateHelper(o, Rest(o))
    BY <2>1, <2>2, HelperValue
  <2>3. CASE o = Curve /\ UpdateCurve(Rest(Curve))
    BY <2>1, <2>3, CurveValue
  <2>4. CASE /\ o = Engine /\ stack' = <<NotifyFrame(Engine)>> \o Rest(Engine)
             /\ UNCHANGED <<helperDate, curveVars, instrumentVars, view, thrown>>
    BY <2>1, <2>4, EngineValue
  <2>5. CASE o \in Instruments /\ UpdateInstrument(o, Rest(o))
    <3>1. /\ Types /\ Rest(o) \in Seq(Frames)
          /\ \A x : x # o /\ Told(stack, x) => Told(Rest(o), x)
      BY <2>1, RestTold
    <3>2. UNCHANGED engine /\ UNCHANGED <<evaluationDate, frozen>>
      BY <2>1 DEF Loop
    <3> QED
      BY <2>5, <3>1, <3>2, UpdateValue
  <2>6. CASE o \in Eagers /\ UpdateEager(o, Rest(o))
    BY <2>1, <2>6, EagerValue
  <2> QED
    BY <2>1, <2>2, <2>3, <2>4, <2>5, <2>6
<1>2. CASE NotifyCatch \/ NotifyEnd \/ UpdateCurveEnd
  BY <1>2, CatchValue, EndValue
<1>3. CASE Client
  <2>1. ASSUME NEW d \in Dates \cup {None}, setEvaluationDate(d) PROVE ValueInv'
    BY <2>1, <1>0, AssignValue DEF setEvaluationDate
  <2>2. CASE anchorEvaluationDate
    BY <2>2, <1>0, AssignValue DEF anchorEvaluationDate
  <2>3. CASE Save
    BY <2>3, ValueSame DEF Save, curveVars
  <2>4. CASE Restore
    <3>1. CASE Date # saved
      BY <2>4, <3>1, <1>0, AssignValue DEF Restore
    <3>2. CASE Date = saved
      BY <2>4, <3>2, ValueSame DEF Restore, curveVars
    <3> QED
      BY <3>1, <3>2
  <2>5. CASE AskCurve
    BY <2>5, AskCurveValue
  <2>6. ASSUME NEW h \in Helpers, NEW v \in Values \cup {None}, setValue(h, v) PROVE ValueInv'
    BY <2>6, QuoteValue
  <2>7. ASSUME NEW i \in Instruments, Ask(i) \/ freeze(i) \/ unfreeze(i) PROVE ValueInv'
    BY <2>7, AskValue, FreezeValue
  <2>8. ASSUME NEW i \in Instruments, NEW e \in {Engine, None}, setPricingEngine(i, e) PROVE ValueInv'
    BY <2>8, SetEngineValue
  <2> QED
    BY <1>3, <2>1, <2>2, <2>3, <2>4, <2>5, <2>6, <2>7, <2>8 DEF Client
<1>4. CASE UNCHANGED vars
  BY <1>4, ValueSame DEF vars
<1> QED
  BY <1>1, <1>2, <1>3, <1>4 DEF Next, Step

\* When no call is under way, what instruments and observers hold is true.
LEMMA IdleValue ==
    ASSUME CurveInv, ValueInv, Idle, NEW i \in Instruments, ~frozen[i]
    PROVE  /\ NPV(i) = NPVTruth(i)
           /\ calculated[i] => NPV(i) = npv[i]
<1>1. /\ Types /\ (built => curve = CurveTruth) /\ ReferenceDate = Date
      /\ \A h \in Relative : helperDate[h] = Date
      /\ Valued(i) /\ engine[i] \in {Engine, None}
      /\ calculated[i] => npv[i] # None
      /\ \A x : ~Told(stack, x)
  BY CurveInvSays, IdleFacts DEF CurveInv, CurveIsCurrent, ValueInv, Types
<1>2. ~Pending(stack)
  BY IdleFacts
<1>3. CASE isExpired(i)
  BY <1>1, <1>3 DEF NPV, NPVTruth, Valued
<1>4. CASE ~isExpired(i) /\ calculated[i]
  <2>1. npv[i] # Zero /\ engine[i] = Engine /\ built /\ npv[i] = PriceOf(curve, Date)
    BY <1>1, <1>2, <1>4 DEF Valued
  <2> QED
    BY <2>1, <1>1, <1>4, KindsAssumption DEF NPV, NPVTruth
<1>5. CASE ~isExpired(i) /\ ~calculated[i]
  <2>1. CurveResult = CurveTruth
    <3>1. CASE built
      BY <3>1, <1>1 DEF CurveResult
    <3>2. CASE ~built
      BY <3>2, <1>1, FreshCurve DEF RefOK, ReferenceDate
    <3> QED
      BY <3>1, <3>2
  <2> QED
    BY <2>1, <1>1, <1>5 DEF NPV, NPVTruth
<1> QED
  BY <1>3, <1>4, <1>5

LEMMA ValueInvSays == CurveInv /\ ValueInv => NPVIsCurrent /\ ViewIsCurrent
<1> SUFFICES ASSUME CurveInv, ValueInv, Idle PROVE NPVIsCurrent /\ ViewIsCurrent
  BY DEF NPVIsCurrent, ViewIsCurrent
<1>1. NPVIsCurrent
  BY IdleValue DEF NPVIsCurrent
<1>2. ASSUME NEW e \in Eagers, view[e] \notin {None, Failed}
      PROVE  IF Watched[e] = Curve THEN view[e] = PriceOf(CurveTruth, Date)
             ELSE frozen[Watched[e]] \/ view[e] = NPVTruth(Watched[e])
  <2>1. Shown(e) /\ ~Told(stack, e) /\ ~Pending(stack) /\ \A x : ~Told(stack, x)
    BY IdleFacts DEF ValueInv
  <2>2. CASE Watched[e] = Curve
    <3>1. built /\ view[e] = PriceOf(curve, Date)
      BY <1>2, <2>1, <2>2 DEF Shown
    <3>2. curve = CurveTruth
      BY <3>1, CurveInvSays DEF CurveIsCurrent
    <3> QED
      BY <2>2, <3>1, <3>2
  <2>3. CASE Watched[e] # Curve
    <3>1. PICK i \in Instruments : i = Watched[e]
      BY <2>3, ValuationAssumption
    <3>2. frozen[i] \/ (calculated[i] /\ view[e] = npv[i])
      BY <1>2, <2>1, <2>3, <3>1 DEF Shown
    <3> QED
      BY <2>3, <3>1, <3>2, IdleValue
  <2> QED
    BY <2>2, <2>3
<1>3. ViewIsCurrent
  BY <1>2 DEF ViewIsCurrent
<1> QED
  BY <1>1, <1>3

\* Between calls, the value of an instrument that is not frozen is the one that
\* pricing it from scratch would give, whatever is cached in the helpers, the
\* curve and the instrument (instrument.hpp, lazyobject.hpp:74-81), provided that
\* an instrument that may expire observes the evaluation date.
THEOREM NPVCurrent == Repaired /\ ExpiryWatched => (Spec => []NPVIsCurrent)
<1> SUFFICES ASSUME Repaired, ExpiryWatched PROVE Spec => []NPVIsCurrent
  OBVIOUS
<1>1. Init => CurveInv /\ ValueInv
  BY InitCurve, InitValue
<1>2. CurveInv /\ ValueInv /\ [Next]_vars => CurveInv' /\ ValueInv'
  BY NextCurve, NextValue
<1>3. CurveInv /\ ValueInv => NPVIsCurrent
  BY ValueInvSays
<1> QED
  BY <1>1, <1>2, <1>3, PTL DEF Spec

\* Between calls, what an observer saw last, if it saw anything, is what is true:
\* no observer is left with obsolete data (lazyobject.hpp:107-108).
THEOREM ViewCurrent == Repaired /\ ExpiryWatched => (Spec => []ViewIsCurrent)
<1> SUFFICES ASSUME Repaired, ExpiryWatched PROVE Spec => []ViewIsCurrent
  OBVIOUS
<1>1. Init => CurveInv /\ ValueInv
  BY InitCurve, InitValue
<1>2. CurveInv /\ ValueInv /\ [Next]_vars => CurveInv' /\ ValueInv'
  BY NextCurve, NextValue
<1>3. CurveInv /\ ValueInv => ViewIsCurrent
  BY ValueInvSays
<1> QED
  BY <1>1, <1>2, <1>3, PTL DEF Spec
=============================================================================
