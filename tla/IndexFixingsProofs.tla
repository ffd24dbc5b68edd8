------------------------ MODULE IndexFixingsProofs ------------------------
(***************************************************************************)
(* Proofs about IndexFixings, for any indexes, swaps, dates and values:    *)
(* swaps follow the fixings of their index, and what addFixings stores.    *)
(***************************************************************************)
EXTENDS IndexFixings, TLAPS

Histories == [Dates -> Values \cup {None}]

\* Types.
TypesF ==
    /\ today \in Dates
    /\ notifier \in [Names -> Observables \cup {None}]
    /\ history \in [Names -> Histories]
    /\ watched \in [Swaps -> Observables \cup {None}]
    /\ calculated \in [Swaps -> BOOLEAN]
    /\ DOMAIN result = Swaps

\* The index of a swap observes the history that fixings are added to, and only
\* swaps that are there have results.
WatchInv ==
    \A s \in Swaps :
        /\ watched[s] # None => watched[s] = notifier[NameOf[s]]
        /\ watched[s] = None => ~calculated[s]

FixingsInv == TypesF /\ WatchInv /\ SwapIsCurrent

-----------------------------------------------------------------------------
(* addFixings.                                                             *)

Results == [fixings : Histories, ok : BOOLEAN]

\* One round of the loop: it changes nothing but the date of its item.
LEMMA AddOneFacts ==
    ASSUME NEW acc \in Results, NEW item \in Items, NEW forceOverwrite \in BOOLEAN
    PROVE  LET after == AddOne(acc, item, forceOverwrite)
           IN  /\ after \in Results
               /\ \A d \in Dates \ {item.date} : after.fixings[d] = acc.fixings[d]
               /\ item.date \in Holidays => after.fixings = acc.fixings
               /\ item.date \notin Holidays => after.fixings[item.date] # None
               /\ ~forceOverwrite /\ acc.fixings[item.date] # None => after.fixings = acc.fixings
               /\ after.ok => acc.ok /\ item.date \notin Holidays
                              /\ after.fixings[item.date] = item.value
<1> DEFINE after == AddOne(acc, item, forceOverwrite)
           old == acc.fixings[item.date]
<1>1. /\ acc.fixings \in Histories /\ acc.ok \in BOOLEAN
      /\ item.date \in Dates /\ item.value \in Values /\ item.value # None
      /\ old \in Values \cup {None}
  BY FixingsAssumption DEF Results, Items, Histories
<1>2. acc = [fixings |-> acc.fixings, ok |-> acc.ok]
  BY DEF Results
<1>3. CASE isValidFixingDate(item.date) /\ (forceOverwrite \/ old = None)
  <2> DEFINE h == [acc.fixings EXCEPT ![item.date] = item.value]
  <2>1. h \in Histories /\ h[item.date] = item.value
        /\ \A d \in Dates \ {item.date} : h[d] = acc.fixings[d]
    BY <1>1 DEF Histories
  <2>2. after = [acc EXCEPT !.fixings = h]
    BY <1>3 DEF AddOne
  <2> HIDE DEF h
  <2>3. after.fixings = h /\ after.ok = acc.ok /\ after \in Results
    BY <1>1, <1>2, <2>1, <2>2 DEF Results
  <2> HIDE DEF after
  <2> QED
    BY <1>1, <1>3, <2>1, <2>3 DEF isValidFixingDate, after
<1>4. CASE /\ ~(isValidFixingDate(item.date) /\ (forceOverwrite \/ old = None))
           /\ isValidFixingDate(item.date) /\ old = item.value
  <2>1. after = acc
    BY <1>4 DEF AddOne
  <2> QED
    BY <1>1, <1>4, <2>1 DEF isValidFixingDate
<1>5. CASE /\ ~(isValidFixingDate(item.date) /\ (forceOverwrite \/ old = None))
           /\ ~(isValidFixingDate(item.date) /\ old = item.value)
  <2>1. after = [acc EXCEPT !.ok = FALSE]
    BY <1>5 DEF AddOne
  <2>2. after.fixings = acc.fixings /\ after.ok = FALSE /\ after \in Results
    BY <1>1, <1>2, <2>1 DEF Results
  <2> HIDE DEF after
  <2> QED
    BY <1>1, <1>5, <2>2 DEF isValidFixingDate, after
<1> QED
  BY <1>3, <1>4, <1>5

\* The last value given for a date by lists of one and of two.
LEMMA LastOfOne ==
    ASSUME NEW x
    PROVE  LastGiven(<<x>>, x.date) = x.value
<1>1. {k \in DOMAIN <<x>> : <<x>>[k].date = x.date} = {1}
  OBVIOUS
<1>2. (CHOOSE k \in {1} : \A j \in {1} : j <= k) = 1
  OBVIOUS
<1> QED
  BY <1>1, <1>2 DEF LastGiven

LEMMA LastOfTwo ==
    ASSUME NEW x, NEW y
    PROVE  /\ LastGiven(<<x, y>>, y.date) = y.value
           /\ x.date # y.date => LastGiven(<<x, y>>, x.date) = x.value
<1>0. DOMAIN <<x, y>> = {1, 2} /\ <<x, y>>[1] = x /\ <<x, y>>[2] = y
  OBVIOUS
<1> DEFINE K(d) == {k \in DOMAIN <<x, y>> : <<x, y>>[k].date = d}
<1>1. 2 \in K(y.date) /\ \A j \in K(y.date) : j = 1 \/ j = 2
  BY <1>0
<1>2. (CHOOSE k \in K(y.date) : \A j \in K(y.date) : j <= k) = 2
  <2> HIDE DEF K
  <2>1. \A j \in K(y.date) : j <= 2
    BY <1>1
  <2>2. \A k \in K(y.date) : (\A j \in K(y.date) : j <= k) => k = 2
    BY <1>1
  <2> QED
    BY <1>1, <2>1, <2>2
<1>3. x.date # y.date => (CHOOSE k \in K(x.date) : \A j \in K(x.date) : j <= k) = 1
  <2> SUFFICES ASSUME x.date # y.date
               PROVE  (CHOOSE k \in K(x.date) : \A j \in K(x.date) : j <= k) = 1
    OBVIOUS
  <2>1. K(x.date) = {1}
    BY <1>0
  <2>2. (CHOOSE k \in {1} : \A j \in {1} : j <= k) = 1
    OBVIOUS
  <2> QED
    BY <2>1, <2>2
<1> QED
  BY <1>0, <1>2, <1>3 DEF LastGiven

\* What addFixings makes of a history.
Adds(h, list, forceOverwrite) ==
    LET after == AddAll(h, list, forceOverwrite)
        given == {list[k].date : k \in DOMAIN list}
    IN  /\ \A d \in given \ Holidays : after.fixings[d] # None
        /\ \A d \in Dates :
              (~forceOverwrite /\ h[d] # None) \/ d \notin given \ Holidays =>
                  after.fixings[d] = h[d]
        /\ after.ok => \A d \in given : after.fixings[d] = LastGiven(list, d)

LEMMA AddAllFacts ==
    ASSUME NEW h \in Histories, NEW list \in Batches, NEW forceOverwrite \in BOOLEAN
    PROVE  AddAll(h, list, forceOverwrite).fixings \in Histories /\ Adds(h, list, forceOverwrite)
<1> DEFINE start == [fixings |-> h, ok |-> TRUE]
<1>0. start \in Results /\ start.fixings = h
  BY DEF Results
<1> HIDE DEF start
<1>1. ASSUME NEW x \in Items, list = <<x>>
      PROVE  AddAll(h, list, forceOverwrite).fixings \in Histories /\ Adds(h, list, forceOverwrite)
  <2> PICK one : one = AddOne(start, x, forceOverwrite)
    OBVIOUS
  <2>1. /\ one \in Results
        /\ \A d \in Dates \ {x.date} : one.fixings[d] = h[d]
        /\ x.date \in Holidays => one.fixings = h
        /\ x.date \notin Holidays => one.fixings[x.date] # None
        /\ ~forceOverwrite /\ h[x.date] # None => one.fixings = h
        /\ one.ok => x.date \notin Holidays /\ one.fixings[x.date] = x.value
    BY <1>0, AddOneFacts
  <2>2. Len(list) = 1 /\ list[1] = x /\ {list[k].date : k \in DOMAIN list} = {x.date}
    BY <1>1
  <2>3. AddAll(h, list, forceOverwrite) = one
    BY <2>2 DEF AddAll, start
  <2>4. LastGiven(list, x.date) = x.value
    BY <1>1, LastOfOne
  <2>5. one.fixings \in Histories /\ x.date \in Dates
    BY <2>1 DEF Results, Items
  <2>6. \A d \in Dates : (~forceOverwrite /\ h[d] # None) \/ d \notin {x.date} \ Holidays =>
           one.fixings[d] = h[d]
    BY <2>1
  <2> QED
    BY <2>1, <2>2, <2>3, <2>4, <2>5, <2>6 DEF Adds
<1>2. ASSUME NEW x \in Items, NEW y \in Items, list = <<x, y>>
      PROVE  AddAll(h, list, forceOverwrite).fixings \in Histories /\ Adds(h, list, forceOverwrite)
  <2> PICK one : one = AddOne(start, x, forceOverwrite)
    OBVIOUS
  <2> PICK two : two = AddOne(one, y, forceOverwrite)
    OBVIOUS
  <2>1. /\ one \in Results
        /\ \A d \in Dates \ {x.date} : one.fixings[d] = h[d]
        /\ x.date \in Holidays => one.fixings = h
        /\ x.date \notin Holidays => one.fixings[x.date] # None
        /\ ~forceOverwrite /\ h[x.date] # None => one.fixings = h
        /\ one.ok => x.date \notin Holidays /\ one.fixings[x.date] = x.value
    BY <1>0, AddOneFacts
  <2>2. /\ two \in Results
        /\ \A d \in Dates \ {y.date} : two.fixings[d] = one.fixings[d]
        /\ y.date \in Holidays => two.fixings = one.fixings
        /\ y.date \notin Holidays => two.fixings[y.date] # None
        /\ ~forceOverwrite /\ one.fixings[y.date] # None => two.fixings = one.fixings
        /\ two.ok => one.ok /\ y.date \notin Holidays /\ two.fixings[y.date] = y.value
    BY <2>1, AddOneFacts
  <2>3. /\ Len(list) = 2 /\ list[1] = x /\ list[2] = y
        /\ {list[k].date : k \in DOMAIN list} = {x.date, y.date}
    <3>1. DOMAIN list = {1, 2} /\ list[1] = x /\ list[2] = y /\ Len(list) = 2
      BY <1>2
    <3> QED
      BY <3>1
  <2>4. AddAll(h, list, forceOverwrite) = two
    BY <2>3 DEF AddAll, start
  <2>5. two.fixings \in Histories /\ x.date \in Dates /\ y.date \in Dates
    BY <2>2 DEF Results, Items
  <2>6. \A d \in {x.date, y.date} \ Holidays : two.fixings[d] # None
    BY <2>1, <2>2, <2>5
  <2>7. \A d \in Dates : (~forceOverwrite /\ h[d] # None) \/ d \notin {x.date, y.date} \ Holidays =>
           two.fixings[d] = h[d]
    <3> TAKE d \in Dates
    <3> HAVE (~forceOverwrite /\ h[d] # None) \/ d \notin {x.date, y.date} \ Holidays
    <3>1. one.fixings[d] = h[d]
      BY <2>1
    <3> QED
      BY <2>2, <3>1
  <2>8. two.ok => \A d \in {x.date, y.date} : two.fixings[d] = LastGiven(list, d)
    <3> SUFFICES ASSUME two.ok, NEW d \in {x.date, y.date}
                 PROVE  two.fixings[d] = LastGiven(list, d)
      OBVIOUS
    <3>1. CASE d = y.date
      BY <1>2, <2>2, <3>1, LastOfTwo
    <3>2. CASE d # y.date
      BY <1>2, <2>1, <2>2, <2>5, <3>2, LastOfTwo
    <3> QED
      BY <3>1, <3>2
  <2> QED
    BY <2>3, <2>4, <2>5, <2>6, <2>7, <2>8 DEF Adds
<1> QED
  BY <1>1, <1>2 DEF Batches

-----------------------------------------------------------------------------
(* Swaps.                                                                  *)

LEMMA FixingsInit == InitF => FixingsInv
<1> SUFFICES ASSUME InitF PROVE FixingsInv
  OBVIOUS
<1>1. Empty \in Histories
  BY DEF Empty, Histories
<1>2. TypesF /\ WatchInv
  BY <1>1 DEF InitF, TypesF, WatchInv
<1>3. SwapIsCurrent
  BY DEF InitF, SwapIsCurrent
<1> QED
  BY <1>2, <1>3 DEF FixingsInv

\* Reading an entry that is there leaves it alone.
LEMMA TouchFacts ==
    ASSUME TypesF, NEW n \in Names, Touch(n)
    PROVE  /\ notifier' \in [Names -> Observables \cup {None}] /\ notifier'[n] # None
           /\ \A k \in Names : notifier[k] # None => notifier'[k] = notifier[k]
<1>1. CASE UNCHANGED notifier /\ notifier[n] # None
  BY <1>1 DEF TypesF
<1>2. CASE notifier[n] = None /\ \E o \in Fresh : notifier' = [notifier EXCEPT ![n] = o]
  BY <1>2, FixingsAssumption DEF TypesF, Fresh
<1> QED
  BY <1>1, <1>2 DEF Touch

\* A swap keeps its result as long as nothing it was built from changes.
LEMMA FixingSame ==
    ASSUME NEW s \in Swaps, UNCHANGED <<today, enforces, curve>>,
           history'[NameOf[s]] = history[NameOf[s]]
    PROVE  [d \in FixingDates[s] |-> fixing(s, d)]' = [d \in FixingDates[s] |-> fixing(s, d)]
<1>1. forecastFixing' = forecastFixing
  BY DEF forecastFixing
<1>2. ASSUME NEW d PROVE fixing(s, d)' = fixing(s, d)
  BY <1>1 DEF fixing, isValidFixingDate
<1> QED
  BY <1>2

LEMMA FixingsNext ==
    ASSUME ~MayClear, ~MayEnforceLate, FixingsInv, [NextF]_varsF
    PROVE  FixingsInv'
<1> USE DEF FixingsInv
<1>0. /\ TypesF /\ WatchInv /\ SwapIsCurrent /\ \A s \in Swaps : NameOf[s] \in Names
  BY FixingsAssumption
<1>1. ASSUME NEW n \in Names, NEW list \in Batches, NEW forceOverwrite \in BOOLEAN,
             addFixings(n, list, forceOverwrite)
      PROVE  FixingsInv'
  <2>1. /\ Touch(n) /\ UNCHANGED <<today, enforces, curve, watched, result>>
        /\ history' = [history EXCEPT ![n] = AddAll(@, list, forceOverwrite).fixings]
        /\ calculated' = [s \in Swaps |-> calculated[s] /\ s \notin WatchersOf(notifier[n])]
    BY <1>1 DEF addFixings, Notify
  <2>2. AddAll(history[n], list, forceOverwrite).fixings \in Histories
    BY <1>0, AddAllFacts DEF TypesF
  <2>3. TypesF'
    BY <1>0, <2>1, <2>2, TouchFacts DEF TypesF
  <2>4. WatchInv'
    <3> SUFFICES ASSUME NEW s \in Swaps
                 PROVE  /\ watched'[s] # None => watched'[s] = notifier'[NameOf[s]]
                        /\ watched'[s] = None => ~calculated'[s]
      BY DEF WatchInv
    <3>1. watched'[s] # None => watched'[s] = notifier'[NameOf[s]]
      BY <1>0, <2>1, TouchFacts DEF WatchInv
    <3>2. watched'[s] = None => ~calculated'[s]
      BY <1>0, <2>1 DEF WatchInv
    <3> QED
      BY <3>1, <3>2
  <2>5. SwapIsCurrent'
    <3> SUFFICES ASSUME NEW s \in Swaps, calculated'[s]
                 PROVE  result'[s] = [d \in FixingDates[s] |-> fixing(s, d)]'
      BY DEF SwapIsCurrent
    <3>1. calculated[s] /\ s \notin WatchersOf(notifier[n])
      BY <2>1
    <3>2. watched[s] # None /\ watched[s] = notifier[NameOf[s]]
      BY <1>0, <3>1 DEF WatchInv
    <3>3. NameOf[s] # n
      BY <3>1, <3>2 DEF WatchersOf, Built
    <3>4. history'[NameOf[s]] = history[NameOf[s]]
      BY <1>0, <2>1, <3>3 DEF TypesF
    <3> QED
      BY <1>0, <2>1, <3>1, <3>4, FixingSame DEF SwapIsCurrent
  <2> QED
    BY <2>3, <2>4, <2>5
<1>2. ASSUME NEW n \in Names, clearHistory(n) PROVE FixingsInv'
  <2>1. /\ WatchersOf(notifier[n]) = {}
        /\ notifier' = [notifier EXCEPT ![n] = None] /\ history' = [history EXCEPT ![n] = Empty]
        /\ UNCHANGED <<today, enforces, curve, watched, calculated, result>>
    BY <1>2 DEF clearHistory
  <2>2. Empty \in Histories
    BY DEF Empty, Histories
  <2>3. TypesF'
    BY <1>0, <2>1, <2>2 DEF TypesF
  <2>4. \A s \in Swaps : watched[s] # None => NameOf[s] # n
    BY <1>0, <2>1 DEF WatchInv, WatchersOf, Built
  <2>5. \A s \in Swaps : watched[s] # None =>
           notifier'[NameOf[s]] = notifier[NameOf[s]] /\ history'[NameOf[s]] = history[NameOf[s]]
    BY <1>0, <2>1, <2>4 DEF TypesF
  <2>6. WatchInv'
    BY <1>0, <2>1, <2>5 DEF WatchInv
  <2>7. SwapIsCurrent'
    <3> SUFFICES ASSUME NEW s \in Swaps, calculated'[s]
                 PROVE  result'[s] = [d \in FixingDates[s] |-> fixing(s, d)]'
      BY DEF SwapIsCurrent
    <3>1. calculated[s] /\ watched[s] # None
      BY <1>0, <2>1 DEF WatchInv
    <3> QED
      BY <1>0, <2>1, <2>5, <3>1, FixingSame DEF SwapIsCurrent
  <2> QED
    BY <2>3, <2>6, <2>7
<1>3. ASSUME NEW s \in Swaps, Build(s) PROVE FixingsInv'
  <2>1. /\ watched[s] = None /\ Touch(NameOf[s])
        /\ watched' = [watched EXCEPT ![s] = notifier'[NameOf[s]]]
        /\ UNCHANGED <<today, enforces, curve, history, calculated, result>>
    BY <1>3 DEF Build
  <2>2. /\ notifier' \in [Names -> Observables \cup {None}] /\ notifier'[NameOf[s]] # None
        /\ \A k \in Names : notifier[k] # None => notifier'[k] = notifier[k]
    BY <1>0, <2>1, TouchFacts
  <2>3. TypesF'
    BY <1>0, <2>1, <2>2 DEF TypesF
  <2>4. WatchInv'
    <3> SUFFICES ASSUME NEW t \in Swaps
                 PROVE  /\ watched'[t] # None => watched'[t] = notifier'[NameOf[t]]
                        /\ watched'[t] = None => ~calculated'[t]
      BY DEF WatchInv
    <3>1. CASE t = s
      BY <1>0, <2>1, <2>2, <3>1 DEF TypesF
    <3>2. CASE t # s
      <4>1. watched'[t] = watched[t]
        BY <1>0, <2>1, <3>2 DEF TypesF
      <4> QED
        BY <1>0, <2>1, <2>2, <4>1 DEF WatchInv
    <3> QED
      BY <3>1, <3>2
  <2>5. SwapIsCurrent'
    BY <1>0, <2>1, FixingSame DEF SwapIsCurrent
  <2> QED
    BY <2>3, <2>4, <2>5
<1>4. ASSUME NEW s \in Swaps, Drop(s) PROVE FixingsInv'
  <2>1. /\ watched' = [watched EXCEPT ![s] = None] /\ calculated' = [calculated EXCEPT ![s] = FALSE]
        /\ result' = [result EXCEPT ![s] = None]
        /\ UNCHANGED <<today, enforces, curve, notifier, history>>
    BY <1>4 DEF Drop
  <2>2. TypesF'
    BY <1>0, <2>1 DEF TypesF
  <2>3. WatchInv'
    BY <1>0, <2>1 DEF WatchInv, TypesF
  <2>4. SwapIsCurrent'
    <3> SUFFICES ASSUME NEW t \in Swaps, calculated'[t]
                 PROVE  result'[t] = [d \in FixingDates[t] |-> fixing(t, d)]'
      BY DEF SwapIsCurrent
    <3>1. t # s /\ calculated[t] /\ result'[t] = result[t]
      BY <1>0, <2>1 DEF TypesF
    <3> QED
      BY <1>0, <2>1, <3>1, FixingSame DEF SwapIsCurrent
  <2> QED
    BY <2>2, <2>3, <2>4
<1>5. ASSUME NEW s \in Swaps, Ask(s) PROVE FixingsInv'
  <2> DEFINE fixings == [d \in FixingDates[s] |-> fixing(s, d)]
             ok == \A d \in FixingDates[s] : fixings[d] # Failed
  <2>1. /\ s \in Built /\ ~calculated[s]
        /\ Touch(NameOf[s]) \/ UNCHANGED notifier
        /\ calculated' = [calculated EXCEPT ![s] = ok]
        /\ result' = IF ok THEN [result EXCEPT ![s] = fixings] ELSE result
        /\ UNCHANGED <<today, enforces, curve, history, watched>>
    BY <1>5 DEF Ask
  <2>2. /\ notifier' \in [Names -> Observables \cup {None}]
        /\ \A k \in Names : notifier[k] # None => notifier'[k] = notifier[k]
    <3>1. CASE Touch(NameOf[s])
      BY <1>0, <3>1, TouchFacts
    <3>2. CASE UNCHANGED notifier
      BY <1>0, <3>2 DEF TypesF
    <3> QED
      BY <2>1, <3>1, <3>2
  <2>3. fixings' = fixings
    BY <2>1, FixingSame
  <2> PICK b \in BOOLEAN : b <=> ok
    OBVIOUS
  <2> PICK g : g = fixings
    OBVIOUS
  <2>4. /\ calculated' = [calculated EXCEPT ![s] = b]
        /\ result' = IF b THEN [result EXCEPT ![s] = g] ELSE result
    BY <2>1
  <2> HIDE DEF ok
  <2>5. TypesF'
    BY <1>0, <2>1, <2>2, <2>4 DEF TypesF
  <2>6. WatchInv'
    <3> SUFFICES ASSUME NEW t \in Swaps
                 PROVE  /\ watched'[t] # None => watched'[t] = notifier'[NameOf[t]]
                        /\ watched'[t] = None => ~calculated'[t]
      BY DEF WatchInv
    <3>1. watched'[t] # None => watched'[t] = notifier'[NameOf[t]]
      BY <1>0, <2>1, <2>2 DEF WatchInv
    <3>2. watched'[t] = None => ~calculated'[t]
      BY <1>0, <2>1, <2>4 DEF WatchInv, TypesF, Built
    <3> QED
      BY <3>1, <3>2
  <2>7. SwapIsCurrent'
    <3> SUFFICES ASSUME NEW t \in Swaps, calculated'[t]
                 PROVE  result'[t] = [d \in FixingDates[t] |-> fixing(t, d)]'
      BY DEF SwapIsCurrent
    <3>1. CASE t = s
      <4>1. b
        BY <1>0, <2>4, <3>1 DEF TypesF
      <4>2. result'[s] = g
        BY <1>0, <2>4, <4>1 DEF TypesF
      <4> QED
        BY <2>3, <3>1, <4>2
    <3>2. CASE t # s
      <4>1. calculated[t] /\ result'[t] = result[t]
        BY <1>0, <2>4, <3>2 DEF TypesF
      <4> QED
        BY <1>0, <2>1, <4>1, FixingSame DEF SwapIsCurrent
    <3> QED
      BY <3>1, <3>2
  <2> QED
    BY <2>5, <2>6, <2>7
<1>6. ASSUME Notify(Built), UNCHANGED <<notifier, history, watched, result>>, today' \in Dates
      PROVE  FixingsInv'
  <2>1. \A s \in Swaps : ~calculated'[s]
    BY <1>0, <1>6 DEF Notify, WatchInv, Built
  <2>2. TypesF'
    BY <1>0, <1>6 DEF TypesF, Notify
  <2>3. WatchInv'
    BY <1>0, <1>6, <2>1 DEF WatchInv
  <2> QED
    BY <2>1, <2>2, <2>3 DEF SwapIsCurrent
<1>7. ASSUME NEW b \in BOOLEAN, setEnforces(b) PROVE FixingsInv'
  <2>1. /\ \A s \in Swaps : ~calculated[s]
        /\ UNCHANGED <<today, curve, notifier, history, watched, calculated, result>>
    BY <1>7 DEF setEnforces
  <2> QED
    BY <1>0, <2>1 DEF TypesF, WatchInv, SwapIsCurrent
<1>8. CASE \E d \in Dates : setEvaluationDate(d)
  BY <1>6, <1>8 DEF setEvaluationDate
<1>9. CASE \E l \in Levels \cup {None} : setCurve(l)
  BY <1>0, <1>6, <1>9 DEF setCurve, TypesF
<1>10. CASE UNCHANGED varsF
  <2>1. TypesF' /\ WatchInv'
    BY <1>0, <1>10 DEF varsF, TypesF, WatchInv
  <2>2. SwapIsCurrent'
    BY <1>0, <1>10, FixingSame DEF varsF, SwapIsCurrent
  <2> QED
    BY <2>1, <2>2
<1> QED
  BY <1>1, <1>2, <1>3, <1>4, <1>5, <1>7, <1>8, <1>9, <1>10 DEF NextF

\* A swap that counts as calculated has the result that the fixings, the date,
\* the settings and the curve of this moment give, whoever added the fixings: if
\* clients clear no history that index objects observe and change
\* enforcesTodaysHistoricFixings only before anything is calculated.
\* (IndexManager, InterestRateIndex::fixing, LazyObject::update)
THEOREM SwapsStayCurrent ==
    ASSUME ~MayClear, ~MayEnforceLate
    PROVE  SpecF => []SwapIsCurrent
<1>1. FixingsInv => SwapIsCurrent
  BY DEF FixingsInv
<1>2. FixingsInv /\ [NextF]_varsF => FixingsInv'
  BY FixingsNext
<1> QED
  BY <1>1, <1>2, FixingsInit, PTL DEF SpecF

-----------------------------------------------------------------------------
(* Histories.                                                              *)

LEMMA HistoriesNext ==
    ASSUME history \in [Names -> Histories], [NextF]_varsF
    PROVE  history' \in [Names -> Histories]
<1>1. ASSUME NEW n \in Names, NEW list \in Batches, NEW forceOverwrite \in BOOLEAN,
             addFixings(n, list, forceOverwrite)
      PROVE  history' \in [Names -> Histories]
  <2>1. AddAll(history[n], list, forceOverwrite).fixings \in Histories
    BY AddAllFacts
  <2> QED
    BY <1>1, <2>1 DEF addFixings
<1>2. ASSUME NEW n \in Names, clearHistory(n) PROVE history' \in [Names -> Histories]
  <2>1. Empty \in Histories
    BY DEF Empty, Histories
  <2> QED
    BY <1>2, <2>1 DEF clearHistory
<1>3. CASE \E s \in Swaps : Build(s) \/ Drop(s) \/ Ask(s)
  BY <1>3 DEF Build, Drop, Ask
<1>4. CASE \/ \E d \in Dates : setEvaluationDate(d)
           \/ \E b \in BOOLEAN : setEnforces(b)
           \/ \E l \in Levels \cup {None} : setCurve(l)
  BY <1>4 DEF setEvaluationDate, setEnforces, setCurve
<1>5. CASE UNCHANGED varsF
  BY <1>5 DEF varsF
<1> QED
  BY <1>1, <1>2, <1>3, <1>4, <1>5 DEF NextF

\* In every history that clients can bring about, and for every list of one or
\* two fixings, addFixings stores what it can, overwrites only when told to, and
\* returns only if the history says what the list does.  (Index::addFixings)
THEOREM AddsAllItCan == SpecF => []AddsWhatItCan
<1> DEFINE H == history \in [Names -> Histories]
<1>1. InitF => H
  BY DEF InitF, Empty, Histories
<1>2. H /\ [NextF]_varsF => H'
  BY HistoriesNext
<1>3. H => AddsWhatItCan
  <2> SUFFICES ASSUME H, NEW n \in Names, NEW list \in Batches, NEW forceOverwrite \in BOOLEAN
               PROVE  Adds(history[n], list, forceOverwrite)
    BY DEF AddsWhatItCan, Adds
  <2> QED
    BY AddAllFacts
<1> QED
  BY <1>1, <1>2, <1>3, PTL DEF SpecF
===========================================================================
