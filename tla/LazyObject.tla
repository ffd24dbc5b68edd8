---------------------------- MODULE LazyObject ----------------------------
(***************************************************************************)
(* Calculation on demand, result caching and change propagation:           *)
(* QuantLib/ql/patterns/lazyobject.hpp, with the quotes                    *)
(* (ql/quotes/simplequote.hpp) the calculations start from and the handles *)
(* (ql/handle.hpp) they may go through.  Notification is the enabled case  *)
(* of Observable::notifyObservers; its other cases, and registration, are  *)
(* in module ObserverPattern.                                              *)
(*                                                                         *)
(* Everything runs on one thread, so the model keeps that thread's call    *)
(* stack.  A frame is an activation of notifyObservers, calculate,         *)
(* recalculate or of the update() of an eager observer; top is the head.   *)
(* Which observer a loop visits next, and in which order a calculation     *)
(* reads its inputs, is left open.                                         *)
(*                                                                         *)
(* Results are abstracted to their provenance: for every quote, the values *)
(* of it that went into the result.                                        *)
(***************************************************************************)
EXTENDS Sequences

CONSTANTS
    Quotes,     \* SimpleQuote objects
    Lazies,     \* LazyObject objects
    Links,      \* Handle::Link objects
    Eagers,     \* observers whose update() reads what they watch at once
    Values,     \* valid values of a quote
    Null,       \* the invalid value of a quote; also an empty link
    Graphs,     \* inputs of every lazy object and eager observer: functions
                \* from Lazies \cup Eagers to SUBSET (Quotes \cup Lazies \cup Links)
    Targets,    \* what a link may be linked to
    Unread,     \* view of an eager observer that has not been updated yet
    Failed      \* view of an eager observer whose last update() threw

Nodes == Quotes \cup Lazies \cup Links
Readers == Lazies \cup Eagers

ASSUME GraphsAssumption ==
    /\ Graphs \subseteq [Readers -> SUBSET Nodes]
    /\ Targets \subseteq Quotes \cup Lazies
    /\ Null \notin Values \cup Targets

\* Quotes, lazy objects, links and eager observers are objects of different
\* classes, and the null pointer is none of them.
ASSUME ClassesAssumption ==
    /\ Quotes \cap Lazies = {} /\ Quotes \cap Links = {} /\ Quotes \cap Eagers = {}
    /\ Lazies \cap Links = {} /\ Lazies \cap Eagers = {} /\ Links \cap Eagers = {}
    /\ Null \notin Nodes

VARIABLES
    inputs,     \* what each reader reads and is registered with
    value,      \* SimpleQuote::value_
    calculated, \* LazyObject::calculated_
    frozen,     \* LazyObject::frozen_
    result,     \* the cached results of each lazy object
    link,       \* Handle::Link::h_
    isObserver, \* Handle::Link::isObserver_
    view,       \* what each eager observer read in its last update()
    stack,      \* the call stack
    thrown,     \* an exception is on its way to the top frame
    frozenAsked \* history: freeze() was called after the last unfreeze()

vars == <<inputs, value, calculated, frozen, result, link, isObserver, view, stack,
          thrown, frozenAsked>>
graph == <<inputs, value, link, isObserver>>

-----------------------------------------------------------------------------
Provenances == [Quotes -> SUBSET Values]
Nothing == [q \in Quotes |-> {}]
Merge(r, s) == [q \in Quotes |-> r[q] \cup s[q]]
ValueOf(q) == [p \in Quotes |-> IF p = q THEN {value[q]} ELSE {}]

\* Observable::observers_ of node n.
ObserversOf(n) ==
    {r \in Readers : n \in inputs[r]} \cup {h \in Links : link[h] = n /\ isObserver[h]}

Frame(op, n, left, flag) ==
    [op |-> op, node |-> n, left |-> left, acc |-> Nothing, flag |-> flag]
\* flag: of "notify", some update() threw; of "recalculate", wasFrozen.
NotifyFrame(n) == Frame("notify", n, ObserversOf(n), FALSE)
CalculateFrame(n) == Frame("calculate", n, inputs[n], FALSE)
UpdateFrame(e) == Frame("update", e, inputs[e], FALSE)

Top == stack[1]
TopIs(op) == stack # <<>> /\ Top.op = op
Call(f) == stack' = <<f>> \o stack
Return == stack' = Tail(stack)
\* Continue in the top frame with f in its place.
Become(f) == stack' = <<f>> \o Tail(stack)

-----------------------------------------------------------------------------
(* What a client may call, once the previous call is over.                 *)

Idle == stack = <<>>

\* SimpleQuote::setValue and reset: only a change of the value notifies.
setValue(q, v) ==
    /\ Idle
    /\ v # value[q]
    /\ value' = [value EXCEPT ![q] = v]
    /\ stack' = <<NotifyFrame(q)>>
    /\ UNCHANGED <<inputs, calculated, frozen, result, link, isObserver, view, thrown,
                   frozenAsked>>

\* Mutant: calculated_ is not set before the calculation.
AskSetsLate(n) ==
    /\ Idle
    /\ ~calculated[n] /\ ~frozen[n]
    /\ stack' = <<CalculateFrame(n)>>
    /\ UNCHANGED <<graph, calculated, frozen, result, view, thrown, frozenAsked>>

\* Mutant: a frozen object calculates.
AskIgnoresFrozen(n) ==
    /\ Idle
    /\ ~calculated[n]
    /\ calculated' = [calculated EXCEPT ![n] = TRUE]
    /\ stack' = <<CalculateFrame(n)>>
    /\ UNCHANGED <<graph, frozen, result, view, thrown, frozenAsked>>

\* A client asks n for a result, which calls calculate().
Ask(n) ==
    /\ Idle
    /\ ~calculated[n] /\ ~frozen[n]
    /\ calculated' = [calculated EXCEPT ![n] = TRUE]
    /\ stack' = <<CalculateFrame(n)>>
    /\ UNCHANGED <<graph, frozen, result, view, thrown, frozenAsked>>

freeze(n) ==
    /\ Idle
    /\ frozen' = [frozen EXCEPT ![n] = TRUE]
    /\ frozenAsked' = [frozenAsked EXCEPT ![n] = TRUE]
    /\ UNCHANGED <<graph, calculated, result, view, stack, thrown>>

\* Mutant: the notifications lost while frozen are not made up for.
UnfreezeSilently(n) ==
    /\ Idle
    /\ frozen[n]
    /\ frozen' = [frozen EXCEPT ![n] = FALSE]
    /\ frozenAsked' = [frozenAsked EXCEPT ![n] = FALSE]
    /\ UNCHANGED <<graph, calculated, result, view, stack, thrown>>

unfreeze(n) ==
    /\ Idle
    /\ frozen[n]
    /\ frozen' = [frozen EXCEPT ![n] = FALSE]
    /\ frozenAsked' = [frozenAsked EXCEPT ![n] = FALSE]
    /\ stack' = <<NotifyFrame(n)>>
    /\ UNCHANGED <<graph, calculated, result, view, thrown>>

\* recalculate() up to the call of calculate(), which, with both flags just
\* cleared, starts a calculation.
recalculate(n) ==
    /\ Idle
    /\ calculated' = [calculated EXCEPT ![n] = TRUE]
    /\ frozen' = [frozen EXCEPT ![n] = FALSE]
    /\ stack' = <<CalculateFrame(n), Frame("recalculate", n, {}, frozen[n])>>
    /\ UNCHANGED <<graph, result, view, thrown, frozenAsked>>

\* Mutant: the observers of the handle are not told.
LinkSilently(h, t, o) ==
    /\ Idle
    /\ t # link[h] \/ o # isObserver[h]
    /\ link' = [link EXCEPT ![h] = t]
    /\ isObserver' = [isObserver EXCEPT ![h] = o]
    /\ UNCHANGED <<inputs, value, calculated, frozen, result, view, stack, thrown,
                   frozenAsked>>

\* RelinkableHandle::linkTo(t, o), t = Null for an empty pointer.
linkTo(h, t, o) ==
    /\ Idle
    /\ t # link[h] \/ o # isObserver[h]
    /\ link' = [link EXCEPT ![h] = t]
    /\ isObserver' = [isObserver EXCEPT ![h] = o]
    /\ stack' = <<NotifyFrame(h)>>
    /\ UNCHANGED <<inputs, value, calculated, frozen, result, view, thrown, frozenAsked>>

-----------------------------------------------------------------------------
(* Steps of the running call.                                              *)

\* Mutant: a frozen object ignores the change altogether.
UpdateUnlessFrozen(o, rest) ==
    /\ calculated' = [calculated EXCEPT ![o] = @ /\ frozen[o]]
    /\ stack' = IF calculated[o] /\ ~frozen[o] THEN <<NotifyFrame(o)>> \o rest ELSE rest

\* LazyObject::update() of o: only a calculated object forwards, and only if it
\* is not frozen.  The flag is cleared before the observers are called.
UpdateLazy(o, rest) ==
    /\ calculated' = [calculated EXCEPT ![o] = FALSE]
    /\ stack' = IF calculated[o] /\ ~frozen[o] THEN <<NotifyFrame(o)>> \o rest ELSE rest

\* One round of the loop in notifyObservers: update() of o is called.
NotifyNext(o) ==
    /\ TopIs("notify") /\ ~thrown
    /\ o \in Top.left
    /\ LET rest == <<[Top EXCEPT !.left = @ \ {o}]>> \o Tail(stack)
       IN  \/ o \in Lazies /\ UpdateLazy(o, rest)
           \/ /\ o \in Links   \* Handle::Link::update
              /\ stack' = <<NotifyFrame(o)>> \o rest
              /\ UNCHANGED calculated
           \/ /\ o \in Eagers
              /\ stack' = <<UpdateFrame(o)>> \o rest
              /\ UNCHANGED calculated
    /\ UNCHANGED <<graph, frozen, result, view, thrown, frozenAsked>>

\* The loop catches what an update() throws and goes on.
NotifyCatch ==
    /\ TopIs("notify") /\ thrown
    /\ thrown' = FALSE
    /\ Become([Top EXCEPT !.flag = TRUE])
    /\ UNCHANGED <<graph, calculated, frozen, result, view, frozenAsked>>

\* Mutant: the loop is run again until every update() succeeds.
NotifyRetry ==
    /\ TopIs("notify") /\ ~thrown
    /\ Top.left = {}
    /\ IF Top.flag THEN Become(NotifyFrame(Top.node)) ELSE Return
    /\ UNCHANGED <<graph, calculated, frozen, result, view, thrown, frozenAsked>>

\* After the loop: throw if some update() did.
NotifyEnd ==
    /\ TopIs("notify") /\ ~thrown
    /\ Top.left = {}
    /\ thrown' = (Top.flag /\ Tail(stack) # <<>>)
    /\ Return
    /\ UNCHANGED <<graph, calculated, frozen, result, view, frozenAsked>>

\* A calculation, or the update() of an eager observer, reads its input x:
\* SimpleQuote::value, Handle::operator-> or a result of a lazy object, which
\* calls LazyObject::calculate.
Read(x) ==
    /\ TopIs("calculate") \/ TopIs("update")
    /\ ~thrown
    /\ x \in Top.left
    /\ LET done == [Top EXCEPT !.left = @ \ {x}]
           With(r) == [done EXCEPT !.acc = Merge(@, r)]
       IN  \/ /\ x \in Quotes /\ value[x] # Null
              /\ Become(With(ValueOf(x)))
              /\ UNCHANGED <<calculated, thrown>>
           \/ /\ x \in Links /\ link[x] # Null
              /\ Become([done EXCEPT !.left = @ \cup {link[x]}])
              /\ UNCHANGED <<calculated, thrown>>
           \/ /\ \/ x \in Quotes /\ value[x] = Null
                 \/ x \in Links /\ link[x] = Null
              /\ thrown' = TRUE
              /\ UNCHANGED <<calculated, stack>>
           \/ /\ x \in Lazies /\ (calculated[x] \/ frozen[x])
              /\ Become(With(result[x]))
              /\ UNCHANGED <<calculated, thrown>>
           \/ /\ x \in Lazies /\ ~calculated[x] /\ ~frozen[x]
              /\ calculated' = [calculated EXCEPT ![x] = TRUE]
              /\ Call(CalculateFrame(x))
              /\ UNCHANGED thrown
    /\ UNCHANGED <<graph, frozen, result, view, frozenAsked>>

\* performCalculations() returns.
CalculateEnd ==
    /\ TopIs("calculate") /\ ~thrown
    /\ Top.left = {}
    /\ result' = [result EXCEPT ![Top.node] = Top.acc]
    /\ Return
    /\ UNCHANGED <<graph, calculated, frozen, view, thrown, frozenAsked>>

\* performCalculations() throws: the handler in calculate() rethrows.
CalculateThrow ==
    /\ TopIs("calculate") /\ thrown
    /\ calculated' = [calculated EXCEPT ![Top.node] = FALSE]
    /\ thrown' = (Tail(stack) # <<>>)
    /\ Return
    /\ UNCHANGED <<graph, frozen, result, view, frozenAsked>>

\* update() of an eager observer returns or throws.
UpdateEnd ==
    /\ TopIs("update")
    /\ thrown \/ Top.left = {}
    /\ view' = [view EXCEPT ![Top.node] = IF thrown THEN Failed ELSE Top.acc]
    /\ Return
    /\ UNCHANGED <<graph, calculated, frozen, result, thrown, frozenAsked>>

\* Mutant: an exception skips the restoring of frozen_.
RecalculateNoRestore ==
    /\ TopIs("recalculate")
    /\ frozen' = [frozen EXCEPT ![Top.node] = Top.flag /\ ~thrown]
    /\ thrown' = FALSE
    /\ Become(NotifyFrame(Top.node))
    /\ UNCHANGED <<graph, calculated, result, view, frozenAsked>>

\* The rest of recalculate(), after calculate() returned or threw: frozen_ is
\* restored and the observers are notified either way.  (The exception then
\* goes on to the client.)
RecalculateEnd ==
    /\ TopIs("recalculate")
    /\ frozen' = [frozen EXCEPT ![Top.node] = Top.flag]
    /\ thrown' = FALSE
    /\ Become(NotifyFrame(Top.node))
    /\ UNCHANGED <<graph, calculated, result, view, frozenAsked>>

-----------------------------------------------------------------------------
Init ==
    /\ inputs \in Graphs
    /\ value \in [Quotes -> Values]
    /\ calculated = [n \in Lazies |-> FALSE]
    /\ frozen = [n \in Lazies |-> FALSE]
    /\ result = [n \in Lazies |-> Nothing]
    /\ link \in [Links -> Targets \cup {Null}]
    /\ isObserver \in [Links -> BOOLEAN]
    /\ view = [e \in Eagers |-> Unread]
    /\ stack = <<>>
    /\ thrown = FALSE
    /\ frozenAsked = [n \in Lazies |-> FALSE]

Client ==
    \/ \E q \in Quotes, v \in Values \cup {Null} : setValue(q, v)
    \/ \E n \in Lazies : Ask(n) \/ freeze(n) \/ unfreeze(n) \/ recalculate(n)
    \/ \E h \in Links, t \in Targets \cup {Null}, o \in BOOLEAN : linkTo(h, t, o)

Step ==
    \/ \E o \in Readers \cup Links : NotifyNext(o)
    \/ NotifyCatch \/ NotifyEnd
    \/ \E x \in Nodes : Read(x)
    \/ CalculateEnd \/ CalculateThrow \/ UpdateEnd \/ RecalculateEnd

Next == Client \/ Step
Spec == Init /\ [][Next]_vars
\* The thread runs: a call that has begun goes on.
FairSpec == Spec /\ WF_vars(Step)

-----------------------------------------------------------------------------
\* Types, and an object whose calculation is running counts as calculated: the
\* flag set early stops it from starting over (lazyobject.hpp:147-148).
TypeOK ==
    /\ inputs \in Graphs
    /\ value \in [Quotes -> Values \cup {Null}]
    /\ calculated \in [Lazies -> BOOLEAN]
    /\ frozen \in [Lazies -> BOOLEAN]
    /\ result \in [Lazies -> Provenances]
    /\ link \in [Links -> Targets \cup {Null}]
    /\ isObserver \in [Links -> BOOLEAN]
    /\ view \in [Eagers -> Provenances \cup {Unread, Failed}]
    /\ thrown \in BOOLEAN /\ (thrown => stack # <<>>)
    /\ frozenAsked \in [Lazies -> BOOLEAN]
    /\ \A i \in DOMAIN stack :
          stack[i].op = "calculate" => stack[i].node \in Lazies /\ calculated[stack[i].node]

\* The inputs of reader r with links followed.
Followed(r) ==
    (inputs[r] \ Links) \cup {link[h] : h \in Links \cap inputs[r]}

\* What a reader would read of a quote or lazy object now, from the caches.
Cached(x) == IF x \in Quotes THEN ValueOf(x) ELSE result[x]

\* Every input of r can be served from its cache.
Served(r) ==
    \A x \in Followed(r) :
        /\ x # Null
        /\ x \in Quotes => value[x] # Null
        /\ x \in Lazies => calculated[x] \/ frozen[x]

ReadNow(r) == [q \in Quotes |-> UNION {Cached(x)[q] : x \in Followed(r)}]

\* Every link that leads somewhere is registered there; the constructor's
\* "backdoor" registerAsObserver = false (handle.hpp:60) gives this up.
LinksObserve == \A h \in Links : link[h] # Null => isObserver[h]

\* The results of a calculated object are those of its inputs as they are now:
\* when a call is over, a cache that will be served without calculation is never
\* obsolete, whatever the order of notification (an eager observer may have
\* forced a calculation from half-notified inputs on the way), whoever is
\* frozen, and whatever threw.
CachedIsCurrent ==
    Idle /\ LinksObserve =>
        \A n \in Lazies : calculated[n] /\ ~frozen[n] =>
            Served(n) /\ result[n] = ReadNow(n)

\* An observer that reads at every update(), and could, has seen the current
\* results when a call is over, also of objects frozen, unfrozen or relinked:
\* "non-lazy observers" must not be "served obsolete data"
\* (lazyobject.hpp:107-108).
ViewIsCurrent ==
    Idle /\ LinksObserve =>
        \A e \in Eagers : view[e] \notin {Unread, Failed} =>
            Served(e) /\ view[e] = ReadNow(e)

\* An object is frozen, between calls, exactly when the client last froze it,
\* also after a recalculate() that threw (lazyobject.hpp:61-68, 118-130).
FreezeSurvives == Idle => frozen = frozenAsked

\* A frozen object returns "the presently cached results" (lazyobject.hpp:61-63):
\* nothing but an explicit recalculate() changes them.
FrozenKeepsResult ==
    [][\A n \in Lazies : frozen[n] => result'[n] = result[n]]_vars

\* Every call, with all the notifications and calculations it sets off, ends.
CallsEnd == (~Idle) ~> Idle
=============================================================================
