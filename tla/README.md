# Verification of the reactive core of QuantLib and ObjectHandler

The repository is a workspace of projects around QuantLib: the C++ library
itself (`QuantLib`), a repository of named objects for use from spreadsheets
(`ObjectHandler`, and its renamed copy `reposit`), the glue that makes QuantLib
classes such objects (`QuantLibAddin`, `QuantLibXL`), a code generator
(`gensrc`), language bindings (`QuantLib-SWIG`), a vendored logging library
(`log4cxx`), and web pages and tools.

Most of its lines are numerical code. What holds a running program together is
something else: **change propagation**. A market quote changes, every curve,
model and instrument built on it must notice, nothing must be calculated twice
or served stale, and a spreadsheet must get, from an object's name, an object
that agrees with everything it was built from. That logic is small, is shared
by all the rest, is full of call-backs, re-entrancy, exceptions and object
lifetimes, and is what this project models first. Next to it stand the two
pieces of exact, non-numerical machinery that every price rests on: dates and
schedules, and the global stores of market data (index fixings, exchange rates).

All line numbers below refer to files under `src/`.

## 1. Inventory

| component | state | operations | interacts with |
|---|---|---|---|
| **Observer pattern**, single-threaded build (`QuantLib/ql/patterns/observable.hpp` 40-302) | `observables_` of an observer (shared pointers), `observers_` of an observable (raw pointers), the singleton `ObservableSettings` (two flags, `deferredObservers_`) | construct, copy, assign, destroy; `registerWith`, `registerWithObservables`, `unregisterWith`, `unregisterWithAll`; `notifyObservers`; `disableUpdates`, `enableUpdates` | calls `update()` of every class that watches something |
| **Observer pattern**, thread-safe build (same file, 304-662) | as above, plus a proxy per observer, weak pointers, four kinds of mutex | the same, from several threads | the same |
| **Lazy objects, quotes, handles** (`ql/patterns/lazyobject.hpp`, `ql/quotes/simplequote.hpp`, `ql/handle.hpp`) | `calculated_`, `frozen_`, cached results; a quote's value; a link's target and whether it is registered | `update`, `calculate`, `recalculate`, `freeze`, `unfreeze`; `setValue`, `reset`; `linkTo` | are observers and observables at once; a calculation reads other lazy objects and makes them calculate |
| **Instruments, pricing engines** (`ql/instrument.hpp`, `ql/pricingengine.hpp`) | results, the engine | `calculate`, `NPV`, `setPricingEngine`, `setupExpired` | lazy objects; read the curve and the evaluation date |
| **Term structures, settings** (`ql/termstructure.cpp`, `ql/settings.hpp`, `ql/termstructures/bootstraphelper.hpp`, `yield/piecewiseyieldcurve.hpp`) | global evaluation date, cached moving reference date, dates cached in bootstrap helpers, the bootstrapped curve | assignment of the evaluation date, `SavedSettings`, `update`, `referenceDate`, bootstrap | observe the evaluation date; are observed by engines |
| **Indexes, fixings** (`ql/index.hpp`, `ql/indexes/indexmanager.cpp`, `interestrateindex.cpp`, `ql/cashflows/floatingratecoupon.cpp`) | histories of fixings by name, each with its `Observable` | `addFixing(s)`, `clearHistory`, `fixing` | coupons and swaps observe the index, the index its history, the date and a curve |
| **Currencies, exchange rates** (`ql/exchangerate.cpp`, `ql/currencies/exchangeratemanager.cpp`) | rates by pair of currencies and period | `add`, `clear`, `lookup`, `chain`, `exchange` | none |
| **Dates, calendars, schedules** (`ql/time`) | holidays added to and removed from a calendar; a schedule's dates and flags | date and period arithmetic, `adjust`, `advance`, `businessDaysBetween`, the `Schedule` constructor, `until` | everything |
| **Numerical library** (the rest of `ql`) | none of its own | floating-point algorithms | run inside `performCalculations` |
| **Object repository** (`ObjectHandler/oh`: `repository.cpp`, `objectwrapper.hpp`, `object.hpp`, `observable.hpp`, `serializationfactory.cpp`) | the map from IDs to wrappers; per wrapper its object, `dirty_`, the wrappers it observes | `storeObject`, `retrieveObject`, recreation, `deleteObject`, `deleteAllObjects` | an own, smaller observer pattern between wrappers; creators call back into the repository |
| **Object repository in Excel** (`ObjectHandler/ohxl`: `repositoryxl.cpp`, `callingrange.cpp`, `objectwrapperxl.cpp`) | calling ranges, their names in the workbook, their resident objects, update counts, error messages | the above, `collectGarbage`, `clear` | Excel, whose user deletes cells |
| **Function call context** (`ohxl/functioncall.cpp`) | a singleton that lives for one worksheet function | construct, destroy, error list | Excel |
| **Serialization** (`oh/serializationfactory.cpp`, `oh/processor.cpp`) | registered creators and processors, files | save and load lists of objects | repository, files |
| conversions, generated wrappers, `gensrc`, SWIG, `log4cxx`, launcher, site | none, or not this project's | | |

### What is hard

* **Call-backs into structures that are being iterated.** `notifyObservers`
  calls arbitrary code, which notifies, calculates, throws, or destroys
  other observers.
* **Two structures that must agree.** Registration is kept on both sides, with
  raw pointers on one of them.
* **Deferral.** `disableUpdates(true)` collects raw pointers to be used later,
  after registrations have changed.
* **Order.** The order in which observers hear of a change is that of pointers
  in a set. An observer that reads at once, in the middle of a notification,
  makes lazy objects calculate from inputs of which only some have heard.
* **Freezing.** A frozen object swallows notifications; unfreezing must make up
  for them for everyone above it.
* **Exceptions** between two assignments that belong together.
* **Identity.** An ID is deleted and stored again while dependents keep the old
  wrapper alive.
* **Caches of a global.** The evaluation date is cached in helpers, in the
  reference date of curves and in every result, and a change of it reaches most
  objects along several paths.
* **Partial work.** A load, a garbage collection or a list of fixings that fails
  half way leaves what it has done.
* **Boundaries** of dates: ends of months, weekends and stubs that fall together.
* **Threads**, in the thread-safe build only.

### What correctness means

* Observer pattern: the two sides of a registration agree; only live,
  registered observers are called; nobody is left out by an exception; a
  deferred change is delivered.
* Lazy objects: when a call is over no cache that will be served is obsolete,
  and an observer that reads when told has read the current results; freezing
  is what the client asked for; calls end.
* Repository: what is retrieved is what building the object and all its
  precedents from scratch would give; dependents observe the wrappers that
  their precedents' IDs lead to now; nothing is left behind. In Excel: cells,
  ranges and objects agree, and garbage collection takes every orphan and nothing
  else. A load restores what was saved.
* Valuation: between calls curve and values are those of the current evaluation
  date and quotes, however notifications, reads and exceptions interleave.
* Market data: a result made of fixings is that of the present history; a rate is
  found if there is a chain, and converts both ways without loss.
* Dates: adjusted dates stay in order, advancing and counting agree, comparisons
  of periods are true from every date; a schedule's dates increase, span the
  term, and a period flagged regular is one tenor long.

## 2. Modules

| module | models | role |
|---|---|---|
| `ObserverPattern` | observable.hpp, single-threaded | state machine and properties |
| `MCObserverPattern` | | symmetry for TLC |
| `ObserverPatternProofs` | | theorems and proofs |
| `ThreadSafeObserver` | observable.hpp, thread-safe build | state machine and properties |
| `MCThreadSafeObserver` | | who watches what, and what each thread does |
| `ThreadSafeObserverProofs` | | theorems and proofs |
| `LazyObject` | lazyobject.hpp, simplequote.hpp, handle.hpp | state machine and properties |
| `MCLazyObject` | | the dependency graphs TLC is run on |
| `LazyObjectProofs` | | theorems and proofs |
| `Repository` | oh/repository.cpp, objectwrapper.hpp, object.hpp, observable.hpp, serializationfactory.cpp | state machine and properties |
| `ObjectStore` | | abstract specification: what a repository promises |
| `Serialization` | oh/serializationfactory.cpp, processor.hpp | extends `Repository` with a file |
| `MCRepository` | | precedents, lists to save, symmetry for TLC |
| `RepositoryProofs` | | lemmas about `Repository`, action by action, that the next two share |
| `SerializationProofs` | | theorems and proofs about repository and files, the refinement |
| `RepositoryXL` | ohxl/repositoryxl.cpp, callingrange.cpp, objectwrapperxl.cpp, functioncall.cpp | extends `Repository` with cells, ranges and garbage collection |
| `MCRepositoryXL` | | precedents, symmetry for TLC |
| `RepositoryXLProofs` | | theorems and proofs |
| `Valuation` | settings, bootstraphelper.hpp, termstructure.cpp, piecewiseyieldcurve.hpp, instrument.hpp | state machine and properties |
| `MCValuation` | | pillars, maturities, who watches what |
| `ValuationProofs` | | theorems and proofs |
| `IndexFixings` | index.hpp, indexmanager.cpp, interestrateindex.cpp, floatingratecoupon.cpp | state machine and properties |
| `IndexFixingsProofs` | | theorems and proofs |
| `ExchangeRates` | exchangerate.cpp, exchangeratemanager.cpp | algorithms and properties |
| `MarketData`, `MCMarketData` | | both stores together; the instance for TLC |
| `Calendar` | date.cpp, period.cpp, calendar.cpp | algorithms, holidays as state |
| `Schedule` | schedule.cpp | the constructor and `until` over `Calendar`; properties |
| `MCSchedule` | | the window of dates and the arguments tried |

Definitions marked "Mutant" are deliberately wrong versions of the definition
that follows; replacing the definition by them must violate a property, which
shows that the property is not true by the shape of the model.

### ObserverPattern

`observables`, `observers`, `updatesEnabled`, `updatesDeferred` and
`deferredObservers` are the members of the same names. `alive` says which
addresses hold an observer; an address can be used again, as an allocator
would. One action per member function, each atomic, except the two loops over
observers (`notifyObservers`, `enableUpdates`): those call back, so they are
opened by an action that records the loop (`loop`, `source`, `visited`,
`successful`), advanced by one `Update` per observer, and closed by `EndLoop`,
which throws if some `update()` threw. `update()` belongs to derived classes:
here it returns or throws, after destroying any set of other observers.
(Destruction by `update()` within `notifyObservers` is safe as far as the
registration goes; the iteration itself then relies on iterators to other
elements staying valid in a set.) `owed` and `due` are history variables: which
announced changes an observer has not been told of, and whom the running loop
must reach.

Three flags say what the client may do that the interface does not forbid and
the class does not survive: `MayDowngrade` (`disableUpdates(false)` while
updates are deferred), `MayDropSome` (leave single observables, or assign,
while updates are deferred), `MayDestroyInEnable` (an `update()` run by
`enableUpdates` destroys another observer).

Left out: destruction of observables (impossible while registered, because
observers own them), observers that register or unregister *with the observable
under iteration* from within `update()` (undefined behaviour nothing in `ql`
runs into), the text of the exception.

### ThreadSafeObserver

The other half of the header, chosen by `QL_ENABLE_THREAD_SAFE_OBSERVER_PATTERN`.
`observables`, `observers`, `updatesType`, `deferredObservers` are the members of the
same names, `active` is `Proxy::active_`. `slots` are the connections to `sig_`: pairs
of a proxy and a number, since registering twice connects twice (`MaxConnections` are
told apart). `life` and `owned` follow an observer from its constructor to the release
of its memory. Every thread has a call `stack`; a frame names the operation, the point
it has reached, and the mutexes it holds, so that who holds what is derived
(`Held`, `Free`) and returning releases. Every lock is a step of its own whose guard
is that the mutex is free, and so is every unlocked read followed by a locked one
(`LeaveTest` and `LeaveSettings`, `NotifyTest` and `NotifySettings`).

* Joining (`JoinInsert`, `JoinConnect`, `JoinEnd`) serves `registerWith`, the
  constructors and the second half of `operator=`; leaving (`LeaveErase` to
  `LeaveEnd`) serves `unregisterWith`, `unregisterWithAll`, the first half of
  `operator=` and the destructor.
* `CallProxy` and `LoopEnd` are the loops of the signal and of `enableUpdates`; only
  the latter catches exceptions.
* `ProxyLock`, `ProxyWeak`, `Body`, `ProxyUnlock` are `Proxy::update`. `update()`
  itself may notify another observable (`Forward`) and may throw. When the reference
  the proxy took was the last one, the destructor runs on this thread, under the
  proxy's mutex. Another `update()` of the same observer holds a reference of its own,
  on another thread or further down on this one's stack (the mutexes are recursive,
  and a forwarded notification may come back), so the outermost drops the last.

Simplifications: the mutex of an observable is held around a single access to
`observers_`, which is one step; the signal's own mutexes are external and invisible;
a proxy is there from the start rather than from the first registration, before which
nobody can see it; the copy constructor, which copies another observer's set under
its mutex, is `Construct` with any set; `Observable::operator=` is
`notifyObservers`. All observers are owned by shared pointers: an observer on the
stack gets no reference in `Proxy::update` and is not covered. The code lets clients
leave single observables, and assign, while updates are deferred, and loses changes then
(lines 547-552); the constant `MayDropSome` says whether they do (`MayLeaveNow`), as in
`ObserverPattern`.

### LazyObject

Quotes, lazy objects, links of handles, and *eager* observers, whose `update()`
reads everything they watch (this is what `lazyobject.hpp:107` calls non-lazy
observers). `inputs` says who reads, and is registered with, whom. Notification
and calculation are recursive and call each other, so the state is a call
`stack`; frames are activations of `notifyObservers`, `calculate`,
`recalculate` and of an eager `update()`. Each action is a piece of code between
two calls: `NotifyNext` is one round of the notification loop with the whole of
`LazyObject::update` (which tests and clears `calculated_` and may notify
further) or `Handle::Link::update` in it; `Read` is one input of a calculation,
which may start that input's own calculation; `CalculateEnd`,
`CalculateThrow`, `RecalculateEnd` are what follows. `thrown` is an exception on
its way up. The order of observers and of inputs is left open.

A result is abstracted to its *provenance*: for each quote the values of it that
went in. A result computed from half-updated inputs shows both values.

`performCalculations` of a class, and how a reader's inputs relate to its
registrations, are external: it is assumed that a lazy object registers with
whatever it reads. That is the contract of the base class.

### Repository

Wrappers are heap objects with addresses; `objectMap` is the map, `object`,
`dirty` and `observables` are members of a wrapper (the other side of the
registration is derived: module `ObserverPattern` shows that the sides agree;
the copy of the pattern in `oh/observable.hpp` has the same structure). A
wrapper dies when neither the map nor another live wrapper holds it (`Live`).
`Retrieve` and `Create` are the calls a client function makes; `calls` is the
stack of what is being built. `retrieveObjectImpl` serves a clean object, starts
the recreation of a dirty one or throws on a missing one; the creator of an
object retrieves its precedents one by one. `recreate` and `storeObject` are the
ends of those calls. An object's state is its provenance: per ID, the own
arguments that went into it.

`MayDeleteUsed` lets clients delete objects that others are built on. Without it
(`Deletable`) no object on the heap may be built on a deleted one. That is more than
saying so of the objects in the map: in `RepositoryXL` a collection may take an
object out of the map while its dependents keep its wrapper alive. With c built on b
and b on a, collecting b and then deleting a would leave the wrapper of a alive, and
on the list of its range, until c goes.
`Below` gives the precedents clients use and makes them acyclic.

### ObjectStore and the refinement

`ObjectStore` is what a client of the repository may believe: under an ID there is
a *formula*, own arguments and the IDs of precedents, and retrieving an ID
evaluates the formulas as they are then. It knows no wrappers, flags,
registrations or recursion. `Repository!Abstract` maps the map and the objects in it
to formulas, and `ImplementsStore` says that every behaviour of the repository is
one of the store: begins and failures of calls are `Forget`, the steps of a
recreation stutter, a retrieval that returns is `Retrieve`, storing is `Store`,
deleting is `Delete`. Two restrictions are part of the promise, because the code
does not keep it without them: what others are built on is not deleted
(`MayDeleteUsed`), and every class has a creator that lists the precedents of what it
loads (`Generated = IDs`).

### Serialization

`file` is a sequence of ValueObjects: ID, arguments, the IDs of precedents among
the arguments, but not `precedentIDs_`, which is not serialized. The creators that gensrc
generates enter the precedents into it again before the object is stored
(`stub.serialization.creator:4-6`, `QuantLibAddin/gensrc/metadata/rules/serialization.xml`
105-137); `createAccount`, which the example writes by hand, does not. `Generated` says which
IDs have objects of the first kind, `Relisted` what is entered. `saveObject`
retrieves the objects first, so a save may recreate them, or fail, before it looks
at the file. `loadObject` builds the objects one after the other with the same
creators as the worksheet functions (`restoreObject` pushes the frame of `Create`)
and stops at the first that fails. One file; the default processor, whose
`postProcess` does nothing. Failures of input and output are left out.

### RepositoryXL

Extends `Repository` and replaces its `storeObject` by `RepositoryXL::storeObject`.
`cellName` is Excel's side: the hidden name of a cell. `callingRanges` are the keys
of `callingRanges_`, `residents` the lists of resident objects, by ID, with their
weak pointers, `caller` is the calling range of a wrapper, `from` the singleton
`FunctionCall`. `Settle` runs the destructors a step sets off: `~ObjectWrapperXL`,
which strikes its ID off its range's list, and `~CallingRange`, which deletes the
name. `collectGarbage` is opened, goes range by range (`Visit`) and resident by
resident (`ClearResident`), and may throw in the middle, like the code. The user
deletes cells between calls. Keys are used once, so `Ranges` bounds how many cells
get a name in a behaviour; a call that needs one more is refused. Left out: error messages per range, update counts,
VBA names of ranges, calls to Excel that fail.

### Valuation

Evaluation date and quotes feed bootstrap helpers, these a piecewise curve, that
an engine, and the engine instruments; eager observers of the curve or of an
instrument read it from within their `update()`. Notification loops are frames on
a stack, as in `LazyObject`, and the order of observers is open. A calculation
notifies nobody, so reading is one step (`ReadCurve`, `ReadNPV`), which may
bootstrap, cache a reference date, or throw. `UpdateCurve` is
`PiecewiseYieldCurve::update` with its order of effects: first the lazy object's
notification, then, when that returns (`UpdateCurveEnd`), the clearing of
`updated_`. A curve is told by its reference date and the pillars and quotes of its
helpers, a price by curve and date. `saved` is a live `SavedSettings`. Left out: the
numbers of the bootstrap, engines that read two curves, midnight passing while no
date is set.

### IndexFixings, ExchangeRates, MarketData

`IndexFixings`: `history` and `notifier` are the entries of `IndexManager::data_`,
which are created when first read (`Touch`). An index registers with the
`Observable` its name has when it is built (`watched`), coupons with the index, swaps
with coupons; a swap caches the fixings it was made of (`result`). `addFixings` stores
what it can, notifies, and then throws for the rest. `clearHistory` drops an entry,
and `setEnforces` changes a setting nobody observes: the constants `MayClear` and
`MayEnforceLate` say whether clients do so under live results.

`ExchangeRates`: `data` are all entries, newest first. A lookup is the *set* of rates
it may return, as the code leaves the choice among chains unspecified. Rates are kept
as integer logarithms, the n-th being 2^n, so that a sum tells which rates went in, and
in which direction.

`MarketData` puts both together. They share nothing and every property is about one
of them, so it lets one move while the other is in its initial state; this loses no
behaviour of either.

### Calendar and Schedule

Dates are serial numbers in a window of real months. `Calendar` has date and period
arithmetic, the conventions of `adjust`, `advance` and `businessDaysBetween` as
operators, the loops that roll to a business day as recursive ones; the state is which
holidays clients have added and removed. `Schedule` has the rule-based constructor
as `Build`, in the order of the code: defaults, the loop of the rule, third Wednesdays,
ends of months or business days, the two clean-ups, with the conditions under which it
throws in `Refused`; and `UntilDate`. A schedule is a value, so holidays change only
between one schedule and the next. The properties of the calendar's answers are
evaluated between schedules, with every set of marked holidays.

`Ordinary` says for which arguments the constructor's dates are in order; the rest
(see section 5) it neither refuses nor copes with. A `Schedule` without effective date,
which takes the evaluation date for it, is left out. `AdjustInOrder` compares `adjust` with
a reference that knows no loops: which dates a convention may move to (`MayMove`) and in
which order it prefers them (`Rank`).

## 3. Runs

| run | shows |
|---|---|
| `observer` | types, `RegistrationsAgree`, `NoUnregisteredUpdate`, `NoLostDeferral`, `EveryoneReached` for a disciplined client (all three flags off) |
| `thread_safe_collector` | `UpdatesLiveObjects`, `NoDeadlock`, `NoLostDeferral`, `RegistrationsAgree` with one thread that calls every member function and one that only drops references, the use the build is made for (`userconfig.hpp:75-78`); single observables are left only while updates are not deferred |
| `thread_safe_deadlock` | *violation*: two threads notify and one of them switches updates; `enableUpdates` (settings, then proxy) and a forwarded notification (proxy, then settings) wait for each other |
| `lazy_diamond` | types, `CachedIsCurrent`, `ViewIsCurrent`, `FreezeSurvives`, `FrozenKeepsResult` on twelve diamonds with an eager observer and a quote that may be invalid |
| `lazy_linked` | `CachedIsCurrent` with a handle that is relinked, emptied, and linked with and without registration; `CallsEnd` |
| `valuation` | `CurveIsCurrent`, `NPVIsCurrent`, `ViewIsCurrent`: with a relative and a fixed-date helper, whatever the order of notifications, reads in the middle of them, invalid quotes, expiry, saved and restored dates |
| `valuation_reentrant` | *violation* of `CurveIsCurrent`: with fixed-date helpers only, a curve read from within its own `update()` stays built for the old date |
| `repository` | types, `ObservesPrecedents`, `CleanIsCurrent`, `NoHiddenWrapper`, the refinement `ImplementsStore`, and `LoadRestores`, when dependents are deleted before what they depend on and creators list precedents again on load |
| `repository_xl` | `NamesResolve`, `ResidesWhereStored`, `ResidentsAreStored`, `OrphansCollected`, `OnlyOrphansCollected` |
| `market_data` | `SwapIsCurrent`, `AddsWhatItCan` for fixings, which are cleared only when no index object observes them; `LookupComplete`, `RatesConvert` for exchange rates |
| `schedule` | `PeriodsFollow`, `RegularPeriods` (when all dates are adjusted alike), `SpansTerm` for schedules; `AdjustInOrder`, `AdvanceCounts`, `LessIsSound` for what they rest on |
| `schedule_regular` | *violation* of `OneTenor`: the end is not adjusted and is overtaken by the date before it; the shortened period stays flagged regular |

### Bounds

* `observer`: three observers, two observables. A violation of agreement or
  deferral involves one observer and at most two observables; a third observer
  gives a loop someone to visit while another one is destroyed and a third
  throws. Both sets are symmetric.
* `thread_safe_collector`: two threads, two observers, two observables, two
  connections per proxy and signal. A deadlock or a race is between two threads; the
  forwarding observer and the one above it give nested notifications. With three
  observers the properties hold as well (4.2 million states).
  With one worker nobody switches updates between the unlocked and the locked look of a
  notification at the settings. A second thread that does is in `Racing` of
  `MCThreadSafeObserver`: with it, `Forward <- Forwardless` and `MayThrow = FALSE`, TLC
  finds `NoLostDeferral` and `NoDeadlock` to hold (a million states), as long as no
  `update()` notifies in turn; `UpdatesLiveObjects` fails (section 5).
* `lazy_diamond`: one quote with two valid values and an invalid one, three lazy
  objects, one eager observer. The graphs are a diamond, with an optional edge
  between its sides, an optional shortcut from the quote to the top, and an
  optional eager edge to one side: the smallest in which an object is notified
  along two ways, at different times, with a reader in between. The depth of
  the stack needs no bound, as the graphs are acyclic.
* `lazy_linked`: one handle, whose targets are a quote and a lazy object or
  nothing; two lazy objects.
* `valuation`: three dates, today's included, or none set; one valid value per quote
  and an invalid one; one helper of each kind, whose pillars may coincide or expire;
  one instrument, which may expire; an eager observer of the curve and one of the
  instrument, so that each level is read before and after each other's turn.
* `repository`: three IDs on two levels, two own arguments per object, three
  wrappers (with dependents deleted first, there is never a hidden wrapper, which
  `NoHiddenWrapper` checks), one list to save.
* `repository_xl`: two IDs, one built on the other, one permanent; two cells and VBA;
  three keys, so that a cell is deleted and another named while the first range waits
  for garbage collection. Chains of three objects, such as the one that `Deletable` is
  worded for, do not occur in it; the theorems cover them.
* `market_data`: two swaps with two fixing dates on one index name, three dates of which
  one is a holiday, two values; three `Observable`s, as many as an
  entry and two swaps could refer to. Four currencies, one of them triangulated; six quotations in both
  directions for overlapping periods, up to four rates (`MaxRates`): enough for chains
  of three with a dead end beside them.
* `schedule`: September 2011 to May 2013, a leap year with all lengths of month and
  room for the schedules of 2012. The arguments are chosen around the awkward cases:
  ends of months, the 29th of February, ends and stubs on weekends, stubs one
  day from a step, an end and a stub on one weekend (where the clean-up at the end
  fires although all dates are adjusted alike), daily steps over a weekend, each rule, and arguments that are
  refused. A Friday at the end of a month and a Sunday at the start of one change
  between holiday and business day.

Nothing is bounded by a state constraint; all state spaces are finite by construction.
The theorems of the next section hold for sets of any size and so lift the bounds of
`observer`, `thread_safe_collector`, `lazy_diamond`, `lazy_linked` (but for `CallsEnd`),
`valuation`, `repository`, `repository_xl` and the fixings of `market_data`.

### Fairness

`lazy_linked` uses weak fairness of `Step`, the disjunction of everything the
running call can do next: the program is single-threaded, so a call that has
begun is executed to its end. No fairness is assumed of clients, which may never
call again, nor of any single step.

## 4. Proofs

The theorems are about the specifications of the modules and state the properties the
runs check, for any sets of objects, threads, IDs, cells and so on. They are proved from
the named assumptions of the modules (`...Assumption`), which TLC evaluates in the runs
and which only say of which kind the constants are and that a null pointer is not an
object. What a theorem asks of clients beyond that is a hypothesis in its statement;
section 5 lists what happens when clients do otherwise.

### `ObserverPatternProofs`

* `TypeCorrect`, `RegistrationsAlwaysAgree`: for any client.
* `DeferredNotificationsSound`, and its parts `NobodyUnregisteredUpdated` and
  `LoopsReachEveryone`: for a client that is `Disciplined` (all flags off).

None of the properties of a disciplined client is inductive: a state may
satisfy them and yet have in `deferredObservers` an observer that nothing is owed
to, which then leaves its last observable. The invariant `DInv` says what is really
going on: what is owed is owed by observables still watched (`OwedIsWatched`); an
observer waits exactly when something is owed to it (`DeferredIsOwed`); anybody
waits only while updates are deferred or `enableUpdates` is delivering
(`DeferredOnlyWhileDeferring`); a running loop still has ahead of it all it must
reach (`LoopReachesDue`). `DInvSuffices` derives the properties from it,
`RegisterKeepsDInv` treats the registration operations, the theorem the rest.

### `ThreadSafeObserverProofs`

With one thread that does everything and any number that only drop references
(`OneWorker(w)`, the use `userconfig.hpp:75-78` describes): `UpdatesReachTheLiving`,
`ListsAndSignalsAgree`, `DeferralsAreKept`, `NobodyDeadlocks`. `DeferralsAreKept` is for
clients that leave no single observable and assign nothing while updates are deferred
(hypothesis `~MayDropSome`), the others for any. With two workers the last
is false (`thread_safe_deadlock`). The invariant `Inv(w)` has six parts:

* `Types`.
* `StackInv`: which points a frame can be at, which mutexes it holds there, which frame
  may call which; threads other than the worker run nothing but destructors.
* `LifeInv`: what the frames say of lives. A destructor runs on an observer that is
  `dying`, on one thread only; member functions run on observers somebody owns; a proxy
  that is active belongs to memory not yet freed; the body of `update()` runs on the
  living. This needs the order in `~Observer`: the proxy is deactivated, under the
  proxy's mutex, before anything is taken apart.
* `SettingsInv`: a frame of the worker that holds the settings' mutex has enabled
  updates, and one that has seen them disabled and is about to lock the mutex finds
  them so: between the unlocked test and the lock only collectors move, and they
  enable and disable nothing.
* `AgreeInv`: an observer nobody works on is on the lists and signals of exactly what it
  watches; of one that a frame works on, this holds up to the one observable
  between insertion and connection, or between erasure and disconnection.
* `OwedInv`: whoever is owed a change is alive, registered, and either waiting
  in `deferredObservers` while updates are not enabled, or ahead of the loop of a running
  `enableUpdates`, or just leaving everything; the waiting is claimed under `~MayDropSome`
  only.

Absence of deadlock follows from these: a collector that holds a mutex between two steps
holds only that of the observer it destroys (`CollectorHolds`), which nobody but
this destructor wants, since member functions run through references
(`ObserverWanted`). So every circle is the worker waiting for itself, and that only for
the settings' mutex, the one that is not recursive; but it wants it only when updates
are not enabled, or for `enableUpdates`, and holds it only when they are.

### `LazyObjectProofs`

* `TypeCorrect`, `FreezeAlwaysSurvives`, `FrozenAlwaysKeepsResult`: for any graphs, also
  cyclic ones. `BaseInv` adds to the types the shape of the stack (a
  notification is called by notifications only, nobody reads twice at a time), that a
  calculating object has `calculated_` set and is not frozen, and that `recalculate`
  remembers what the client last asked for.
* `CachesStayCurrent`, `ViewsStayCurrent`: for graphs some strict order `R` runs along
  (`Orders(R)`), through any relinking of handles.

`CachedIsCurrent` is about the time between calls; within one, a cache may be obsolete.
`CInv(R)` says when: every reader that holds a result holds the one its inputs now give
(`HeldIsCurrent`), or has yet to be told by a notification on the stack, or reads
through a handle that is linked without registration; and a calculation on
the stack has accumulated exactly the contributions of the inputs it is done with
(`FramesRead`), which stay as they are since calculations descend along `R`
(`Descending`) and so never reach their own reader. That a result is the right one for
the whole graph below it is thus proved as an invariant of single reads, without
induction over the graph.

### `ValuationProofs`

* `CurveCurrent`: for any helpers, observers, dates and quotes, provided that some helper
  is relative to the evaluation date or that there are no observers that read at once
  (`Repaired`); `valuation_reentrant` shows what happens otherwise.
* `NPVCurrent`, `ViewCurrent`: if also every instrument that may expire on a date clients
  set observes the evaluation date (`ExpiryWatched`): an instrument says that it has expired
  only when it is told or asked (`instrument.hpp:149`).

`CurveInv` says what may be obsolete while notifications run. The curve tells its
observers before it forgets its reference date, so one that reads the curve then has it
bootstrapped for the old date once more. `RefInv`: as long as the reference date is old, the
curve has two updates to come (`TwoToCome`, which a relative helper ensures), or one while
it notifies; or it is not bootstrapped and the update of a helper is about to reach it; or
nobody reads it in between. An exception on its way to the curve's `update()` keeps it from
forgetting the date; `ThrowInv` says that then the curve cannot be bootstrapped as things
are (`Hopeless`), since what is called from there observes the curve itself, or an instrument
priced by it that is not frozen (`Beyond`, part of `Shape`). `HelperInv` and `BuiltInv`: a helper has the
evaluation date or will be told; a bootstrapped curve is the true one or will be told.
`ValueInv` continues this to instruments and observers: a value came from the curve as
it is, or the instrument, the engine or the curve has yet to be told.

### `RepositoryProofs` and `SerializationProofs`

* `RepositoryTypeCorrect`: for any client. No ID leads to a destroyed wrapper or to an
  object of another ID.
* `LoadsRestore`: for any client, a load that comes to its end leaves every object
  of the file with the arguments and precedents saved. `LoadInv` follows how much
  of the file has been taken.
* `WrappersFollowPrecedents`, `NoWrapperHidden`: for clients that delete
  dependents first and creators that list precedents again on load (`~MayDeleteUsed`,
  `Generated = IDs`). `LinkInv` joins both properties with what creators on the stack will
  list.
* `CleanStaysCurrent`, `RetrievalsStayCurrent`: for the same clients and precedents
  along an order `R`, which files keep to as well (`FileDescends`). A clean object has the value of its formula (`ValueInv`), and an
  object being built has so far the values of the precedents it has retrieved, which
  cannot become dirty before it is finished, as whatever is recreated meanwhile is below
  it (`StackCurrent`).
* `RepositoryIsStore`: for the same clients, every step of the repository is, under
  the mapping `Abstract`, a step of `ObjectStore` or a stutter (`StoreStep`).

The value of a formula is made of the arguments of all IDs in the smallest set closed
under precedents (`Closure`), not a recursive definition; `ClosureHolds`, `ClosureStep`
and `ClosureLeast` are all the proofs need of it.

### `RepositoryXLProofs`

For clients that delete dependents first (`~MayDeleteUsed`): `NamesAlwaysResolve`,
`ObjectsReside`, `ResidentsStayStored`, `NoOrphanLeft`, and the action property
`NoneButOrphans`. Collections delete by cell, not by dependency, so wrappers outside
the map do occur here, and the invariant `InvXL` says what becomes of them: a wrapper
that others keep alive was collected with a range whose name is broken for good, since
keys are not used again, and the object now stored under its ID, if any, is in another
range (`HiddenInv`). So when it dies at last and strikes its ID off its range's list, it
strikes off no successor. `ResidesInv` and `ResidentInv` are the two directions between
lists and map, `GarbageInv` what a collection has done so far.

### `IndexFixingsProofs`

* `SwapsStayCurrent`: when clients neither clear histories nor change the
  setting under live results (`~MayClear`, `~MayEnforceLate`); with the strengthening
  that an index is registered with the `Observable` now in the entry of its name
  (`WatchInv`).
* `AddsAllItCan`: for any client and the lists of the model, which have one or two
  fixings (longer ones would take induction over the list).

They are about `SpecF`, the fixings alone. `MarketData` adds steps of exchange rates,
which share no variable with them.

### Only model-checked

* `CallsEnd` (`lazy_linked`): liveness is outside the prover's reach.
* `Calendar`, `Schedule`, `ExchangeRates`: their loops and searches are recursive
  operators, and what they compute for every input would take induction over data.

## 5. What the checks found

Shown by runs:

* `observable.hpp:473` — thread-safe build: `enableUpdates` calls observers with the
  settings' mutex held and can deadlock with a notification that is being forwarded
  (`thread_safe_deadlock`). Beyond the one-worker discipline TLC also finds
  deadlocks of two threads that run `registerWithObservables` or `operator=`
  crosswise, and `update()` run on an observer whose constructor has not returned
  (line 370).
* `piecewiseyieldcurve.hpp:233` — the curve notifies before it forgets its reference
  date; an observer that reads it then rebuilds it for the old date
  (`valuation_reentrant`). If that observer throws, the date is not forgotten at all.
  A helper that is relative to the evaluation date notifies once more and repairs it.
* `schedule.cpp:409` — when the last step overtakes an end adjusted in another way than
  the rest, the flag that is cleared is the one `pop_back` then drops, and a short or long
  period stays flagged regular (`schedule_regular`: monthly, end on Sunday 1 July 2012
  unadjusted, convention Following).

The passing runs hold for clients that stay within what follows; setting the
constant named makes TLC produce the case.

* `observable.hpp:213` — pending pointers are cleaned up only while updates are
  deferred, so they dangle after a downgrade to plain disabling (`MayDowngrade`), or
  when an `update()` run by `enableUpdates` destroys another waiting observer, as
  both flags are reset before the loop (`MayDestroyInEnable`).
* `observable.hpp:214` — pending notifications are per observer, not per
  registration, so leaving one observable, or being assigned to, while updates are deferred
  loses the change of another: `NoLostDeferral` fails (`MayDropSome`). Lines 547-552 do the
  same in the thread-safe build.
* `observable.hpp:560` — thread-safe build: an exception ends the signal, and observers
  after the one that throws are not notified; the other build goes on.
* `lazyobject.hpp:104` — a lazy object that failed is not `calculated_`, so it does not
  forward the change that would cure it: an eager observer whose `update()` failed is
  not told. `ViewIsCurrent` is about observers that have read something.
* `repository.cpp:130` — deletion tells nobody; re-creation under the same ID
  leaves dependents attached to the deleted wrapper, and they are served in their old
  state (`MayDeleteUsed` in `Repository.cfg`).
* `ObjectHandler/Examples/ExampleObjects/Serialization/creators.cpp:48` — the example's
  hand-written creator does not enter the precedents of a loaded account into its value
  object, which is saved without them; so the account observes nobody and is served in its
  old state when they change (`Generated = {}` in `Repository.cfg`). Generated creators do
  enter them.
* `repository.cpp:127` — deleting a list stops at the first unknown ID, where
  `repository.hpp:122` says that it takes no action for those.
* `objectwrapperxl.cpp:36`, `callingrange.cpp:91` — with deletion of objects in use
  (`MayDeleteUsed` in `RepositoryXL.cfg`) a wrapper kept alive by a dependent strikes
  the entry of its successor off when it dies, garbage collection deletes by ID an
  object that has been created anew elsewhere, and throws half way when the ID is
  gone.
* `instrument.hpp:149` — expiry is looked at on every `calculate`, but an instrument
  that does not observe the evaluation date keeps the zero it cached while expired
  when the date moves back (`WatchDate = {}`, `Eagers = {}`, `Dates = {1, 2, 3}` in
  `Valuation.cfg`). A frozen instrument overwrites its results when it expires.
* `indexmanager.cpp:64` — `clearHistory` drops the `Observable` and notifies nobody:
  cached results stay, and index objects that exist never hear of later fixings, where
  `indexmanager.hpp:47` promises an "observer notifying of changes in the index fixings":
  `SwapIsCurrent` fails (`MayClear`).
* `settings.hpp:169` — `enforcesTodaysHistoricFixings` is a plain reference to a flag and
  notifies nobody: results cached before it changes are still served (`MayEnforceLate`).
* Schedules outside `Ordinary`: with `endOfMonth` a stub date in mid-month is moved to the
  end of its month and may coincide with its neighbour, and an unadjusted
  termination date of a `Backward` schedule is moved too; third Wednesdays coincide
  with weekly tenors or next to stubs; a first date after the next-to-last one is not
  refused. A tenor of four weeks is refused, since it cannot be compared with a month
  when `endOfMonth` is decided.

Met while reading, outside the models: `functioncall.cpp:37` sets the singleton pointer
before calls to Excel that may throw, after which no function call can be constructed;
`settings.cpp:60` swallows the exception of an observer of the date and then skips the
other settings; `SavedSettings` of a null date restores today's; `hasHistory` is true
of names that were merely read; `schedule.cpp` reads a seed date it never set for rule
`Zero` with `endOfMonth`, and the second flag of a schedule with one period;
triangulated currencies bypass direct rates, though `exchangeratemanager.hpp:57-58`
says that a direct rate is "still preferred"; serialization removes a file before it
writes the new one (`serializationfactory.cpp:196`).

## 6. Not modelled

* Numerical library: floating-point algorithms are out of reach of a model checker;
  the tables of random-number directions and of primitive polynomials, which are most
  of its lines, are data. Of instruments, term structures and indexes the control is
  modelled and the numbers are abstracted to what went into them.
* Holiday rules of the single calendars, day counters, parsing and formatting of
  dates: tables and formulas without state.
* `reposit` is the same code as `ObjectHandler/oh` under other names and is
  not modelled a second time.
* Excel data conversion, generated wrappers, `gensrc`, SWIG, `log4cxx`, launcher and
  site: no state of interest, generated, or third-party.
* Lazy objects that observe each other: the code cuts their recursion, as `calculated_` is
  cleared before observers are notified (`lazyobject.hpp:105-109`) and set before the
  calculation begins (147), but what they then read is half-calculated; `CallsEnd` and the
  theorems on caches are about acyclic graphs. Cyclic precedents in the repository, which do
  recurse without end (`objectwrapper.hpp:127` forwards without looking at `dirty_`).
* An `update()` that changes registrations with the observable under iteration
  (`observable.hpp:228`), observers owned by no shared pointer in the thread-safe
  build, failures of Excel and of files.

## 7. Plan

The modules are in place, and what their runs check is proved except for the list at
the end of section 4. What could be added:

1. `ExchangeRates`: the searches as recursive functions of the number of currencies
   left, and `RatesConvert` by induction over that number.
2. `ThreadSafeObserver` with several workers that never switch updates: whether
   `UpdatesLiveObjects` and `RegistrationsAgree` hold for them.
