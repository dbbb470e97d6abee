---------------------------- MODULE DomainProofs ----------------------------
(***************************************************************************)
(* Facts about the business rules that hold for every fixture: a legal     *)
(* action, applied as a whole, keeps the tables consistent.                *)
(***************************************************************************)
EXTENDS Domain, FiniteSetTheorems, TLAPS

(* The kind of an argument record decides which of its fields are present.  *)
LEMMA ArgsKinds ==
  ASSUME NEW a \in Args
  PROVE  /\ IsBooking(a) => /\ a.slot \in Slots /\ a.order = NoId /\ a.sku = NoId
                            /\ ~IsExchange(a)
         /\ ~IsBooking(a) => a.order \in Orders /\ a.slot = NoId
         /\ IsExchange(a) => a.sku \in Products /\ ~IsBooking(a)
BY DEF Args, ReturnArgs, ExchangeArgs, BookingArgs, IsBooking, IsExchange

(* "go" means that every check has passed.                                  *)
LEMMA VerdictGo ==
  ASSUME NEW d, NEW c, NEW a, Verdict(d, c, a) = "go"
  PROVE  ~NotOwned(c, a) /\ ~Ineligible(a) /\ ~Registered(d, c, a) /\ ~Unavailable(d, a)
<1> USE DEF Verdict
<1>1. ~NotOwned(c, a)
  OBVIOUS
<1>2. ~Ineligible(a)
  BY <1>1
<1>3. ~Registered(d, c, a)
  BY <1>1, <1>2
<1>4. ~Unavailable(d, a)
  BY <1>1, <1>2, <1>3
<1> QED
  BY <1>1, <1>2, <1>3, <1>4

(* The fixture is a database and is consistent.                             *)
LEMMA FixtureConsistent ==
  FixtureDatabase \in Database /\ Consistent(FixtureDatabase)
<1>1. FixtureDatabase \in Database
  BY DomainAssumption DEF FixtureDatabase, Database
<1>2. /\ FixtureDatabase.actions = {}
      /\ FixtureDatabase.revision = 0
      /\ FixtureDatabase.stock = InitStock
      /\ \A t \in Slots : FixtureDatabase.booked[t] = 0
  BY DEF FixtureDatabase
<1>3. \A p \in Products : ExchangesOf(FixtureDatabase, p) = {}
  BY <1>2 DEF ExchangesOf
<1>4. \A t \in Slots : BookingsOf(FixtureDatabase, t) = {}
  BY <1>2 DEF BookingsOf
<1>5. StockAccounted(FixtureDatabase)
  BY <1>2, <1>3, FS_EmptySet, DomainAssumption DEF StockAccounted
<1>6. BookingsAccounted(FixtureDatabase)
  <2> SUFFICES ASSUME NEW t \in Slots
               PROVE  /\ FixtureDatabase.booked[t] = Cardinality(BookingsOf(FixtureDatabase, t))
                      /\ FixtureDatabase.booked[t] <= Capacity[t]
    BY DEF BookingsAccounted
  <2>1. Capacity[t] \in Nat /\ FixtureDatabase.booked[t] = 0
    BY <1>2, DomainAssumption
  <2>2. Cardinality(BookingsOf(FixtureDatabase, t)) = 0
    BY <1>4, FS_EmptySet
  <2> QED
    BY <2>1, <2>2
<1>7. /\ OneActionPerOrder(FixtureDatabase)
      /\ OneBookingPerCustomer(FixtureDatabase)
      /\ OnlyOwnersAct(FixtureDatabase)
  BY <1>2 DEF OneActionPerOrder, OneBookingPerCustomer, OnlyOwnersAct
<1>8. IsFiniteSet(FixtureDatabase.actions) /\ FixtureDatabase.revision = Cardinality(FixtureDatabase.actions)
  BY <1>2, FS_EmptySet
<1> QED
  BY <1>1, <1>5, <1>6, <1>7, <1>8 DEF Consistent

(* The fields of the database after the INSERT alone.                       *)
LEMMA InsertFields ==
  ASSUME NEW d \in Database, NEW c \in Customers, NEW a \in Args
  PROVE  LET i == InsertAction(d, c, a) IN
         /\ i \in Database
         /\ i.actions = d.actions \cup {[customer |-> c, args |-> a]}
         /\ i.revision = d.revision + 1
         /\ i.stock = d.stock /\ i.booked = d.booked
<1> DEFINE new == [customer |-> c, args |-> a]
           rows == d.actions \cup {new}
           d1 == [d EXCEPT !.actions = @ \cup {new}]
           i == InsertAction(d, c, a)
<1>1. new \in Action
  BY DEF Action
<1>2. d = [stock |-> d.stock, booked |-> d.booked,
           actions |-> d.actions, revision |-> d.revision]
  BY DEF Database
<1>3. d1 = [stock |-> d.stock, booked |-> d.booked, actions |-> rows, revision |-> d.revision]
  BY <1>2
<1>4. i = [d1 EXCEPT !.revision = d.revision + 1]
  BY DEF InsertAction
<1>5. rows \in SUBSET Action
  BY <1>1 DEF Database
<1> HIDE DEF d1, rows
<1>6. [d1 EXCEPT !.revision = d.revision + 1]
        = [stock |-> d.stock, booked |-> d.booked, actions |-> rows,
           revision |-> d.revision + 1]
  BY <1>3
<1> HIDE DEF i
<1> QED
  BY <1>4, <1>5, <1>6 DEF rows, i, Database

(* The fields of the database after a legal action.                         *)
LEMMA EffectFields ==
  ASSUME NEW d \in Database, NEW c \in Customers, NEW a \in Args,
         Verdict(d, c, a) = "go"
  PROVE  LET e == Effect(d, c, a) IN
         /\ e.actions = d.actions \cup {[customer |-> c, args |-> a]}
         /\ e.revision = d.revision + 1
         /\ e.stock = IF IsExchange(a) THEN [d.stock EXCEPT ![a.sku] = @ - 1] ELSE d.stock
         /\ e.booked = IF IsBooking(a) THEN [d.booked EXCEPT ![a.slot] = @ + 1] ELSE d.booked
         /\ IsExchange(a) => d.stock[a.sku] > 0
         /\ IsBooking(a) => d.booked[a.slot] < Capacity[a.slot]
         /\ e \in Database
<1> DEFINE e == Effect(d, c, a)
           new == [customer |-> c, args |-> a]
           i == InsertAction(d, c, a)
<1>1. ~Unavailable(d, a)
  BY VerdictGo
<1>2. /\ i \in Database
      /\ i.actions = d.actions \cup {new} /\ i.revision = d.revision + 1
      /\ i.stock = d.stock /\ i.booked = d.booked
  BY InsertFields
<1>3. CASE IsBooking(a)
  <2>1. a.slot \in Slots /\ ~IsExchange(a)
    BY <1>3, ArgsKinds
  <2>2. d.booked[a.slot] \in Nat /\ Capacity[a.slot] \in Nat
    BY <2>1, DomainAssumption DEF Database
  <2>3. d.booked[a.slot] < Capacity[a.slot]
    BY <1>1, <1>3, <2>2 DEF Unavailable
  <2>4. e = [i EXCEPT !.booked = [d.booked EXCEPT ![a.slot] = @ + 1]]
    BY <1>2, <1>3, <2>1, <2>3 DEF Effect, BookSlot, Database
  <2>5. [d.booked EXCEPT ![a.slot] = @ + 1] \in [Slots -> Nat]
    BY <2>1, <2>2 DEF Database
  <2> QED
    BY <1>2, <1>3, <2>1, <2>3, <2>4, <2>5 DEF Database
<1>4. CASE IsExchange(a)
  <2>1. a.sku \in Products /\ ~IsBooking(a)
    BY <1>4, ArgsKinds
  <2>2. d.stock[a.sku] \in Nat
    BY <2>1 DEF Database
  <2>3. d.stock[a.sku] > 0
    BY <1>1, <1>4, <2>2 DEF Unavailable
  <2>4. e = [i EXCEPT !.stock = [d.stock EXCEPT ![a.sku] = @ - 1]]
    BY <1>2, <1>4, <2>1, <2>3 DEF Effect, TakeStock, Database
  <2>5. [d.stock EXCEPT ![a.sku] = @ - 1] \in [Products -> Nat]
    BY <2>1, <2>2, <2>3 DEF Database
  <2> QED
    BY <1>2, <1>4, <2>1, <2>3, <2>4, <2>5 DEF Database
<1>5. CASE ~IsBooking(a) /\ ~IsExchange(a)
  BY <1>2, <1>5 DEF Effect
<1> QED
  BY <1>3, <1>4, <1>5

(* What a confirmation is bound to is a fingerprint.                        *)
LEMMA FingerprintType ==
  ASSUME NEW d \in Database, NEW a \in Args
  PROVE  action_fingerprint(d, a) \in Fingerprint
<1>1. OrderActions(d, a.order) \in SUBSET Action
  BY DEF OrderActions, Database
<1>2. ~IsBooking(a) => d.stock[Sku[a.order]] \in Nat
  BY ArgsKinds, DomainAssumption DEF DomainAssumption, Database
<1>3. IsExchange(a) => d.stock[a.sku] \in Nat
  BY ArgsKinds DEF Database
<1>4. IsBooking(a) => d.booked[a.slot] \in Nat
  BY ArgsKinds DEF Database
<1> QED
  BY <1>1, <1>2, <1>3, <1>4 DEF action_fingerprint, Fingerprint

(* An action applied as a whole leaves a database, legal or not.            *)
LEMMA EffectType ==
  ASSUME NEW d \in Database, NEW c \in Customers, NEW a \in Args
  PROVE  Effect(d, c, a) \in Database
<1> DEFINE i == InsertAction(d, c, a)
<1>1. i \in Database
  BY InsertFields
<1>2. CASE IsBooking(a)
  <2>1. a.slot \in Slots /\ i.booked \in [Slots -> Nat]
    BY <1>1, <1>2, ArgsKinds DEF Database
  <2>2. [i.booked EXCEPT ![a.slot] = @ + 1] \in [Slots -> Nat]
    BY <2>1
  <2>3. Effect(d, c, a) \in {i, [i EXCEPT !.booked = [i.booked EXCEPT ![a.slot] = @ + 1]]}
    BY <1>1, <1>2, <2>1 DEF Effect, BookSlot, Database
  <2> QED
    BY <1>1, <2>2, <2>3 DEF Database
<1>3. CASE IsExchange(a)
  <2>1. a.sku \in Products /\ ~IsBooking(a) /\ i.stock \in [Products -> Nat]
    BY <1>1, <1>3, ArgsKinds DEF Database
  <2>2. i.stock[a.sku] > 0 => [i.stock EXCEPT ![a.sku] = @ - 1] \in [Products -> Nat]
    BY <2>1
  <2>3. \/ Effect(d, c, a) = i
        \/ /\ i.stock[a.sku] > 0
           /\ Effect(d, c, a) = [i EXCEPT !.stock = [i.stock EXCEPT ![a.sku] = @ - 1]]
    BY <1>1, <1>3, <2>1 DEF Effect, TakeStock, Database
  <2> QED
    BY <1>1, <2>2, <2>3 DEF Database
<1>4. CASE ~IsBooking(a) /\ ~IsExchange(a)
  BY <1>1, <1>4 DEF Effect
<1> QED
  BY <1>2, <1>3, <1>4

(* The checks have five outcomes.                                           *)
LEMMA VerdictRange ==
  ASSUME NEW d, NEW c, NEW a
  PROVE  Verdict(d, c, a) \in
           {"not_authorized", "policy_denied", "already_created", "unavailable", "go"}
<1>1. CASE NotOwned(c, a)
  BY <1>1 DEF Verdict
<1>2. CASE ~NotOwned(c, a) /\ Ineligible(a)
  BY <1>2 DEF Verdict
<1>3. CASE ~NotOwned(c, a) /\ ~Ineligible(a) /\ Registered(d, c, a)
  BY <1>3 DEF Verdict
<1>4. CASE ~NotOwned(c, a) /\ ~Ineligible(a) /\ ~Registered(d, c, a) /\ Unavailable(d, a)
  BY <1>4 DEF Verdict
<1>5. CASE ~NotOwned(c, a) /\ ~Ineligible(a) /\ ~Registered(d, c, a) /\ ~Unavailable(d, a)
  BY <1>5 DEF Verdict
<1> QED
  BY <1>1, <1>2, <1>3, <1>4, <1>5

(* A legal action is not in the table yet, by either kind's own check.      *)
LEMMA EffectIsNew ==
  ASSUME NEW d \in Database, NEW c \in Customers, NEW a \in Args,
         ~Registered(d, c, a)
  PROVE  /\ [customer |-> c, args |-> a] \notin d.actions
         /\ a.order # NoId => \A x \in d.actions : x.args.order # a.order
         /\ a.slot # NoId =>
              \A x \in d.actions : ~(x.customer = c /\ x.args.slot = a.slot)
<1>1. CASE IsBooking(a)
  <2>1. \A x \in d.actions : ~(x.customer = c /\ x.args.slot = a.slot)
    BY <1>1 DEF Registered
  <2> QED
    BY <1>1, <2>1, ArgsKinds
<1>2. CASE ~IsBooking(a)
  <2>1. \A x \in d.actions : x.args.order # a.order
    BY <1>2 DEF Registered, OrderActions
  <2> QED
    BY <1>2, <2>1, ArgsKinds
<1> QED
  BY <1>1, <1>2

(* The main step: a legal action leaves stock, bookings and the action      *)
(* table in agreement and keeps every uniqueness rule.                      *)
LEMMA EffectConsistent ==
  ASSUME NEW d \in Database, NEW c \in Customers, NEW a \in Args,
         Verdict(d, c, a) = "go", Consistent(d)
  PROVE  Consistent(Effect(d, c, a))
<1> DEFINE e == Effect(d, c, a)
           new == [customer |-> c, args |-> a]
<1>1. /\ e.actions = d.actions \cup {new}
      /\ e.revision = d.revision + 1
      /\ e.stock = IF IsExchange(a) THEN [d.stock EXCEPT ![a.sku] = @ - 1] ELSE d.stock
      /\ e.booked = IF IsBooking(a) THEN [d.booked EXCEPT ![a.slot] = @ + 1] ELSE d.booked
      /\ IsExchange(a) => d.stock[a.sku] > 0
      /\ IsBooking(a) => d.booked[a.slot] < Capacity[a.slot]
  BY EffectFields
<1>2. /\ ~NotOwned(c, a) /\ ~Ineligible(a) /\ ~Registered(d, c, a)
  BY VerdictGo
<1>3. /\ new \notin d.actions
      /\ a.order # NoId => \A x \in d.actions : x.args.order # a.order
      /\ a.slot # NoId => \A x \in d.actions : ~(x.customer = c /\ x.args.slot = a.slot)
  BY <1>2, EffectIsNew
<1>4. IsFiniteSet(d.actions) /\ d.revision = Cardinality(d.actions)
  BY DEF Consistent
<1>5. d.stock \in [Products -> Nat] /\ d.booked \in [Slots -> Nat]
  BY DEF Database
<1> HIDE DEF e, new
<1>6. IsFiniteSet(e.actions) /\ e.revision = Cardinality(e.actions)
  <2>1. IsFiniteSet(d.actions \cup {new})
        /\ Cardinality(d.actions \cup {new}) = Cardinality(d.actions) + 1
    BY <1>3, <1>4, FS_AddElement
  <2> QED
    BY <1>1, <1>4, <2>1
<1>7. StockAccounted(e)
  <2> SUFFICES ASSUME NEW p \in Products
               PROVE  e.stock[p] + Cardinality(ExchangesOf(e, p)) = InitStock[p]
    BY DEF StockAccounted
  <2>1. d.stock[p] + Cardinality(ExchangesOf(d, p)) = InitStock[p]
    BY DEF Consistent, StockAccounted
  <2>2. IsFiniteSet(ExchangesOf(d, p)) /\ Cardinality(ExchangesOf(d, p)) \in Nat
    BY <1>4, FS_Subset, FS_CardinalityType DEF ExchangesOf
  <2>3. CASE IsExchange(a) /\ a.sku = p
    <3>1. ExchangesOf(e, p) = ExchangesOf(d, p) \cup {new}
      BY <1>1, <2>3 DEF ExchangesOf, new
    <3>2. new \notin ExchangesOf(d, p)
      BY <1>3 DEF ExchangesOf
    <3>3. Cardinality(ExchangesOf(e, p)) = Cardinality(ExchangesOf(d, p)) + 1
      BY <3>1, <3>2, <2>2, FS_AddElement
    <3>4. e.stock[p] = d.stock[p] - 1 /\ d.stock[p] \in Nat
      BY <1>1, <1>5, <2>3
    <3> QED
      BY <2>1, <2>2, <3>3, <3>4
  <2>4. CASE ~(IsExchange(a) /\ a.sku = p)
    <3>1. ExchangesOf(e, p) = ExchangesOf(d, p)
      BY <1>1, <2>4 DEF ExchangesOf, new
    <3>2. e.stock[p] = d.stock[p]
      BY <1>1, <1>5, <2>4
    <3> QED
      BY <2>1, <3>1, <3>2
  <2> QED
    BY <2>3, <2>4
<1>8. BookingsAccounted(e)
  <2> SUFFICES ASSUME NEW t \in Slots
               PROVE  /\ e.booked[t] = Cardinality(BookingsOf(e, t))
                      /\ e.booked[t] <= Capacity[t]
    BY DEF BookingsAccounted
  <2>1. /\ d.booked[t] = Cardinality(BookingsOf(d, t))
        /\ d.booked[t] <= Capacity[t]
    BY DEF Consistent, BookingsAccounted
  <2>2. IsFiniteSet(BookingsOf(d, t))
    BY <1>4, FS_Subset DEF BookingsOf
  <2>3. CASE IsBooking(a) /\ a.slot = t
    <3>1. BookingsOf(e, t) = BookingsOf(d, t) \cup {new}
      BY <1>1, <2>3 DEF BookingsOf, new
    <3>2. new \notin BookingsOf(d, t)
      BY <1>3 DEF BookingsOf
    <3>3. Cardinality(BookingsOf(e, t)) = Cardinality(BookingsOf(d, t)) + 1
      BY <3>1, <3>2, <2>2, FS_AddElement
    <3>4. e.booked[t] = d.booked[t] + 1
      BY <1>1, <1>5, <2>3
    <3>5. Capacity[t] \in Nat /\ d.booked[t] \in Nat /\ d.booked[t] < Capacity[t]
      BY <1>1, <1>5, <2>3, DomainAssumption DEF DomainAssumption
    <3> QED
      BY <2>1, <3>3, <3>4, <3>5
  <2>4. CASE ~(IsBooking(a) /\ a.slot = t)
    <3>1. BookingsOf(e, t) = BookingsOf(d, t)
      BY <1>1, <2>4 DEF BookingsOf, new
    <3>2. e.booked[t] = d.booked[t]
      BY <1>1, <1>5, <2>4
    <3> QED
      BY <2>1, <3>1, <3>2
  <2> QED
    BY <2>3, <2>4
<1>9. OneActionPerOrder(e)
  BY <1>1, <1>3 DEF Consistent, OneActionPerOrder, new
<1>10. OneBookingPerCustomer(e)
  BY <1>1, <1>3 DEF Consistent, OneBookingPerCustomer, new
<1>11. OnlyOwnersAct(e)
  <2>1. a.order # NoId => Owner[a.order] = c /\ a.order \in Eligible
    BY <1>2, ArgsKinds DEF NotOwned, Ineligible
  <2> QED
    BY <1>1, <2>1 DEF Consistent, OnlyOwnersAct, new
<1> QED
  BY <1>6, <1>7, <1>8, <1>9, <1>10, <1>11 DEF Consistent, e
=============================================================================
