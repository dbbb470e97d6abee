------------------------------- MODULE Domain -------------------------------
(***************************************************************************)
(* The store's tables and business rules (talabak/domain.py), as operators *)
(* over a database value.  The statement-level model (Store), the abstract *)
(* one (Ledger) and the pipeline model are all written with them.          *)
(*                                                                         *)
(* Abstraction.  An identifier without a row behaves exactly like one the  *)
(* caller may not use, so it needs no value of its own: an unknown order   *)
(* has Owner[o] = NoId, an unknown product no stock, an unknown slot no    *)
(* capacity.  Dates and conditions are compared with the policy of the     *)
(* fixture and a clock fixed at construction, hence the constant sets      *)
(* Eligible and FutureSlots.                                               *)
(***************************************************************************)
EXTENDS Naturals, FiniteSets

CONSTANTS
  Customers,    (* customer identifiers                                    *)
  Orders,       (* order identifiers a message can name                    *)
  Products,     (* SKUs a message can name                                 *)
  Slots,        (* appointment slots a message can name                    *)
  Reasons,      (* free-text reasons, as far as they differ                *)
  NoId,         (* SQL NULL and Python None                                *)
  Owner,        (* orders.customer_id                                      *)
  Sku,          (* orders.sku                                              *)
  Price,        (* products.price                                          *)
  Eligible,     (* orders that satisfy the return policy today             *)
  FutureSlots,  (* slots that start after today                            *)
  InitStock,    (* products.stock in the fixture                           *)
  Capacity      (* slots.capacity; every slot starts with booked = 0       *)

ASSUME DomainAssumption ==
  /\ NoId \notin Customers \cup Orders \cup Products \cup Slots \cup Nat
  /\ Owner \in [Orders -> Customers \cup {NoId}]
  /\ Sku \in [Orders -> Products]
  /\ Price \in [Products -> Nat]
  /\ Eligible \subseteq Orders
  /\ FutureSlots \subseteq Slots
  /\ InitStock \in [Products -> Nat]
  /\ Capacity \in [Slots -> Nat]

-----------------------------------------------------------------------------
(* Arguments of the two side-effect tools.  The tool is told by the kind.   *)
ReturnArgs   == [kind: {"return"}, order: Orders, sku: {NoId}, slot: {NoId}, reason: Reasons]
ExchangeArgs == [kind: {"exchange"}, order: Orders, sku: Products, slot: {NoId}, reason: Reasons]
BookingArgs  == [kind: {"appointment"}, order: {NoId}, sku: {NoId}, slot: Slots, reason: Reasons]
Args == ReturnArgs \cup ExchangeArgs \cup BookingArgs

IsExchange(a) == a.kind = "exchange"
IsBooking(a)  == a.kind = "appointment"

(* A row of the actions table; the idempotency key is a digest of the whole *)
(* row, so two rows have one key exactly when they are equal.               *)
Action == [customer: Customers, args: Args]

Database == [stock: [Products -> Nat], booked: [Slots -> Nat],
             actions: SUBSET Action, revision: Nat]

FixtureDatabase ==
  [stock |-> InitStock, booked |-> [x \in Slots |-> 0], actions |-> {}, revision |-> 0]

-----------------------------------------------------------------------------
(* What the handlers check before they propose or execute an action.        *)
NotOwned(c, a) == ~IsBooking(a) /\ Owner[a.order] # c

Ineligible(a) == ~IsBooking(a) /\ a.order \notin Eligible

OrderActions(d, o) == {x \in d.actions : x.args.order = o}

(* Slip: the booking handler forgets to look for an earlier booking.        *)
Registered_OrdersOnly(d, c, a) == ~IsBooking(a) /\ OrderActions(d, a.order) # {}

Registered(d, c, a) ==
  IF IsBooking(a)
  THEN \E x \in d.actions : x.customer = c /\ x.args.slot = a.slot
  ELSE OrderActions(d, a.order) # {}

(* Slip: a replacement that is sold out passes the stock check.             *)
Unavailable_SoldOutPasses(d, a) ==
  \/ IsExchange(a) /\ Price[a.sku] # Price[Sku[a.order]]
  \/ /\ IsBooking(a)
     /\ d.booked[a.slot] >= Capacity[a.slot] \/ a.slot \notin FutureSlots

Unavailable(d, a) ==
  \/ /\ IsExchange(a)
     /\ d.stock[a.sku] < 1 \/ Price[a.sku] # Price[Sku[a.order]]
  \/ /\ IsBooking(a)
     /\ d.booked[a.slot] >= Capacity[a.slot] \/ a.slot \notin FutureSlots

(* The first check that fails decides the reply; "go" when none does.       *)
Verdict(d, c, a) ==
  CASE NotOwned(c, a) -> "not_authorized"
    [] ~NotOwned(c, a) /\ Ineligible(a) -> "policy_denied"
    [] ~NotOwned(c, a) /\ ~Ineligible(a) /\ Registered(d, c, a) -> "already_created"
    [] ~NotOwned(c, a) /\ ~Ineligible(a) /\ ~Registered(d, c, a) /\ Unavailable(d, a)
         -> "unavailable"
    [] OTHER -> "go"

(* The records a confirmation is bound to besides the arguments.            *)
Fingerprint == [original: Nat \cup {NoId}, replacement: Nat \cup {NoId},
                booked: Nat \cup {NoId}, open: SUBSET Action]

(* Slip: the whole actions table is hashed, as before ADR-012.              *)
action_fingerprint_WholeTable(d, a) ==
  [original    |-> IF IsBooking(a) THEN NoId ELSE d.stock[Sku[a.order]],
   replacement |-> IF IsExchange(a) THEN d.stock[a.sku] ELSE NoId,
   booked      |-> IF IsBooking(a) THEN d.booked[a.slot] ELSE NoId,
   open        |-> d.actions]

action_fingerprint(d, a) ==
  [original    |-> IF IsBooking(a) THEN NoId ELSE d.stock[Sku[a.order]],
   replacement |-> IF IsExchange(a) THEN d.stock[a.sku] ELSE NoId,
   booked      |-> IF IsBooking(a) THEN d.booked[a.slot] ELSE NoId,
   open        |-> IF IsBooking(a) THEN {} ELSE OrderActions(d, a.order)]

-----------------------------------------------------------------------------
(* The statements that write, each on a database value.                     *)
BookSlot(d, a) ==
  IF d.booked[a.slot] < Capacity[a.slot]
  THEN [d EXCEPT !.booked[a.slot] = @ + 1]
  ELSE d

InsertAction(d, c, a) ==
  [d EXCEPT !.actions = @ \cup {[customer |-> c, args |-> a]}, !.revision = @ + 1]

TakeStock(d, a) ==
  IF d.stock[a.sku] > 0
  THEN [d EXCEPT !.stock[a.sku] = @ - 1]
  ELSE d

(* An action together with everything it does to the other tables.          *)
Effect(d, c, a) ==
  LET inserted == InsertAction(d, c, a) IN
  IF IsBooking(a) THEN BookSlot(inserted, a)
  ELSE IF IsExchange(a) THEN TakeStock(inserted, a)
  ELSE inserted

(* The two unique indices on actions.                                       *)
UniqueIndicesAllow(d, c, a) ==
  /\ a.order # NoId => OrderActions(d, a.order) = {}
  /\ a.slot # NoId => ~\E x \in d.actions : x.customer = c /\ x.args.slot = a.slot

-----------------------------------------------------------------------------
(* What a database must satisfy.                                            *)
ExchangesOf(d, p) == {x \in d.actions : IsExchange(x.args) /\ x.args.sku = p}
BookingsOf(d, t)  == {x \in d.actions : IsBooking(x.args) /\ x.args.slot = t}

StockAccounted(d) ==
  \A p \in Products : d.stock[p] + Cardinality(ExchangesOf(d, p)) = InitStock[p]

BookingsAccounted(d) ==
  \A t \in Slots : /\ d.booked[t] = Cardinality(BookingsOf(d, t))
                   /\ d.booked[t] <= Capacity[t]

OneActionPerOrder(d) ==
  \A x, y \in d.actions : x.args.order # NoId /\ x.args.order = y.args.order => x = y

OneBookingPerCustomer(d) ==
  \A x, y \in d.actions :
    x.args.slot # NoId /\ x.args.slot = y.args.slot /\ x.customer = y.customer => x = y

OnlyOwnersAct(d) ==
  \A x \in d.actions : x.args.order # NoId =>
    Owner[x.args.order] = x.customer /\ x.args.order \in Eligible

Consistent(d) ==
  /\ IsFiniteSet(d.actions)
  /\ d.revision = Cardinality(d.actions)
  /\ StockAccounted(d)
  /\ BookingsAccounted(d)
  /\ OneActionPerOrder(d)
  /\ OneBookingPerCustomer(d)
  /\ OnlyOwnersAct(d)
=============================================================================
