---------------------------- MODULE StoreProofs -----------------------------
(***************************************************************************)
(* Store implements Ledger and keeps its promises, for any number of       *)
(* sessions, connections, orders, products, slots and messages.            *)
(***************************************************************************)
EXTENDS Store, DomainProofs

-----------------------------------------------------------------------------
(* Digests and the single statements keep databases and digests well typed. *)

LEMMA DigestType ==
  ASSUME NEW s \in Sessions, authorize(s), NEW d \in Database, NEW a \in Args
  PROVE  DigestFor(s, d, a) \in Digested
BY FingerprintType, StoreAssumption DEF DigestFor, Digested, authorize, StoreAssumption

LEMMA AuthorizedCustomer ==
  ASSUME NEW s \in Sessions, authorize(s)
  PROVE  CustomerOf[s] \in Customers
BY StoreAssumption DEF authorize, StoreAssumption

LEMMA WritesType ==
  ASSUME NEW d \in Database, NEW c \in Customers, NEW a \in Args
  PROVE  /\ IsBooking(a) => BookSlot(d, a) \in Database
         /\ IsExchange(a) => TakeStock(d, a) \in Database
         /\ InsertAction(d, c, a) \in Database
<1>1. ASSUME IsBooking(a) PROVE BookSlot(d, a) \in Database
  <2>1. a.slot \in Slots /\ d.booked \in [Slots -> Nat]
    BY <1>1, ArgsKinds DEF Database
  <2>2. [d.booked EXCEPT ![a.slot] = @ + 1] \in [Slots -> Nat]
    BY <2>1
  <2> QED
    BY <2>1, <2>2 DEF BookSlot, Database
<1>2. ASSUME IsExchange(a) PROVE TakeStock(d, a) \in Database
  <2>1. a.sku \in Products /\ d.stock \in [Products -> Nat]
    BY <1>2, ArgsKinds DEF Database
  <2>2. d.stock[a.sku] > 0 => [d.stock EXCEPT ![a.sku] = @ - 1] \in [Products -> Nat]
    BY <2>1
  <2> QED
    BY <2>1, <2>2 DEF TakeStock, Database
<1>3. InsertAction(d, c, a) \in Database
  BY InsertFields
<1> QED
  BY <1>1, <1>2, <1>3

(* Booking before or after inserting the row makes no difference.           *)
LEMMA BookThenInsert ==
  ASSUME NEW d \in Database, NEW c \in Customers, NEW a \in Args, IsBooking(a)
  PROVE  /\ InsertAction(BookSlot(d, a), c, a) = Effect(d, c, a)
         /\ BookSlot(d, a).actions = d.actions
<1> QED
  BY DEF Effect, InsertAction, BookSlot, Database

-----------------------------------------------------------------------------
(* Initially the inductive invariant holds.                                 *)

LEMMA InitIInv == Init => IInv
<1> SUFFICES ASSUME Init PROVE IInv
  OBVIOUS
<1> USE DEF Init
<1>1. TypeOK
  BY FixtureConsistent DEF TypeOK, Places, InTxn, Codes
<1>2. CallInv
  BY DEF CallInv, InCall, InTxn
<1>3. TransactionsExclude
  BY DEF TransactionsExclude, InTxn
<1>4. ConfirmInv
  BY DEF ConfirmInv
<1>5. WorkInv
  BY DEF WorkInv
<1> QED
  BY <1>1, <1>2, <1>3, <1>4, <1>5 DEF IInv

-----------------------------------------------------------------------------
(* Every step keeps every part of it.                                       *)

LEMMA VerdictCodes ==
  ASSUME NEW d, NEW c, NEW a, Verdict(d, c, a) # "go"
  PROVE  Verdict(d, c, a) \in Codes \ {"created", "none"}
BY DEF Verdict, Codes

(* A session inside a transaction, or about to begin one, is the only one   *)
(* of its Store; a session inside a transaction is the only one of all.     *)
LEMMA Exclusion ==
  ASSUME TransactionsExclude, NEW s \in Sessions, NEW r \in Sessions, s # r,
         pc[s] \in InTxn \cup {"begin"}
  PROVE  /\ pc[r] \in InTxn \cup {"begin"} => ConnOf[r] # ConnOf[s]
         /\ pc[s] \in InTxn => pc[r] \notin InTxn
BY DEF TransactionsExclude

LEMMA TypeStep == IInv /\ [Next]_vars => TypeOK'
<1> SUFFICES ASSUME IInv, [Next]_vars PROVE TypeOK'
  OBVIOUS
<1>0. TypeOK /\ CallInv /\ WorkInv
  BY DEF IInv
<1> USE <1>0 DEF TypeOK, Places, InTxn
<1>1. ASSUME NEW s \in Sessions, NEW confirms \in BOOLEAN, begin_turn(s, confirms)
      PROVE  TypeOK'
  <2>1. Restores(s, confirms) =>
          pending[s].digest \in Digested /\ pending[s].digest.args \in Args
    BY DEF Restores, Pending, Digested
  <2> QED
    BY <1>1, <2>1 DEF begin_turn, Codes
<1>2. ASSUME NEW s \in Sessions, NEW a \in Args, CallTool(s, a)
      PROVE  TypeOK'
  BY <1>2 DEF CallTool, session
<1>3. ASSUME NEW s \in Sessions, handoff_to_support(s)
      PROVE  TypeOK'
  BY <1>3 DEF handoff_to_support, Codes
<1>4. ASSUME NEW s \in Sessions, EndWithoutAction(s)
      PROVE  TypeOK'
  BY <1>4 DEF EndWithoutAction, session
<1>5. ASSUME NEW s \in Sessions, EnterStore(s)
      PROVE  TypeOK'
  <2>1. ConnOf[s] \in Connections
    BY StoreAssumption DEF StoreAssumption
  <2> QED
    BY <1>5, <2>1 DEF EnterStore, session, Codes
<1>6. ASSUME NEW s \in Sessions, BeginImmediate(s)
      PROVE  TypeOK'
  BY <1>6, StoreAssumption DEF BeginImmediate, session, StoreAssumption
<1>7. ASSUME NEW s \in Sessions, CheckRequest(s)
      PROVE  TypeOK'
  BY <1>7, VerdictCodes DEF CheckRequest, session
<1>8. ASSUME NEW s \in Sessions, propose_or_confirm(s)
      PROVE  TypeOK'
  <2>1. args[s] \in Args /\ authorize(s)
    BY <1>8 DEF CallInv, InCall, propose_or_confirm
  <2>2. DigestFor(s, work, args[s]) \in Digested
    BY <2>1, DigestType
  <2>3. [digest |-> DigestFor(s, work, args[s]), turn |-> turn[s]] \in Pending
    BY <2>2 DEF Pending
  <2> QED
    BY <1>8, <2>3 DEF propose_or_confirm, Codes
<1>9. ASSUME NEW s \in Sessions, UpdateSlot(s)
      PROVE  TypeOK'
  <2>1. args[s] \in Args /\ authorize(s) /\ IsBooking(args[s])
    BY <1>9 DEF CallInv, InCall, UpdateSlot, WorkInv
  <2>2. BookSlot(work, args[s]) \in Database
    BY <2>1, WritesType, AuthorizedCustomer
  <2> QED
    BY <1>9, <2>2 DEF UpdateSlot, session
<1>10. ASSUME NEW s \in Sessions, persist(s)
       PROVE  TypeOK'
  <2>1. args[s] \in Args /\ authorize(s)
    BY <1>10 DEF CallInv, InCall, persist
  <2>2. InsertAction(work, CustomerOf[s], args[s]) \in Database
    BY <2>1, WritesType, AuthorizedCustomer
  <2> QED
    BY <1>10, <2>2 DEF persist, Codes
<1>11. ASSUME NEW s \in Sessions, UpdateStock(s)
       PROVE  TypeOK'
  <2>1. args[s] \in Args /\ authorize(s) /\ IsExchange(args[s])
    BY <1>11 DEF CallInv, InCall, UpdateStock, WorkInv
  <2>2. TakeStock(work, args[s]) \in Database
    BY <2>1, WritesType, AuthorizedCustomer
  <2> QED
    BY <1>11, <2>2 DEF UpdateStock, session
<1>12. ASSUME NEW s \in Sessions, Commit(s)
       PROVE  TypeOK'
  BY <1>12 DEF Commit, session
<1>13. ASSUME NEW s \in Sessions, Fail(s)
       PROVE  TypeOK'
  BY <1>13 DEF Fail, Rollback, Codes
<1>14. ASSUME NEW c \in Connections, Crash(c)
       PROVE  TypeOK'
  BY <1>14 DEF Crash, Rollback, Codes
<1>15. CASE UNCHANGED vars
  BY <1>15 DEF vars
<1> QED
  BY <1>1, <1>2, <1>3, <1>4, <1>5, <1>6, <1>7, <1>8, <1>9, <1>10, <1>11, <1>12, <1>13,
     <1>14, <1>15 DEF Next, Turn, Statement

LEMMA CallStep == IInv /\ [Next]_vars => CallInv'
<1> SUFFICES ASSUME IInv, [Next]_vars PROVE CallInv'
  OBVIOUS
<1>0. TypeOK /\ CallInv
  BY DEF IInv
<1> USE <1>0 DEF TypeOK, CallInv, InCall, InTxn, authorize
<1>1. ASSUME NEW s \in Sessions, NEW confirms \in BOOLEAN, begin_turn(s, confirms)
      PROVE  CallInv'
  <2>1. Restores(s, confirms) => pending[s].digest.args \in Args
    BY DEF Restores, Pending, Digested
  <2> QED
    BY <1>1, <2>1 DEF begin_turn
<1>2. ASSUME NEW s \in Sessions, NEW a \in Args, CallTool(s, a)
      PROVE  CallInv'
  BY <1>2 DEF CallTool, session
<1>3. ASSUME NEW s \in Sessions, handoff_to_support(s) \/ EndWithoutAction(s)
      PROVE  CallInv'
  BY <1>3 DEF handoff_to_support, EndWithoutAction, session
<1>4. ASSUME NEW s \in Sessions, EnterStore(s)
      PROVE  CallInv'
  BY <1>4 DEF EnterStore, session
<1>5. ASSUME NEW s \in Sessions, Statement(s)
      PROVE  CallInv'
  <2>1. CASE Commit(s)
    BY <2>1 DEF Commit, session
  <2>2. CASE ~Commit(s)
    BY <1>5, <2>2 DEF Statement, BeginImmediate, CheckRequest, propose_or_confirm, UpdateSlot,
                      persist, UpdateStock, session
  <2> QED
    BY <2>1, <2>2
<1>6. ASSUME NEW s \in Sessions, Fail(s)
      PROVE  CallInv'
  BY <1>6 DEF Fail
<1>7. ASSUME NEW c \in Connections, Crash(c)
      PROVE  CallInv'
  BY <1>7 DEF Crash
<1>8. CASE UNCHANGED vars
  BY <1>8 DEF vars
<1> QED
  BY <1>1, <1>2, <1>3, <1>4, <1>5, <1>6, <1>7, <1>8 DEF Next, Turn

LEMMA LockStep == IInv /\ [Next]_vars => TransactionsExclude'
<1> SUFFICES ASSUME IInv, [Next]_vars PROVE TransactionsExclude'
  OBVIOUS
<1>0. TypeOK /\ TransactionsExclude
  BY DEF IInv
<1> USE <1>0, StoreAssumption DEF TypeOK, InTxn, StoreAssumption
<1>1. ASSUME NEW s \in Sessions, Turn(s)
      PROVE  TransactionsExclude'
  <2>1. ASSUME NEW confirms \in BOOLEAN, begin_turn(s, confirms)
        PROVE  TransactionsExclude'
    BY <2>1 DEF begin_turn, TransactionsExclude
  <2>2. ASSUME NEW a \in Args, CallTool(s, a)
        PROVE  TransactionsExclude'
    BY <2>2 DEF CallTool, TransactionsExclude
  <2>3. CASE handoff_to_support(s) \/ EndWithoutAction(s)
    BY <2>3 DEF handoff_to_support, EndWithoutAction, TransactionsExclude
  <2>4. CASE EnterStore(s)
    BY <2>4 DEF EnterStore, TransactionsExclude
  <2> QED
    BY <1>1, <2>1, <2>2, <2>3, <2>4 DEF Turn
<1>2. ASSUME NEW s \in Sessions, BeginImmediate(s)
      PROVE  TransactionsExclude'
  BY <1>2 DEF BeginImmediate, TransactionsExclude
<1>3. ASSUME NEW s \in Sessions,
             \/ CheckRequest(s) \/ propose_or_confirm(s) \/ UpdateSlot(s)
             \/ persist(s) \/ UpdateStock(s)
      PROVE  TransactionsExclude'
  <2>1. /\ pc[s] \in InTxn /\ pc' = [pc EXCEPT ![s] = pc'[s]] /\ pc'[s] \in InTxn
        /\ UNCHANGED <<txn, lock>>
    BY <1>3 DEF CheckRequest, propose_or_confirm, UpdateSlot, persist, UpdateStock
  <2> QED
    BY <2>1 DEF TransactionsExclude
<1>4. ASSUME NEW s \in Sessions, Commit(s)
      PROVE  TransactionsExclude'
  <2>1. \A r \in Sessions : r # s /\ pc[r] \in InTxn \cup {"begin"} =>
          ConnOf[r] # ConnOf[s] /\ pc[r] \notin InTxn
    BY <1>4, Exclusion DEF Commit
  <2> QED
    BY <1>4, <2>1 DEF Commit, TransactionsExclude
<1>5. ASSUME NEW s \in Sessions, Fail(s)
      PROVE  TransactionsExclude'
  <2>1. \A r \in Sessions : r # s /\ pc[r] \in InTxn \cup {"begin"} => ConnOf[r] # ConnOf[s]
    BY <1>5, Exclusion DEF Fail
  <2>2. \A r \in Sessions : r # s /\ pc[r] \in InTxn => txn' = txn
    BY <1>5, <2>1 DEF Fail, Rollback, TransactionsExclude
  <2>3. txn' # NoConn =>
          txn' = txn /\ txn # ConnOf[s] /\ \E r \in Sessions : pc[r] \in InTxn /\ ConnOf[r] = txn
    BY <1>5 DEF Fail, Rollback, TransactionsExclude
  <2> QED
    BY <1>5, <2>1, <2>2, <2>3 DEF Fail, TransactionsExclude
<1>6. ASSUME NEW c \in Connections, Crash(c)
      PROVE  TransactionsExclude'
  BY <1>6 DEF Crash, Rollback, TransactionsExclude
<1>7. CASE UNCHANGED vars
  BY <1>7 DEF vars, TransactionsExclude
<1> QED
  BY <1>1, <1>2, <1>3, <1>4, <1>5, <1>6, <1>7 DEF Next, Statement

LEMMA ConfirmStep == IInv /\ [Next]_vars => ConfirmInv'
<1> SUFFICES ASSUME IInv, [Next]_vars PROVE ConfirmInv'
  OBVIOUS
<1>0. TypeOK /\ CallInv /\ TransactionsExclude /\ ConfirmInv /\ WorkInv
  BY DEF IInv
<1> USE <1>0 DEF TypeOK, InTxn
<1>1. ASSUME NEW s \in Sessions, NEW confirms \in BOOLEAN, begin_turn(s, confirms)
      PROVE  ConfirmInv'
  <2>1. Restores(s, confirms) => pending[s] # NoProposal /\ pending[s].turn = turn[s]
    BY DEF Restores
  <2> QED
    BY <1>1, <2>1 DEF begin_turn, ConfirmInv, DigestFor
<1>2. ASSUME NEW s \in Sessions, NEW a \in Args, CallTool(s, a)
      PROVE  ConfirmInv'
  BY <1>2 DEF CallTool, session, ConfirmInv, DigestFor
<1>3. ASSUME NEW s \in Sessions,
             handoff_to_support(s) \/ EndWithoutAction(s) \/ EnterStore(s) \/ BeginImmediate(s)
      PROVE  ConfirmInv'
  BY <1>3 DEF handoff_to_support, EndWithoutAction, EnterStore, BeginImmediate, session,
              ConfirmInv, DigestFor
<1>4. ASSUME NEW s \in Sessions, CheckRequest(s) \/ UpdateSlot(s) \/ UpdateStock(s)
      PROVE  ConfirmInv'
  BY <1>4 DEF CheckRequest, UpdateSlot, UpdateStock, session, ConfirmInv, DigestFor
<1>5. ASSUME NEW s \in Sessions, propose_or_confirm(s)
      PROVE  ConfirmInv'
  <2>1. work = db
    BY <1>5 DEF propose_or_confirm, WorkInv
  <2> QED
    BY <1>5, <2>1 DEF propose_or_confirm, ConfirmInv, DigestFor
<1>6. ASSUME NEW s \in Sessions, persist(s)
      PROVE  ConfirmInv'
  BY <1>6 DEF persist, ConfirmInv, DigestFor
<1>7. ASSUME NEW s \in Sessions, Commit(s)
      PROVE  ConfirmInv'
  <2>1. \A r \in Sessions : r # s => pc[r] \notin InTxn
    BY <1>7, Exclusion DEF Commit
  <2> QED
    BY <1>7, <2>1 DEF Commit, session, ConfirmInv, DigestFor
<1>8. ASSUME NEW s \in Sessions, Fail(s)
      PROVE  ConfirmInv'
  BY <1>8 DEF Fail, ConfirmInv, DigestFor
<1>9. ASSUME NEW c \in Connections, Crash(c)
      PROVE  ConfirmInv'
  BY <1>9 DEF Crash, ConfirmInv, DigestFor
<1>10. CASE UNCHANGED vars
  BY <1>10 DEF vars, ConfirmInv, DigestFor
<1> QED
  BY <1>1, <1>2, <1>3, <1>4, <1>5, <1>6, <1>7, <1>8, <1>9, <1>10 DEF Next, Turn, Statement

(* The working copy of a transaction, statement by statement.               *)
LEMMA WorkStep == IInv /\ [Next]_vars => WorkInv'
<1> SUFFICES ASSUME IInv, [Next]_vars PROVE WorkInv'
  OBVIOUS
<1>0. TypeOK /\ CallInv /\ TransactionsExclude /\ WorkInv
  BY DEF IInv
<1> USE <1>0 DEF TypeOK, InTxn
<1>1. ASSUME NEW s \in Sessions, Turn(s)
      PROVE  WorkInv'
  <2>1. /\ UNCHANGED <<db, work>>
        /\ \A r \in Sessions : r # s => pc'[r] = pc[r] /\ args'[r] = args[r]
        /\ pc'[s] \notin InTxn
    BY <1>1 DEF Turn, begin_turn, CallTool, handoff_to_support, EndWithoutAction, EnterStore,
                session
  <2> QED
    BY <2>1 DEF WorkInv
<1>2. ASSUME NEW s \in Sessions, BeginImmediate(s)
      PROVE  WorkInv'
  <2>1. \A r \in Sessions : r # s => pc[r] \notin InTxn
    <3>1. \A r \in Sessions : ConnOf[r] # NoConn
      BY StoreAssumption DEF StoreAssumption
    <3>2. txn = NoConn
      BY <1>2 DEF BeginImmediate
    <3> QED
      BY <3>1, <3>2 DEF TransactionsExclude
  <2> QED
    BY <1>2, <2>1 DEF BeginImmediate, session, WorkInv
<1>3. ASSUME NEW s \in Sessions, CheckRequest(s)
      PROVE  WorkInv'
  BY <1>3 DEF CheckRequest, session, WorkInv
<1>4. ASSUME NEW s \in Sessions, propose_or_confirm(s)
      PROVE  WorkInv'
  BY <1>4 DEF propose_or_confirm, WorkInv
<1>5. ASSUME NEW s \in Sessions, UpdateSlot(s)
      PROVE  WorkInv'
  <2>1. \A r \in Sessions : r # s => pc[r] \notin InTxn
    BY <1>5, Exclusion DEF UpdateSlot
  <2> QED
    BY <1>5, <2>1 DEF UpdateSlot, session, WorkInv
<1>6. ASSUME NEW s \in Sessions, persist(s)
      PROVE  WorkInv'
  <2> DEFINE a == args[s]
             c == CustomerOf[s]
  <2>1. \A r \in Sessions : r # s => pc[r] \notin InTxn
    BY <1>6, Exclusion DEF persist
  <2>2. a \in Args /\ c \in Customers
    BY <1>6, AuthorizedCustomer DEF persist, CallInv, InCall
  <2>3. /\ Verdict(db, c, a) = "go"
        /\ work = IF IsBooking(a) THEN BookSlot(db, a) ELSE db
    BY <1>6 DEF persist, WorkInv
  <2>4. [customer |-> c, args |-> a] \notin work.actions
    BY <2>2, <2>3, VerdictGo, EffectIsNew, BookThenInsert
  <2>5. work' = InsertAction(work, c, a)
    BY <1>6, <2>4 DEF persist
  <2>6. CASE IsExchange(a)
    <3>1. ~IsBooking(a)
      BY <2>2, <2>6, ArgsKinds
    <3> QED
      BY <1>6, <2>1, <2>3, <2>4, <2>5, <2>6, <3>1 DEF persist, WorkInv
  <2>7. CASE ~IsExchange(a)
    <3>1. work' = Effect(db, c, a)
      BY <2>2, <2>3, <2>5, <2>7, BookThenInsert DEF Effect
    <3> QED
      BY <1>6, <2>1, <2>3, <2>4, <2>7, <3>1 DEF persist, WorkInv
  <2> QED
    BY <2>6, <2>7
<1>7. ASSUME NEW s \in Sessions, UpdateStock(s)
      PROVE  WorkInv'
  <2>1. \A r \in Sessions : r # s => pc[r] \notin InTxn
    BY <1>7, Exclusion DEF UpdateStock
  <2>2. args[s] \in Args
    BY <1>7 DEF UpdateStock, CallInv, InCall
  <2>3. work' = Effect(db, CustomerOf[s], args[s])
    BY <1>7, <2>2, ArgsKinds DEF UpdateStock, WorkInv, Effect
  <2> QED
    BY <1>7, <2>1, <2>3 DEF UpdateStock, session, WorkInv
<1>8. ASSUME NEW s \in Sessions, Commit(s)
      PROVE  WorkInv'
  <2>1. \A r \in Sessions : r # s => pc[r] \notin InTxn
    BY <1>8, Exclusion DEF Commit
  <2> QED
    BY <1>8, <2>1 DEF Commit, session, WorkInv
<1>9. ASSUME NEW s \in Sessions, Fail(s)
      PROVE  WorkInv'
  <2>1. \A r \in Sessions : r # s /\ pc[r] \in InTxn => ConnOf[r] # ConnOf[s] /\ txn = ConnOf[r]
    BY <1>9, Exclusion DEF Fail, TransactionsExclude
  <2>2. \A r \in Sessions : r # s /\ pc[r] \in InTxn => work' = work
    BY <1>9, <2>1 DEF Fail, Rollback
  <2> QED
    BY <1>9, <2>2 DEF Fail, WorkInv
<1>10. ASSUME NEW c \in Connections, Crash(c)
       PROVE  WorkInv'
  <2>1. \A r \in Sessions : pc'[r] \in InTxn =>
          ConnOf[r] # c /\ pc'[r] = pc[r] /\ args'[r] = args[r] /\ work' = work
    BY <1>10 DEF Crash, Rollback, TransactionsExclude
  <2> QED
    BY <1>10, <2>1 DEF Crash, WorkInv
<1>11. CASE UNCHANGED vars
  BY <1>11 DEF vars, WorkInv
<1> QED
  BY <1>1, <1>2, <1>3, <1>4, <1>5, <1>6, <1>7, <1>8, <1>9, <1>10, <1>11 DEF Next, Statement

-----------------------------------------------------------------------------
(* The theorems.                                                            *)

(* The inductive invariant holds in every reachable state.                  *)
THEOREM StoreInvariant == Spec => []IInv
<1>1. Init => IInv
  BY InitIInv
<1>2. IInv /\ [Next]_vars => IInv'
  BY TypeStep, CallStep, LockStep, ConfirmStep, WorkStep DEF IInv
<1> QED
  BY <1>1, <1>2, PTL DEF Spec

(* Type correctness of the statement-level store.                           *)
THEOREM StoreTypeOK == Spec => []TypeOK
<1>1. IInv => TypeOK
  BY DEF IInv
<1> QED
  BY <1>1, StoreInvariant, PTL

(* One writer at a time, and one session at a time in each Store: the lock  *)
(* and BEGIN IMMEDIATE together exclude, for any number of either.          *)
THEOREM StoreExcludes == Spec => []TransactionsExclude
<1>1. IInv => TransactionsExclude
  BY DEF IInv
<1> QED
  BY <1>1, StoreInvariant, PTL

(* Nothing is written but the action the customer was shown one message     *)
(* earlier, on records that have not changed since.                         *)
THEOREM StoreExecutesWhatWasShown == Spec => []ExecutesWhatWasShown
<1>1. IInv => ExecutesWhatWasShown
  <2> SUFFICES ASSUME IInv, NEW s \in Sessions, pc[s] \in {"slot", "persist"}
               PROVE  /\ pending[s] # NoProposal
                      /\ pending[s].turn + 1 = turn[s]
                      /\ pending[s].digest = DigestFor(s, db, args[s])
                      /\ ~terminal[s]
    BY DEF ExecutesWhatWasShown
  <2>1. confirmed[s] = DigestFor(s, db, args[s]) /\ ~terminal[s]
    BY DEF IInv, ConfirmInv, CallInv
  <2>2. confirmed[s] # NoProposal
    <3>1. authorize(s) /\ args[s] \in Args /\ db \in Database
      BY DEF IInv, CallInv, TypeOK, InCall, InTxn
    <3>2. confirmed[s] \in Digested
      BY <2>1, <3>1, DigestType
    <3> QED
      BY <3>2, StoreAssumption DEF StoreAssumption
  <2> QED
    BY <2>1, <2>2 DEF IInv, ConfirmInv
<1> QED
  BY <1>1, StoreInvariant, PTL

(* The checks in the handlers make every constraint of the schema redundant *)
(* and every conditional UPDATE effective.                                  *)
THEOREM StoreConstraintsNeverFire == Spec => []ConstraintsNeverFire
<1>1. IInv => ConstraintsNeverFire
  <2> SUFFICES ASSUME IInv, NEW s \in Sessions
               PROVE  /\ pc[s] = "slot" => work.booked[args[s].slot] < Capacity[args[s].slot]
                      /\ pc[s] = "persist" => UniqueIndicesAllow(work, CustomerOf[s], args[s])
                      /\ pc[s] = "stock" => work.stock[args[s].sku] > 0
    BY DEF ConstraintsNeverFire
  <2>1. ASSUME pc[s] \in InTxn
        PROVE  args[s] \in Args /\ CustomerOf[s] \in Customers /\ db \in Database
    BY <2>1, AuthorizedCustomer DEF IInv, CallInv, TypeOK, InCall
  <2>2. ASSUME pc[s] = "slot"
        PROVE  work.booked[args[s].slot] < Capacity[args[s].slot]
    <3>1. args[s] \in Args /\ db \in Database
      BY <2>1, <2>2 DEF InTxn
    <3>2. Verdict(db, CustomerOf[s], args[s]) = "go" /\ IsBooking(args[s]) /\ work = db
      BY <2>2 DEF IInv, WorkInv
    <3>3. ~Unavailable(db, args[s]) /\ args[s].slot \in Slots
      BY <3>1, <3>2, VerdictGo, ArgsKinds
    <3>4. db.booked[args[s].slot] \in Nat /\ Capacity[args[s].slot] \in Nat
      BY <3>1, <3>3, DomainAssumption DEF Database, DomainAssumption
    <3> QED
      BY <3>2, <3>3, <3>4 DEF Unavailable
  <2>3. ASSUME pc[s] = "persist"
        PROVE  UniqueIndicesAllow(work, CustomerOf[s], args[s])
    <3>1. ~Registered(db, CustomerOf[s], args[s]) /\ work.actions = db.actions
      BY <2>1, <2>3, VerdictGo, BookThenInsert DEF IInv, WorkInv, InTxn
    <3> QED
      <4>1. args[s] \in Args /\ CustomerOf[s] \in Customers /\ db \in Database
        BY <2>1, <2>3 DEF InTxn
      <4>2. /\ args[s].order # NoId => \A x \in work.actions : x.args.order # args[s].order
            /\ args[s].slot # NoId =>
                 \A x \in work.actions : ~(x.customer = CustomerOf[s] /\ x.args.slot = args[s].slot)
        BY <4>1, <3>1, EffectIsNew
      <4>3. args[s].order # NoId => OrderActions(work, args[s].order) = {}
        BY <4>2 DEF OrderActions
      <4> QED
        BY <4>2, <4>3 DEF UniqueIndicesAllow
  <2>4. ASSUME pc[s] = "stock"
        PROVE  work.stock[args[s].sku] > 0
    <3>1. args[s] \in Args /\ CustomerOf[s] \in Customers /\ db \in Database
      BY <2>1, <2>4 DEF InTxn
    <3>2. /\ Verdict(db, CustomerOf[s], args[s]) = "go"
          /\ IsExchange(args[s])
          /\ work = InsertAction(db, CustomerOf[s], args[s])
      BY <2>4 DEF IInv, WorkInv
    <3>3. ~Unavailable(db, args[s])
      BY <3>2, VerdictGo
    <3>4. work.stock = db.stock
      BY <3>1, <3>2, InsertFields
    <3>5. args[s].sku \in Products
      BY <3>1, <3>2, ArgsKinds
    <3> QED
      BY <3>1, <3>2, <3>3, <3>4, <3>5 DEF Unavailable, Database
  <2> QED
    BY <2>2, <2>3, <2>4
<1> QED
  BY <1>1, StoreInvariant, PTL

(* A step leaves the committed database alone or applies one legal action.  *)
LEMMA DatabaseStep ==
  ASSUME IInv, [Next]_vars
  PROVE  \/ db' = db
         \/ \E c \in Customers, a \in Args : Verdict(db, c, a) = "go" /\ db' = Effect(db, c, a)
<1>1. ASSUME NEW s \in Sessions, Commit(s)
      PROVE  \/ db' = db
             \/ \E c \in Customers, a \in Args :
                  Verdict(db, c, a) = "go" /\ db' = Effect(db, c, a)
  <2>1. args[s] \in Args /\ CustomerOf[s] \in Customers
    BY <1>1, AuthorizedCustomer DEF IInv, CallInv, InCall, InTxn, Commit
  <2> QED
    BY <1>1, <2>1 DEF IInv, WorkInv, Commit
<1>2. ASSUME ~\E s \in Sessions : Commit(s)
      PROVE  db' = db
  BY <1>2 DEF Next, vars, Turn, Statement, begin_turn, CallTool, handoff_to_support,
              EndWithoutAction, EnterStore, BeginImmediate, CheckRequest, propose_or_confirm,
              UpdateSlot, persist, UpdateStock, Fail, Crash
<1> QED
  BY <1>1, <1>2

(* The store implements the ledger: seen from outside, its tables change by *)
(* whole legal actions only, through all interleavings, failures, crashes.  *)
THEOREM StoreImplementsLedger == Spec => LedgerSpec
<1>1. Init => L!Init
  BY DEF Init, L!Init, FixtureDatabase, L!FixtureDatabase
<1>2. ASSUME IInv, [Next]_vars PROVE [L!Next]_db
  <2>1. ASSUME NEW c \in Customers, NEW a \in Args
        PROVE  Verdict(db, c, a) = L!Verdict(db, c, a)
    BY DEF Verdict, NotOwned, Ineligible, Registered, Unavailable, OrderActions, IsBooking, IsExchange,
           L!Verdict, L!NotOwned, L!Ineligible, L!Registered, L!Unavailable, L!OrderActions,
           L!IsBooking, L!IsExchange
  <2>2. ASSUME NEW c \in Customers, NEW a \in Args
        PROVE  Effect(db, c, a) = L!Effect(db, c, a)
    BY DEF Effect, InsertAction, BookSlot, TakeStock, IsBooking, IsExchange,
           L!Effect, L!InsertAction, L!BookSlot, L!TakeStock, L!IsBooking, L!IsExchange
  <2>3. Args = L!Args
    BY DEF Args, ReturnArgs, ExchangeArgs, BookingArgs,
           L!Args, L!ReturnArgs, L!ExchangeArgs, L!BookingArgs
  <2> QED
    BY <1>2, <2>1, <2>2, <2>3, DatabaseStep DEF L!Next, L!Register
<1> QED
  BY <1>1, <1>2, StoreInvariant, PTL DEF Spec, LedgerSpec, L!Spec

(* No execution oversells, overbooks, serves an order or a customer's slot  *)
(* twice, or records an action of anyone but the owner.                     *)
THEOREM StoreIsConsistent == Spec => []StoreConsistent
<1>1. Init => StoreConsistent
  BY FixtureConsistent DEF Init, StoreConsistent
<1>2. IInv /\ StoreConsistent /\ [Next]_vars => StoreConsistent'
  <2> SUFFICES ASSUME IInv, StoreConsistent, [Next]_vars PROVE StoreConsistent'
    OBVIOUS
  <2>1. db \in Database /\ Consistent(db)
    BY DEF IInv, TypeOK, StoreConsistent
  <2>2. Consistent(db')
    BY <2>1, DatabaseStep, EffectConsistent
  <2> QED
    BY <2>2 DEF StoreConsistent, Consistent, StockAccounted, BookingsAccounted, OneActionPerOrder,
                OneBookingPerCustomer, OnlyOwnersAct, ExchangesOf, BookingsOf
<1> QED
  BY <1>1, <1>2, StoreInvariant, PTL DEF Spec

-----------------------------------------------------------------------------
(* Proposals and receipts.                                                  *)

(* A session without authority never gets past authorize: no proposal, no   *)
(* result of a handler and no lock, whatever it says and calls.             *)
THEOREM StoreAuthorityRequired == Spec => []AuthorityRequired
<1>1. Init => AuthorityRequired
  <2> SUFFICES ASSUME Init PROVE AuthorityRequired
    OBVIOUS
  <2> QED
    BY StoreAssumption DEF Init, AuthorityRequired, StoreAssumption
<1>2. IInv /\ AuthorityRequired /\ [Next]_vars => AuthorityRequired'
  <2> SUFFICES ASSUME IInv, AuthorityRequired, [Next]_vars,
                      NEW r \in Sessions, ~authorize(r)
               PROVE  /\ pending'[r] = NoProposal
                      /\ code'[r] \in {"none", "not_authorized", "handoff"}
                      /\ lock'[ConnOf[r]] # r
    BY DEF AuthorityRequired, authorize
  <2>1. /\ pending[r] = NoProposal
        /\ code[r] \in {"none", "not_authorized", "handoff"}
        /\ lock[ConnOf[r]] # r
        /\ pc[r] \notin InTxn \cup {"begin"}
    BY DEF AuthorityRequired, IInv, CallInv
  <2>2. NoSession \notin Sessions
    BY StoreAssumption DEF StoreAssumption
  <2> USE <2>1, <2>2 DEF IInv, TypeOK, InTxn
  <2>3. ASSUME NEW s \in Sessions, Turn(s)
        PROVE  /\ pending'[r] = NoProposal
               /\ code'[r] \in {"none", "not_authorized", "handoff"}
               /\ lock'[ConnOf[r]] # r
    <3>1. ASSUME NEW confirms \in BOOLEAN, begin_turn(s, confirms)
          PROVE  /\ pending'[r] = NoProposal
                 /\ code'[r] \in {"none", "not_authorized", "handoff"}
                 /\ lock'[ConnOf[r]] # r
      BY <3>1 DEF begin_turn
    <3>2. ASSUME NEW a \in Args, CallTool(s, a)
          PROVE  /\ pending'[r] = NoProposal
                 /\ code'[r] \in {"none", "not_authorized", "handoff"}
                 /\ lock'[ConnOf[r]] # r
      BY <3>2 DEF CallTool, session
    <3>3. CASE handoff_to_support(s) \/ EndWithoutAction(s)
      BY <3>3 DEF handoff_to_support, EndWithoutAction, session
    <3>4. CASE EnterStore(s)
      BY <3>4, StoreAssumption DEF EnterStore, session, StoreAssumption
    <3> QED
      BY <2>3, <3>1, <3>2, <3>3, <3>4 DEF Turn
  <2>4. ASSUME NEW s \in Sessions, Statement(s) \/ Fail(s)
        PROVE  /\ pending'[r] = NoProposal
               /\ code'[r] \in {"none", "not_authorized", "handoff"}
               /\ lock'[ConnOf[r]] # r
    <3>1. s # r
      BY <2>4 DEF Statement, BeginImmediate, CheckRequest, propose_or_confirm, UpdateSlot,
                  persist, UpdateStock, Commit, Fail
    <3>2. /\ pending'[r] = pending[r] /\ code'[r] = code[r]
          /\ lock'[ConnOf[r]] \in {lock[ConnOf[r]], NoSession}
      BY <2>4, <3>1, StoreAssumption
         DEF Statement, BeginImmediate, CheckRequest, propose_or_confirm, UpdateSlot,
             persist, UpdateStock, Commit, Fail, session, StoreAssumption
    <3> QED
      BY <3>2
  <2>5. ASSUME NEW c \in Connections, Crash(c)
        PROVE  /\ pending'[r] = NoProposal
               /\ code'[r] \in {"none", "not_authorized", "handoff"}
               /\ lock'[ConnOf[r]] # r
    BY <2>5, StoreAssumption DEF Crash, StoreAssumption
  <2>6. CASE UNCHANGED vars
    BY <2>6 DEF vars
  <2> QED
    BY <2>3, <2>4, <2>5, <2>6 DEF Next
<1> QED
  BY <1>1, <1>2, StoreInvariant, PTL DEF Spec

(* The actions table only grows: no transaction removes a row.              *)
LEMMA RowsStay ==
  ASSUME IInv, [Next]_vars
  PROVE  db.actions \subseteq db'.actions
<1>1. ASSUME NEW c \in Customers, NEW a \in Args, Verdict(db, c, a) = "go", db' = Effect(db, c, a)
      PROVE  db.actions \subseteq db'.actions
  <2>1. db \in Database
    BY DEF IInv, TypeOK
  <2>2. Effect(db, c, a).actions = db.actions \cup {[customer |-> c, args |-> a]}
    BY <1>1, <2>1, EffectFields
  <2> QED
    BY <1>1, <2>2
<1> QED
  BY <1>1, DatabaseStep

(* The result "created" on its way to the customer: there is no result      *)
(* before the checks, the row is in the working copy while the transaction  *)
(* is open, and in the database when the turn is over.                      *)
Row(s) == [customer |-> CustomerOf[s], args |-> args[s]]

ReceiptInv ==
  \A s \in Sessions :
    /\ pc[s] \in Places \ {"idle", "stock", "commit"} => code[s] = "none"
    /\ pc[s] \in {"stock", "commit"} /\ code[s] = "created" => Row(s) \in work.actions
    /\ pc[s] = "idle" /\ code[s] = "created" => Row(s) \in db.actions

LEMMA ReceiptStep == IInv /\ ReceiptInv /\ [Next]_vars => ReceiptInv'
<1> SUFFICES ASSUME IInv, ReceiptInv, [Next]_vars PROVE ReceiptInv'
  OBVIOUS
<1>0. TypeOK /\ CallInv /\ TransactionsExclude /\ WorkInv
  BY DEF IInv
<1>g. db.actions \subseteq db'.actions
  BY RowsStay
<1> USE <1>0, <1>g DEF TypeOK, InTxn, Places, Row
<1>1. ASSUME NEW s \in Sessions, Turn(s)
      PROVE  ReceiptInv'
  <2>1. /\ UNCHANGED <<db, work>>
        /\ \A r \in Sessions : r # s => pc'[r] = pc[r] /\ args'[r] = args[r] /\ code'[r] = code[r]
    BY <1>1 DEF Turn, begin_turn, CallTool, handoff_to_support, EndWithoutAction, EnterStore,
                session
  <2>2. pc[s] # "idle" => code[s] = "none" \/ ~Turn(s)
    BY DEF ReceiptInv, Turn, begin_turn, CallTool, handoff_to_support, EndWithoutAction, EnterStore
  <2>3. code'[s] # "created" /\ (pc'[s] # "idle" => code'[s] = "none")
    BY <1>1, <2>2 DEF Turn, begin_turn, CallTool, handoff_to_support, EndWithoutAction, EnterStore
  <2>4. pc'[s] \notin {"stock", "commit"}
    BY <1>1 DEF Turn, begin_turn, CallTool, handoff_to_support, EndWithoutAction, EnterStore
  <2> QED
    BY <2>1, <2>3, <2>4 DEF ReceiptInv
<1>2. ASSUME NEW s \in Sessions, BeginImmediate(s)
      PROVE  ReceiptInv'
  <2>1. \A r \in Sessions : pc[r] \notin InTxn
    <3>1. \A r \in Sessions : ConnOf[r] # NoConn
      BY StoreAssumption DEF StoreAssumption
    <3>2. txn = NoConn
      BY <1>2 DEF BeginImmediate
    <3> QED
      BY <3>1, <3>2 DEF TransactionsExclude
  <2>2. /\ code[s] = "none" /\ pc' = [pc EXCEPT ![s] = "check"]
        /\ UNCHANGED <<db, args, code>>
    BY <1>2 DEF BeginImmediate, ReceiptInv
  <2> QED
    BY <2>1, <2>2 DEF ReceiptInv
<1>3. ASSUME NEW s \in Sessions, CheckRequest(s) \/ propose_or_confirm(s) \/ UpdateSlot(s)
      PROVE  ReceiptInv'
  <2>1. \A r \in Sessions : r # s => pc[r] \notin InTxn
    BY <1>3, Exclusion DEF CheckRequest, propose_or_confirm, UpdateSlot
  <2>2. CASE CheckRequest(s)
    BY <2>1, <2>2, VerdictCodes DEF CheckRequest, ReceiptInv
  <2>3. CASE propose_or_confirm(s)
    BY <2>1, <2>3 DEF propose_or_confirm, ReceiptInv
  <2>4. CASE UpdateSlot(s)
    BY <2>1, <2>4 DEF UpdateSlot, ReceiptInv
  <2> QED
    BY <1>3, <2>2, <2>3, <2>4
<1>4. ASSUME NEW s \in Sessions, persist(s)
      PROVE  ReceiptInv'
  <2>1. \A r \in Sessions : r # s => pc[r] \notin InTxn
    BY <1>4, Exclusion DEF persist
  <2>2. Row(s) \notin work.actions => Row(s) \in work'.actions
    <3>1. SUFFICES ASSUME Row(s) \notin work.actions PROVE Row(s) \in work'.actions
      OBVIOUS
    <3>2. args[s] \in Args /\ CustomerOf[s] \in Customers
      BY <1>4, AuthorizedCustomer DEF persist, CallInv, InCall
    <3>3. work' = InsertAction(work, CustomerOf[s], args[s])
      BY <1>4, <3>1 DEF persist
    <3> QED
      BY <3>2, <3>3, InsertFields
  <2>3. /\ code'[s] = "created" => Row(s) \in work'.actions
        /\ pc'[s] \in {"stock", "commit"}
        /\ UNCHANGED <<db, args>>
        /\ \A r \in Sessions : r # s => pc'[r] = pc[r] /\ code'[r] = code[r]
    BY <1>4, <2>2 DEF persist
  <2> QED
    BY <2>1, <2>3 DEF ReceiptInv
<1>5. ASSUME NEW s \in Sessions, UpdateStock(s)
      PROVE  ReceiptInv'
  <2>1. \A r \in Sessions : r # s => pc[r] \notin InTxn
    BY <1>5, Exclusion DEF UpdateStock
  <2>2. work'.actions = work.actions
    BY <1>5 DEF UpdateStock, TakeStock, Database
  <2> QED
    BY <1>5, <2>1, <2>2 DEF UpdateStock, ReceiptInv
<1>6. ASSUME NEW s \in Sessions, Commit(s)
      PROVE  ReceiptInv'
  <2>1. \A r \in Sessions : r # s => pc[r] \notin InTxn
    BY <1>6, Exclusion DEF Commit
  <2>2. \A r \in Sessions : r # s => pc'[r] = pc[r] /\ args'[r] = args[r] /\ code'[r] = code[r]
    BY <1>6 DEF Commit
  <2>3. pc'[s] = "idle" /\ code'[s] = code[s] /\ db' = work
    BY <1>6 DEF Commit
  <2>4. code[s] = "created" => args'[s] = args[s] /\ Row(s) \in work.actions
    BY <1>6 DEF Commit, ReceiptInv
  <2> QED
    BY <2>1, <2>2, <2>3, <2>4 DEF ReceiptInv
<1>7. ASSUME NEW s \in Sessions, Fail(s)
      PROVE  ReceiptInv'
  <2>1. \A r \in Sessions : r # s /\ pc[r] \in InTxn => ConnOf[r] # ConnOf[s] /\ txn = ConnOf[r]
    BY <1>7, Exclusion DEF Fail, TransactionsExclude
  <2>2. \A r \in Sessions : r # s /\ pc[r] \in InTxn => work' = work
    BY <1>7, <2>1 DEF Fail, Rollback
  <2> QED
    BY <1>7, <2>2 DEF Fail, ReceiptInv
<1>8. ASSUME NEW c \in Connections, Crash(c)
      PROVE  ReceiptInv'
  <2>1. \A r \in Sessions : pc'[r] \in InTxn =>
          ConnOf[r] # c /\ pc'[r] = pc[r] /\ args'[r] = args[r] /\ code'[r] = code[r] /\ work' = work
    BY <1>8 DEF Crash, Rollback, TransactionsExclude
  <2> QED
    BY <1>8, <2>1 DEF Crash, ReceiptInv
<1>9. CASE UNCHANGED vars
  BY <1>9 DEF vars, ReceiptInv
<1> QED
  BY <1>1, <1>2, <1>3, <1>4, <1>5, <1>6, <1>7, <1>8, <1>9 DEF Next, Statement

(* A receipt is never withdrawn: the row that a customer was told of is in  *)
(* the committed table, through later failures, rollbacks and crashes of    *)
(* any Store.                                                               *)
THEOREM StoreReceiptIsDurable == Spec => []ReceiptIsDurable
<1>1. Init => ReceiptInv
  BY DEF Init, ReceiptInv
<1>2. ReceiptInv => ReceiptIsDurable
  BY DEF ReceiptInv, ReceiptIsDurable, Row
<1> QED
  BY <1>1, <1>2, ReceiptStep, StoreInvariant, PTL DEF Spec

(* One action's effect is visible to another's fingerprint only through the *)
(* records they share: the slot, the order, or a product of the exchange.   *)
LEMMA FingerprintFrame ==
  ASSUME NEW d \in Database, NEW c \in Customers, NEW a \in Args, NEW p \in Args,
         Verdict(d, c, a) = "go", ~Touches([customer |-> c, args |-> a], p)
  PROVE  action_fingerprint(Effect(d, c, a), p) = action_fingerprint(d, p)
<1> DEFINE e == Effect(d, c, a)
           new == [customer |-> c, args |-> a]
<1>1. /\ e.actions = d.actions \cup {new}
      /\ e.stock = IF IsExchange(a) THEN [d.stock EXCEPT ![a.sku] = @ - 1] ELSE d.stock
      /\ e.booked = IF IsBooking(a) THEN [d.booked EXCEPT ![a.slot] = @ + 1] ELSE d.booked
  BY EffectFields
<1>2. d.stock \in [Products -> Nat] /\ d.booked \in [Slots -> Nat]
  BY DEF Database
<1>3. CASE IsBooking(p)
  <2>1. a.slot # p.slot
    BY <1>3 DEF Touches
  <2>2. e.booked[p.slot] = d.booked[p.slot]
    BY <1>1, <1>2, <1>3, <2>1, ArgsKinds
  <2>3. ~IsExchange(p)
    BY <1>3, ArgsKinds
  <2> QED
    BY <1>3, <2>2, <2>3 DEF action_fingerprint
<1>4. CASE ~IsBooking(p)
  <2>1. a.order # p.order /\ (IsExchange(a) => a.sku # Sku[p.order] /\ a.sku # p.sku)
    BY <1>4 DEF Touches
  <2>2. OrderActions(e, p.order) = OrderActions(d, p.order)
    BY <1>1, <2>1 DEF OrderActions
  <2>3. Sku[p.order] \in Products
    BY <1>4, ArgsKinds, DomainAssumption DEF DomainAssumption
  <2>4. e.stock[Sku[p.order]] = d.stock[Sku[p.order]]
    BY <1>1, <1>2, <2>1, <2>3
  <2>5. IsExchange(p) => e.stock[p.sku] = d.stock[p.sku]
    BY <1>1, <1>2, <2>1, ArgsKinds
  <2> QED
    BY <1>4, <2>2, <2>4, <2>5 DEF action_fingerprint
<1> QED
  BY <1>3, <1>4

(* Other customers' commits do not make a waiting proposal stale unless     *)
(* they touch one of the records it was shown with.                         *)
THEOREM StoreUnrelatedCommitKeepsProposal == Spec => UnrelatedCommitKeepsProposal
<1>1. ASSUME IInv, [Next]_vars, NEW s \in Sessions, pending[s] # NoProposal,
             \A x \in db'.actions \ db.actions : ~Touches(x, pending[s].digest.args)
      PROVE  action_fingerprint(db', pending[s].digest.args)
               = action_fingerprint(db, pending[s].digest.args)
  <2>1. db \in Database /\ pending[s].digest.args \in Args
    BY <1>1 DEF IInv, TypeOK, Pending, Digested
  <2>2. ASSUME NEW c \in Customers, NEW a \in Args, Verdict(db, c, a) = "go",
               db' = Effect(db, c, a)
        PROVE  action_fingerprint(db', pending[s].digest.args)
                 = action_fingerprint(db, pending[s].digest.args)
    <3>1. [customer |-> c, args |-> a] \in db'.actions
      BY <2>1, <2>2, EffectFields
    <3>2. [customer |-> c, args |-> a] \notin db.actions
      BY <2>1, <2>2, VerdictGo, EffectIsNew
    <3> QED
      BY <1>1, <2>1, <2>2, <3>1, <3>2, FingerprintFrame
  <2>3. CASE db' = db
    BY <2>3 DEF action_fingerprint, OrderActions
  <2> QED
    BY <1>1, <2>2, <2>3, DatabaseStep
<1>2. IInv /\ [Next]_vars =>
        [\A s \in Sessions :
           /\ pending[s] # NoProposal
           /\ \A x \in db'.actions \ db.actions : ~Touches(x, pending[s].digest.args)
           => action_fingerprint(db', pending[s].digest.args)
                = action_fingerprint(db, pending[s].digest.args)]_db
  BY <1>1
<1> QED
  BY <1>2, StoreInvariant, PTL DEF Spec, UnrelatedCommitKeepsProposal
=============================================================================
