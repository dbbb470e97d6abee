------------------------------- MODULE Store --------------------------------
(***************************************************************************)
(* Sessions acting on one SQLite file through Store objects                *)
(* (talabak/domain.py), one TLA+ step per SQL statement that matters.      *)
(*                                                                         *)
(* A Store object is a connection with a re-entrant lock; a session (one   *)
(* conversation) uses one of them.  A tool call takes the lock, BEGINs     *)
(* IMMEDIATE, checks, proposes or writes, and COMMITs; any statement may   *)
(* raise, and the process of a connection may stop between any two of      *)
(* them.  The turn protocol around a call is Session.begin_turn; which     *)
(* request a message yields is the model's choice, hence arbitrary.        *)
(***************************************************************************)
EXTENDS Domain

CONSTANTS
  Sessions,     (* conversations                                           *)
  Connections,  (* Store objects open on the file                          *)
  ConnOf,       (* the Store a session uses                                *)
  CustomerOf,   (* Session.customer_id, NoId for an anonymous visitor      *)
  CanAct,       (* sessions with can_act = True                            *)
  NoSession, NoConn, NoProposal, NoArgs,
  MaxTurns      (* bound of the model: messages per session                *)

(* What a confirmation digest is taken of.                                  *)
Digested == [args: Args, customer: Customers, session: Sessions, data: Fingerprint]
Pending  == [digest: Digested, turn: Nat]

ASSUME StoreAssumption ==
  /\ ConnOf \in [Sessions -> Connections]
  /\ CustomerOf \in [Sessions -> Customers \cup {NoId}]
  /\ CanAct \subseteq Sessions
  /\ NoSession \notin Sessions
  /\ NoConn \notin Connections
  /\ NoArgs \notin Args
  /\ NoProposal \notin Digested \cup Pending
  /\ MaxTurns \in Nat

VARIABLES
  db,         (* the committed database                                    *)
  txn,        (* the connection that holds SQLite's write lock             *)
  work,       (* the database as that connection sees it                   *)
  lock,       (* lock[c]: the session inside Store c's serialized methods  *)
  pc,         (* where a session's turn is                                 *)
  args,       (* arguments of the tool call of the turn                    *)
  turn,       (* Session.turn                                              *)
  pending,    (* Session.pending                                           *)
  confirmed,  (* Session.confirmed_digest, as the digested value           *)
  terminal,   (* Session.terminal                                          *)
  code        (* code of the last result                                   *)

session == <<turn, pending, confirmed, terminal>>
vars == <<db, txn, work, lock, pc, args, turn, pending, confirmed, terminal, code>>

Codes == {"none", "not_authorized", "policy_denied", "already_created", "unavailable",
          "confirmation_required", "created", "handoff", "error"}

(* Places of a session inside its transaction.                              *)
InTxn  == {"check", "propose", "slot", "persist", "stock", "commit"}
Places == {"idle", "model", "called", "begin"} \cup InTxn

authorize(s) == CustomerOf[s] # NoId /\ s \in CanAct

DigestFor(s, d, a) ==
  [args |-> a, customer |-> CustomerOf[s], session |-> s, data |-> action_fingerprint(d, a)]

-----------------------------------------------------------------------------
Init ==
  /\ db = FixtureDatabase
  /\ txn = NoConn
  /\ work = FixtureDatabase
  /\ lock = [c \in Connections |-> NoSession]
  /\ pc = [s \in Sessions |-> "idle"]
  /\ args = [s \in Sessions |-> NoArgs]
  /\ turn = [s \in Sessions |-> 0]
  /\ pending = [s \in Sessions |-> NoProposal]
  /\ confirmed = [s \in Sessions |-> NoProposal]
  /\ terminal = [s \in Sessions |-> FALSE]
  /\ code = [s \in Sessions |-> "none"]

-----------------------------------------------------------------------------
(* The turn: Session.begin_turn and what the pipeline does with its result. *)

Restores(s, confirms) ==
  confirms /\ pending[s] # NoProposal /\ pending[s].turn = turn[s]

begin_turn(s, confirms) ==
  /\ pc[s] = "idle"
  /\ turn[s] < MaxTurns
  /\ turn' = [turn EXCEPT ![s] = @ + 1]
  /\ IF Restores(s, confirms)
     THEN /\ confirmed' = [confirmed EXCEPT ![s] = pending[s].digest]
          /\ args' = [args EXCEPT ![s] = pending[s].digest.args]
          /\ pc' = [pc EXCEPT ![s] = IF terminal[s] THEN "idle" ELSE "called"]
          /\ UNCHANGED pending
     ELSE /\ confirmed' = [confirmed EXCEPT ![s] = NoProposal]
          /\ pending' = [pending EXCEPT ![s] = NoProposal]
          /\ args' = [args EXCEPT ![s] = NoArgs]
          /\ pc' = [pc EXCEPT ![s] = IF confirms \/ terminal[s] THEN "idle" ELSE "model"]
  /\ code' = [code EXCEPT ![s] = "none"]
  /\ UNCHANGED <<db, txn, work, lock, terminal>>

(* The model asks for a side effect with the arguments of the parsed request.*)
CallTool(s, a) ==
  /\ pc[s] = "model"
  /\ args' = [args EXCEPT ![s] = a]
  /\ pc' = [pc EXCEPT ![s] = "called"]
  /\ UNCHANGED <<db, txn, work, lock, session, code>>

handoff_to_support(s) ==
  /\ pc[s] = "model"
  /\ terminal' = [terminal EXCEPT ![s] = TRUE]
  /\ pending' = [pending EXCEPT ![s] = NoProposal]
  /\ code' = [code EXCEPT ![s] = "handoff"]
  /\ pc' = [pc EXCEPT ![s] = "idle"]
  /\ UNCHANGED <<db, txn, work, lock, args, turn, confirmed>>

(* The turn ends with a question, a lookup or a refusal.                    *)
EndWithoutAction(s) ==
  /\ pc[s] = "model"
  /\ pc' = [pc EXCEPT ![s] = "idle"]
  /\ UNCHANGED <<db, txn, work, lock, args, session, code>>

-----------------------------------------------------------------------------
(* A tool call: create_return_or_exchange or book_store_appointment.        *)

(* Slip: the decorator is missing, or it is there and authorize is not.      *)
EnterStore_Unserialized(s) ==
  /\ pc[s] = "called"
  /\ authorize(s)
  /\ lock' = [lock EXCEPT ![ConnOf[s]] = s]
  /\ pc' = [pc EXCEPT ![s] = "begin"]
  /\ UNCHANGED <<db, txn, work, args, session, code>>

EnterStore_Unauthorized(s) ==
  /\ pc[s] = "called"
  /\ lock[ConnOf[s]] = NoSession
  /\ lock' = [lock EXCEPT ![ConnOf[s]] = s]
  /\ pc' = [pc EXCEPT ![s] = "begin"]
  /\ UNCHANGED <<db, txn, work, args, session, code>>

(* The serialized decorator, then the first authorization.                  *)
EnterStore(s) ==
  LET c == ConnOf[s] IN
  /\ pc[s] = "called"
  /\ lock[c] = NoSession
  /\ IF authorize(s)
     THEN /\ lock' = [lock EXCEPT ![c] = s]
          /\ pc' = [pc EXCEPT ![s] = "begin"]
          /\ UNCHANGED code
     ELSE /\ code' = [code EXCEPT ![s] = "not_authorized"]
          /\ pc' = [pc EXCEPT ![s] = "idle"]
          /\ UNCHANGED lock
  /\ UNCHANGED <<db, txn, work, args, session>>

BeginImmediate(s) ==
  /\ pc[s] = "begin"
  /\ txn = NoConn
  /\ txn' = ConnOf[s]
  /\ work' = db
  /\ pc' = [pc EXCEPT ![s] = "check"]
  /\ UNCHANGED <<db, lock, args, session, code>>

(* Slip: the verdict becomes the result before it is looked at.             *)
CheckRequest_ResultFirst(s) ==
  LET verdict == Verdict(work, CustomerOf[s], args[s]) IN
  /\ pc[s] = "check"
  /\ pc' = [pc EXCEPT ![s] = IF verdict = "go" THEN "propose" ELSE "commit"]
  /\ code' = [code EXCEPT ![s] = verdict]
  /\ UNCHANGED <<db, txn, work, lock, args, session>>

(* Every lookup and refusal up to the confirmation.                         *)
CheckRequest(s) ==
  LET verdict == Verdict(work, CustomerOf[s], args[s]) IN
  /\ pc[s] = "check"
  /\ IF verdict = "go"
     THEN pc' = [pc EXCEPT ![s] = "propose"] /\ UNCHANGED code
     ELSE /\ pc' = [pc EXCEPT ![s] = "commit"]
          /\ code' = [code EXCEPT ![s] = verdict]
  /\ UNCHANGED <<db, txn, work, lock, args, session>>

(* Slip: any confirmation will do, whatever it was given for.               *)
propose_or_confirm_AnyDigest(s) ==
  LET digest == DigestFor(s, work, args[s]) IN
  /\ pc[s] = "propose"
  /\ IF confirmed[s] # NoProposal
     THEN /\ pc' = [pc EXCEPT ![s] = IF IsBooking(args[s]) THEN "slot" ELSE "persist"]
          /\ UNCHANGED <<confirmed, pending, code>>
     ELSE /\ pending' = [pending EXCEPT ![s] = [digest |-> digest, turn |-> turn[s]]]
          /\ code' = [code EXCEPT ![s] = "confirmation_required"]
          /\ pc' = [pc EXCEPT ![s] = "commit"]
          /\ UNCHANGED confirmed
  /\ UNCHANGED <<db, txn, work, lock, args, turn, terminal>>

propose_or_confirm(s) ==
  LET digest == DigestFor(s, work, args[s]) IN
  /\ pc[s] = "propose"
  /\ IF confirmed[s] = digest
     THEN /\ pc' = [pc EXCEPT ![s] = IF IsBooking(args[s]) THEN "slot" ELSE "persist"]
          /\ UNCHANGED <<confirmed, pending, code>>
     ELSE /\ confirmed' = [confirmed EXCEPT ![s] = NoProposal]
          /\ pending' = [pending EXCEPT ![s] = [digest |-> digest, turn |-> turn[s]]]
          /\ code' = [code EXCEPT ![s] = "confirmation_required"]
          /\ pc' = [pc EXCEPT ![s] = "commit"]
  /\ UNCHANGED <<db, txn, work, lock, args, turn, terminal>>

UpdateSlot(s) ==
  /\ pc[s] = "slot"
  /\ work' = BookSlot(work, args[s])
  /\ pc' = [pc EXCEPT ![s] = "persist"]
  /\ UNCHANGED <<db, txn, lock, args, session, code>>

(* _persist; without the unique indices' consent the INSERT raises (Fail).  *)
persist(s) ==
  LET a == args[s]
      c == CustomerOf[s]
      recorded == [customer |-> c, args |-> a] \in work.actions
  IN
  /\ pc[s] = "persist"
  /\ recorded \/ UniqueIndicesAllow(work, c, a)
  /\ IF recorded
     THEN /\ code' = [code EXCEPT ![s] = "already_created"]
          /\ pc' = [pc EXCEPT ![s] = "commit"]
          /\ UNCHANGED <<work, pending, confirmed>>
     ELSE /\ work' = InsertAction(work, c, a)
          /\ pending' = [pending EXCEPT ![s] = NoProposal]
          /\ confirmed' = [confirmed EXCEPT ![s] = NoProposal]
          /\ code' = [code EXCEPT ![s] = "created"]
          /\ pc' = [pc EXCEPT ![s] = IF IsExchange(a) THEN "stock" ELSE "commit"]
  /\ UNCHANGED <<db, txn, lock, args, turn, terminal>>

UpdateStock(s) ==
  /\ pc[s] = "stock"
  /\ work' = TakeStock(work, args[s])
  /\ pc' = [pc EXCEPT ![s] = "commit"]
  /\ UNCHANGED <<db, txn, lock, args, session, code>>

(* Leaving "with self.db" normally, then the lock.  The call's arguments are *)
(* kept after it only for the customer's receipt.                            *)
Commit(s) ==
  /\ pc[s] = "commit"
  /\ db' = work
  /\ txn' = NoConn
  /\ lock' = [lock EXCEPT ![ConnOf[s]] = NoSession]
  /\ pc' = [pc EXCEPT ![s] = "idle"]
  /\ args' = [args EXCEPT ![s] = IF code[s] = "created" THEN @ ELSE NoArgs]
  /\ UNCHANGED <<work, session, code>>

-----------------------------------------------------------------------------
(* Failures.                                                                *)

Rollback(c) ==
  IF txn = c THEN txn' = NoConn /\ work' = db ELSE UNCHANGED <<txn, work>>

(* Slips: the result outlives the rollback; the writes so far are kept (no  *)
(* transaction); the lock is not released.                                  *)
Fail_KeepsResult(s) ==
  /\ pc[s] \in InTxn \cup {"begin"}
  /\ Rollback(ConnOf[s])
  /\ lock' = [lock EXCEPT ![ConnOf[s]] = NoSession]
  /\ pc' = [pc EXCEPT ![s] = "idle"]
  /\ UNCHANGED <<db, args, session, code>>

Fail_KeepsWrites(s) ==
  /\ pc[s] \in InTxn
  /\ db' = work
  /\ txn' = NoConn
  /\ lock' = [lock EXCEPT ![ConnOf[s]] = NoSession]
  /\ pc' = [pc EXCEPT ![s] = "idle"]
  /\ UNCHANGED <<work, args, session, code>>

Fail_KeepsLock(s) ==
  /\ pc[s] \in InTxn \cup {"begin"}
  /\ Rollback(ConnOf[s])
  /\ code' = [code EXCEPT ![s] = "error"]
  /\ pc' = [pc EXCEPT ![s] = "idle"]
  /\ UNCHANGED <<db, lock, args, session>>

(* A statement raises: BEGIN after the busy timeout, a constraint, the disk.*)
(* "with self.db" rolls the connection back; handle_message forgets the     *)
(* proposal and reports a safe failure.                                     *)
Fail(s) ==
  /\ pc[s] \in InTxn \cup {"begin"}
  /\ Rollback(ConnOf[s])
  /\ lock' = [lock EXCEPT ![ConnOf[s]] = NoSession]
  /\ pending' = [pending EXCEPT ![s] = NoProposal]
  /\ confirmed' = [confirmed EXCEPT ![s] = NoProposal]
  /\ code' = [code EXCEPT ![s] = "error"]
  /\ pc' = [pc EXCEPT ![s] = "idle"]
  /\ args' = [args EXCEPT ![s] = NoArgs]
  /\ UNCHANGED <<db, turn, terminal>>

(* The process that owns connection c stops and is started again: SQLite    *)
(* discards its transaction, and sessions live in memory only.              *)
Crash(c) ==
  LET Fresh(f, v) == [s \in Sessions |-> IF ConnOf[s] = c THEN v ELSE f[s]] IN
  /\ \E s \in Sessions : ConnOf[s] = c /\ pc[s] # "idle"
  /\ Rollback(c)
  /\ lock' = [lock EXCEPT ![c] = NoSession]
  /\ pc' = Fresh(pc, "idle")
  /\ args' = Fresh(args, NoArgs)
  /\ turn' = Fresh(turn, 0)
  /\ pending' = Fresh(pending, NoProposal)
  /\ confirmed' = Fresh(confirmed, NoProposal)
  /\ terminal' = Fresh(terminal, FALSE)
  /\ code' = Fresh(code, "none")
  /\ UNCHANGED db

-----------------------------------------------------------------------------
Statement(s) ==
  \/ BeginImmediate(s) \/ CheckRequest(s) \/ propose_or_confirm(s) \/ UpdateSlot(s)
  \/ persist(s) \/ UpdateStock(s) \/ Commit(s)

Turn(s) ==
  \/ \E confirms \in BOOLEAN : begin_turn(s, confirms)
  \/ \E a \in Args : CallTool(s, a)
  \/ handoff_to_support(s)
  \/ EndWithoutAction(s)
  \/ EnterStore(s)

Next ==
  \/ \E s \in Sessions : Turn(s) \/ Statement(s) \/ Fail(s)
  \/ \E c \in Connections : Crash(c)

Spec == Init /\ [][Next]_vars

(* sqlite3 waits for the write lock for a bounded time, then raises; every  *)
(* other statement returns or raises.  A conversation has finitely many     *)
(* messages, so a free lock is eventually this session's to take.           *)
BusyTimeout(s) == txn # NoConn /\ pc[s] = "begin" /\ Fail(s)

FairSpec ==
  /\ Spec
  /\ \A s \in Sessions :
       WF_vars(EnterStore(s)) /\ WF_vars(Statement(s) \/ BusyTimeout(s))

-----------------------------------------------------------------------------
(* Properties.                                                              *)

TypeOK ==
  /\ db \in Database
  /\ work \in Database
  /\ txn \in Connections \cup {NoConn}
  /\ lock \in [Connections -> Sessions \cup {NoSession}]
  /\ pc \in [Sessions -> Places]
  /\ args \in [Sessions -> Args \cup {NoArgs}]
  /\ turn \in [Sessions -> Nat]
  /\ pending \in [Sessions -> Pending \cup {NoProposal}]
  /\ confirmed \in [Sessions -> Digested \cup {NoProposal}]
  /\ terminal \in [Sessions -> BOOLEAN]
  /\ code \in [Sessions -> Codes]

(* Whatever sessions, connections, failures and crashes do, the committed   *)
(* tables agree with each other: nothing is oversold or overbooked, no      *)
(* order and no customer's slot is served twice, only owners act.           *)
StoreConsistent == Consistent(db)

(* The writes of a transaction run only for the action that was shown to    *)
(* this session's customer by the previous message, with the same arguments *)
(* and with the action's own records exactly as they were shown (ADR-003).  *)
ExecutesWhatWasShown ==
  \A s \in Sessions : pc[s] \in {"slot", "persist"} =>
    /\ pending[s] # NoProposal
    /\ pending[s].turn + 1 = turn[s]
    /\ pending[s].digest = DigestFor(s, db, args[s])
    /\ ~terminal[s]

(* The handlers' own checks always come before the schema's: no statement   *)
(* is ever refused by a unique index or a CHECK, none is a silent no-op.    *)
ConstraintsNeverFire ==
  \A s \in Sessions :
    /\ pc[s] = "slot" => work.booked[args[s].slot] < Capacity[args[s].slot]
    /\ pc[s] = "persist" => UniqueIndicesAllow(work, CustomerOf[s], args[s])
    /\ pc[s] = "stock" => work.stock[args[s].sku] > 0

(* A customer who was told that a request is recorded finds it in the       *)
(* database, whatever happened after the result was computed.               *)
ReceiptIsDurable ==
  \A s \in Sessions : pc[s] = "idle" /\ code[s] = "created" =>
    [customer |-> CustomerOf[s], args |-> args[s]] \in db.actions

(* A session without a customer, or one that may not act, gets no proposal   *)
(* and no receipt, nor learns what is registered, and never writes.          *)
AuthorityRequired ==
  \A s \in Sessions : ~authorize(s) =>
    /\ pending[s] = NoProposal
    /\ code[s] \in {"none", "not_authorized", "handoff"}
    /\ lock[ConnOf[s]] # s

(* Sessions that share a Store never share its transaction, and the file    *)
(* has one writer at a time.                                                *)
TransactionsExclude ==
  /\ \A s \in Sessions : pc[s] \in InTxn \cup {"begin"} => lock[ConnOf[s]] = s
  /\ \A s \in Sessions : pc[s] \in InTxn => txn = ConnOf[s]
  /\ txn # NoConn => \E s \in Sessions : pc[s] \in InTxn /\ ConnOf[s] = txn

(* A commit that touches none of the records a waiting proposal was shown   *)
(* with leaves that proposal confirmable (action_fingerprint's docstring).  *)
Touches(x, a) ==
  IF IsBooking(a) THEN x.args.slot = a.slot
  ELSE \/ x.args.order = a.order
       \/ IsExchange(x.args) /\ x.args.sku \in {Sku[a.order], a.sku}

UnrelatedCommitKeepsProposal ==
  [][\A s \in Sessions :
       /\ pending[s] # NoProposal
       /\ \A x \in db'.actions \ db.actions : ~Touches(x, pending[s].digest.args)
       => action_fingerprint(db', pending[s].digest.args)
            = action_fingerprint(db, pending[s].digest.args)]_db

(* The committed database changes by whole legal actions, one at a time.    *)
L == INSTANCE Ledger WITH db <- db
LedgerSpec == L!Spec

(* A tool call returns, with a result or a failure.                         *)
CallsReturn ==
  \A s \in Sessions :
    (pc[s] \in InTxn \cup {"called", "begin"}) ~> (pc[s] = "idle")

-----------------------------------------------------------------------------
(* The inductive invariant behind the safety properties.                    *)

InCall == {"called", "begin"} \cup InTxn

(* A call runs with well-formed arguments, in a session that is still open, *)
(* and past "called" in one that has authority.                             *)
CallInv ==
  \A s \in Sessions :
    /\ pc[s] \in InCall => args[s] \in Args
    /\ pc[s] # "idle" => ~terminal[s]
    /\ pc[s] \in InTxn \cup {"begin"} => authorize(s)

(* A confirmation in force is the waiting proposal's, made one turn before. *)
ConfirmInv ==
  \A s \in Sessions :
    /\ confirmed[s] # NoProposal =>
         /\ pending[s] # NoProposal
         /\ confirmed[s] = pending[s].digest
         /\ pending[s].turn + 1 = turn[s]
    /\ pc[s] = "model" => confirmed[s] = NoProposal
    /\ pc[s] \in {"slot", "persist"} => confirmed[s] = DigestFor(s, db, args[s])

(* At every statement the working copy is the committed database plus the   *)
(* part of one legal action's effect that has been written so far.          *)
WorkInv ==
  \A s \in Sessions :
    LET a == args[s]
        c == CustomerOf[s]
        legal == Verdict(db, c, a) = "go"
    IN
    /\ pc[s] = "check" => work = db
    /\ pc[s] = "propose" => legal /\ work = db
    /\ pc[s] = "slot" => legal /\ IsBooking(a) /\ work = db
    /\ pc[s] = "persist" => legal /\ work = IF IsBooking(a) THEN BookSlot(db, a) ELSE db
    /\ pc[s] = "stock" => legal /\ IsExchange(a) /\ work = InsertAction(db, c, a)
    /\ pc[s] = "commit" => work = db \/ (legal /\ work = Effect(db, c, a))

IInv == TypeOK /\ CallInv /\ TransactionsExclude /\ ConfirmInv /\ WorkInv
=============================================================================
