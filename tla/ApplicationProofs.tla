-------------------------- MODULE ApplicationProofs --------------------------
(***************************************************************************)
(* The pipeline keeps its promises for any number of sessions, customers,  *)
(* orders, products, slots and messages: what a customer reads is what the *)
(* session holds, a receipt is given for every write and for nothing else, *)
(* only a confirmed proposal is executed, an order's row reaches only its  *)
(* owner, and the exact cache answers with the tables as they are.         *)
(***************************************************************************)
EXTENDS Application, Counting, SequenceTheorems, DomainProofs

-----------------------------------------------------------------------------
(* The inductive invariants.  Each speaks of one session at the stage its   *)
(* message has reached.                                                     *)

(* Stages that have taken the cache key, and stages that have asked for     *)
(* nothing to be written yet.                                               *)
Keyed == {"route", "faq", "remember", "tools", "calls"}
Thinking == {"cache", "guard", "semantic"} \cup Keyed

(* The stages find in the locals and the session what the code reads there.*)
Asked(s) ==
  /\ pc[s] # "idle" => text[s] \in Texts
  /\ pc[s] \in Keyed => key[s] \in Keys
  /\ pc[s] \in {"tools", "calls"} => reply[s].request \in Requests
  /\ pc[s] = "confirmed" => pending[s] # NoProposal

TypeInv == TypeOK /\ \A s \in Sessions : Asked(s)

(* What is told of an order is told to the customer c who owns it.          *)
HeldBy(c, facts) == facts.order # NoId => c # NoId /\ Owner[facts.order] = c

CachesPrivate == \A e \in cache : HeldBy(e.key.scope.customer, e.value.facts)

(* No result, key or cache entry carries an order to somebody else.         *)
Knows(s) ==
  /\ last[s].status \in {"none", "answer", "denied"}
  /\ HeldBy(CustomerOf[s], last[s].facts)
  /\ HeldBy(CustomerOf[s], reply[s].facts)
  /\ pc[s] \in Keyed => key[s].scope.customer = CustomerOf[s]
  /\ pc[s] = "remember" => reply[s].status = "answer" /\ reply[s].facts.order = NoId

KnowInv == CachesHoldAnswers /\ CachesPrivate /\ \A s \in Sessions : Knows(s)

(* The Result agrees with the session: the confirmation it asks for is the  *)
(* one that waits, and it is a receipt exactly when something was written.  *)
Shown(s) ==
  /\ reply[s].status = "confirmation_required" <=> Restores(s, Confirm)
  /\ Restores(s, Confirm) => reply[s].facts.args = pending[s].digest.args
  /\ wrote[s] <=> reply[s].status = "created"

(* While the model is consulted nothing is confirmable and nothing has been *)
(* written; a confirmation in force is of the previous message's proposal.  *)
Staged(s) ==
  /\ pc[s] \in Thinking => pending[s] = NoProposal /\ confirmed[s] = NoProposal
  /\ pc[s] = "confirmed" =>
       /\ text[s] = Confirm
       /\ pending[s].turn + 1 = turn[s]
       /\ confirmed[s] = pending[s].digest
  /\ pc[s] \in {"idle", "confirmed"} => round[s] = 0
  /\ pc[s] \in Thinking \cup {"confirmed"} => ~wrote[s]
  /\ pc[s] \in {"output", "deliver"} \/ Delivered(s) => Shown(s)
  /\ pc[s] = "output" /\ wrote[s] => reply[s].facts.args = NoArgs

StageInv == \A s \in Sessions : Staged(s)

(* What is remembered, or about to be, under key k is what database d tells *)
(* anybody who takes that key; and k was taken no later than now.           *)
Tells(d, k, value) ==
  /\ k.scope.data.actions \subseteq d.actions
  /\ k.scope.data = fingerprint(d) => value.facts.stock \in {NoStock, d.stock}

Recent(s) ==
  /\ pc[s] \in Keyed => Tells(db, key[s], last[s])
  /\ pc[s] \in {"idle", "cache", "guard", "semantic"} => last[s] = Plain("none")

FreshInv == /\ \A e \in cache : Tells(db, e.key, e.value)
            /\ \A s \in Sessions : Recent(s)

-----------------------------------------------------------------------------
(* What the operators of the pipeline return.                               *)

LEMMA SaysType ==
  ASSUME NEW st \in Statuses, NEW facts \in Facts, NEW r \in Request
  PROVE  /\ Says(st, facts, r) \in Result
         /\ Says(st, facts, r).status = st
         /\ Says(st, facts, r).facts = facts
         /\ Says(st, facts, r).request = r
BY DEF Says, Result

LEMMA PlainType ==
  /\ Nothing \in Facts /\ Nothing.order = NoId /\ Nothing.args = NoArgs /\ Nothing.stock = NoStock
  /\ Blank \in Request
  /\ \A st \in Statuses : /\ Plain(st) \in Result
                          /\ Plain(st).status = st
                          /\ Plain(st).facts = Nothing
                          /\ Plain(st).request = Blank
<1>1. Nothing \in Facts /\ Nothing.order = NoId /\ Nothing.args = NoArgs /\ Nothing.stock = NoStock
  BY DEF Nothing, Facts
<1>2. Blank \in Request
  BY DEF Blank, Request, Intents
<1> QED
  BY <1>1, <1>2, SaysType DEF Plain

(* The fixed messages.                                                      *)
LEMMA PlainResults ==
  \A st \in {"none", "handoff", "clarification", "blocked", "error", "lost", "denied"} :
    Plain(st) \in Result /\ Plain(st).status = st /\ Plain(st).facts = Nothing
<1>1. {"none", "handoff", "clarification", "blocked", "error", "lost", "denied"} \subseteq Statuses
  BY DEF Statuses
<1> QED
  BY <1>1, PlainType

LEMMA CatalogType ==
  ASSUME NEW d \in Database, NEW q
  PROVE  /\ lookup_catalog(d, q) \in Result
         /\ lookup_catalog(d, q).status = "answer"
         /\ lookup_catalog(d, q).facts.order = NoId
         /\ lookup_catalog(d, q).facts.args = NoArgs
         /\ lookup_catalog(d, q).facts.stock \in {NoStock, d.stock}
<1> DEFINE stock == IF q \in AsksForProducts THEN d.stock ELSE NoStock
           facts == [Nothing EXCEPT !.stock = stock]
<1>1. facts \in Facts /\ facts.order = NoId /\ facts.args = NoArgs /\ facts.stock = stock
  BY DEF Facts, Nothing, Database
<1>2. stock \in {NoStock, d.stock}
  OBVIOUS
<1>3. "answer" \in Statuses
  BY DEF Statuses
<1> HIDE DEF facts, stock
<1>4. lookup_catalog(d, q) = Says("answer", facts, Blank)
  BY DEF lookup_catalog, facts, stock
<1> QED
  BY <1>1, <1>2, <1>3, <1>4, SaysType, PlainType

LEMMA OrderType ==
  ASSUME NEW s \in Sessions, NEW o \in Orders
  PROVE  /\ lookup_order(s, o) \in Result
         /\ lookup_order(s, o).status \in {"answer", "denied"}
         /\ lookup_order(s, o).facts.stock = NoStock
         /\ HeldBy(CustomerOf[s], lookup_order(s, o).facts)
<1> DEFINE facts == [Nothing EXCEPT !.order = o]
<1>1. facts \in Facts /\ facts.order = o /\ facts.stock = NoStock
  BY DEF Facts, Nothing
<1>2. {"answer", "denied"} \subseteq Statuses
  BY DEF Statuses
<1> HIDE DEF facts
<1>3. CASE CustomerOf[s] # NoId /\ Owner[o] = CustomerOf[s]
  <2>1. lookup_order(s, o) = Says("answer", facts, Blank)
    BY <1>3 DEF lookup_order, facts
  <2> QED
    BY <1>1, <1>2, <1>3, <2>1, SaysType, PlainType DEF HeldBy
<1>4. CASE ~(CustomerOf[s] # NoId /\ Owner[o] = CustomerOf[s])
  <2>1. lookup_order(s, o) = Plain("denied")
    BY <1>4 DEF lookup_order
  <2> QED
    BY <1>2, <2>1, PlainType DEF HeldBy
<1> QED
  BY <1>3, <1>4

(* A call of a side-effect tool is refused, executes, or proposes.          *)
LEMMA CalledCases ==
  ASSUME TypeOK, NEW s \in Sessions, NEW a \in Args
  PROVE  LET c == Called(s, a)
             digest == DigestFor(s, db, a)
         IN
         \/ /\ c.code \in {"not_authorized", "policy_denied", "already_created", "unavailable"}
            /\ c.db = db /\ c.pending = pending[s] /\ c.confirmed = confirmed[s]
         \/ /\ c.code = "created"
            /\ authorize(s) /\ Verdict(db, CustomerOf[s], a) = "go" /\ confirmed[s] = digest
            /\ c.db = Effect(db, CustomerOf[s], a)
            /\ c.pending = NoProposal /\ c.confirmed = NoProposal
         \/ /\ c.code = "confirmation_required"
            /\ authorize(s) /\ confirmed[s] # digest
            /\ c.db = db /\ c.pending = [digest |-> digest, turn |-> turn[s]]
            /\ c.confirmed = NoProposal
<1> DEFINE verdict == IF authorize(s) THEN Verdict(db, CustomerOf[s], a) ELSE "not_authorized"
           digest == DigestFor(s, db, a)
<1>1. verdict \in {"not_authorized", "policy_denied", "already_created", "unavailable", "go"}
  BY VerdictRange
<1>2. verdict = "go" => authorize(s) /\ Verdict(db, CustomerOf[s], a) = "go"
  OBVIOUS
<1>3. Called(s, a) =
        CASE verdict # "go" ->
               [code |-> verdict, db |-> db, pending |-> pending[s], confirmed |-> confirmed[s]]
          [] verdict = "go" /\ confirmed[s] = digest ->
               [code |-> "created", db |-> Effect(db, CustomerOf[s], a),
                pending |-> NoProposal, confirmed |-> NoProposal]
          [] verdict = "go" /\ confirmed[s] # digest ->
               [code |-> "confirmation_required", db |-> db,
                pending |-> [digest |-> digest, turn |-> turn[s]], confirmed |-> NoProposal]
  BY DEF Called
<1> HIDE DEF verdict, digest
<1>4. CASE verdict # "go"
  BY <1>1, <1>3, <1>4
<1>5. CASE verdict = "go" /\ confirmed[s] = digest
  BY <1>2, <1>3, <1>5 DEF digest
<1>6. CASE verdict = "go" /\ confirmed[s] # digest
  BY <1>2, <1>3, <1>6 DEF digest
<1> QED
  BY <1>4, <1>5, <1>6

LEMMA DigestType ==
  ASSUME TypeOK, NEW s \in Sessions, authorize(s), NEW a \in Args
  PROVE  /\ CustomerOf[s] \in Customers
         /\ DigestFor(s, db, a) \in Digested
         /\ DigestFor(s, db, a).args = a
         /\ DigestFor(s, db, a) # NoProposal
         /\ \A n \in Nat : [digest |-> DigestFor(s, db, a), turn |-> n] \in Pending
<1>1. CustomerOf[s] \in Customers
  BY ApplicationAssumption DEF authorize, ApplicationAssumption
<1>2. action_fingerprint(db, a) \in Fingerprint
  BY FingerprintType DEF TypeOK
<1>3. DigestFor(s, db, a) \in Digested /\ DigestFor(s, db, a).args = a
  BY <1>1, <1>2 DEF DigestFor, Digested
<1> QED
  BY <1>1, <1>3, ApplicationAssumption DEF Pending, ApplicationAssumption

(* What a side-effect call leaves in the session, the tables and the reply. *)
Refused(s, r, res, p, c) ==
  /\ res.status \in {"denied", "already_created"}
  /\ p = pending[s] /\ c = confirmed[s] /\ db' = db /\ wrote' = [wrote EXCEPT ![s] = FALSE]

Withheld(s, r, res, p, c) ==
  /\ res.status = "blocked"
  /\ p = NoProposal /\ c = NoProposal /\ db' = db /\ wrote' = [wrote EXCEPT ![s] = FALSE]

Proposed(s, r, res, p, c) ==
  /\ res.status = "confirmation_required" /\ res.facts.args = r.args
  /\ p # NoProposal /\ p.turn = turn[s] /\ p.digest.args = r.args /\ c = NoProposal
  /\ db' = db /\ wrote' = [wrote EXCEPT ![s] = FALSE]

Executed(s, r, res, p, c) ==
  /\ res.status = "created" /\ res.facts.args = NoArgs
  /\ p = NoProposal /\ c = NoProposal
  /\ authorize(s) /\ Verdict(db, CustomerOf[s], r.args) = "go"
  /\ confirmed[s] = DigestFor(s, db, r.args) /\ confirmed[s] # NoProposal
  /\ db' = Effect(db, CustomerOf[s], r.args) /\ wrote' = [wrote EXCEPT ![s] = TRUE]

LEMMA SideEffect ==
  ASSUME TypeOK, NEW s \in Sessions, NEW r \in Request, r.args \in Args, side_effect(s, r)
  PROVE  \E res \in Result, p \in Pending \cup {NoProposal}, c \in Digested \cup {NoProposal} :
           /\ pc' = [pc EXCEPT ![s] = "output"]
           /\ reply' = [reply EXCEPT ![s] = res]
           /\ pending' = [pending EXCEPT ![s] = p]
           /\ confirmed' = [confirmed EXCEPT ![s] = c]
           /\ res.facts.order = NoId
           /\ \/ Refused(s, r, res, p, c) \/ Withheld(s, r, res, p, c)
              \/ Proposed(s, r, res, p, c) \/ Executed(s, r, res, p, c)
<1> DEFINE a == r.args
           call == Called(s, a)
           refused == call.code = "confirmation_required" /\ a \in FlaggedReview
           res == IF refused THEN Says("blocked", Nothing, r)
                  ELSE Says(StatusOf(call.code), Reviewed(call.code, a), r)
           p == IF refused THEN NoProposal ELSE call.pending
           c == IF refused THEN NoProposal ELSE call.confirmed
           digest == DigestFor(s, db, a)
<1>1. /\ pc' = [pc EXCEPT ![s] = "output"]
      /\ reply' = [reply EXCEPT ![s] = res]
      /\ pending' = [pending EXCEPT ![s] = p]
      /\ confirmed' = [confirmed EXCEPT ![s] = c]
      /\ db' = call.db
      /\ wrote' = [wrote EXCEPT ![s] = call.code = "created"]
  BY DEF side_effect, Finish, Goto
<1>2. /\ {"denied", "already_created", "confirmation_required", "created", "blocked"}
           \subseteq Statuses
      /\ Nothing \in Facts /\ Nothing.order = NoId /\ Nothing.args = NoArgs
  BY PlainType DEF Statuses
<1>3. /\ pending[s] \in Pending \cup {NoProposal} /\ confirmed[s] \in Digested \cup {NoProposal}
      /\ turn[s] \in Nat
  BY DEF TypeOK
<1>4. CASE /\ call.code \in {"not_authorized", "policy_denied", "already_created", "unavailable"}
           /\ call.db = db /\ call.pending = pending[s] /\ call.confirmed = confirmed[s]
  <2>1. StatusOf(call.code) \in {"denied", "already_created"} /\ Reviewed(call.code, a) = Nothing
    BY <1>4 DEF StatusOf, Reviewed
  <2>2. ~refused /\ (call.code = "created") = FALSE
    BY <1>4
  <2>3. /\ res \in Result /\ res.facts = Nothing /\ res.status \in {"denied", "already_created"}
    BY <1>2, <2>1, <2>2, SaysType
  <2> HIDE DEF res, call, refused
  <2>4. Refused(s, r, res, p, c)
    BY <1>1, <1>4, <2>2, <2>3 DEF Refused
  <2> QED
    BY <1>1, <1>2, <1>3, <1>4, <2>2, <2>3, <2>4
<1>5. CASE /\ call.code = "created"
           /\ authorize(s) /\ Verdict(db, CustomerOf[s], a) = "go" /\ confirmed[s] = digest
           /\ call.db = Effect(db, CustomerOf[s], a)
           /\ call.pending = NoProposal /\ call.confirmed = NoProposal
  <2>1. StatusOf(call.code) = "created" /\ Reviewed(call.code, a) = Nothing
    BY <1>5 DEF StatusOf, Reviewed
  <2>2. ~refused /\ (call.code = "created") = TRUE
    BY <1>5
  <2>3. /\ res \in Result /\ res.facts = Nothing /\ res.status = "created"
    BY <1>2, <2>1, <2>2, SaysType
  <2>4. confirmed[s] # NoProposal
    BY <1>5, DigestType
  <2> HIDE DEF res, call, refused
  <2>5. Executed(s, r, res, p, c)
    BY <1>1, <1>2, <1>5, <2>2, <2>3, <2>4 DEF Executed
  <2> QED
    BY <1>1, <1>2, <1>5, <2>2, <2>3, <2>5
<1>6. CASE /\ call.code = "confirmation_required"
           /\ authorize(s) /\ confirmed[s] # digest
           /\ call.db = db /\ call.pending = [digest |-> digest, turn |-> turn[s]]
           /\ call.confirmed = NoProposal
  <2>1. StatusOf(call.code) = "confirmation_required"
    BY <1>6 DEF StatusOf
  <2>2. /\ Reviewed(call.code, a) \in Facts
        /\ Reviewed(call.code, a).order = NoId
        /\ Reviewed(call.code, a).args = a
    BY <1>6, <1>2 DEF Reviewed, Facts
  <2>3. (call.code = "created") = FALSE
    BY <1>6
  <2>4. /\ call.pending \in Pending /\ call.pending # NoProposal
        /\ call.pending.turn = turn[s] /\ call.pending.digest.args = a
    BY <1>3, <1>6, DigestType, ApplicationAssumption DEF ApplicationAssumption
  <2>5. CASE refused
    <3>1. res \in Result /\ res.facts = Nothing /\ res.status = "blocked"
      BY <1>2, <2>5, SaysType
    <3> HIDE DEF res, call, refused
    <3>2. Withheld(s, r, res, p, c)
      BY <1>1, <1>6, <2>3, <2>5, <3>1 DEF Withheld
    <3> QED
      BY <1>1, <1>2, <2>5, <3>1, <3>2
  <2>6. CASE ~refused
    <3>1. /\ res \in Result /\ res.facts = Reviewed(call.code, a)
          /\ res.status = "confirmation_required"
      BY <1>2, <2>1, <2>2, <2>6, SaysType
    <3> HIDE DEF res, call, refused
    <3>2. Proposed(s, r, res, p, c)
      BY <1>1, <1>6, <2>2, <2>3, <2>4, <2>6, <3>1 DEF Proposed
    <3> QED
      BY <1>1, <1>6, <2>2, <2>4, <2>6, <3>1, <3>2
  <2> QED
    BY <2>5, <2>6
<1> QED
  BY CalledCases, <1>4, <1>5, <1>6

-----------------------------------------------------------------------------
(* The two caches.                                                          *)

LEMMA KeyType ==
  ASSUME TypeOK, NEW s \in Sessions, text[s] \in Texts
  PROVE  /\ cache_key(s, db) \in Keys
         /\ cache_key(s, db).scope.customer = CustomerOf[s]
         /\ cache_key(s, db).scope.data = fingerprint(db)
         /\ fingerprint(db).actions = db.actions
BY ApplicationAssumption
   DEF ApplicationAssumption, TypeOK, Database, Keys, cache_key, cache_scope, fingerprint

LEMMA StoreType ==
  ASSUME TypeOK, NEW k \in Keys, NEW value \in Result
  PROVE  /\ Store(k, value) \subseteq Entries
         /\ \A e \in Store(k, value) : e \in cache \/ (e.key = k /\ e.value = value)
BY DEF TypeOK, Store, Entries

LEMMA PutType ==
  ASSUME TypeOK, NEW k \in Keys, NEW value \in Result
  PROVE  LET r == put(k, value) IN
         /\ r \in Seq(Entries) /\ Len(r) <= RowLimit
         /\ \A i \in DOMAIN r : \/ r[i] = [key |-> k, value |-> value]
                                \/ \E j \in DOMAIN rows : r[i] = rows[j]
<1> DEFINE new == [key |-> k, value |-> value]
           longer == Append(rows, new)
<1>1. /\ rows \in Seq(Entries) /\ new \in Entries /\ Len(rows) <= RowLimit
      /\ RowLimit \in Nat
  BY ApplicationAssumption DEF TypeOK, Entries, ApplicationAssumption
<1> HIDE DEF new
<1>2. /\ longer \in Seq(Entries) /\ Len(longer) = Len(rows) + 1
      /\ \A i \in 1 .. Len(longer) : longer[i] = IF i = Len(rows) + 1 THEN new ELSE rows[i]
  BY <1>1
<1>3. \A i \in 1 .. Len(longer) : longer[i] = new \/ \E j \in 1 .. Len(rows) : longer[i] = rows[j]
  BY <1>1, <1>2
<1> HIDE DEF longer
<1>4. put(k, value) = IF Len(longer) > RowLimit THEN Tail(longer) ELSE longer
  BY DEF put, longer, new
<1>5. CASE Len(longer) > RowLimit
  <2>1. longer # <<>> /\ put(k, value) = Tail(longer)
    BY <1>1, <1>2, <1>4, <1>5
  <2>2. /\ Tail(longer) \in Seq(Entries) /\ Len(Tail(longer)) = Len(longer) - 1
        /\ \A i \in 1 .. Len(Tail(longer)) : Tail(longer)[i] = longer[i + 1]
    BY <1>2, <2>1
  <2>3. \A i \in 1 .. Len(Tail(longer)) : i + 1 \in 1 .. Len(longer)
    BY <1>1, <1>2, <2>2
  <2> QED
    BY <1>1, <1>2, <1>3, <2>1, <2>2, <2>3 DEF new
<1>6. CASE ~(Len(longer) > RowLimit)
  <2>1. Len(longer) <= RowLimit
    BY <1>1, <1>2, <1>6
  <2> QED
    BY <1>1, <1>2, <1>3, <1>4, <1>6, <2>1 DEF new
<1> QED
  BY <1>5, <1>6

(* The second tier answers with one of its rows.                            *)
LEMMA GetType ==
  ASSUME TypeOK, NEW k, Matches(k) # {}
  PROVE  \E i \in DOMAIN rows : get(k) = rows[i].value
<1> DEFINE newest == CHOOSE i \in Matches(k) : \A j \in Matches(k) : j <= i
<1>1. rows \in Seq(Entries) /\ Len(rows) \in Nat /\ DOMAIN rows = 1 .. Len(rows)
  BY DEF TypeOK
<1>2. Matches(k) \in SUBSET (1 .. Len(rows))
  BY <1>1 DEF Matches
<1>3. \E i \in Matches(k) : \A j \in Matches(k) : j <= i
  BY <1>1, <1>2, GreatestOf
<1>4. newest \in Matches(k)
  BY <1>3
<1>5. get(k) = rows[newest].value
  BY DEF get
<1>6. newest \in DOMAIN rows
  BY <1>1, <1>2, <1>4
<1> QED
  BY <1>5, <1>6

(* What a row or an entry holds is a Result.                                *)
LEMMA HeldType ==
  ASSUME TypeOK
  PROVE  /\ \A e \in cache : e.key \in Keys /\ e.value \in Result
         /\ \A i \in DOMAIN rows : rows[i] \in Entries /\ rows[i].value \in Result
<1>1. \A e \in Entries : e.key \in Keys /\ e.value \in Result
  BY DEF Entries
<1>2. cache \subseteq Entries /\ rows \in Seq(Entries)
  BY DEF TypeOK
<1>3. \A i \in DOMAIN rows : rows[i] \in Entries
  BY <1>2
<1> QED
  BY <1>1, <1>2, <1>3

-----------------------------------------------------------------------------
(* A step of one session is no step of another.                             *)
Acts(q) == Step(q) \/ \E t \in Texts : begin_turn(q, t)

SameAt(s) ==
  /\ turn'[s] = turn[s] /\ pending'[s] = pending[s] /\ confirmed'[s] = confirmed[s]
  /\ pc'[s] = pc[s] /\ text'[s] = text[s] /\ key'[s] = key[s] /\ round'[s] = round[s]
  /\ last'[s] = last[s] /\ reply'[s] = reply[s] /\ wrote'[s] = wrote[s]

LEMMA OthersStay ==
  ASSUME TypeOK, NEW q \in Sessions, Acts(q), NEW s \in Sessions, s # q
  PROVE  SameAt(s)
<1> USE DEF TypeOK, SameAt, session, caches, locals, Goto, Finish, EndMessage
<1>1. CASE \E t \in Texts : begin_turn(q, t)
  BY <1>1 DEF begin_turn
<1>2. CASE cache_lookup(q)
  BY <1>2 DEF cache_lookup
<1>3. CASE input_guard(q)
  BY <1>3 DEF input_guard
<1>4. CASE semantic_lookup(q)
  BY <1>4 DEF semantic_lookup
<1>5. CASE Repair(q)
  BY <1>5 DEF Repair
<1>6. CASE route_extract(q)
  <2>1. PICK r \in Requests :
          CASE r.intent = "unclear" -> Finish(q, Says("clarification", Nothing, r))
            [] r.intent = "faq"     -> Goto(q, "faq") /\ reply' = [reply EXCEPT ![q].request = r]
            [] OTHER                -> Goto(q, "tools") /\ reply' = [reply EXCEPT ![q].request = r]
    BY <1>6 DEF route_extract
  <2>2. pc'[s] = pc[s] /\ reply'[s] = reply[s]
    BY <2>1
  <2> QED
    BY <1>6, <2>2 DEF route_extract
<1>7. CASE answer_faq(q)
  BY <1>7 DEF answer_faq
<1>8. CASE semantic_put(q)
  BY <1>8 DEF semantic_put
<1>9. CASE AskModel(q)
  BY <1>9 DEF AskModel
<1>10. CASE FinalReply(q)
  BY <1>10 DEF FinalReply
<1>11. CASE Lookup(q)
  BY <1>11 DEF Lookup
<1>12. CASE EndRound(q)
  BY <1>12 DEF EndRound
<1>13. CASE Act(q)
  BY <1>13 DEF Act, side_effect
<1>14. CASE handoff_to_support(q)
  BY <1>14 DEF handoff_to_support
<1>15. CASE execute_confirmed(q)
  BY <1>15 DEF execute_confirmed, side_effect
<1>16. CASE output_guard(q)
  BY <1>16 DEF output_guard
<1>17. CASE deliver(q)
  BY <1>17 DEF deliver
<1>18. CASE AuditFails(q)
  BY <1>18 DEF AuditFails
<1>19. CASE Raise(q)
  BY <1>19 DEF Raise
<1> QED
  BY <1>1, <1>2, <1>3, <1>4, <1>5, <1>6, <1>7, <1>8, <1>9, <1>10, <1>11, <1>12, <1>13,
     <1>14, <1>15, <1>16, <1>17, <1>18, <1>19 DEF Acts, Step

(* The request that decides a message's stage is one the router may extract.*)
LEMMA Extracted ==
  ASSUME TypeOK, NEW s \in Sessions, route_extract(s)
  PROVE  \E r \in Requests :
           \/ Finish(s, Says("clarification", Nothing, r))
           \/ /\ Goto(s, "faq") \/ Goto(s, "tools")
              /\ reply' = [reply EXCEPT ![s].request = r]
<1>1. PICK r \in Requests :
        CASE r.intent = "unclear" -> Finish(s, Says("clarification", Nothing, r))
          [] r.intent = "faq"     -> Goto(s, "faq") /\ reply' = [reply EXCEPT ![s].request = r]
          [] OTHER                -> Goto(s, "tools") /\ reply' = [reply EXCEPT ![s].request = r]
  BY DEF route_extract
<1>2. CASE r.intent = "unclear"
  BY <1>1, <1>2
<1>3. CASE r.intent = "faq"
  BY <1>1, <1>3
<1>4. CASE r.intent # "unclear" /\ r.intent # "faq"
  BY <1>1, <1>4
<1> QED
  BY <1>2, <1>3, <1>4

LEMMA AnsweredType ==
  ASSUME TypeOK, NEW s \in Sessions, NEW data \in Result
  PROVE  /\ Answered(s, data) \in Result
         /\ Answered(s, data).status = data.status
         /\ Answered(s, data).facts = data.facts
         /\ Answered(s, data).request = reply[s].request
BY DEF TypeOK, Result, Answered

-----------------------------------------------------------------------------
(* Type correctness.                                                        *)

LEMMA RequestTypes ==
  ASSUME NEW r \in Requests
  PROVE  /\ r \in Request
         /\ r.intent \in {"return", "exchange", "appointment"} => r.args \in Args
BY ApplicationAssumption DEF ApplicationAssumption

LEMMA WaitingRequest ==
  ASSUME TypeOK, NEW s \in Sessions, pending[s] # NoProposal
  PROVE  LET r == RequestFor(pending[s].digest.args) IN
         /\ r \in Request /\ r.args \in Args /\ r.args = pending[s].digest.args
<1>1. pending[s].digest.args \in Args
  BY DEF TypeOK, Pending, Digested
<1> QED
  BY <1>1 DEF RequestFor, Request, Intents, Args, ReturnArgs, ExchangeArgs, BookingArgs

LEMMA SideEffectType ==
  ASSUME TypeOK, NEW s \in Sessions, NEW r \in Request, r.args \in Args, side_effect(s, r),
         UNCHANGED <<turn, terminal, caches, locals>>
  PROVE  TypeOK' /\ pc'[s] = "output"
<1>1. PICK res \in Result, p \in Pending \cup {NoProposal}, c \in Digested \cup {NoProposal} :
         /\ pc' = [pc EXCEPT ![s] = "output"]
         /\ reply' = [reply EXCEPT ![s] = res]
         /\ pending' = [pending EXCEPT ![s] = p]
         /\ confirmed' = [confirmed EXCEPT ![s] = c]
         /\ \/ Refused(s, r, res, p, c) \/ Withheld(s, r, res, p, c)
            \/ Proposed(s, r, res, p, c) \/ Executed(s, r, res, p, c)
  BY SideEffect
<1>2. db' \in Database /\ wrote' \in [Sessions -> BOOLEAN]
  <2>1. CASE Executed(s, r, res, p, c)
    <3>1. CustomerOf[s] \in Customers
      BY <2>1, ApplicationAssumption DEF Executed, authorize, ApplicationAssumption
    <3> QED
      BY <2>1, <3>1, EffectType DEF Executed, TypeOK
  <2>2. CASE ~Executed(s, r, res, p, c)
    BY <1>1, <2>2 DEF Refused, Withheld, Proposed, TypeOK
  <2> QED
    BY <2>1, <2>2
<1> QED
  BY <1>1, <1>2 DEF TypeOK, caches, locals, Stages

LEMMA TypeStep ==
  ASSUME TypeInv, NEW s \in Sessions, Acts(s)
  PROVE  TypeOK' /\ Asked(s)'
<1> USE DEF session, caches, locals, Goto, Finish
<1>0. TypeOK /\ Asked(s)
  BY DEF TypeInv
<1>1. CASE \E t \in Texts : begin_turn(s, t)
  <2>1. PICK t \in Texts : begin_turn(s, t)
    BY <1>1
  <2>2. Restores(s, t) => pending[s] # NoProposal /\ pending[s].digest \in Digested
    BY <1>0 DEF Restores, TypeOK, Pending
  <2>3. turn' \in [Sessions -> Nat] /\ text' \in [Sessions -> Texts \cup {NoText}] /\ text'[s] = t
    BY <1>0, <2>1 DEF begin_turn, TypeOK
  <2>4. /\ confirmed' \in [Sessions -> Digested \cup {NoProposal}]
        /\ pending' \in [Sessions -> Pending \cup {NoProposal}]
        /\ Restores(s, t) => pending'[s] # NoProposal
    BY <1>0, <2>1, <2>2 DEF begin_turn, TypeOK
  <2>5. /\ pc' \in [Sessions -> Stages] /\ pc'[s] \in {"output", "confirmed", "cache"}
        /\ pc'[s] = "confirmed" => Restores(s, t)
        /\ reply' \in [Sessions -> Result]
    <3>1. Plain("handoff") \in Result /\ Plain("none") \in Result
      BY PlainResults
    <3>2. \/ /\ pc' = [pc EXCEPT ![s] = "output"]
             /\ reply' = [reply EXCEPT ![s] = Plain("handoff")]
          \/ /\ pc' = [pc EXCEPT ![s] = "confirmed"] /\ Restores(s, t)
             /\ reply' = [reply EXCEPT ![s] = Plain("none")]
          \/ /\ pc' = [pc EXCEPT ![s] = "cache"]
             /\ reply' = [reply EXCEPT ![s] = Plain("none")]
      BY <2>1 DEF begin_turn
    <3>3. pc \in [Sessions -> Stages] /\ reply \in [Sessions -> Result]
      BY <1>0 DEF TypeOK
    <3> QED
      BY <3>1, <3>2, <3>3 DEF Stages
  <2>6. TypeOK'
    BY <1>0, <2>1, <2>3, <2>4, <2>5 DEF begin_turn, TypeOK
  <2> QED
    BY <2>3, <2>4, <2>5, <2>6 DEF Asked, Keyed
<1>2. CASE cache_lookup(s)
  <2>1. \A e \in Hit(cache_key(s, db)) : e.value \in Result
    BY <1>0, HeldType DEF Hit
  <2>2. /\ pc' \in [Sessions -> Stages] /\ pc'[s] \in {"output", "guard"}
        /\ reply' \in [Sessions -> Result]
    BY <1>0, <1>2, <2>1 DEF cache_lookup, TypeOK, Stages
  <2> QED
    BY <1>0, <1>2, <2>2 DEF cache_lookup, TypeOK, Asked, Keyed
<1>3. CASE input_guard(s)
  <2>1. /\ pc' \in [Sessions -> Stages] /\ pc'[s] \in {"output", "semantic"}
        /\ reply' \in [Sessions -> Result]
        /\ pending' \in [Sessions -> Pending \cup {NoProposal}]
        /\ tries' \in [Sessions -> 0 .. Attempts - 1]
    <3>1. 0 \in 0 .. Attempts - 1
      BY DEF Attempts
    <3> QED
      BY <1>0, <1>3, <3>1, PlainResults DEF input_guard, TypeOK, Stages
  <2> QED
    BY <1>0, <1>3, <2>1 DEF input_guard, TypeOK, Asked, Keyed
<1>4. CASE semantic_lookup(s)
  <2>1. cache_key(s, db) \in Keys
    BY <1>0, <1>4, KeyType DEF semantic_lookup, Asked
  <2>2. Matches(cache_key(s, db)) # {} => get(cache_key(s, db)) \in Result
    BY <1>0, GetType, HeldType
  <2>3. /\ pc' \in [Sessions -> Stages] /\ pc'[s] \in {"output", "route"}
        /\ reply' \in [Sessions -> Result]
        /\ key' \in [Sessions -> Keys \cup {NoKey}] /\ key'[s] \in Keys
    BY <1>0, <1>4, <2>1, <2>2 DEF semantic_lookup, TypeOK, Stages
  <2> QED
    BY <1>0, <1>4, <2>3 DEF semantic_lookup, TypeOK, Asked, Keyed
<1>5. CASE Repair(s)
  <2>1. tries[s] + 1 \in 0 .. Attempts - 1
    <3>1. tries[s] \in 0 .. Attempts - 1
      BY <1>0 DEF TypeOK
    <3>2. tries[s] + 1 < Attempts
      BY <1>5 DEF Repair
    <3> QED
      BY <3>1, <3>2 DEF Attempts
  <2> QED
    BY <1>0, <1>5, <2>1 DEF Repair, TypeOK, Asked
<1>6. CASE route_extract(s)
  <2>1. PICK r \in Requests :
          \/ Finish(s, Says("clarification", Nothing, r))
          \/ /\ Goto(s, "faq") \/ Goto(s, "tools")
             /\ reply' = [reply EXCEPT ![s].request = r]
    BY <1>0, <1>6, Extracted
  <2>2. r \in Request /\ Says("clarification", Nothing, r) \in Result
    BY RequestTypes, SaysType, PlainType DEF Statuses
  <2>3. [reply[s] EXCEPT !.request = r] \in Result /\ [reply[s] EXCEPT !.request = r].request = r
    BY <1>0, <2>2 DEF TypeOK, Result
  <2>4. /\ pc' \in [Sessions -> Stages] /\ pc'[s] \in {"output", "faq", "tools"}
        /\ reply' \in [Sessions -> Result]
        /\ pc'[s] = "tools" => reply'[s].request = r
    <3>1. CASE Finish(s, Says("clarification", Nothing, r))
      BY <1>0, <2>2, <3>1 DEF TypeOK, Stages
    <3>2. CASE /\ Goto(s, "faq") \/ Goto(s, "tools")
               /\ reply' = [reply EXCEPT ![s].request = r]
      BY <1>0, <2>3, <3>2 DEF TypeOK, Stages
    <3> QED
      BY <2>1, <3>1, <3>2
  <2> QED
    BY <1>0, <1>6, <2>4 DEF route_extract, TypeOK, Asked, Keyed
<1>7. CASE answer_faq(s)
  <2> DEFINE value == Answered(s, lookup_catalog(db, text[s]))
  <2>1. value \in Result
    BY <1>0, CatalogType, AnsweredType DEF TypeOK
  <2>2. key[s] \in Keys
    BY <1>0, <1>7 DEF answer_faq, Asked, Keyed
  <2>3. Store(key[s], value) \subseteq Entries
    BY <1>0, <2>1, <2>2, StoreType
  <2> HIDE DEF value
  <2>4. /\ pc' \in [Sessions -> Stages] /\ pc'[s] \in {"output", "remember"}
        /\ reply' \in [Sessions -> Result] /\ cache' \subseteq Entries
    BY <1>0, <1>7, <2>1, <2>3 DEF answer_faq, TypeOK, Stages, value
  <2> QED
    BY <1>0, <1>7, <2>2, <2>4 DEF answer_faq, TypeOK, Asked, Keyed
<1>8. CASE semantic_put(s)
  <2>1. cache_key(s, db) \in Keys /\ reply[s] \in Result
    BY <1>0, <1>8, KeyType DEF semantic_put, Asked, TypeOK
  <2>2. rows' \in Seq(Entries) /\ Len(rows') <= RowLimit
    BY <1>0, <1>8, <2>1, PutType DEF semantic_put
  <2> QED
    BY <1>0, <1>8, <2>2 DEF semantic_put, TypeOK, Asked, Stages, Keyed
<1>9. CASE AskModel(s)
  <2>1. /\ round' \in [Sessions -> 0 .. MaxRounds] /\ calls' \in [Sessions -> 0 .. MaxToolCalls]
    BY <1>0, <1>9, ApplicationAssumption DEF AskModel, TypeOK, ApplicationAssumption
  <2> QED
    BY <1>0, <1>9, <2>1 DEF AskModel, TypeOK, Asked, Stages, Keyed
<1>10. CASE FinalReply(s)
  <2> DEFINE value == Answered(s, last[s])
  <2>1. value \in Result
    BY <1>0, AnsweredType DEF TypeOK
  <2>2. key[s] \in Keys
    BY <1>0, <1>10 DEF FinalReply, Asked, Keyed
  <2>3. Store(key[s], value) \subseteq Entries
    BY <1>0, <2>1, <2>2, StoreType
  <2> HIDE DEF value
  <2>4. /\ pc' \in [Sessions -> Stages] /\ pc'[s] = "output"
        /\ reply' \in [Sessions -> Result] /\ cache' \subseteq Entries
    BY <1>0, <1>10, <2>1, <2>3 DEF FinalReply, TypeOK, Stages, value
  <2> QED
    BY <1>0, <1>10, <2>4 DEF FinalReply, TypeOK, Asked, Keyed
<1>11. CASE Lookup(s)
  <2>1. \A q \in Texts : lookup_catalog(db, q) \in Result
    BY <1>0, CatalogType DEF TypeOK
  <2>2. reply[s].request.order # NoId => lookup_order(s, reply[s].request.order) \in Result
    BY <1>0, OrderType DEF TypeOK, Result, Request
  <2>3. last' \in [Sessions -> Result]
    BY <1>0, <1>11, <2>1, <2>2 DEF Lookup, TypeOK
  <2>4. calls' \in [Sessions -> 0 .. MaxToolCalls]
    BY <1>0, <1>11, ApplicationAssumption DEF Lookup, TypeOK, ApplicationAssumption
  <2> QED
    BY <1>0, <1>11, <2>3, <2>4 DEF Lookup, TypeOK, Asked
<1>12. CASE EndRound(s)
  BY <1>0, <1>12 DEF EndRound, TypeOK, Asked, Stages, Keyed
<1>13. CASE Act(s)
  <2>1. reply[s].request \in Request /\ reply[s].request.args \in Args
    BY <1>0, <1>13, RequestTypes DEF Act, Asked
  <2>2. TypeOK' /\ pc'[s] = "output"
    BY <1>0, <1>13, <2>1, SideEffectType DEF Act
  <2> QED
    BY <1>0, <1>13, <2>2 DEF Act, Asked, Keyed
<1>14. CASE handoff_to_support(s)
  <2>1. reply[s].request \in Request
    BY <1>0 DEF TypeOK, Result
  <2>2. Says("handoff", Nothing, reply[s].request) \in Result
    BY <2>1, SaysType, PlainType DEF Statuses
  <2> QED
    BY <1>0, <1>14, <2>2 DEF handoff_to_support, TypeOK, Asked, Stages, Keyed
<1>15. CASE execute_confirmed(s)
  <2> DEFINE r == RequestFor(pending[s].digest.args)
  <2>1. r \in Request /\ r.args \in Args
    BY <1>0, <1>15, WaitingRequest DEF execute_confirmed, Asked
  <2>2. side_effect(s, r) /\ UNCHANGED <<turn, terminal, caches, locals>>
    BY <1>15 DEF execute_confirmed
  <2> HIDE DEF r
  <2>3. TypeOK' /\ pc'[s] = "output"
    BY <1>0, <2>1, <2>2, SideEffectType
  <2> QED
    BY <1>0, <1>15, <2>3 DEF execute_confirmed, Asked, Keyed
<1>16. CASE output_guard(s)
  BY <1>0, <1>16, PlainResults DEF output_guard, TypeOK, Asked, Stages, Keyed
<1>17. CASE deliver(s) \/ AuditFails(s)
  <2>1. Plain("none") \in Result /\ Plain("lost") \in Result
    BY PlainResults
  <2>2. EndMessage(s) /\ reply' \in [Sessions -> Result]
    BY <1>0, <1>17, <2>1 DEF deliver, AuditFails, TypeOK
  <2>3. 0 \in 0 .. MaxRounds /\ 0 \in 0 .. MaxToolCalls /\ 0 \in 0 .. Attempts - 1
    BY ApplicationAssumption DEF ApplicationAssumption, Attempts
  <2> QED
    BY <1>0, <2>1, <2>2, <2>3 DEF EndMessage, TypeOK, Asked, Stages, Keyed
<1>18. CASE Raise(s)
  <2>1. Plain("error") \in Result /\ Plain("blocked") \in Result
    BY PlainResults
  <2> QED
    BY <1>0, <1>18, <2>1 DEF Raise, TypeOK, Asked, Stages, Keyed
<1> QED
  BY <1>1, <1>2, <1>3, <1>4, <1>5, <1>6, <1>7, <1>8, <1>9, <1>10, <1>11, <1>12, <1>13,
     <1>14, <1>15, <1>16, <1>17, <1>18 DEF Acts, Step

LEMMA TypeNext ==
  ASSUME TypeInv, [Next]_vars
  PROVE  TypeInv'
<1>1. CASE \E q \in Sessions : Acts(q)
  <2>1. PICK q \in Sessions : Acts(q)
    BY <1>1
  <2>2. TypeOK /\ TypeOK' /\ Asked(q)'
    BY <2>1, TypeStep DEF TypeInv
  <2>3. ASSUME NEW s \in Sessions, s # q PROVE Asked(s)'
    <3>1. SameAt(s)
      BY <2>1, <2>2, <2>3, OthersStay
    <3> QED
      BY <3>1 DEF SameAt, Asked, TypeInv
  <2> QED
    BY <2>2, <2>3 DEF TypeInv
<1>2. CASE OtherStore \/ Edit
  <2>1. UNCHANGED <<session, caches, pc, locals, reply, wrote>>
    BY <1>2 DEF OtherStore, Edit
  <2>2. db' \in Database
    <3>1. CASE OtherStore
      <4>1. PICK x \in OtherActions : db' = Effect(db, x.customer, x.args)
        BY <3>1 DEF OtherStore
      <4>2. x.customer \in Customers /\ x.args \in Args
        BY ApplicationAssumption DEF ApplicationAssumption, Action
      <4> QED
        BY <4>1, <4>2, EffectType DEF TypeInv, TypeOK
    <3>2. CASE Edit
      <4>1. PICK stock \in Edits : db' = [db EXCEPT !.stock = stock]
        BY <3>2 DEF Edit
      <4>2. stock \in [Products -> Nat]
        BY ApplicationAssumption DEF ApplicationAssumption
      <4> QED
        BY <4>1, <4>2 DEF TypeInv, TypeOK, Database
    <3> QED
      BY <1>2, <3>1, <3>2
  <2> QED
    BY <2>1, <2>2 DEF TypeInv, TypeOK, Asked, session, caches, locals
<1>3. CASE UNCHANGED vars
  BY <1>3 DEF vars, session, caches, locals, TypeInv, TypeOK, Asked
<1> QED
  BY <1>1, <1>2, <1>3 DEF Next, Acts

LEMMA TypeStart == Init => TypeInv
<1> SUFFICES ASSUME Init PROVE TypeInv
  OBVIOUS
<1>1. Plain("none") \in Result
  BY PlainResults
<1>2. rows \in Seq(Entries) /\ Len(rows) <= RowLimit
  BY ApplicationAssumption DEF Init, ApplicationAssumption
<1>3. 0 \in 0 .. Attempts - 1 /\ 0 \in 0 .. MaxRounds /\ 0 \in 0 .. MaxToolCalls
  BY ApplicationAssumption DEF Attempts, ApplicationAssumption
<1>4. TypeOK
  BY <1>1, <1>2, <1>3, FixtureConsistent DEF Init, TypeOK, Stages
<1> QED
  BY <1>4 DEF TypeInv, Asked, Init, Keyed

(* Every variable of the pipeline stays in its type, and each stage finds   *)
(* in the locals what its code reads there: a text, a key, the parsed       *)
(* request, the proposal that is being confirmed.                           *)
THEOREM ApplicationTypeOK == Spec => []TypeInv
BY TypeStart, TypeNext, PTL DEF Spec

-----------------------------------------------------------------------------
(* Who is told about an order.                                              *)

LEMMA KnowStep ==
  ASSUME TypeInv, KnowInv, NEW s \in Sessions, Acts(s)
  PROVE  CachesHoldAnswers' /\ CachesPrivate' /\ Knows(s)'
<1> USE DEF session, caches, locals, Goto, Finish
<1>0. /\ TypeOK /\ Asked(s) /\ CachesHoldAnswers /\ CachesPrivate /\ Knows(s)
      /\ pc \in [Sessions -> Stages] /\ reply \in [Sessions -> Result]
      /\ last \in [Sessions -> Result] /\ key \in [Sessions -> Keys \cup {NoKey}]
  BY DEF TypeInv, KnowInv, TypeOK
<1>a. UNCHANGED caches => CachesHoldAnswers' /\ CachesPrivate'
  BY <1>0 DEF CachesHoldAnswers, CachesPrivate
<1>b. Nothing.order = NoId
  BY PlainType
<1>1. CASE \E t \in Texts : begin_turn(s, t)
  <2>1. /\ UNCHANGED <<caches, last>> /\ pc'[s] \in {"output", "confirmed", "cache"}
        /\ reply'[s] \in {Plain("none"), Plain("handoff")}
    BY <1>0, <1>1 DEF begin_turn
  <2> QED
    BY <1>0, <1>a, <1>b, <2>1, PlainResults DEF Knows, Keyed, HeldBy
<1>2. CASE cache_lookup(s)
  <2>1. /\ UNCHANGED <<caches, last>> /\ pc'[s] \in {"output", "guard"}
        /\ \/ reply'[s] = reply[s]
           \/ \E e \in cache : e.key = cache_key(s, db) /\ reply'[s] = e.value
    BY <1>0, <1>2 DEF cache_lookup, Hit
  <2>2. cache_key(s, db).scope.customer = CustomerOf[s]
    BY DEF cache_key, cache_scope
  <2>3. HeldBy(CustomerOf[s], reply'[s].facts)
    BY <1>0, <2>1, <2>2 DEF CachesPrivate, Knows
  <2> QED
    BY <1>0, <1>a, <2>1, <2>3 DEF Knows, Keyed
<1>3. CASE input_guard(s)
  <2>1. /\ UNCHANGED <<caches, last>> /\ pc'[s] \in {"output", "semantic"}
        /\ reply'[s] \in {reply[s], Plain("blocked"), Plain("clarification")}
    BY <1>0, <1>3 DEF input_guard
  <2> QED
    BY <1>0, <1>a, <1>b, <2>1, PlainResults DEF Knows, Keyed, HeldBy
<1>4. CASE semantic_lookup(s)
  <2>1. /\ UNCHANGED <<caches, last>> /\ pc'[s] \in {"output", "route"}
        /\ key'[s] = cache_key(s, db)
        /\ \/ reply'[s] = reply[s]
           \/ /\ Matches(cache_key(s, db)) # {}
              /\ reply'[s] = get(cache_key(s, db))
    BY <1>0, <1>4 DEF semantic_lookup
  <2>2. Matches(cache_key(s, db)) # {} => get(cache_key(s, db)).facts.order = NoId
    BY <1>0, GetType DEF CachesHoldAnswers
  <2>3. HeldBy(CustomerOf[s], reply'[s].facts)
    BY <1>0, <2>1, <2>2 DEF Knows, HeldBy
  <2>4. cache_key(s, db).scope.customer = CustomerOf[s]
    BY DEF cache_key, cache_scope
  <2> QED
    BY <1>0, <1>a, <2>1, <2>3, <2>4 DEF Knows
<1>5. CASE Repair(s)
  BY <1>0, <1>5, <1>a DEF Repair, Knows
<1>6. CASE route_extract(s)
  <2>1. PICK r \in Requests :
          \/ Finish(s, Says("clarification", Nothing, r))
          \/ /\ Goto(s, "faq") \/ Goto(s, "tools")
             /\ reply' = [reply EXCEPT ![s].request = r]
    BY <1>0, <1>6, Extracted
  <2>2. reply'[s].facts \in {reply[s].facts, Nothing}
    <3>1. CASE Finish(s, Says("clarification", Nothing, r))
      BY <1>0, <3>1 DEF Says
    <3>2. CASE reply' = [reply EXCEPT ![s].request = r]
      BY <1>0, <3>2 DEF Result
    <3> QED
      BY <2>1, <3>1, <3>2
  <2>3. /\ UNCHANGED <<caches, last, key>> /\ pc[s] \in Keyed
        /\ pc'[s] \in {"output", "faq", "tools"}
    BY <1>0, <1>6, <2>1 DEF route_extract, Keyed
  <2> QED
    BY <1>0, <1>a, <1>b, <2>2, <2>3 DEF Knows, HeldBy
<1>7. CASE answer_faq(s)
  <2> DEFINE value == Answered(s, lookup_catalog(db, text[s]))
  <2>1. value \in Result /\ value.status = "answer" /\ value.facts.order = NoId
    <3> DEFINE data == lookup_catalog(db, text[s])
    <3>1. data \in Result /\ data.status = "answer" /\ data.facts.order = NoId
      BY <1>0, CatalogType DEF TypeOK
    <3> HIDE DEF data
    <3>2. Answered(s, data) \in Result /\ Answered(s, data).status = data.status
          /\ Answered(s, data).facts = data.facts
      BY <1>0, <3>1, AnsweredType
    <3> QED
      BY <3>1, <3>2 DEF data
  <2>2. key[s] \in Keys
    BY <1>0, <1>7 DEF answer_faq, Asked, Keyed
  <2>3. \A e \in Store(key[s], value) : e \in cache \/ (e.key = key[s] /\ e.value = value)
    BY <1>0, <2>1, <2>2, StoreType
  <2> HIDE DEF value
  <2>4. /\ UNCHANGED <<rows, last, key>> /\ pc[s] \in Keyed /\ pc'[s] \in {"output", "remember"}
        /\ reply'[s] = value /\ cache' \in {cache, Store(key[s], value)}
    BY <1>0, <1>7 DEF answer_faq, Keyed, value
  <2>5. CachesHoldAnswers' /\ CachesPrivate'
    BY <1>0, <2>1, <2>3, <2>4 DEF CachesHoldAnswers, CachesPrivate, HeldBy
  <2> QED
    BY <1>0, <2>1, <2>4, <2>5 DEF Knows, HeldBy
<1>8. CASE semantic_put(s)
  <2>1. cache_key(s, db) \in Keys /\ reply[s] \in Result
    BY <1>0, <1>8, KeyType DEF semantic_put, Asked
  <2>2. \A i \in DOMAIN rows' : \/ rows'[i].value = reply[s]
                                \/ \E j \in DOMAIN rows : rows'[i] = rows[j]
    <3> DEFINE k == cache_key(s, db)
    <3>1. rows' = put(k, reply[s])
      BY <1>8 DEF semantic_put
    <3>2. \A i \in DOMAIN put(k, reply[s]) :
            \/ put(k, reply[s])[i] = [key |-> k, value |-> reply[s]]
            \/ \E j \in DOMAIN rows : put(k, reply[s])[i] = rows[j]
      BY <1>0, <2>1, PutType
    <3> HIDE DEF k
    <3> QED
      BY <3>1, <3>2
  <2>3. reply[s].status = "answer" /\ reply[s].facts.order = NoId
    BY <1>0, <1>8 DEF semantic_put, Knows
  <2>4. CachesHoldAnswers' /\ CachesPrivate'
    BY <1>0, <1>8, <2>2, <2>3 DEF semantic_put, CachesHoldAnswers, CachesPrivate
  <2> QED
    BY <1>0, <1>8, <2>4 DEF semantic_put, Knows, Keyed
<1>9. CASE AskModel(s)
  BY <1>0, <1>9, <1>a DEF AskModel, Knows, Keyed
<1>10. CASE FinalReply(s)
  <2> DEFINE value == Answered(s, last[s])
  <2>1. value \in Result /\ value.status = last[s].status /\ value.facts = last[s].facts
    BY <1>0, AnsweredType
  <2>2. key[s] \in Keys /\ key[s].scope.customer = CustomerOf[s]
    BY <1>0, <1>10 DEF FinalReply, Asked, Knows, Keyed
  <2>3. \A e \in Store(key[s], value) : e \in cache \/ (e.key = key[s] /\ e.value = value)
    BY <1>0, <2>1, <2>2, StoreType
  <2> HIDE DEF value
  <2>4. /\ UNCHANGED <<rows, last, key>> /\ pc'[s] = "output" /\ reply'[s] = value
        /\ \/ cache' = cache
           \/ cache' = Store(key[s], value) /\ value.status = "answer"
    BY <1>0, <1>10 DEF FinalReply, Remembers, value
  <2>5. CachesHoldAnswers' /\ CachesPrivate'
    BY <1>0, <2>1, <2>2, <2>3, <2>4 DEF CachesHoldAnswers, CachesPrivate, Knows
  <2> QED
    BY <1>0, <2>1, <2>4, <2>5 DEF Knows, Keyed
<1>11. CASE Lookup(s)
  <2>1. /\ UNCHANGED <<caches, pc, key, reply>> /\ pc[s] = "calls"
        /\ \/ /\ reply[s].request.order # NoId
              /\ last'[s] = lookup_order(s, reply[s].request.order)
           \/ \E q \in Texts : last'[s] = lookup_catalog(db, q)
    BY <1>0, <1>11 DEF Lookup
  <2>2. reply[s].request.order # NoId => reply[s].request.order \in Orders
    BY <1>0 DEF Result, Request
  <2>3. last'[s].status \in {"answer", "denied"} /\ HeldBy(CustomerOf[s], last'[s].facts)
    BY <1>0, <2>1, <2>2, OrderType, CatalogType DEF TypeOK, HeldBy
  <2> QED
    BY <1>0, <1>a, <2>1, <2>3 DEF Knows
<1>12. CASE EndRound(s)
  BY <1>0, <1>12, <1>a DEF EndRound, Knows, Keyed
<1>13. CASE Act(s) \/ execute_confirmed(s)
  <2>1. PICK r \in Request : r.args \in Args /\ side_effect(s, r)
    <3>1. CASE Act(s)
      <4>1. reply[s].request \in Requests /\ side_effect(s, reply[s].request)
        BY <1>0, <3>1 DEF Act, Asked
      <4>2. reply[s].request \in Request /\ reply[s].request.args \in Args
        BY <4>1, <3>1, RequestTypes DEF Act
      <4> QED
        BY <4>1, <4>2
    <3>2. CASE execute_confirmed(s)
      BY <1>0, <3>2, WaitingRequest DEF execute_confirmed, Asked
    <3> QED
      BY <1>13, <3>1, <3>2
  <2>2. pc'[s] = "output" /\ reply'[s].facts.order = NoId
    BY <1>0, <2>1, SideEffect
  <2> QED
    BY <1>0, <1>13, <1>a, <2>2 DEF Act, execute_confirmed, Knows, Keyed, HeldBy
<1>14. CASE handoff_to_support(s)
  <2>1. /\ UNCHANGED <<caches, last>> /\ pc'[s] = "output" /\ reply'[s].facts = Nothing
    BY <1>0, <1>14 DEF handoff_to_support, Says
  <2> QED
    BY <1>0, <1>a, <1>b, <2>1 DEF Knows, Keyed, HeldBy
<1>15. CASE output_guard(s)
  <2>1. /\ UNCHANGED <<caches, last>> /\ pc'[s] = "deliver"
        /\ reply'[s] \in {reply[s], Plain("blocked")}
    BY <1>0, <1>15 DEF output_guard
  <2> QED
    BY <1>0, <1>a, <1>b, <2>1, PlainResults DEF Knows, Keyed, HeldBy
<1>16. CASE deliver(s) \/ AuditFails(s)
  <2>1. /\ UNCHANGED caches /\ pc'[s] = "idle" /\ last'[s] = Plain("none")
        /\ reply'[s] \in {reply[s], Plain("lost")}
    BY <1>0, <1>16 DEF deliver, AuditFails, EndMessage
  <2> QED
    BY <1>0, <1>a, <1>b, <2>1, PlainResults DEF Knows, Keyed, HeldBy
<1>17. CASE Raise(s)
  <2>1. /\ UNCHANGED <<caches, last>> /\ pc'[s] = "deliver"
        /\ reply'[s] \in {Plain("error"), Plain("blocked")}
    BY <1>0, <1>17 DEF Raise
  <2> QED
    BY <1>0, <1>a, <1>b, <2>1, PlainResults DEF Knows, Keyed, HeldBy
<1> QED
  BY <1>1, <1>2, <1>3, <1>4, <1>5, <1>6, <1>7, <1>8, <1>9, <1>10, <1>11, <1>12, <1>13,
     <1>14, <1>15, <1>16, <1>17 DEF Acts, Step

LEMMA KnowNext ==
  ASSUME TypeInv, KnowInv, [Next]_vars
  PROVE  KnowInv'
<1>1. CASE \E q \in Sessions : Acts(q)
  <2>1. PICK q \in Sessions : Acts(q)
    BY <1>1
  <2>2. TypeOK /\ CachesHoldAnswers' /\ CachesPrivate' /\ Knows(q)'
    BY <2>1, KnowStep DEF TypeInv
  <2>3. ASSUME NEW s \in Sessions, s # q PROVE Knows(s)'
    <3>1. SameAt(s)
      BY <2>1, <2>2, <2>3, OthersStay
    <3> QED
      BY <3>1 DEF SameAt, Knows, KnowInv
  <2> QED
    BY <2>2, <2>3 DEF KnowInv
<1>2. CASE OtherStore \/ Edit \/ UNCHANGED vars
  <2>1. UNCHANGED <<session, caches, pc, locals, reply, wrote>>
    BY <1>2 DEF OtherStore, Edit, vars
  <2> QED
    BY <2>1 DEF KnowInv, CachesHoldAnswers, CachesPrivate, Knows, caches, locals
<1> QED
  BY <1>1, <1>2 DEF Next, Acts

LEMMA KnowStart == Init => KnowInv
<1> SUFFICES ASSUME Init PROVE KnowInv
  OBVIOUS
<1>1. Plain("none").status = "none" /\ Plain("none").facts.order = NoId
  BY PlainType, PlainResults
<1> QED
  BY <1>1 DEF Init, KnowInv, CachesHoldAnswers, CachesPrivate, Knows, HeldBy, Keyed

LEMMA KnowAlways == Spec => [](TypeInv /\ KnowInv)
BY TypeStart, TypeNext, KnowStart, KnowNext, PTL DEF Spec

(* Only the owner of an order is told about it, by a lookup or by either    *)
(* cache: an entry holds its order for the customer in its own key, and a   *)
(* row of the second tier holds no order at all (ADR-007).                  *)
THEOREM ApplicationOrdersStayPrivate == Spec => []OrdersStayPrivate
<1>1. KnowInv => OrdersStayPrivate
  BY DEF KnowInv, Knows, HeldBy, OrdersStayPrivate
<1> QED
  BY <1>1, KnowAlways, PTL

(* Only answers are remembered: the last result of a tool loop is remembered*)
(* when its status says so, and the second tier is given a question's answer.*)
THEOREM ApplicationCachesHoldAnswers == Spec => []CachesHoldAnswers
<1>1. KnowInv => CachesHoldAnswers
  BY DEF KnowInv
<1> QED
  BY <1>1, KnowAlways, PTL

-----------------------------------------------------------------------------
(* What the customer reads is what the session holds.                       *)

LEMMA StageStep ==
  ASSUME TypeInv, KnowInv, StageInv, NEW s \in Sessions, Acts(s)
  PROVE  Staged(s)'
<1> USE DEF session, caches, locals, Goto, Finish
<1>0. /\ TypeOK /\ Asked(s) /\ Knows(s) /\ Staged(s)
      /\ pc \in [Sessions -> Stages] /\ reply \in [Sessions -> Result]
      /\ pending \in [Sessions -> Pending \cup {NoProposal}]
      /\ confirmed \in [Sessions -> Digested \cup {NoProposal}]
      /\ turn \in [Sessions -> Nat] /\ round \in [Sessions -> 0 .. MaxRounds]
      /\ wrote \in [Sessions -> BOOLEAN] /\ text \in [Sessions -> Texts \cup {NoText}]
      /\ pending[s] # NoProposal => pending[s].turn \in Nat
  BY DEF TypeInv, KnowInv, StageInv, TypeOK, Pending
<1> DEFINE Plainly(st) == st \notin {"confirmation_required", "created"}
<1>a. ASSUME pc'[s] \in {"output", "deliver"}, Plainly(reply'[s].status), wrote'[s] = FALSE,
             pending'[s] = NoProposal \/ pending'[s].turn # turn'[s]
      PROVE  Staged(s)'
  BY <1>a DEF Staged, Shown, Restores, Thinking, Keyed, Delivered
<1>b. ASSUME pc'[s] \in Thinking, pending'[s] = NoProposal, confirmed'[s] = NoProposal,
             wrote'[s] = FALSE
      PROVE  Staged(s)'
  BY <1>b DEF Staged, Thinking, Keyed, Delivered
<1>c. \A st \in {"none", "handoff", "clarification", "blocked", "error", "lost", "denied"} :
        Plain(st).status = st
  BY PlainResults
<1>d. pc[s] \in Thinking => pending[s] = NoProposal /\ confirmed[s] = NoProposal /\ wrote[s] = FALSE
  BY <1>0 DEF Staged
<1>1. CASE \E t \in Texts : begin_turn(s, t)
  <2>1. PICK t \in Texts : begin_turn(s, t)
    BY <1>1
  <2>2. /\ turn'[s] = turn[s] + 1 /\ text'[s] = t /\ wrote'[s] = FALSE /\ round'[s] = round[s]
        /\ \/ /\ Restores(s, t) /\ confirmed'[s] = pending[s].digest /\ pending'[s] = pending[s]
           \/ /\ ~Restores(s, t) /\ confirmed'[s] = NoProposal /\ pending'[s] = NoProposal
        /\ \/ pc'[s] = "output" /\ reply'[s] = Plain("handoff")
           \/ pc'[s] = "confirmed" /\ Restores(s, t)
           \/ pc'[s] = "cache" /\ ~Restores(s, t)
    <3>1. turn'[s] = turn[s] + 1 /\ text'[s] = t /\ wrote'[s] = FALSE /\ round'[s] = round[s]
      BY <1>0, <2>1 DEF begin_turn
    <3>2. \/ /\ Restores(s, t) /\ confirmed'[s] = pending[s].digest /\ pending'[s] = pending[s]
          \/ /\ ~Restores(s, t) /\ confirmed'[s] = NoProposal /\ pending'[s] = NoProposal
      BY <1>0, <2>1 DEF begin_turn
    <3>3. \/ pc'[s] = "output" /\ reply'[s] = Plain("handoff")
          \/ pc'[s] = "confirmed" /\ Restores(s, t)
          \/ pc'[s] = "cache" /\ ~Restores(s, t)
      BY <1>0, <2>1 DEF begin_turn
    <3> QED
      BY <3>1, <3>2, <3>3
  <2>3. pc[s] = "idle" /\ round[s] = 0
    BY <1>0, <2>1 DEF begin_turn, Staged
  <2>4. CASE pc'[s] = "output"
    <3>1. Plainly(reply'[s].status)
      BY <1>c, <2>2, <2>4
    <3>2. pending'[s] = NoProposal \/ pending'[s].turn # turn'[s]
      BY <1>0, <2>2 DEF Restores
    <3> QED
      BY <1>a, <2>2, <2>4, <3>1, <3>2
  <2>5. CASE pc'[s] = "confirmed"
    BY <1>0, <2>2, <2>3, <2>5 DEF Restores, Staged, Thinking, Keyed, Delivered
  <2>6. CASE pc'[s] = "cache"
    BY <1>b, <2>2, <2>6 DEF Thinking
  <2> QED
    BY <2>2, <2>4, <2>5, <2>6
<1>2. CASE cache_lookup(s)
  <2>1. /\ UNCHANGED <<session, wrote>> /\ pc[s] = "cache" /\ pc'[s] \in {"output", "guard"}
        /\ pc'[s] = "output" => \E e \in cache : reply'[s] = e.value
    BY <1>0, <1>2 DEF cache_lookup, Hit
  <2>2. pc'[s] = "output" => reply'[s].status = "answer"
    BY <2>1 DEF KnowInv, CachesHoldAnswers
  <2> QED
    BY <1>a, <1>b, <1>d, <2>1, <2>2 DEF Thinking
<1>3. CASE input_guard(s)
  <2>1. /\ UNCHANGED <<turn, confirmed, wrote>> /\ pc[s] = "guard" /\ pc'[s] \in {"output", "semantic"}
        /\ pending'[s] \in {pending[s], NoProposal}
        /\ pc'[s] = "output" => reply'[s] \in {Plain("blocked"), Plain("clarification")}
    BY <1>0, <1>3 DEF input_guard
  <2> QED
    BY <1>a, <1>b, <1>c, <1>d, <2>1 DEF Thinking
<1>4. CASE semantic_lookup(s)
  <2>1. /\ UNCHANGED <<session, wrote>> /\ pc[s] = "semantic" /\ pc'[s] \in {"output", "route"}
        /\ pc'[s] = "output" => /\ Matches(cache_key(s, db)) # {}
                                /\ reply'[s] = get(cache_key(s, db))
    BY <1>0, <1>4 DEF semantic_lookup
  <2>2. Matches(cache_key(s, db)) # {} => get(cache_key(s, db)).status = "answer"
    BY <1>0, GetType DEF KnowInv, CachesHoldAnswers
  <2> QED
    BY <1>a, <1>b, <1>d, <2>1, <2>2 DEF Thinking, Keyed
<1>5. CASE Repair(s) \/ AskModel(s) \/ Lookup(s) \/ EndRound(s)
  <2>1. /\ UNCHANGED <<pending, confirmed, wrote>> /\ pc[s] \in Thinking /\ pc'[s] \in Thinking
    BY <1>0, <1>5 DEF Repair, AskModel, Lookup, EndRound, Thinking, Keyed
  <2> QED
    BY <1>b, <1>d, <2>1
<1>6. CASE route_extract(s)
  <2>1. PICK r \in Requests :
          \/ Finish(s, Says("clarification", Nothing, r))
          \/ /\ Goto(s, "faq") \/ Goto(s, "tools")
             /\ reply' = [reply EXCEPT ![s].request = r]
    BY <1>0, <1>6, Extracted
  <2>2. UNCHANGED <<session, wrote>> /\ pc[s] \in Thinking
    BY <1>6 DEF route_extract, Thinking, Keyed
  <2>3. CASE Finish(s, Says("clarification", Nothing, r))
    <3>1. pc'[s] = "output" /\ reply'[s].status = "clarification"
      BY <1>0, <2>3 DEF Says
    <3> QED
      BY <1>a, <1>d, <2>2, <3>1
  <2>4. CASE Goto(s, "faq") \/ Goto(s, "tools")
    <3>1. pc'[s] \in Thinking
      BY <1>0, <2>4 DEF Thinking, Keyed
    <3> QED
      BY <1>b, <1>d, <2>2, <3>1
  <2> QED
    BY <2>1, <2>3, <2>4
<1>7. CASE answer_faq(s)
  <2> DEFINE data == lookup_catalog(db, text[s])
  <2>1. data \in Result /\ data.status = "answer"
    BY <1>0, CatalogType DEF TypeOK
  <2>2. Answered(s, data).status = data.status
    BY <1>0, <2>1, AnsweredType
  <2>3. /\ UNCHANGED <<session, wrote>> /\ pc[s] \in Thinking
        /\ pc'[s] \in {"output", "remember"} /\ reply'[s] = Answered(s, data)
    BY <1>0, <1>7 DEF answer_faq, Thinking, Keyed
  <2> HIDE DEF data
  <2> QED
    BY <1>a, <1>b, <1>d, <2>1, <2>2, <2>3 DEF Thinking, Keyed
<1>8. CASE semantic_put(s)
  <2>1. /\ UNCHANGED <<session, reply, wrote>> /\ pc[s] = "remember" /\ pc'[s] = "output"
    BY <1>0, <1>8 DEF semantic_put
  <2>2. reply[s].status = "answer"
    BY <1>0, <2>1 DEF Knows
  <2> QED
    BY <1>a, <1>d, <2>1, <2>2 DEF Thinking, Keyed
<1>9. CASE FinalReply(s)
  <2>1. /\ UNCHANGED <<session, wrote>> /\ pc[s] \in Thinking /\ pc'[s] = "output"
        /\ reply'[s] = Answered(s, last[s])
    BY <1>0, <1>9 DEF FinalReply, Thinking, Keyed
  <2>2. Answered(s, last[s]).status = last[s].status
    BY <1>0, AnsweredType DEF TypeOK
  <2>3. Plainly(reply'[s].status)
    BY <1>0, <2>1, <2>2 DEF Knows
  <2> QED
    BY <1>a, <1>d, <2>1, <2>3
<1>10. CASE Act(s) \/ execute_confirmed(s)
  <2>1. PICK r \in Request : /\ r.args \in Args /\ side_effect(s, r)
                             /\ UNCHANGED turn
                             /\ pc[s] = "confirmed" => r.args = pending[s].digest.args
    <3>1. CASE Act(s)
      <4>1. reply[s].request \in Requests /\ side_effect(s, reply[s].request)
        BY <1>0, <3>1 DEF Act, Asked
      <4>2. reply[s].request \in Request /\ reply[s].request.args \in Args
        BY <4>1, <3>1, RequestTypes DEF Act
      <4> QED
        BY <3>1, <4>1, <4>2 DEF Act
    <3>2. CASE execute_confirmed(s)
      BY <1>0, <3>2, WaitingRequest DEF execute_confirmed, Asked
    <3> QED
      BY <1>10, <3>1, <3>2
  <2>2. PICK res \in Result, p \in Pending \cup {NoProposal}, c \in Digested \cup {NoProposal} :
           /\ pc' = [pc EXCEPT ![s] = "output"]
           /\ reply' = [reply EXCEPT ![s] = res]
           /\ pending' = [pending EXCEPT ![s] = p]
           /\ confirmed' = [confirmed EXCEPT ![s] = c]
           /\ \/ Refused(s, r, res, p, c) \/ Withheld(s, r, res, p, c)
              \/ Proposed(s, r, res, p, c) \/ Executed(s, r, res, p, c)
    BY <1>0, <2>1, SideEffect
  <2>3. /\ pc'[s] = "output" /\ reply'[s] = res /\ pending'[s] = p /\ confirmed'[s] = c
        /\ turn'[s] = turn[s]
    BY <1>0, <2>1, <2>2
  <2>4. CASE Refused(s, r, res, p, c)
    <3>1. pc[s] \in {"calls", "confirmed"}
      BY <1>10 DEF Act, execute_confirmed
    <3>2. pending[s] = NoProposal \/ pending[s].turn # turn[s]
      BY <1>0, <3>1 DEF Staged, Thinking, Keyed
    <3>3. wrote'[s] = FALSE /\ Plainly(res.status)
      BY <1>0, <2>4 DEF Refused
    <3> QED
      BY <1>a, <2>3, <2>4, <3>2, <3>3 DEF Refused
  <2>5. CASE Withheld(s, r, res, p, c)
    <3>1. wrote'[s] = FALSE /\ Plainly(res.status)
      BY <1>0, <2>5 DEF Withheld
    <3> QED
      BY <1>a, <2>3, <2>5, <3>1 DEF Withheld
  <2>6. CASE Proposed(s, r, res, p, c)
    <3>1. wrote'[s] = FALSE
      BY <1>0, <2>6 DEF Proposed
    <3> QED
      BY <2>3, <2>6, <3>1 DEF Proposed, Staged, Shown, Restores, Thinking, Keyed
  <2>7. CASE Executed(s, r, res, p, c)
    <3>1. wrote'[s] = TRUE
      BY <1>0, <2>7 DEF Executed
    <3> QED
      BY <2>3, <2>7, <3>1 DEF Executed, Staged, Shown, Restores, Thinking, Keyed
  <2> QED
    BY <2>2, <2>4, <2>5, <2>6, <2>7
<1>11. CASE handoff_to_support(s)
  <2>1. /\ UNCHANGED <<turn, wrote>> /\ pc[s] \in Thinking /\ pc'[s] = "output"
        /\ pending'[s] = NoProposal /\ reply'[s].status = "handoff"
    BY <1>0, <1>11 DEF handoff_to_support, Thinking, Keyed, Says
  <2> QED
    BY <1>a, <1>d, <2>1
<1>12. CASE output_guard(s)
  <2>1. /\ UNCHANGED <<turn, round, wrote>> /\ pc[s] = "output" /\ pc'[s] = "deliver"
    BY <1>0, <1>12 DEF output_guard
  <2>2. CASE reply[s].facts.args \in FlaggedResult
    <3>1. pending'[s] = NoProposal /\ reply'[s] = Plain("blocked")
      BY <1>0, <1>12, <2>2 DEF output_guard
    <3>2. wrote[s] = FALSE
      <4>1. reply[s].facts.args # NoArgs
        BY <2>2, ApplicationAssumption DEF ApplicationAssumption
      <4> QED
        BY <1>0, <2>1, <4>1 DEF Staged
    <3> QED
      BY <1>a, <1>c, <2>1, <3>1, <3>2
  <2>3. CASE reply[s].facts.args \notin FlaggedResult
    <3>1. UNCHANGED <<pending, reply, turn, wrote>>
      BY <1>12, <2>3 DEF output_guard
    <3> QED
      BY <1>0, <2>1, <3>1 DEF Staged, Shown, Restores, Thinking, Keyed, Delivered
  <2> QED
    BY <2>2, <2>3
<1>13. CASE deliver(s) \/ AuditFails(s)
  <2>1. /\ UNCHANGED <<session, wrote>> /\ pc[s] = "deliver" /\ pc'[s] = "idle"
        /\ round'[s] = 0
        /\ reply'[s] = reply[s] \/ reply'[s] = Plain("lost")
    BY <1>0, <1>13 DEF deliver, AuditFails, EndMessage
  <2> QED
    BY <1>0, <1>c, <2>1 DEF Staged, Shown, Restores, Thinking, Keyed, Delivered
<1>14. CASE Raise(s)
  <2>1. /\ UNCHANGED <<turn, wrote>> /\ pc[s] \notin {"idle", "output", "deliver"}
        /\ pc'[s] = "deliver" /\ pending'[s] = NoProposal
        /\ reply'[s] \in {Plain("error"), Plain("blocked")}
    BY <1>0, <1>14 DEF Raise
  <2>2. wrote[s] = FALSE
    BY <1>0, <2>1 DEF Staged, Stages, Thinking, Keyed
  <2> QED
    BY <1>a, <1>c, <2>1, <2>2
<1> QED
  BY <1>1, <1>2, <1>3, <1>4, <1>5, <1>6, <1>7, <1>8, <1>9, <1>10, <1>11, <1>12, <1>13,
     <1>14 DEF Acts, Step

LEMMA StageNext ==
  ASSUME TypeInv, KnowInv, StageInv, [Next]_vars
  PROVE  StageInv'
<1>1. CASE \E q \in Sessions : Acts(q)
  <2>1. PICK q \in Sessions : Acts(q)
    BY <1>1
  <2>2. TypeOK /\ Staged(q)'
    BY <2>1, StageStep DEF TypeInv
  <2>3. ASSUME NEW s \in Sessions, s # q PROVE Staged(s)'
    <3>1. SameAt(s)
      BY <2>1, <2>2, <2>3, OthersStay
    <3> QED
      BY <3>1 DEF SameAt, StageInv, Staged, Shown, Restores, Delivered
  <2> QED
    BY <2>2, <2>3 DEF StageInv
<1>2. CASE OtherStore \/ Edit \/ UNCHANGED vars
  <2>1. UNCHANGED <<session, caches, pc, locals, reply, wrote>>
    BY <1>2 DEF OtherStore, Edit, vars
  <2> QED
    BY <2>1 DEF StageInv, Staged, Shown, Restores, Delivered, session, locals
<1> QED
  BY <1>1, <1>2 DEF Next, Acts

LEMMA StageStart == Init => StageInv
<1> SUFFICES ASSUME Init PROVE StageInv
  OBVIOUS
<1>1. Plain("none").status = "none"
  BY PlainResults
<1> QED
  BY <1>1 DEF Init, StageInv, Staged, Shown, Restores, Delivered, Thinking, Keyed

LEMMA StageAlways == Spec => [](TypeInv /\ KnowInv /\ StageInv)
BY TypeStart, TypeNext, KnowStart, KnowNext, StageStart, StageNext, PTL DEF Spec

(* A delivered message asks for a confirmation exactly when the confirmation*)
(* word would now execute something, and shows the arguments it would       *)
(* execute.  A Result that is withheld takes the proposal with it, and a    *)
(* proposal of an earlier message never has the number of the present one.  *)
THEOREM ApplicationConfirmableIsShown == Spec => []ConfirmableIsShown
<1>1. StageInv => ConfirmableIsShown
  BY DEF StageInv, Staged, Shown, ConfirmableIsShown
<1> QED
  BY <1>1, StageAlways, PTL

(* A delivered message is a receipt exactly when it recorded an action: a   *)
(* receipt is never withheld, cached or replayed, and the rounds of the     *)
(* model write nothing.                                                     *)
THEOREM ApplicationReceiptForEveryWrite == Spec => []ReceiptForEveryWrite
<1>1. StageInv => ReceiptForEveryWrite
  BY DEF StageInv, Staged, Shown, ReceiptForEveryWrite
<1> QED
  BY <1>1, StageAlways, PTL

(* What the action property asks of one step, for one session.              *)
Confirmed(s) ==
  wrote'[s] /\ ~wrote[s] =>
    /\ text[s] = Confirm /\ round[s] = 0
    /\ pending[s].turn + 1 = turn[s]
    /\ pending[s].digest = DigestFor(s, db, pending[s].digest.args)
    /\ db' = Effect(db, CustomerOf[s], pending[s].digest.args)

LEMMA WriteStep ==
  ASSUME TypeInv, StageInv, NEW s \in Sessions, Acts(s)
  PROVE  Confirmed(s)
<1> USE DEF session, caches, locals, Goto, Finish
<1>0. TypeOK /\ Asked(s) /\ Staged(s) /\ wrote \in [Sessions -> BOOLEAN]
  BY DEF TypeInv, StageInv, TypeOK
<1>1. CASE \E t \in Texts : begin_turn(s, t)
  BY <1>0, <1>1 DEF begin_turn, Confirmed
<1>2. CASE Act(s)
  <2>1. reply[s].request \in Requests /\ side_effect(s, reply[s].request)
    BY <1>0, <1>2 DEF Act, Asked
  <2>2. reply[s].request \in Request /\ reply[s].request.args \in Args
    BY <2>1, <1>2, RequestTypes DEF Act
  <2>3. confirmed[s] = NoProposal
    BY <1>0, <1>2 DEF Act, Staged, Thinking, Keyed
  <2>4. wrote' = [wrote EXCEPT ![s] = FALSE]
    BY <1>0, <2>1, <2>2, <2>3, SideEffect DEF Refused, Withheld, Proposed, Executed
  <2> QED
    BY <1>0, <2>4 DEF Confirmed
<1>3. CASE execute_confirmed(s)
  <2> DEFINE r == RequestFor(pending[s].digest.args)
  <2>1. r \in Request /\ r.args \in Args /\ r.args = pending[s].digest.args
    BY <1>0, <1>3, WaitingRequest DEF execute_confirmed, Asked
  <2>2. side_effect(s, r) /\ pc[s] = "confirmed"
    BY <1>3 DEF execute_confirmed
  <2>3. /\ text[s] = Confirm /\ round[s] = 0
        /\ pending[s].turn + 1 = turn[s] /\ confirmed[s] = pending[s].digest
    BY <1>0, <2>2 DEF Staged
  <2> HIDE DEF r
  <2>4. PICK res \in Result, p \in Pending \cup {NoProposal}, c \in Digested \cup {NoProposal} :
          \/ Refused(s, r, res, p, c) \/ Withheld(s, r, res, p, c)
          \/ Proposed(s, r, res, p, c) \/ Executed(s, r, res, p, c)
    BY <1>0, <2>1, <2>2, SideEffect
  <2>5. CASE Executed(s, r, res, p, c)
    BY <2>1, <2>3, <2>5 DEF Executed, Confirmed
  <2>6. CASE ~Executed(s, r, res, p, c)
    <3>1. wrote' = [wrote EXCEPT ![s] = FALSE]
      BY <2>4, <2>6 DEF Refused, Withheld, Proposed
    <3> QED
      BY <1>0, <3>1 DEF Confirmed
  <2> QED
    BY <2>5, <2>6
<1>4. CASE ~(\E t \in Texts : begin_turn(s, t)) /\ ~Act(s) /\ ~execute_confirmed(s)
  <2>1. wrote' = wrote
    BY <1>4 DEF Acts, Step, cache_lookup, input_guard, semantic_lookup, Repair, route_extract,
       answer_faq, semantic_put, AskModel, FinalReply, Lookup, EndRound, handoff_to_support,
       output_guard, deliver, AuditFails, Raise, EndMessage
  <2> QED
    BY <2>1 DEF Confirmed
<1> QED
  BY <1>1, <1>2, <1>3, <1>4

(* A write is the answer to the confirmation word, before any model round,  *)
(* for the proposal of the message just before, with the records it depends *)
(* on as they were shown; and it is that action's whole effect.             *)
THEOREM ApplicationWritesWhatWasConfirmed == Spec => WritesWhatWasConfirmed
<1>1. ASSUME TypeInv, StageInv, [Next]_vars
      PROVE  [\A s \in Sessions : Confirmed(s)]_vars
  <2>1. CASE \E q \in Sessions : Acts(q)
    <3>1. PICK q \in Sessions : Acts(q)
      BY <2>1
    <3>2. TypeOK /\ Confirmed(q)
      BY <1>1, <3>1, WriteStep DEF TypeInv
    <3>3. ASSUME NEW s \in Sessions, s # q PROVE Confirmed(s)
      <4>1. SameAt(s)
        BY <3>1, <3>2, <3>3, OthersStay
      <4> QED
        BY <4>1 DEF SameAt, Confirmed
    <3> QED
      BY <3>2, <3>3
  <2>2. CASE OtherStore \/ Edit
    BY <2>2 DEF OtherStore, Edit, Confirmed
  <2>3. CASE UNCHANGED vars
    BY <2>3
  <2> QED
    BY <1>1, <2>1, <2>2, <2>3 DEF Next, Acts
<1>2. (\A s \in Sessions : Confirmed(s)) =>
        \A s \in Sessions : wrote'[s] /\ ~wrote[s] =>
          /\ text[s] = Confirm /\ round[s] = 0
          /\ pending[s].turn + 1 = turn[s]
          /\ pending[s].digest = DigestFor(s, db, pending[s].digest.args)
          /\ db' = Effect(db, CustomerOf[s], pending[s].digest.args)
  BY DEF Confirmed
<1> QED
  BY <1>1, <1>2, StageAlways, PTL DEF Spec, WritesWhatWasConfirmed

-----------------------------------------------------------------------------
(* The tables, when nobody edits them by hand.                              *)

(* The tables change by one whole legal action, by this pipeline or by      *)
(* another Store.                                                           *)
LEMMA DatabaseStep ==
  ASSUME TypeInv, Edits = {}, [Next]_vars
  PROVE  \/ db' = db
         \/ \E c \in Customers, a \in Args :
              Verdict(db, c, a) = "go" /\ db' = Effect(db, c, a)
<1>1. CASE \E q \in Sessions : Acts(q)
  <2>1. PICK q \in Sessions : Acts(q)
    BY <1>1
  <2>2. TypeOK /\ Asked(q)
    BY DEF TypeInv
  <2>3. CASE Act(q) \/ execute_confirmed(q)
    <3>1. PICK r \in Request : r.args \in Args /\ side_effect(q, r)
      <4>1. CASE Act(q)
        <5>1. reply[q].request \in Requests /\ side_effect(q, reply[q].request)
          BY <2>2, <4>1 DEF Act, Asked
        <5>2. reply[q].request \in Request /\ reply[q].request.args \in Args
          BY <4>1, <5>1, RequestTypes DEF Act
        <5> QED
          BY <5>1, <5>2
      <4>2. CASE execute_confirmed(q)
        BY <2>2, <4>2, WaitingRequest DEF execute_confirmed, Asked
      <4> QED
        BY <2>3, <4>1, <4>2
    <3>2. PICK res \in Result, p \in Pending \cup {NoProposal}, c \in Digested \cup {NoProposal} :
            \/ Refused(q, r, res, p, c) \/ Withheld(q, r, res, p, c)
            \/ Proposed(q, r, res, p, c) \/ Executed(q, r, res, p, c)
      BY <2>2, <3>1, SideEffect
    <3>3. CASE Executed(q, r, res, p, c)
      <4>1. CustomerOf[q] \in Customers
        BY <3>3, ApplicationAssumption DEF Executed, authorize, ApplicationAssumption
      <4> QED
        BY <3>1, <3>3, <4>1 DEF Executed
    <3> QED
      BY <3>2, <3>3 DEF Refused, Withheld, Proposed
  <2>4. CASE ~Act(q) /\ ~execute_confirmed(q)
    BY <2>1, <2>4 DEF Acts, Step, begin_turn, cache_lookup, input_guard, semantic_lookup, Repair,
       route_extract, answer_faq, semantic_put, AskModel, FinalReply, Lookup, EndRound,
       handoff_to_support, output_guard, deliver, AuditFails, Raise, EndMessage
  <2> QED
    BY <2>3, <2>4
<1>2. CASE OtherStore
  <2>1. PICK x \in OtherActions :
          Verdict(db, x.customer, x.args) = "go" /\ db' = Effect(db, x.customer, x.args)
    BY <1>2 DEF OtherStore
  <2>2. x.customer \in Customers /\ x.args \in Args
    BY ApplicationAssumption DEF ApplicationAssumption, Action
  <2> QED
    BY <2>1, <2>2
<1>3. CASE Edit
  BY <1>3 DEF Edit
<1>4. CASE UNCHANGED vars
  BY <1>4 DEF vars
<1> QED
  BY <1>1, <1>2, <1>3, <1>4 DEF Next, Acts

(* A recorded action is a new row.                                          *)
LEMMA Grows ==
  ASSUME TypeInv, Edits = {}, [Next]_vars
  PROVE  \/ db' = db
         \/ db.actions \subseteq db'.actions /\ db'.actions # db.actions
<1>1. ASSUME NEW c \in Customers, NEW a \in Args,
             Verdict(db, c, a) = "go", db' = Effect(db, c, a)
      PROVE  db.actions \subseteq db'.actions /\ db'.actions # db.actions
  <2>1. db \in Database
    BY DEF TypeInv, TypeOK
  <2>2. Effect(db, c, a).actions = db.actions \cup {[customer |-> c, args |-> a]}
    BY <1>1, <2>1, EffectFields
  <2>3. [customer |-> c, args |-> a] \notin db.actions
    BY <1>1, <2>1, VerdictGo, EffectIsNew
  <2> QED
    BY <1>1, <2>2, <2>3
<1> QED
  BY <1>1, DatabaseStep

LEMMA StillTells ==
  ASSUME NEW d, NEW e, NEW k, NEW value, Tells(d, k, value),
         e = d \/ (d.actions \subseteq e.actions /\ e.actions # d.actions)
  PROVE  Tells(e, k, value)
<1>1. CASE e = d
  BY <1>1
<1>2. CASE d.actions \subseteq e.actions /\ e.actions # d.actions
  <2>1. k.scope.data.actions \subseteq e.actions /\ k.scope.data.actions # e.actions
    BY <1>2 DEF Tells
  <2>2. fingerprint(e).actions = e.actions
    BY DEF fingerprint
  <2> QED
    BY <2>1, <2>2 DEF Tells
<1> QED
  BY <1>1, <1>2

LEMMA FreshStep ==
  ASSUME TypeInv, FreshInv, Edits = {}, NEW s \in Sessions, Acts(s)
  PROVE  (\A e \in cache' : Tells(db', e.key, e.value)) /\ Recent(s)'
<1> USE DEF session, caches, locals, Goto, Finish
<1> DEFINE Early == {"idle", "cache", "guard", "semantic"}
           CacheKept == \A e \in cache' : Tells(db', e.key, e.value)
<1>0. /\ TypeOK /\ Asked(s) /\ Recent(s) /\ db \in Database
      /\ pc \in [Sessions -> Stages] /\ reply \in [Sessions -> Result]
      /\ last \in [Sessions -> Result] /\ key \in [Sessions -> Keys \cup {NoKey}]
      /\ text \in [Sessions -> Texts \cup {NoText}]
  BY DEF TypeInv, FreshInv, TypeOK
<1>1. [Next]_vars
  BY DEF Next, Acts
<1>2. db' = db \/ (db.actions \subseteq db'.actions /\ db'.actions # db.actions)
  BY <1>1, Grows
<1>3. \A e \in cache : Tells(db', e.key, e.value)
  BY <1>2, StillTells DEF FreshInv
<1>4. pc[s] \in Keyed => Tells(db', key[s], last[s])
  BY <1>0, <1>2, StillTells DEF Recent
<1>5. Plain("none").facts.stock = NoStock
  BY PlainType, PlainResults
<1>6. ASSUME UNCHANGED cache, key'[s] = key[s], last'[s] = last[s],
             pc'[s] \in Keyed => pc[s] \in Keyed,
             pc'[s] \in Early => pc[s] \in Early
      PROVE  CacheKept /\ Recent(s)'
  BY <1>0, <1>3, <1>4, <1>6 DEF Recent
<1>7. CASE \E t \in Texts : begin_turn(s, t)
  <2>1. /\ UNCHANGED <<cache, key, last>> /\ pc[s] = "idle"
        /\ pc'[s] \in {"output", "confirmed", "cache"}
    BY <1>0, <1>7 DEF begin_turn
  <2> QED
    BY <1>6, <2>1 DEF Keyed
<1>8. CASE cache_lookup(s) \/ input_guard(s) \/ Repair(s)
  <2>1. /\ UNCHANGED <<cache, key, last>> /\ pc[s] \in {"cache", "guard", "route"}
        /\ \/ pc'[s] = pc[s]
           \/ pc[s] \in Early /\ pc'[s] \in {"output", "guard", "semantic"}
    BY <1>0, <1>8 DEF cache_lookup, input_guard, Repair
  <2> QED
    BY <1>6, <2>1 DEF Keyed
<1>9. CASE semantic_lookup(s)
  <2>1. /\ UNCHANGED <<cache, db, last>> /\ pc[s] = "semantic" /\ pc'[s] \in {"output", "route"}
        /\ key'[s] = cache_key(s, db)
    BY <1>0, <1>9 DEF semantic_lookup
  <2>2. text[s] \in Texts
    BY <1>0, <2>1 DEF Asked
  <2>3. cache_key(s, db).scope.data = fingerprint(db) /\ fingerprint(db).actions = db.actions
    BY <1>0, <2>2, KeyType
  <2>4. last[s].facts.stock = NoStock
    BY <1>0, <1>5, <2>1 DEF Recent
  <2>5. Tells(db, key'[s], last[s])
    BY <2>1, <2>3, <2>4 DEF Tells
  <2> QED
    BY <1>3, <2>1, <2>5 DEF Recent
<1>10. CASE route_extract(s)
  <2>1. PICK r \in Requests :
          \/ Finish(s, Says("clarification", Nothing, r))
          \/ /\ Goto(s, "faq") \/ Goto(s, "tools")
             /\ reply' = [reply EXCEPT ![s].request = r]
    BY <1>0, <1>10, Extracted
  <2>2. pc'[s] \in {"output", "faq", "tools"} /\ pc[s] \in Keyed
    BY <1>0, <1>10, <2>1 DEF route_extract, Keyed
  <2>3. UNCHANGED <<cache, key, last>>
    BY <1>10 DEF route_extract
  <2> QED
    BY <1>6, <2>2, <2>3
<1>11. CASE answer_faq(s)
  <2> DEFINE data == lookup_catalog(db, text[s])
             value == Answered(s, data)
  <2>1. data \in Result /\ data.facts.stock \in {NoStock, db.stock}
    BY <1>0, CatalogType
  <2>2. value \in Result /\ value.facts = data.facts
    BY <1>0, <2>1, AnsweredType
  <2>3. key[s] \in Keys /\ Tells(db, key[s], last[s])
    BY <1>0, <1>11 DEF answer_faq, Asked, Recent, Keyed
  <2>4. \A e \in Store(key[s], value) : e \in cache \/ (e.key = key[s] /\ e.value = value)
    BY <1>0, <2>2, <2>3, StoreType
  <2>5. /\ UNCHANGED <<db, key, last>> /\ pc[s] = "faq" /\ pc'[s] \in {"output", "remember"}
        /\ cache' \in {cache, Store(key[s], value)}
    BY <1>0, <1>11 DEF answer_faq
  <2> HIDE DEF value, data
  <2>6. Tells(db, key[s], value)
    BY <2>1, <2>2, <2>3 DEF Tells
  <2>7. CacheKept
    BY <1>3, <2>4, <2>5, <2>6
  <2> QED
    BY <2>3, <2>5, <2>7 DEF Recent, Keyed
<1>12. CASE FinalReply(s)
  <2> DEFINE value == Answered(s, last[s])
  <2>1. value \in Result /\ value.facts = last[s].facts
    BY <1>0, AnsweredType
  <2>2. key[s] \in Keys /\ Tells(db, key[s], last[s])
    BY <1>0, <1>12 DEF FinalReply, Asked, Recent, Keyed
  <2>3. \A e \in Store(key[s], value) : e \in cache \/ (e.key = key[s] /\ e.value = value)
    BY <1>0, <2>1, <2>2, StoreType
  <2>4. /\ UNCHANGED <<db, key, last>> /\ pc'[s] = "output"
        /\ cache' \in {cache, Store(key[s], value)}
    BY <1>0, <1>12 DEF FinalReply
  <2> HIDE DEF value
  <2>5. Tells(db, key[s], value)
    BY <2>1, <2>2 DEF Tells
  <2>6. CacheKept
    BY <1>3, <2>3, <2>4, <2>5
  <2> QED
    BY <2>4, <2>6 DEF Recent, Keyed
<1>13. CASE Lookup(s)
  <2>1. /\ UNCHANGED <<cache, db, pc, key>> /\ pc[s] = "calls"
        /\ \/ /\ reply[s].request.order # NoId
              /\ last'[s] = lookup_order(s, reply[s].request.order)
           \/ \E q \in Texts : last'[s] = lookup_catalog(db, q)
    BY <1>0, <1>13 DEF Lookup
  <2>2. reply[s].request.order # NoId => reply[s].request.order \in Orders
    BY <1>0 DEF Result, Request
  <2>3. last'[s].facts.stock \in {NoStock, db.stock}
    BY <1>0, <2>1, <2>2, OrderType, CatalogType
  <2>4. Tells(db, key[s], last'[s])
    BY <1>0, <2>1, <2>3 DEF Recent, Keyed, Tells
  <2> QED
    BY <1>3, <2>1, <2>4 DEF Recent
<1>14. CASE semantic_put(s) \/ AskModel(s) \/ EndRound(s)
  <2>1. /\ UNCHANGED <<cache, key, last>> /\ pc[s] \in Keyed
        /\ pc'[s] \in Keyed \cup {"output"}
    BY <1>0, <1>14 DEF semantic_put, AskModel, EndRound, Keyed
  <2> QED
    BY <1>6, <2>1 DEF Keyed
<1>15. CASE Act(s) \/ execute_confirmed(s) \/ handoff_to_support(s) \/ output_guard(s) \/ Raise(s)
  <2>1. UNCHANGED <<cache, key, last>> /\ pc'[s] \in {"output", "deliver"}
    BY <1>0, <1>15 DEF Act, execute_confirmed, side_effect, handoff_to_support, output_guard, Raise
  <2> QED
    BY <1>6, <2>1 DEF Keyed
<1>16. CASE deliver(s) \/ AuditFails(s)
  <2>1. UNCHANGED cache /\ pc'[s] = "idle" /\ last'[s] = Plain("none")
    BY <1>0, <1>16 DEF deliver, AuditFails, EndMessage
  <2> QED
    BY <1>3, <2>1 DEF Recent, Keyed
<1> QED
  BY <1>7, <1>8, <1>9, <1>10, <1>11, <1>12, <1>13, <1>14, <1>15, <1>16 DEF Acts, Step

LEMMA FreshNext ==
  ASSUME TypeInv, FreshInv, Edits = {}, [Next]_vars
  PROVE  FreshInv'
<1>1. CASE \E q \in Sessions : Acts(q)
  <2>1. PICK q \in Sessions : Acts(q)
    BY <1>1
  <2>2. TypeOK /\ (\A e \in cache' : Tells(db', e.key, e.value)) /\ Recent(q)'
    BY <2>1, FreshStep DEF TypeInv
  <2>3. ASSUME NEW s \in Sessions, s # q PROVE Recent(s)'
    <3>1. SameAt(s)
      BY <2>1, <2>2, <2>3, OthersStay
    <3>2. pc[s] \in Keyed => Tells(db', key[s], last[s])
      BY Grows, StillTells DEF FreshInv, Recent
    <3> QED
      BY <3>1, <3>2 DEF SameAt, Recent, FreshInv
  <2> QED
    BY <2>2, <2>3 DEF FreshInv
<1>2. CASE OtherStore \/ Edit \/ UNCHANGED vars
  <2>1. UNCHANGED <<cache, pc, key, last>>
    BY <1>2 DEF OtherStore, Edit, vars, caches, locals
  <2>2. \A e \in cache : Tells(db', e.key, e.value)
    BY Grows, StillTells DEF FreshInv
  <2>3. \A s \in Sessions : pc[s] \in Keyed => Tells(db', key[s], last[s])
    BY Grows, StillTells DEF FreshInv, Recent
  <2> QED
    BY <2>1, <2>2, <2>3 DEF FreshInv, Recent
<1> QED
  BY <1>1, <1>2 DEF Next, Acts

LEMMA FreshStart == Init => FreshInv
BY DEF Init, FreshInv, Recent, Keyed

(* As long as the tables change through Stores only, an entry of the exact  *)
(* cache that would be served now says what the tables say now, however the *)
(* commits fall between taking the key, reading and storing: the actions    *)
(* table is part of the key and only grows, so no fingerprint comes back.   *)
THEOREM ApplicationCacheIsCurrent == Edits = {} => (Spec => []CacheIsCurrent)
<1> SUFFICES ASSUME Edits = {} PROVE Spec => []CacheIsCurrent
  OBVIOUS
<1>1. FreshInv => CacheIsCurrent
  BY DEF FreshInv, Tells, CacheIsCurrent, Current, cache_scope
<1>2. ASSUME TypeInv, FreshInv, [Next]_vars PROVE FreshInv'
  BY <1>2, FreshNext
<1> QED
  BY <1>1, <1>2, FreshStart, TypeStart, TypeNext, PTL DEF Spec

-----------------------------------------------------------------------------
(* The pipeline, in front of the tables, does nothing to them that the      *)
(* abstract store would not do.                                             *)
L == INSTANCE Ledger WITH db <- db

(* As long as the tables change through Stores only, the whole pipeline     *)
(* implements the Ledger: guards, caches, the model's answers and failures  *)
(* at any stage record whole legal actions or nothing.                      *)
THEOREM ApplicationImplementsLedger == Edits = {} => (Spec => L!Spec)
<1> SUFFICES ASSUME Edits = {} PROVE Spec => L!Spec
  OBVIOUS
<1>1. Init => L!Init
  BY DEF Init, L!Init, FixtureDatabase, L!FixtureDatabase
<1>2. ASSUME TypeInv, [Next]_vars PROVE [L!Next]_db
  <2>1. ASSUME NEW c \in Customers, NEW a \in Args
        PROVE  Verdict(db, c, a) = L!Verdict(db, c, a)
    BY DEF Verdict, NotOwned, Ineligible, Registered, Unavailable, OrderActions, IsBooking, IsExchange,
           L!Verdict, L!NotOwned, L!Ineligible, L!Registered, L!Unavailable, L!OrderActions,
           L!IsBooking, L!IsExchange
  <2>2. ASSUME NEW c \in Customers, NEW a \in Args
        PROVE  Effect(db, c, a) = L!Effect(db, c, a)
    BY DEF Effect, InsertAction, BookSlot, TakeStock, IsBooking, IsExchange,
           L!Effect, L!InsertAction, L!BookSlot, L!TakeStock, L!IsBooking, L!IsExchange
  <2>3. Args = L!Args
    BY DEF Args, ReturnArgs, ExchangeArgs, BookingArgs,
           L!Args, L!ReturnArgs, L!ExchangeArgs, L!BookingArgs
  <2> QED
    BY <1>2, <2>1, <2>2, <2>3, DatabaseStep DEF L!Next, L!Register
<1> QED
  BY <1>1, <1>2, TypeStart, TypeNext, PTL DEF Spec, L!Spec

(* Hence the tables the pipeline answers from stay consistent: no product   *)
(* oversold, no slot overbooked, no order or customer served twice.         *)
THEOREM ApplicationIsConsistent == Edits = {} => (Spec => []Consistent(db))
<1> SUFFICES ASSUME Edits = {} PROVE Spec => []Consistent(db)
  OBVIOUS
<1>1. Init => Consistent(db)
  BY FixtureConsistent DEF Init
<1>2. ASSUME TypeInv, Consistent(db), [Next]_vars PROVE Consistent(db)'
  <2>1. db \in Database
    BY <1>2 DEF TypeInv, TypeOK
  <2>2. ASSUME NEW c \in Customers, NEW a \in Args, Verdict(db, c, a) = "go"
        PROVE  Consistent(Effect(db, c, a))
    BY <1>2, <2>1, <2>2, EffectConsistent
  <2>3. Consistent(db')
    BY <1>2, <2>2, DatabaseStep
  <2>4. Consistent(db') <=> Consistent(db)'
    BY DEF Consistent, StockAccounted, ExchangesOf, BookingsAccounted, BookingsOf,
           OneActionPerOrder, OneBookingPerCustomer, OnlyOwnersAct
  <2> QED
    BY <2>3, <2>4
<1> QED
  BY <1>1, <1>2, TypeStart, TypeNext, PTL DEF Spec

=============================================================================
