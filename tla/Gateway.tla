------------------------------- MODULE Gateway -------------------------------
(***************************************************************************)
(* The simulator every default route talks to (talabak/mock_gateway.py).   *)
(* The event loop serves one completion at a time, in several sections     *)
(* under the module's lock; the handlers that inject faults and reset the  *)
(* state run in threads of a pool and fall between those sections.         *)
(*                                                                         *)
(* Abstraction.  A text is what the regular expressions find in it.  A     *)
(* prompt prefix is a name with a number of tokens; everything else of a   *)
(* request counts one token, and so does every answer.                     *)
(***************************************************************************)
EXTENDS Integers, Sequences, FiniteSets, FiniteSetsExt, SequencesExt

CONSTANTS
  MODELS,
  Prompts, PrefixTokens,   (* prompt prefixes and their lengths           *)
  Texts, Has,               (* Has[t]: what is found in the text t         *)
  Payloads,                 (* what clients may send                       *)
  Injections,               (* what may be posted to /admin/fault          *)
  MIN_CACHEABLE_TOKENS, CACHE_TTL_S,
  None,                     (* Python None, or a missing key               *)
  MaxTime, MaxArrivals, MaxAdmin   (* bounds of the model                  *)

ASSUME GatewayAssumption ==
  /\ IsFiniteSet(MODELS)
  /\ PrefixTokens \in [Prompts -> Nat]
  /\ None \notin Texts /\ None \notin MODELS /\ None \notin Int
  /\ MIN_CACHEABLE_TOKENS \in Nat \ {0}
  /\ CACHE_TTL_S \in Nat

VARIABLES
  _fault, _prefix_cache, _stats,   (* the module's state                   *)
  now,         (* time.monotonic()                                         *)
  serving,     (* the completion on the event loop                         *)
  reply,       (* the last answer, with the request it answers             *)
  bound,       (* arrivals and admin calls so far                          *)
  sent,        (* history: completions metered since the last reset        *)
  adrift       (* history: completions that the last reset fell into       *)

state == <<_fault, _prefix_cache, _stats>>
history == <<sent, adrift>>
gatewayVars == <<state, now, serving, reply, bound, history>>

Statuses == [rate_limit |-> 429, overload |-> 529, server_error |-> 503, timeout |-> 504]

NoFault == [mode |-> "off", model |-> None, until |-> None, remaining |-> None]
NoStats == [requests |-> 0, input_tokens |-> 0, output_tokens |-> 0, cached_tokens |-> 0,
            cache_hits |-> 0, faults_served |-> 0, by_model |-> [m \in MODELS |-> 0]]
Idle == [at |-> "idle"]

-----------------------------------------------------------------------------
(* _extract: the first rule that fits decides.                              *)
Found(t) == IF t = None THEN {} ELSE Has[t]

Rules == <<"handoff", "faq", "appointment", "exchange", "return", "order_status", "faq">>

_extract(t) ==
  LET h == Found(t)
      order == "order" \in h
      policy == "policy" \in h \/ {"return_topic", "question"} \subseteq h
      Fits == << "human" \in h \/ {"transfer", "support"} \subseteq h,
                 (policy /\ ~order) \/ {"hours", "no_booking"} \subseteq h,
                 h \cap {"booking", "slot"} # {},
                 "exchange" \in h,
                 "return" \in h,
                 order \/ "tracking" \in h,
                 TRUE >>
      intent == Rules[Min({i \in DOMAIN Rules : Fits[i]})]
  IN [intent |-> intent, order_id |-> order,
      replacement_sku |-> "sku" \in h /\ intent = "exchange",
      slot_id |-> "slot" \in h /\ intent = "appointment",
      sure |-> intent # "faq" \/ policy \/ h \cap {"hours", "product"} # {}]

(* The judge's fixture looks for the candidate in the evidence it is given. *)
_judge_contract(t) ==
  LET h == Found(t) IN
  CASE h \cap {"broken", "empty"} # {} -> "FAIL"
    [] h \cap {"broken", "empty"} = {} /\ "verbatim" \in h -> "PASS"
    [] h \cap {"broken", "empty", "verbatim"} = {} ->
         IF "overlap" \in h /\ "foreign_number" \notin h THEN "PARTIAL" ELSE "FAIL"

(* Feedback on a rejected answer is not the customer's text.                *)
user_text(p) ==
  IF p.users = <<>> THEN None
  ELSE IF "feedback" \in Found(Last(p.users)) THEN Head(p.users) ELSE Last(p.users)

(* Slip: any tool message is a result.                                      *)
Correlated_Any(p) == {i \in DOMAIN p.messages : p.messages[i].role = "tool"}

(* Positions of the tool results whose call an assistant message shows.     *)
Correlated(p) ==
  LET called == {m.id : m \in {n \in ToSet(p.messages) : n.role = "assistant"}}
  IN {i \in DOMAIN p.messages : p.messages[i].role = "tool" /\ p.messages[i].id \in called}

Failed(body) == body \in {"denial", "garbage"}
_answer_from_tool(m) == IF m.body = "garbage" THEN <<"refusal">> ELSE <<"told", m.id, m.body>>

Plan == [order_status |-> <<"lookup_order">>,
         return       |-> <<"lookup_order", "create_return_or_exchange">>,
         exchange     |-> <<"lookup_order", "create_return_or_exchange">>,
         appointment  |-> <<"book_store_appointment">>,
         handoff      |-> <<"handoff_to_support">>,
         faq          |-> <<"lookup_catalog">>]

Says(content) == [content |-> content, calls |-> <<>>]
Calls(name)   == [content |-> <<"null">>, calls |-> <<name>>]

ToolTurn == [role: {"assistant"}, id: Int, tool: STRING] \cup [role: {"tool"}, id: Int, body: STRING]

ASSUME PayloadsAssumption ==
  \A p \in Payloads : /\ p.prefix \in Prompts
                       /\ p.messages \in Seq(ToolTurn)
                       /\ p.context \in DOMAIN Plan \cup {None}

(* What a tool turn answers: the last result, or the next tool of the plan. *)
_workflow(p) ==
  LET results == Correlated(p)
      last == p.messages[Max(results)]
      intent == IF p.context # None THEN p.context ELSE _extract(user_text(p)).intent
      already == {n.tool : n \in {c \in ToSet(p.messages) : c.role = "assistant"
                                      /\ \E i \in results : p.messages[i].id = c.id}}
      pending == {i \in DOMAIN Plan[intent] : Plan[intent][i] \notin already}
      next == Plan[intent][Min(pending)]
  IN
  IF results # {} /\ Failed(last.body) THEN Says(_answer_from_tool(last))
  ELSE IF pending # {} /\ next \in p.tools THEN Calls(next)
  ELSE IF results # {} THEN Says(_answer_from_tool(last))
  ELSE Says(<<"refusal">>)

Titles == {"DomainRequest", "JudgeVerdict", "GuardDecision", "Answer", ""}

_decide(p) ==
  CASE p.title = "DomainRequest" ->
         Says(<<"request", IF p.degraded
                           THEN [intent |-> "faq", order_id |-> FALSE, replacement_sku |-> FALSE,
                                 slot_id |-> FALSE, sure |-> TRUE]
                           ELSE _extract(user_text(p))>>)
    [] p.title = "JudgeVerdict" -> Says(<<"verdict", _judge_contract(user_text(p))>>)
    [] p.title = "GuardDecision" ->
         Says(<<"blocked", "trigger" \in Found(user_text(p)) /\ "meta" \notin Found(user_text(p))>>)
    [] p.title \in {"Answer", ""} -> _workflow(p)

(* What an injected fault makes of it.                                      *)
Spoiled(p, mode) ==
  CASE mode = "invalid_json" \/ (mode = "invalid_json_until_repair" /\ ~p.repair) -> Says(<<"invalid">>)
    [] mode = "invalid_tool" -> Calls("delete_all_orders")
    [] mode = "tool_loop" -> Calls("lookup_catalog")
    [] OTHER -> _decide(p)

-----------------------------------------------------------------------------
(* Slip: the statistics by model survive a reset.                           *)
reset_state_KeepsModels ==
  /\ _prefix_cache' = [k \in {} |-> None]
  /\ _fault' = NoFault
  /\ _stats' = [NoStats EXCEPT !.by_model = _stats.by_model]
  /\ sent' = {}
  /\ adrift' = IF serving = Idle THEN 0 ELSE 1

reset_state ==
  /\ _prefix_cache' = [k \in {} |-> None]
  /\ _fault' = NoFault
  /\ _stats' = NoStats
  /\ sent' = {}
  /\ adrift' = IF serving = Idle THEN 0 ELSE 1

InitGateway ==
  /\ _fault = NoFault /\ _stats = NoStats
  /\ _prefix_cache = [k \in {} |-> None]
  /\ now = 0 /\ serving = Idle /\ reply = Idle
  /\ bound = [arrivals |-> 0, admin |-> 0]
  /\ sent = {} /\ adrift = 0

(* The fault in force is cleared first: a number that cannot be read leaves *)
(* the handler with nothing in force, not even "off".                       *)
fault(i) ==
  /\ _fault' = IF i.readable
               THEN [mode |-> i.mode, model |-> i.model, until |-> now + i.seconds, remaining |-> i.count]
               ELSE [NoFault EXCEPT !.mode = None]
  /\ UNCHANGED <<_prefix_cache, _stats, history>>

(* Requests that are not served at all are left out.                        *)
complete(p) ==
  /\ serving = Idle
  /\ p.model \in MODELS
  /\ serving' = [at |-> "fault", payload |-> p]
  /\ _stats' = [_stats EXCEPT !.requests = @ + 1, !.by_model[p.model] = @ + 1]
  /\ reply' = Idle
  /\ UNCHANGED <<_fault, _prefix_cache, now, history>>

Expired(f) == f.until # None /\ f.until <= now
InForce == IF Expired(_fault) THEN NoFault ELSE _fault

(* The fault a request of this model would meet, which None counts as.      *)
Meets(model) ==
  /\ InForce.mode # "off"
  /\ InForce.model \in {None, model}
  /\ InForce.remaining # 0

Answer(p, status, said, cached) ==
  [at |-> "answer", payload |-> p, status |-> status, said |-> said, cached |-> cached]

_fault_for ==
  LET p == serving.payload
      mode == IF Meets(p.model) THEN InForce.mode ELSE "off"
  IN
  /\ serving.at = "fault"
  /\ _fault' = IF Meets(p.model) /\ InForce.remaining # None
               THEN [InForce EXCEPT !.remaining = @ - 1] ELSE InForce
  /\ _stats' = IF Meets(p.model) THEN [_stats EXCEPT !.faults_served = @ + 1] ELSE _stats
  /\ IF mode \in DOMAIN Statuses
     THEN /\ serving' = Idle
          /\ reply' = Answer(p, Statuses[mode], Says(<<"refusal">>), 0)
     ELSE /\ serving' = [at |-> "decide", payload |-> p, mode |-> mode]
          /\ UNCHANGED reply
  /\ UNCHANGED <<_prefix_cache, now, history>>

(* The answer is decided and the clock read, before the lock is taken.      *)
Decide ==
  LET p == serving.payload IN
  /\ serving.at = "decide"
  /\ IF p.title \in Titles
     THEN /\ serving' = [at |-> "usage", payload |-> p, said |-> Spoiled(p, serving.mode), clock |-> now]
          /\ UNCHANGED reply
     ELSE /\ serving' = Idle
          /\ reply' = Answer(p, 400, Says(<<"refusal">>), 0)
  /\ UNCHANGED <<state, now, history>>

Warm(key, clock) == key \in DOMAIN _prefix_cache /\ clock - _prefix_cache[key].at < CACHE_TTL_S

(* Slip: prefixes are told apart, models are not.                           *)
KeyOf_AnyModel(p) == p.prefix

KeyOf(p) == <<p.model, p.prefix>>

_usage ==
  LET p == serving.payload
      tokens == PrefixTokens[p.prefix]
      cacheable == tokens >= MIN_CACHEABLE_TOKENS
      hit == cacheable /\ Warm(KeyOf(p), serving.clock)
      cached == IF hit THEN _prefix_cache[KeyOf(p)].tokens ELSE 0
  IN
  /\ serving.at = "usage"
  /\ _prefix_cache' = IF cacheable
                      THEN [k \in DOMAIN _prefix_cache \cup {KeyOf(p)} |->
                              IF k = KeyOf(p) THEN [at |-> serving.clock, tokens |-> tokens]
                              ELSE _prefix_cache[k]]
                      ELSE _prefix_cache
  /\ _stats' = [_stats EXCEPT !.input_tokens = @ + tokens + 1, !.output_tokens = @ + 1,
                              !.cached_tokens = @ + cached,
                              !.cache_hits = @ + IF cached > 0 THEN 1 ELSE 0]
  /\ serving' = Idle
  /\ reply' = Answer(p, 200, IF p.short /\ serving.said.calls = <<>> THEN Says(<<"cut">>) ELSE serving.said, cached)
  /\ sent' = sent \cup {[model |-> p.model, prefix |-> p.prefix, at |-> serving.clock]}
  /\ UNCHANGED <<_fault, now, adrift>>

Tick == now < MaxTime /\ now' = now + 1 /\ UNCHANGED <<state, serving, reply, history>>
=============================================================================
