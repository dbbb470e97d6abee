--------------------------- MODULE FaultDrillsProofs ---------------------------
(***************************************************************************)
(* The simulator, for any models, prompts, texts, payloads and injected    *)
(* faults: what its statistics say adds up, cached input is only what the  *)
(* same model was sent recently, and no answer states a fact that no       *)
(* correlated tool result holds.                                           *)
(***************************************************************************)
EXTENDS FaultDrills, Counting

(* A request whose parts are what the assumptions say.                      *)
Sound(p) ==
  /\ p.model \in MODELS
  /\ p.prefix \in Prompts
  /\ p.messages \in Seq(ToolTurn)
  /\ p.context \in DOMAIN Plan \cup {None}

Shown(p, id) == \E m \in ToSet(p.messages) : m.role = "assistant" /\ m.id = id

(* What AnswersAreGrounded says of an answer to a request.                  *)
Grounded(p, said) ==
  /\ said.content[1] = "told" =>
       /\ Shown(p, said.content[2])
       /\ \E m \in ToSet(p.messages) : m.role = "tool" /\ m.id = said.content[2] /\ m.body = said.content[3]
  /\ said.calls = <<"create_return_or_exchange">> =>
       \E m \in ToSet(p.messages) : m.role = "tool" /\ Shown(p, m.id) /\ ~Failed(m.body)

-----------------------------------------------------------------------------
(* The inductive invariant.                                                 *)

StatsType ==
  /\ _stats \in [requests: Nat, input_tokens: Nat, output_tokens: Nat, cached_tokens: Nat,
                 cache_hits: Nat, faults_served: Nat, by_model: [MODELS -> Nat]]
  /\ adrift \in {0, 1}

(* The completion being served is of a sound request; one that is decided   *)
(* already has an answer with the evidence for it.                          *)
ServingInv ==
  \/ serving = Idle
  \/ /\ serving.at \in {"fault", "decide", "usage"}
     /\ Sound(serving.payload)
     /\ serving.at = "usage" => Grounded(serving.payload, serving.said)

(* Every cached prefix was sent since the last reset, when the entry says.  *)
CacheInv ==
  \A k \in DOMAIN _prefix_cache : \E s \in sent :
    /\ k = <<s.model, s.prefix>>
    /\ _prefix_cache[k].at = s.at
    /\ _prefix_cache[k].tokens = PrefixTokens[s.prefix]

(* The counts allow for what the completion being served may still add.     *)
StatsInv ==
  /\ _stats.requests = SumFunction(_stats.by_model)
  /\ _stats.faults_served + (IF serving.at = "fault" THEN 1 ELSE 0) <= _stats.requests + adrift
  /\ _stats.cache_hits + (IF serving.at = "idle" THEN 0 ELSE 1) <= _stats.requests + adrift
  /\ _stats.cached_tokens <= _stats.input_tokens
  /\ _stats.cached_tokens >= _stats.cache_hits * MIN_CACHEABLE_TOKENS

IInv == StatsType /\ ServingInv /\ CacheInv /\ StatsInv /\ AnswersAreGrounded

-----------------------------------------------------------------------------
(* What the simulator answers.                                              *)

(* The first and the last of a set of positions are among them.             *)
LEMMA MinMax ==
  ASSUME NEW n \in Nat, NEW T \in SUBSET (1 .. n), T # {}
  PROVE  Min(T) \in T /\ Max(T) \in T
<1>1. \E x \in T : \A y \in T : x <= y
  BY LeastOf
<1>2. \E x \in T : \A y \in T : x >= y
  <2>1. PICK x \in T : \A y \in T : y <= x
    BY GreatestOf
  <2> QED
    BY <2>1
<1> QED
  BY <1>1, <1>2 DEF Min, Max

(* Every text has an intent the simulator has a plan for.                   *)
LEMMA IntentPlanned ==
  ASSUME NEW t
  PROVE  _extract(t).intent \in DOMAIN Plan
<1> DEFINE h == Found(t)
           order == "order" \in h
           policy == "policy" \in h \/ {"return_topic", "question"} \subseteq h
           Fits == << "human" \in h \/ {"transfer", "support"} \subseteq h,
                      (policy /\ ~order) \/ {"hours", "no_booking"} \subseteq h,
                      h \cap {"booking", "slot"} # {},
                      "exchange" \in h,
                      "return" \in h,
                      order \/ "tracking" \in h,
                      TRUE >>
           fitting == {i \in DOMAIN Rules : Fits[i]}
<1>1. _extract(t).intent = Rules[Min(fitting)]
  BY DEF _extract
<1>2. Fits[7]
  OBVIOUS
<1>3. DOMAIN Rules = 1 .. 7 /\ \A i \in 1 .. 7 : Rules[i] \in DOMAIN Plan
  <2>1. DOMAIN Plan = {"handoff", "faq", "appointment", "exchange", "return", "order_status"}
    BY DEF Plan
  <2> QED
    BY <2>1 DEF Rules
<1> HIDE DEF Fits
<1>4. fitting \in SUBSET (1 .. 7) /\ 7 \in fitting
  BY <1>2, <1>3
<1> HIDE DEF fitting
<1>5. Min(fitting) \in fitting
  BY <1>4, MinMax
<1> QED
  BY <1>1, <1>3, <1>4, <1>5

(* A correlated result is a tool message whose call the request shows.      *)
LEMMA CorrelatedIs ==
  ASSUME NEW p, Sound(p), NEW i \in Correlated(p)
  PROVE  /\ p.messages[i] \in ToSet(p.messages)
         /\ p.messages[i].role = "tool"
         /\ Shown(p, p.messages[i].id)
BY DEF Correlated, Shown, ToSet

LEMMA LastCorrelated ==
  ASSUME NEW p, Sound(p), Correlated(p) # {}
  PROVE  Max(Correlated(p)) \in Correlated(p)
<1>1. Len(p.messages) \in Nat /\ DOMAIN p.messages = 1 .. Len(p.messages)
  BY DEF Sound
<1>2. Correlated(p) \in SUBSET (1 .. Len(p.messages))
  BY <1>1 DEF Correlated
<1> QED
  BY <1>1, <1>2, MinMax

(* What says neither a result nor a call.                                   *)
LEMMA SaysGrounded ==
  ASSUME NEW p, NEW content, content[1] # "told"
  PROVE  Grounded(p, Says(content))
BY DEF Grounded, Says

(* An answer from the last result is grounded in it.                        *)
LEMMA ToldGrounded ==
  ASSUME NEW p, Sound(p), Correlated(p) # {}
  PROVE  Grounded(p, Says(_answer_from_tool(p.messages[Max(Correlated(p))])))
<1> DEFINE last == p.messages[Max(Correlated(p))]
<1>1. last \in ToSet(p.messages) /\ last.role = "tool" /\ Shown(p, last.id)
  BY LastCorrelated, CorrelatedIs
<1> HIDE DEF last
<1>2. Grounded(p, Says(_answer_from_tool(last)))
  <2>1. CASE last.body = "garbage"
    <3>1. _answer_from_tool(last) = <<"refusal">>
      BY <2>1 DEF _answer_from_tool
    <3> QED
      BY <3>1, SaysGrounded
  <2>2. CASE last.body # "garbage"
    <3> DEFINE content == <<"told", last.id, last.body>>
    <3>1. _answer_from_tool(last) = content
      BY <2>2 DEF _answer_from_tool
    <3>2. content[2] = last.id /\ content[3] = last.body
      OBVIOUS
    <3> HIDE DEF content
    <3>3. Says(content).content = content /\ Says(content).calls = <<>>
      BY DEF Says
    <3>4. <<>> # <<"create_return_or_exchange">>
      OBVIOUS
    <3> QED
      BY <1>1, <3>1, <3>2, <3>3, <3>4 DEF Grounded
  <2> QED
    BY <2>1, <2>2
<1> QED
  BY <1>2 DEF last

(* A call is grounded unless it is the action.                              *)
LEMMA CallGrounded ==
  ASSUME NEW p, NEW name, name # "create_return_or_exchange"
  PROVE  Grounded(p, Calls(name))
BY DEF Grounded, Calls

(* A tool turn is grounded in the results it has.                           *)
LEMMA WorkflowGrounded ==
  ASSUME NEW p, Sound(p)
  PROVE  Grounded(p, _workflow(p))
<1> DEFINE results == Correlated(p)
           last == p.messages[Max(results)]
           intent == IF p.context # None THEN p.context ELSE _extract(user_text(p)).intent
           already == {n.tool : n \in {c \in ToSet(p.messages) : c.role = "assistant"
                                           /\ \E i \in results : p.messages[i].id = c.id}}
           pending == {i \in DOMAIN Plan[intent] : Plan[intent][i] \notin already}
           next == Plan[intent][Min(pending)]
<1>1. _workflow(p) = IF results # {} /\ Failed(last.body) THEN Says(_answer_from_tool(last))
                     ELSE IF pending # {} /\ next \in p.tools THEN Calls(next)
                     ELSE IF results # {} THEN Says(_answer_from_tool(last))
                     ELSE Says(<<"refusal">>)
  BY DEF _workflow
<1>2. results # {} => Grounded(p, Says(_answer_from_tool(last)))
  BY ToldGrounded
<1>3. Grounded(p, Says(<<"refusal">>))
  BY SaysGrounded
<1>4. intent \in DOMAIN Plan
  BY IntentPlanned DEF Sound
<1>5. /\ Plan[intent] \in {<<"lookup_order">>, <<"lookup_order", "create_return_or_exchange">>,
                          <<"book_store_appointment">>, <<"handoff_to_support">>, <<"lookup_catalog">>}
  BY <1>4 DEF Plan
<1>6. ASSUME pending # {}, next = "create_return_or_exchange", ~(results # {} /\ Failed(last.body))
      PROVE  Grounded(p, Calls(next))
  <2>1. DOMAIN Plan[intent] = 1 .. Len(Plan[intent]) /\ Len(Plan[intent]) \in Nat
    BY <1>5
  <2>2. pending \in SUBSET (1 .. Len(Plan[intent]))
    BY <2>1
  <2>3. Min(pending) \in pending /\ \A i \in pending : Min(pending) <= i
    <3> HIDE DEF pending, intent
    <3>1. \E x \in pending : \A y \in pending : x <= y
      BY <1>6, <2>1, <2>2, LeastOf
    <3> QED
      BY <3>1 DEF Min
  <2>4. Plan[intent] = <<"lookup_order", "create_return_or_exchange">>
    <3>1. Min(pending) \in DOMAIN Plan[intent] /\ Plan[intent][Min(pending)] = "create_return_or_exchange"
      BY <1>6, <2>3
    <3> HIDE DEF pending, intent
    <3> DEFINE plan == Plan[intent]
               i == Min(pending)
    <3>2. i \in DOMAIN plan /\ plan[i] = "create_return_or_exchange"
      BY <3>1
    <3>3. \/ plan = <<"lookup_order">> \/ plan = <<"lookup_order", "create_return_or_exchange">>
          \/ plan = <<"book_store_appointment">> \/ plan = <<"handoff_to_support">>
          \/ plan = <<"lookup_catalog">>
      BY <1>5
    <3> HIDE DEF plan, i
    <3>4. plan = <<"lookup_order", "create_return_or_exchange">>
      BY <3>2, <3>3
    <3> QED
      BY <3>4 DEF plan
  <2>5. "lookup_order" \in already
    <3>1. Min(pending) = 2
      <4> HIDE DEF already
      <4> QED
        BY <1>6, <2>3, <2>4
    <3>2. 1 \notin pending
      <4> HIDE DEF pending
      <4> QED
        BY <2>2, <2>3, <3>1
    <3> QED
      <4> HIDE DEF already
      <4> QED
        BY <2>4, <3>2
  <2>6. results # {}
    BY <2>5
  <2>7. last \in ToSet(p.messages) /\ last.role = "tool" /\ Shown(p, last.id)
    BY <2>6, LastCorrelated, CorrelatedIs
  <2>8. ~Failed(last.body)
    BY <1>6, <2>6
  <2> HIDE DEF last, next
  <2> QED
    BY <2>7, <2>8 DEF Grounded, Calls
<1> HIDE DEF results, last, pending, next
<1>7. pending # {} /\ ~(results # {} /\ Failed(last.body)) => Grounded(p, Calls(next))
  BY <1>6, CallGrounded
<1> QED
  BY <1>1, <1>2, <1>3, <1>7

(* Whatever a fault makes of an answer, it stays grounded.                  *)
LEMMA SpoiledGrounded ==
  ASSUME NEW p, Sound(p), p.title \in Titles, NEW mode
  PROVE  Grounded(p, Spoiled(p, mode))
<1>1. Grounded(p, _decide(p))
  <2>1. CASE p.title = "DomainRequest"
    BY <2>1, SaysGrounded DEF _decide
  <2>2. CASE p.title = "JudgeVerdict"
    BY <2>2, SaysGrounded DEF _decide
  <2>3. CASE p.title = "GuardDecision"
    BY <2>3, SaysGrounded DEF _decide
  <2>4. CASE p.title \in {"Answer", ""}
    BY <2>4, WorkflowGrounded DEF _decide
  <2> QED
    BY <2>1, <2>2, <2>3, <2>4 DEF Titles
<1>2. Grounded(p, Says(<<"invalid">>))
  BY SaysGrounded
<1>3. Grounded(p, Calls("delete_all_orders")) /\ Grounded(p, Calls("lookup_catalog"))
  BY CallGrounded
<1> QED
  BY <1>1, <1>2, <1>3 DEF Spoiled

-----------------------------------------------------------------------------
(* The steps.                                                               *)

LEMMA GroundedReply ==
  AnswersAreGrounded <=> (reply.at = "answer" => Grounded(reply.payload, reply.said))
BY DEF AnswersAreGrounded, Grounded, Shown

LEMMA InitIInv == Init => IInv
<1> SUFFICES ASSUME Init PROVE IInv
  OBVIOUS
<1>1. /\ _stats = NoStats /\ adrift = 0 /\ serving = Idle /\ reply = Idle
      /\ _prefix_cache = [k \in {} |-> None]
  BY DEF Init, InitGateway
<1>2. _stats.by_model = [m \in MODELS |-> 0]
  BY <1>1 DEF NoStats
<1>3. SumFunction(_stats.by_model) = 0
  BY <1>2, SumOfZeros, GatewayAssumption DEF GatewayAssumption
<1>4. StatsType
  BY <1>1 DEF NoStats, StatsType
<1>5. StatsInv
  BY <1>1, <1>3, GatewayAssumption DEF NoStats, StatsInv, GatewayAssumption, Idle
<1>6. ServingInv /\ CacheInv
  BY <1>1 DEF ServingInv, CacheInv
<1>7. AnswersAreGrounded
  BY <1>1, GroundedReply DEF Idle
<1> QED
  BY <1>4, <1>5, <1>6, <1>7 DEF IInv

(* What neither serves nor resets.                                          *)
LEMMA Frame ==
  ASSUME IInv, UNCHANGED <<_prefix_cache, _stats, serving, reply, history>>
  PROVE  IInv'
BY DEF IInv, StatsType, ServingInv, CacheInv, StatsInv, AnswersAreGrounded, history

LEMMA CompleteStep ==
  ASSUME IInv, NEW p, complete(p), Sound(p)
  PROVE  IInv'
<1>1. /\ serving = Idle /\ p.model \in MODELS
      /\ serving' = [at |-> "fault", payload |-> p] /\ reply' = Idle
      /\ _stats' = [_stats EXCEPT !.requests = @ + 1, !.by_model[p.model] = @ + 1]
      /\ UNCHANGED <<_prefix_cache, sent, adrift>>
  BY DEF complete, history
<1>2. /\ _stats.requests \in Nat /\ _stats.by_model \in [MODELS -> Nat] /\ adrift \in Int
      /\ _stats.cache_hits \in Nat /\ _stats.faults_served \in Nat
  BY DEF IInv, StatsType
<1>3. /\ _stats'.requests = _stats.requests + 1
      /\ _stats'.by_model = [_stats.by_model EXCEPT ![p.model] = @ + 1]
      /\ _stats'.input_tokens = _stats.input_tokens /\ _stats'.cached_tokens = _stats.cached_tokens
      /\ _stats'.cache_hits = _stats.cache_hits /\ _stats'.faults_served = _stats.faults_served
  BY <1>1 DEF IInv, StatsType
<1>4. StatsType'
  <2> DEFINE byModel == [_stats.by_model EXCEPT ![p.model] = @ + 1]
  <2>1. byModel \in [MODELS -> Nat] /\ _stats.requests + 1 \in Nat
    BY <1>1, <1>2
  <2>2. _stats' = [_stats EXCEPT !.requests = @ + 1, !.by_model = byModel]
    BY <1>1 DEF IInv, StatsType
  <2> HIDE DEF byModel
  <2> QED
    BY <1>1, <2>1, <2>2 DEF IInv, StatsType
<1>5. StatsInv'
  <2> DEFINE f == _stats.by_model
             g == _stats'.by_model
  <2>1. /\ IsFiniteSet(DOMAIN f) /\ p.model \in DOMAIN f /\ DOMAIN g = DOMAIN f
        /\ f[p.model] \in Int /\ g[p.model] = f[p.model] + 1 /\ g[p.model] \in Int
        /\ \A y \in DOMAIN f : y # p.model => f[y] \in Int /\ g[y] = f[y]
    BY <1>1, <1>2, <1>3, GatewayAssumption DEF GatewayAssumption
  <2> HIDE DEF f, g
  <2>2. SumFunction(f) \in Int /\ SumFunction(g) = SumFunction(f) + g[p.model] - f[p.model]
    BY <2>1, SumChanges
  <2>3. SumFunction(g) = SumFunction(f) + 1
    BY <2>1, <2>2
  <2> QED
    BY <1>1, <1>2, <1>3, <2>3 DEF IInv, StatsInv, Idle, f, g
<1>6. ServingInv' /\ CacheInv'
  BY <1>1 DEF IInv, ServingInv, CacheInv
<1>7. AnswersAreGrounded'
  BY <1>1 DEF AnswersAreGrounded, Idle
<1> QED
  BY <1>4, <1>5, <1>6, <1>7 DEF IInv

LEMMA ResetStep ==
  ASSUME IInv, reset_state, UNCHANGED <<serving, reply>>
  PROVE  IInv'
<1>1. /\ _stats' = NoStats /\ sent' = {} /\ _prefix_cache' = [k \in {} |-> None]
      /\ adrift' = IF serving = Idle THEN 0 ELSE 1
  BY DEF reset_state
<1>2. _stats'.by_model = [m \in MODELS |-> 0]
  BY <1>1 DEF NoStats
<1>3. SumFunction(_stats'.by_model) = 0
  BY <1>2, SumOfZeros, GatewayAssumption DEF GatewayAssumption
<1>4. StatsType'
  BY <1>1 DEF NoStats, StatsType
<1>5. serving # Idle => serving.at \in {"fault", "decide", "usage"}
  BY DEF IInv, ServingInv
<1>6. StatsInv'
  BY <1>1, <1>3, <1>5, GatewayAssumption DEF NoStats, StatsInv, GatewayAssumption, Idle
<1>7. ServingInv' /\ CacheInv' /\ AnswersAreGrounded'
  BY <1>1 DEF IInv, ServingInv, CacheInv, AnswersAreGrounded
<1> QED
  BY <1>4, <1>6, <1>7 DEF IInv

LEMMA FaultForStep ==
  ASSUME IInv, _fault_for
  PROVE  IInv'
<1> DEFINE p == serving.payload
<1>1. /\ serving.at = "fault"
      /\ _stats' = _stats \/ _stats' = [_stats EXCEPT !.faults_served = @ + 1]
      /\ \/ serving' = Idle /\ \E status : reply' = Answer(p, status, Says(<<"refusal">>), 0)
         \/ (\E mode : serving' = [at |-> "decide", payload |-> p, mode |-> mode]) /\ reply' = reply
      /\ UNCHANGED <<_prefix_cache, sent, adrift>>
  BY DEF _fault_for, history
<1>2. Sound(p) /\ StatsType
  BY <1>1 DEF IInv, ServingInv, Idle
<1>3. StatsType'
  BY <1>1, <1>2 DEF StatsType
<1>4. /\ _stats'.requests = _stats.requests /\ _stats'.by_model = _stats.by_model
      /\ _stats'.input_tokens = _stats.input_tokens /\ _stats'.cached_tokens = _stats.cached_tokens
      /\ _stats'.cache_hits = _stats.cache_hits
      /\ _stats'.faults_served \in {_stats.faults_served, _stats.faults_served + 1}
      /\ serving'.at \in {"idle", "decide"}
  BY <1>1, <1>2 DEF StatsType, Idle
<1>5. StatsInv'
  <2>1. _stats.requests \in Nat /\ _stats.cache_hits \in Nat /\ _stats.faults_served \in Nat /\ adrift \in Int
    BY <1>2 DEF StatsType
  <2> QED
    BY <1>1, <1>4, <2>1 DEF IInv, StatsInv
<1>6. ServingInv' /\ CacheInv'
  BY <1>1, <1>2 DEF IInv, ServingInv, CacheInv
<1>7. AnswersAreGrounded'
  <2>1. CASE reply' = reply
    BY <2>1 DEF IInv, AnswersAreGrounded
  <2>2. CASE \E status : reply' = Answer(p, status, Says(<<"refusal">>), 0)
    <3>1. Grounded(p, Says(<<"refusal">>))
      BY SaysGrounded
    <3>2. reply'.payload = p /\ reply'.said = Says(<<"refusal">>)
      BY <2>2 DEF Answer
    <3> HIDE DEF p
    <3> QED
      BY <3>1, <3>2 DEF AnswersAreGrounded, Grounded, Shown
  <2> QED
    BY <1>1, <2>1, <2>2
<1> QED
  BY <1>3, <1>5, <1>6, <1>7 DEF IInv

LEMMA DecideStep ==
  ASSUME IInv, Decide
  PROVE  IInv'
<1> DEFINE p == serving.payload
<1>1. /\ serving.at = "decide"
      /\ \/ /\ p.title \in Titles /\ reply' = reply
            /\ serving' = [at |-> "usage", payload |-> p, said |-> Spoiled(p, serving.mode), clock |-> now]
         \/ serving' = Idle /\ reply' = Answer(p, 400, Says(<<"refusal">>), 0)
      /\ UNCHANGED <<_prefix_cache, _stats, sent, adrift>>
  BY DEF Decide, history, state
<1>2. Sound(p) /\ StatsType
  BY <1>1 DEF IInv, ServingInv, Idle
<1>3. StatsType' /\ CacheInv'
  BY <1>1 DEF IInv, StatsType, CacheInv
<1>4. StatsInv'
  <2>1. _stats.requests \in Nat /\ _stats.cache_hits \in Nat /\ adrift \in Int
    BY <1>2 DEF StatsType
  <2>2. serving'.at \in {"idle", "usage"}
    BY <1>1 DEF Idle
  <2> QED
    BY <1>1, <2>1, <2>2 DEF IInv, StatsInv
<1>5. ServingInv'
  <2>1. CASE serving' = Idle
    BY <2>1 DEF ServingInv
  <2>2. CASE serving' # Idle
    <3>1. Grounded(p, Spoiled(p, serving.mode))
      BY <1>1, <1>2, <2>2, SpoiledGrounded
    <3>2. serving'.at = "usage" /\ serving'.payload = p /\ serving'.said = Spoiled(p, serving.mode)
      BY <1>1, <2>2
    <3> HIDE DEF p
    <3> QED
      BY <1>2, <3>1, <3>2 DEF ServingInv, Sound, Grounded, Shown
  <2> QED
    BY <2>1, <2>2
<1>6. AnswersAreGrounded'
  <2>1. CASE reply' = reply
    BY <2>1 DEF IInv, AnswersAreGrounded
  <2>2. CASE reply' = Answer(p, 400, Says(<<"refusal">>), 0)
    <3>1. Grounded(p, Says(<<"refusal">>))
      BY SaysGrounded
    <3>2. reply'.payload = p /\ reply'.said = Says(<<"refusal">>)
      BY <2>2 DEF Answer
    <3> HIDE DEF p
    <3> QED
      BY <3>1, <3>2 DEF AnswersAreGrounded, Grounded, Shown
  <2> QED
    BY <1>1, <2>1, <2>2
<1> QED
  BY <1>3, <1>4, <1>5, <1>6 DEF IInv

(* What a completion is charged as cached input.                            *)
CachedTokens ==
  LET p == serving.payload IN
  IF PrefixTokens[p.prefix] >= MIN_CACHEABLE_TOKENS /\ Warm(KeyOf(p), serving.clock)
  THEN _prefix_cache[KeyOf(p)].tokens ELSE 0

(* It is nothing, or the whole prefix, sent by the same model when the cache *)
(* says.                                                                    *)
LEMMA CachedIsWarm ==
  ASSUME CacheInv, Sound(serving.payload), CachedTokens > 0
  PROVE  /\ CachedTokens = PrefixTokens[serving.payload.prefix]
         /\ CachedTokens >= MIN_CACHEABLE_TOKENS
         /\ \E s \in sent : /\ s.model = serving.payload.model /\ s.prefix = serving.payload.prefix
                            /\ serving.clock - s.at < CACHE_TTL_S
<1> DEFINE p == serving.payload
           key == <<p.model, p.prefix>>
<1>1. /\ PrefixTokens[p.prefix] >= MIN_CACHEABLE_TOKENS
      /\ key \in DOMAIN _prefix_cache /\ serving.clock - _prefix_cache[key].at < CACHE_TTL_S
      /\ CachedTokens = _prefix_cache[key].tokens
  BY DEF CachedTokens, Warm, KeyOf
<1>2. PICK s \in sent : /\ key = <<s.model, s.prefix>>
                        /\ _prefix_cache[key].at = s.at
                        /\ _prefix_cache[key].tokens = PrefixTokens[s.prefix]
  BY <1>1 DEF CacheInv
<1>3. s.model = p.model /\ s.prefix = p.prefix
  BY <1>2
<1> HIDE DEF key, p
<1>4. serving.clock - s.at < CACHE_TTL_S
  BY <1>1, <1>2
<1>5. CachedTokens = PrefixTokens[p.prefix]
  BY <1>1, <1>2, <1>3
<1> QED
  BY <1>1, <1>3, <1>4, <1>5 DEF p

LEMMA CachedType ==
  ASSUME CacheInv, Sound(serving.payload)
  PROVE  CachedTokens \in Nat
<1>1. PrefixTokens[serving.payload.prefix] \in Nat
  BY GatewayAssumption DEF GatewayAssumption, Sound
<1>2. CASE ~(PrefixTokens[serving.payload.prefix] >= MIN_CACHEABLE_TOKENS
             /\ Warm(KeyOf(serving.payload), serving.clock))
  BY <1>2 DEF CachedTokens
<1>3. CASE /\ PrefixTokens[serving.payload.prefix] >= MIN_CACHEABLE_TOKENS
           /\ Warm(KeyOf(serving.payload), serving.clock)
  <2> DEFINE p == serving.payload
             key == <<p.model, p.prefix>>
  <2>1. CachedTokens = _prefix_cache[key].tokens /\ key \in DOMAIN _prefix_cache
    BY <1>3 DEF CachedTokens, Warm, KeyOf
  <2>2. PICK s \in sent : /\ key = <<s.model, s.prefix>>
                          /\ _prefix_cache[key].tokens = PrefixTokens[s.prefix]
    BY <2>1 DEF CacheInv
  <2>3. s.prefix = p.prefix
    BY <2>2
  <2> HIDE DEF key, p
  <2> QED
    BY <1>1, <2>1, <2>2, <2>3 DEF p
<1> QED
  BY <1>2, <1>3

LEMMA UsageStep ==
  ASSUME IInv, _usage
  PROVE  IInv'
<1> DEFINE p == serving.payload
           tokens == PrefixTokens[p.prefix]
           new == [model |-> p.model, prefix |-> p.prefix, at |-> serving.clock]
<1>1. serving.at = "usage" /\ Sound(p) /\ Grounded(p, serving.said)
  BY DEF _usage, IInv, ServingInv, Idle
<1>2. /\ tokens \in Nat /\ CachedTokens \in Nat
      /\ CachedTokens > 0 => CachedTokens = tokens /\ CachedTokens >= MIN_CACHEABLE_TOKENS
  BY <1>1, CachedIsWarm, CachedType, GatewayAssumption DEF GatewayAssumption, Sound, IInv
<1>3. /\ _stats' = [_stats EXCEPT !.input_tokens = @ + tokens + 1, !.output_tokens = @ + 1,
                                  !.cached_tokens = @ + CachedTokens,
                                  !.cache_hits = @ + IF CachedTokens > 0 THEN 1 ELSE 0]
      /\ serving' = Idle /\ sent' = sent \cup {new} /\ adrift' = adrift
  BY DEF _usage, CachedTokens
<1>4. /\ _stats.requests \in Nat /\ _stats.input_tokens \in Nat /\ _stats.output_tokens \in Nat
      /\ _stats.cached_tokens \in Nat /\ _stats.cache_hits \in Nat /\ _stats.faults_served \in Nat
      /\ adrift \in Int
  BY DEF IInv, StatsType
<1> DEFINE hit == IF CachedTokens > 0 THEN 1 ELSE 0
<1>5. /\ _stats'.requests = _stats.requests /\ _stats'.by_model = _stats.by_model
      /\ _stats'.faults_served = _stats.faults_served
      /\ _stats'.input_tokens = _stats.input_tokens + tokens + 1
      /\ _stats'.cached_tokens = _stats.cached_tokens + CachedTokens
      /\ _stats'.cache_hits = _stats.cache_hits + hit
  BY <1>3 DEF IInv, StatsType
<1>6. StatsType'
  <2> DEFINE a == _stats.input_tokens + tokens + 1
             b == _stats.output_tokens + 1
             c == _stats.cached_tokens + CachedTokens
             d == _stats.cache_hits + hit
  <2>1. a \in Nat /\ b \in Nat /\ c \in Nat /\ d \in Nat
    BY <1>2, <1>4
  <2>2. _stats' = [_stats EXCEPT !.input_tokens = a, !.output_tokens = b, !.cached_tokens = c,
                                 !.cache_hits = d]
    BY <1>3 DEF IInv, StatsType
  <2> HIDE DEF a, b, c, d
  <2> QED
    BY <1>3, <2>1, <2>2 DEF IInv, StatsType
<1>7. StatsInv'
  <2>1. MIN_CACHEABLE_TOKENS \in Nat
    BY GatewayAssumption DEF GatewayAssumption
  <2>2. /\ CachedTokens <= tokens + 1
        /\ CachedTokens >= hit * MIN_CACHEABLE_TOKENS
        /\ hit \in {0, 1}
    BY <1>2, <2>1
  <2>3. (_stats.cache_hits + hit) * MIN_CACHEABLE_TOKENS
          = _stats.cache_hits * MIN_CACHEABLE_TOKENS + hit * MIN_CACHEABLE_TOKENS
    BY <1>4, <2>1, <2>2
  <2>4. _stats.cache_hits * MIN_CACHEABLE_TOKENS \in Int /\ hit * MIN_CACHEABLE_TOKENS \in Int
    BY <1>4, <2>1, <2>2
  <2> DEFINE before == _stats.cache_hits * MIN_CACHEABLE_TOKENS
             more == hit * MIN_CACHEABLE_TOKENS
  <2>5. _stats.cached_tokens >= before /\ before \in Int /\ more \in Int /\ CachedTokens >= more
    BY <2>2, <2>4 DEF IInv, StatsInv
  <2>6. _stats'.cache_hits * MIN_CACHEABLE_TOKENS = before + more
    BY <1>5, <2>3
  <2> HIDE DEF tokens, hit, before, more
  <2>7. _stats'.cached_tokens >= _stats'.cache_hits * MIN_CACHEABLE_TOKENS
    BY <1>2, <1>4, <1>5, <2>5, <2>6
  <2>8. _stats'.cached_tokens <= _stats'.input_tokens
    BY <1>2, <1>4, <1>5, <2>2 DEF IInv, StatsInv
  <2>9. _stats'.cache_hits <= _stats'.requests + adrift'
    BY <1>1, <1>3, <1>4, <1>5, <2>2 DEF IInv, StatsInv
  <2>10. _stats'.faults_served <= _stats'.requests + adrift'
    BY <1>1, <1>3, <1>4, <1>5 DEF IInv, StatsInv
  <2>11. serving'.at = "idle"
    BY <1>3 DEF Idle
  <2>12. _stats'.faults_served \in Int /\ _stats'.cache_hits \in Int
    BY <1>4, <1>5, <2>2
  <2> QED
    BY <1>5, <2>7, <2>8, <2>9, <2>10, <2>11, <2>12 DEF IInv, StatsInv
<1>8. CacheInv'
  <2>1. CASE _prefix_cache' = _prefix_cache
    BY <1>3, <2>1 DEF IInv, CacheInv
  <2>2. CASE _prefix_cache' # _prefix_cache
    <3>1. _prefix_cache' = [k \in DOMAIN _prefix_cache \cup {<<p.model, p.prefix>>} |->
                              IF k = <<p.model, p.prefix>> THEN [at |-> serving.clock, tokens |-> tokens]
                              ELSE _prefix_cache[k]]
      BY <2>2 DEF _usage, KeyOf
    <3>2. ASSUME NEW k \in DOMAIN _prefix_cache'
          PROVE  \E s \in sent' : /\ k = <<s.model, s.prefix>>
                                  /\ _prefix_cache'[k].at = s.at
                                  /\ _prefix_cache'[k].tokens = PrefixTokens[s.prefix]
      <4>1. CASE k = <<p.model, p.prefix>>
        <5>1. _prefix_cache'[k] = [at |-> serving.clock, tokens |-> tokens]
          BY <3>1, <4>1
        <5>2. new \in sent' /\ new.model = p.model /\ new.prefix = p.prefix /\ new.at = serving.clock
          BY <1>3
        <5> HIDE DEF new, p
        <5> QED
          BY <4>1, <5>1, <5>2
      <4>2. CASE k # <<p.model, p.prefix>>
        <5>1. k \in DOMAIN _prefix_cache /\ _prefix_cache'[k] = _prefix_cache[k]
          BY <3>1, <3>2, <4>2
        <5> QED
          BY <1>3, <5>1 DEF IInv, CacheInv
      <4> QED
        BY <4>1, <4>2
    <3> QED
      BY <3>2 DEF CacheInv
  <2> QED
    BY <2>1, <2>2
<1>9. ServingInv'
  BY <1>3 DEF ServingInv
<1>10. AnswersAreGrounded'
  <2>1. PICK cached : reply' = Answer(p, 200, IF p.short /\ serving.said.calls = <<>>
                                              THEN Says(<<"cut">>) ELSE serving.said, cached)
    BY DEF _usage
  <2>2. Grounded(p, Says(<<"cut">>))
    BY SaysGrounded
  <2>3. Grounded(p, reply'.said) /\ reply'.payload = p
    BY <1>1, <2>1, <2>2 DEF Answer
  <2> HIDE DEF p
  <2> QED
    BY <2>3 DEF AnswersAreGrounded, Grounded, Shown
<1> QED
  BY <1>6, <1>7, <1>8, <1>9, <1>10 DEF IInv

(* The drill's requests are sound, whatever model of the chain they go to.  *)
LEMMA RequestSound ==
  ASSUME Request.model \in MODELS
  PROVE  Sound(Request)
BY FaultDrillsAssumption DEF FaultDrillsAssumption, Request, Sound

LEMMA NextIInv == IInv /\ [Next]_vars => IInv'
<1> SUFFICES ASSUME IInv, [Next]_vars PROVE IInv'
  OBVIOUS
<1>1. CASE post \/ off
  <2>1. UNCHANGED <<_prefix_cache, _stats, serving, reply, history>>
    BY <1>1 DEF post, off, fault
  <2> QED
    BY <2>1, Frame
<1>2. CASE ask
  <2>1. complete(Request) /\ Request.model \in MODELS
    BY <1>2 DEF ask, complete
  <2> QED
    BY <2>1, RequestSound, CompleteStep
<1>3. CASE retry \/ answered
  <2>1. UNCHANGED <<_prefix_cache, _stats, serving, reply, history>>
    BY <1>3 DEF retry, answered, gatewayVars, state
  <2> QED
    BY <2>1, Frame
<1>4. ASSUME NEW p \in Payloads, Arrive(p)
      PROVE  IInv'
  <2>1. complete(p) /\ p.model \in MODELS
    BY <1>4 DEF Arrive, complete
  <2>2. Sound(p)
    BY <2>1, PayloadsAssumption DEF PayloadsAssumption, Sound
  <2> QED
    BY <2>1, <2>2, CompleteStep
<1>5. CASE Admin
  <2>1. CASE reset_state
    BY <1>5, <2>1, ResetStep DEF Admin
  <2>2. CASE \E i \in Injections : fault(i)
    <3>1. UNCHANGED <<_prefix_cache, _stats, serving, reply, history>>
      BY <1>5, <2>2 DEF Admin, fault
    <3> QED
      BY <3>1, Frame
  <2> QED
    BY <1>5, <2>1, <2>2 DEF Admin
<1>6. CASE Serve
  BY <1>6, FaultForStep, DecideStep, UsageStep DEF Serve
<1>7. CASE Pass
  <2>1. UNCHANGED <<_prefix_cache, _stats, serving, reply, history>>
    BY <1>7 DEF Pass, Tick, state
  <2> QED
    BY <2>1, Frame
<1>8. CASE UNCHANGED vars
  <2>1. UNCHANGED <<_prefix_cache, _stats, serving, reply, history>>
    BY <1>8 DEF vars, gatewayVars, state
  <2> QED
    BY <2>1, Frame
<1> QED
  BY <1>1, <1>2, <1>3, <1>4, <1>5, <1>6, <1>7, <1>8 DEF Next, DrillStep

THEOREM GatewayInvariant == Spec => []IInv
<1> QED
  BY InitIInv, NextIInv, PTL DEF Spec

(* What /admin/stats reports adds up whenever it is asked, however faults,  *)
(* resets and the sections of a completion fall together.                   *)
THEOREM GatewayStatsReconcile == Spec => []StatsReconcile
<1>1. IInv => StatsReconcile
  <2> SUFFICES ASSUME IInv PROVE StatsReconcile
    OBVIOUS
  <2>1. /\ _stats.requests \in Nat /\ _stats.cache_hits \in Nat /\ _stats.faults_served \in Nat
        /\ adrift \in Int
    BY DEF IInv, StatsType
  <2> QED
    BY <2>1 DEF IInv, StatsInv, StatsReconcile
<1> QED
  BY <1>1, GatewayInvariant, PTL

(* No answer of the simulator states a fact that no correlated tool result  *)
(* of its request holds, and none calls for the action on a failed lookup.  *)
THEOREM GatewayAnswersAreGrounded == Spec => []AnswersAreGrounded
<1>1. IInv => AnswersAreGrounded
  BY DEF IInv
<1> QED
  BY <1>1, GatewayInvariant, PTL

(* Cached input is charged for nothing but a whole prefix that the same     *)
(* model was sent less than a lifetime before, since the last reset.        *)
THEOREM GatewayHitsAreWarm == Spec => HitsAreWarm
<1>1. IInv /\ [Next]_vars =>
        [reply'.at = "answer" /\ reply' # reply /\ reply'.cached > 0 =>
           /\ reply'.cached = PrefixTokens[reply'.payload.prefix]
           /\ \E s \in sent : /\ s.model = reply'.payload.model /\ s.prefix = reply'.payload.prefix
                              /\ serving.clock - s.at < CACHE_TTL_S]_vars
  <2> SUFFICES ASSUME IInv, Next, reply'.at = "answer", reply' # reply, reply'.cached > 0
               PROVE  /\ reply'.cached = PrefixTokens[reply'.payload.prefix]
                      /\ \E s \in sent : /\ s.model = reply'.payload.model
                                         /\ s.prefix = reply'.payload.prefix
                                         /\ serving.clock - s.at < CACHE_TTL_S
    OBVIOUS
  <2>1. CASE _usage
    <3>1. serving.at = "usage" /\ Sound(serving.payload) /\ CacheInv
      BY <2>1 DEF _usage, IInv, ServingInv, Idle
    <3>2. reply'.cached = CachedTokens /\ reply'.payload = serving.payload
      BY <2>1 DEF _usage, Answer, CachedTokens
    <3> QED
      BY <3>1, <3>2, CachedIsWarm
  <2>2. CASE _fault_for \/ Decide
    <3>1. reply'.cached = 0
      BY <2>2 DEF _fault_for, Decide, Answer
    <3> QED
      BY <3>1
  <2>3. ASSUME NEW p, complete(p) PROVE FALSE
    BY <2>3 DEF complete, Idle
  <2>4. CASE post \/ off \/ retry \/ answered \/ Admin \/ Pass
    BY <2>4 DEF post, off, retry, answered, Admin, Pass, Tick, gatewayVars
  <2> QED
    BY <2>1, <2>2, <2>3, <2>4 DEF Next, DrillStep, ask, Arrive, Serve
<1> QED
  BY <1>1, GatewayInvariant, PTL DEF Spec, HitsAreWarm

-----------------------------------------------------------------------------
(* The drills.                                                              *)

(* The script reads the answer to its own request, and nobody else's.       *)
WaitInv ==
  IF pc = "wait"
  THEN \/ serving.at # "idle" /\ serving.payload = Request /\ ~Delivered
       \/ serving = Idle /\ Delivered /\ reply.payload = Request
  ELSE serving = Idle \/ serving.payload.from # "drill"

(* It is at a route of the chain.                                           *)
RouteInv == hop \in 1 .. Len(Chain) /\ attempt \in 1 .. max_attempts

(* A drill has no verdict before its end, and no bad one undisturbed.       *)
VerdictInv ==
  /\ drill \in DOMAIN Drills
  /\ verdicts \in [DOMAIN Drills -> {"none", "passed", "failed"}]
  /\ \A d \in DOMAIN Drills :
       d > drill \/ (d = drill /\ pc \in {"post", "ask", "wait"}) => verdicts[d] = "none"
  /\ DrillsPass

(* The last drill asks a single stage; the others send a message.           *)
Single == drill = 4

(* The fault of the drill is in force.                                      *)
Armed ==
  /\ _fault \in [mode: {Script.mode}, model: {Script.model}, until: Nat, remaining: Nat]
  /\ now < _fault.until

(* The drill has not met its fault yet.                                     *)
Unmet == IF Single THEN asked.rejected = 0 ELSE ~events

(* What the drill's request is answered with.                               *)
Answered(said) == IF Unmet THEN Single /\ said = Says(<<"invalid">>) ELSE said = _decide(Request)

ProgressInv ==
  /\ asked \in [stage: DOMAIN Script.stages, rejected: IF Single THEN {0, 1} ELSE {0}]
  /\ hop \in {1, 2}
  /\ Unmet /\ ~Single => hop = 1
  /\ Unmet /\ (pc = "ask" \/ serving.at = "fault") => _fault.remaining > 0
  /\ pc = "wait" =>
       /\ serving.at = "decide" => Answered(Spoiled(Request, serving.mode))
       /\ serving.at = "usage" => Answered(serving.said)
       /\ serving.at = "idle" =>
            \/ reply.status = 200 /\ Answered(reply.said)
            \/ reply.status \in {Statuses[m] : m \in DOMAIN Statuses} /\ ~Single /\ hop = 1

(* Nobody else's doing: the fault is in force and the drill gets through it. *)
DrillInv == OnDrill /\ ~disturbed => Armed /\ ProgressInv

DInv == now \in Nat /\ WaitInv /\ RouteInv /\ VerdictInv /\ DrillInv

LEMMA ScriptIs ==
  ASSUME drill \in DOMAIN Drills
  PROVE  /\ DOMAIN Drills = 1 .. 4 /\ Len(Drills) = 4
         /\ ~Single => /\ Script.text = Hours /\ Script.stages = Message
                       /\ Script.mode \in {"rate_limit", "overload", "server_error"}
                       /\ Script.model = Chain[1] /\ Script.count \in Nat \ {0}
         /\ Single => /\ Script.text = Status /\ Script.stages = <<"DomainRequest">>
                      /\ Script.mode = "invalid_json_until_repair"
                      /\ Script.model = None /\ Script.count = 3
<1>1. DOMAIN Drills = 1 .. 4 /\ Len(Drills) = 4
  BY DEF Drills
<1>2. /\ Drills[1] = Drill("rate_limit", 1, Chain[1], Message, Hours)
      /\ Drills[2] = Drill("overload", 20, Chain[1], Message, Hours)
      /\ Drills[3] = Drill("server_error", 20, Chain[1], Message, Hours)
      /\ Drills[4] = Drill("invalid_json_until_repair", 3, None, <<"DomainRequest">>, Status)
  BY DEF Drills
<1>3. ASSUME NEW mode, NEW count, NEW model, NEW stages, NEW text
      PROVE  /\ Drill(mode, count, model, stages, text).mode = mode
             /\ Drill(mode, count, model, stages, text).count = count
             /\ Drill(mode, count, model, stages, text).model = model
             /\ Drill(mode, count, model, stages, text).stages = stages
             /\ Drill(mode, count, model, stages, text).text = text
  BY DEF Drill
<1>4. drill \in {1, 2, 3, 4}
  BY <1>1
<1>5. CASE drill = 1
  BY <1>1, <1>2, <1>3, <1>5 DEF Script, Single
<1>6. CASE drill = 2
  BY <1>1, <1>2, <1>3, <1>6 DEF Script, Single
<1>7. CASE drill = 3
  BY <1>1, <1>2, <1>3, <1>7 DEF Script, Single
<1>8. CASE drill = 4
  BY <1>1, <1>2, <1>3, <1>8 DEF Script, Single
<1> QED
  BY <1>4, <1>5, <1>6, <1>7, <1>8

LEMMA StatusesAre ==
  /\ DOMAIN Statuses = {"rate_limit", "overload", "server_error", "timeout"}
  /\ 200 \notin {Statuses[m] : m \in DOMAIN Statuses}
  /\ 400 \notin {Statuses[m] : m \in DOMAIN Statuses}
<1>1. DOMAIN Statuses = {"rate_limit", "overload", "server_error", "timeout"}
  BY DEF Statuses
<1>2. /\ Statuses["rate_limit"] = 429 /\ Statuses["overload"] = 529
      /\ Statuses["server_error"] = 503 /\ Statuses["timeout"] = 504
  BY DEF Statuses
<1> QED
  BY <1>1, <1>2

(* A stage that is not spoiled is answered with what the drill waits for.    *)
LEMMA StageAnswer ==
  ASSUME drill \in DOMAIN Drills, asked.stage \in DOMAIN Script.stages
  PROVE  /\ Request.title \in {"GuardDecision", "DomainRequest"} /\ Request.title \in Titles
         /\ Request.title = Script.stages[asked.stage]
         /\ Request.title = "GuardDecision" => _decide(Request).content[1] = "blocked"
         /\ Request.title = "DomainRequest" =>
              /\ _decide(Request).content[1] = "request"
              /\ _decide(Request).content[2] = _extract(Script.text)
<1> DEFINE p == Request
<1>1. p.title = Script.stages[asked.stage] /\ p.users = <<Script.text>> /\ ~p.degraded
  BY DEF Request
<1>2. p.title \in {"GuardDecision", "DomainRequest"}
  <2>1. CASE Single
    BY <1>1, <2>1, ScriptIs
  <2>2. CASE ~Single
    BY <1>1, <2>2, ScriptIs DEF Message
  <2> QED
    BY <2>1, <2>2
<1>3. user_text(p) = Script.text
  <2> DEFINE text == Script.text
  <2>1. p.users # <<>> /\ Head(p.users) = text /\ Last(p.users) = text
    <3> HIDE DEF p, text
    <3>1. p.users = <<text>>
      BY <1>1 DEF text, p
    <3> QED
      BY <3>1 DEF Last
  <2> HIDE DEF p, text
  <2>2. user_text(p) = text
    BY <2>1 DEF user_text
  <2> QED
    BY <2>2 DEF text
<1> HIDE DEF p
<1>4. CASE p.title = "GuardDecision"
  <2>1. _decide(p) = Says(<<"blocked", "trigger" \in Found(user_text(p)) /\ "meta" \notin Found(user_text(p))>>)
    BY <1>4 DEF _decide
  <2>2. _decide(p).content[1] = "blocked"
    BY <2>1 DEF Says
  <2> QED
    BY <1>1, <1>4, <2>2 DEF Titles, p
<1>5. CASE p.title = "DomainRequest"
  <2>1. _decide(p) = Says(<<"request", _extract(user_text(p))>>)
    BY <1>1, <1>5 DEF _decide
  <2>2. _decide(p).content[1] = "request" /\ _decide(p).content[2] = _extract(Script.text)
    BY <1>3, <2>1 DEF Says
  <2> QED
    BY <1>1, <1>5, <2>2 DEF Titles, p
<1> QED
  BY <1>2, <1>4, <1>5

-----------------------------------------------------------------------------
(* What the drills do, and what others may do meanwhile.                    *)

LEMMA InitDInv == Init => DInv
<1> SUFFICES ASSUME Init PROVE DInv
  OBVIOUS
<1>1. /\ drill = 1 /\ pc = "post" /\ hop = 1 /\ attempt = 1 /\ serving = Idle /\ now = 0
      /\ verdicts = [d \in DOMAIN Drills |-> "none"]
  BY DEF Init, InitGateway
<1>2. DOMAIN Drills = 1 .. 4
  BY DEF Drills
<1>3. WaitInv /\ DrillInv
  BY <1>1 DEF WaitInv, DrillInv, OnDrill
<1>4. RouteInv
  BY <1>1, FaultDrillsAssumption DEF FaultDrillsAssumption, RouteInv
<1>5. VerdictInv
  BY <1>1, <1>2 DEF VerdictInv, DrillsPass
<1> QED
  BY <1>1, <1>3, <1>4, <1>5 DEF DInv

LEMMA PostStep ==
  ASSUME DInv, post
  PROVE  DInv'
<1>1. /\ pc = "post" /\ pc' = "ask" /\ events' = FALSE /\ disturbed' = FALSE
      /\ hop' = 1 /\ attempt' = 1 /\ asked' = [stage |-> 1, rejected |-> 0]
      /\ UNCHANGED <<now, serving, reply, drill, verdicts>>
      /\ _fault' = [mode |-> Script.mode, model |-> Script.model, until |-> now + Seconds,
                    remaining |-> Script.count]
  BY DEF post, fault
<1>2. drill \in DOMAIN Drills /\ now \in Nat /\ Script' = Script
  BY <1>1 DEF DInv, VerdictInv, Script
<1>3. Script.count \in Nat \ {0} /\ 1 \in DOMAIN Script.stages
  BY <1>2, ScriptIs DEF Message
<1>4. WaitInv' /\ RouteInv'
  BY <1>1, FaultDrillsAssumption DEF FaultDrillsAssumption, DInv, WaitInv, RouteInv
<1>5. VerdictInv'
  BY <1>1 DEF DInv, VerdictInv, DrillsPass
<1>6. Armed'
  <2>1. now + Seconds \in Nat /\ now < now + Seconds
    BY <1>2, FaultDrillsAssumption DEF FaultDrillsAssumption
  <2> QED
    BY <1>1, <1>2, <1>3, <2>1 DEF Armed
<1>7. ProgressInv'
  <2>1. asked' \in [stage: DOMAIN Script'.stages, rejected: IF Single' THEN {0, 1} ELSE {0}]
    BY <1>1, <1>2, <1>3
  <2>2. _fault'.remaining > 0
    BY <1>1, <1>3
  <2> QED
    BY <1>1, <2>1, <2>2 DEF ProgressInv
<1> QED
  BY <1>1, <1>2, <1>4, <1>5, <1>6, <1>7 DEF DInv, DrillInv

LEMMA AskStep ==
  ASSUME DInv, ask
  PROVE  DInv'
<1>1. /\ pc = "ask" /\ pc' = "wait"
      /\ serving' = [at |-> "fault", payload |-> Request] /\ reply' = Idle
      /\ UNCHANGED <<_fault, now, drill, asked, hop, attempt, events, verdicts, disturbed>>
  BY DEF ask, complete
<1>2. Request' = Request /\ Script' = Script /\ Single' = Single /\ Unmet' = Unmet
  BY <1>1 DEF Request, Script, Single, Unmet
<1>3. WaitInv' /\ RouteInv'
  BY <1>1, <1>2 DEF DInv, WaitInv, RouteInv, Delivered, Idle
<1>4. VerdictInv'
  BY <1>1 DEF DInv, VerdictInv, DrillsPass
<1>5. DrillInv'
  BY <1>1, <1>2 DEF DInv, DrillInv, OnDrill, Armed, ProgressInv
<1> QED
  BY <1>1, <1>3, <1>4, <1>5 DEF DInv

LEMMA RetryStep ==
  ASSUME DInv, retry
  PROVE  DInv'
<1>1. /\ Delivered /\ pc = "wait" /\ events' = TRUE
      /\ reply.status \in {Statuses[m] : m \in DOMAIN Statuses}
      /\ UNCHANGED <<_fault, now, serving, reply, drill, asked, disturbed>>
  BY DEF retry, Delivered, gatewayVars, state
<1>2. /\ attempt \in 1 .. max_attempts /\ hop \in 1 .. Len(Chain) /\ Len(Chain) \in Nat
      /\ max_attempts \in Nat /\ Len(Chain) > 1
  BY FaultDrillsAssumption DEF FaultDrillsAssumption, DInv, RouteInv
<1>3. \/ /\ attempt < max_attempts /\ attempt' = attempt + 1 /\ pc' = "ask"
         /\ UNCHANGED <<hop, verdicts>>
      \/ attempt' = 1 /\ hop < Len(Chain) /\ hop' = hop + 1 /\ pc' = "ask" /\ UNCHANGED verdicts
      \/ /\ hop = Len(Chain) /\ pc' \in {"off", "raised"}
         /\ verdicts' = [verdicts EXCEPT ![drill] = "failed"] /\ UNCHANGED <<hop, attempt>>
  <2>1. CASE attempt < max_attempts
    BY <1>2, <2>1 DEF retry
  <2>2. CASE attempt = max_attempts /\ hop < Len(Chain)
    BY <1>2, <2>2 DEF retry
  <2>3. CASE attempt = max_attempts /\ hop = Len(Chain)
    BY <1>2, <2>3 DEF retry
  <2> QED
    BY <1>2, <2>1, <2>2, <2>3
<1>4. serving = Idle
  BY <1>1, FaultDrillsAssumption DEF DInv, WaitInv, Delivered, Idle
<1>5. /\ Script' = Script /\ Single' = Single
      /\ drill \in DOMAIN Drills
  BY <1>1 DEF DInv, VerdictInv, Script, Single
<1>6. WaitInv' /\ RouteInv'
  BY <1>1, <1>2, <1>3, <1>4 DEF WaitInv, RouteInv
<1>7. ASSUME ~disturbed
      PROVE  Armed /\ ProgressInv /\ ~Single /\ hop = 1
  <2>1. Armed /\ ProgressInv
    BY <1>1, <1>7 DEF DInv, DrillInv, OnDrill
  <2> QED
    BY <1>1, <1>4, <2>1, StatusesAre DEF ProgressInv, Idle
<1>8. VerdictInv'
  <2>1. /\ drill' = drill /\ disturbed' = disturbed
        /\ verdicts \in [DOMAIN Drills -> {"none", "passed", "failed"}]
        /\ \A d \in DOMAIN Drills : d >= drill => verdicts[d] = "none"
    BY <1>1, <1>5, ScriptIs DEF DInv, VerdictInv
  <2>2. CASE verdicts' = verdicts /\ pc' = "ask"
    BY <2>1, <2>2, <1>5, ScriptIs DEF VerdictInv, DrillsPass
  <2>3. CASE hop = Len(Chain) /\ pc' \in {"off", "raised"}
             /\ verdicts' = [verdicts EXCEPT ![drill] = "failed"]
    <3>1. disturbed
      BY <1>2, <1>7, <2>3
    <3>2. \A d \in DOMAIN Drills : d > drill => d >= drill /\ d # drill
      BY <1>5, ScriptIs
    <3>3. \A d \in DOMAIN Drills : d > drill => verdicts'[d] = "none"
      BY <2>1, <2>3, <3>2
    <3> QED
      BY <2>1, <2>3, <3>1, <3>3, <1>5 DEF VerdictInv, DrillsPass
  <2> QED
    BY <1>3, <2>2, <2>3
<1>9. DrillInv'
  <2> SUFFICES ASSUME OnDrill', ~disturbed PROVE Armed' /\ ProgressInv'
    BY <1>1 DEF DrillInv
  <2>1. Armed /\ ProgressInv /\ ~Single /\ hop = 1
    BY <1>7
  <2>2. Armed'
    BY <1>1, <1>5, <2>1 DEF Armed
  <2>3. pc' = "ask" /\ hop' \in {1, 2}
    BY <1>3, <2>1 DEF OnDrill
  <2>4. ~Unmet'
    BY <1>1, <1>5, <2>1 DEF Unmet
  <2>5. asked' \in [stage: DOMAIN Script'.stages, rejected: IF Single' THEN {0, 1} ELSE {0}]
    BY <1>1, <1>5, <2>1 DEF ProgressInv
  <2>6. pc' # "wait"
    BY <2>3
  <2> QED
    BY <2>2, <2>3, <2>4, <2>5, <2>6 DEF ProgressInv
<1> QED
  BY <1>1, <1>6, <1>8, <1>9 DEF DInv

LEMMA AnsweredStep ==
  ASSUME DInv, answered
  PROVE  DInv'
<1>1. /\ Delivered /\ pc = "wait" /\ reply.status = 200 /\ hop' = 1 /\ attempt' = 1
      /\ UNCHANGED <<_fault, now, serving, reply, drill, events, disturbed>>
  BY DEF answered, Delivered, gatewayVars, state
<1>2. serving = Idle /\ drill \in DOMAIN Drills
  BY <1>1 DEF DInv, WaitInv, VerdictInv
<1>3. Script' = Script /\ Single' = Single
  BY <1>1 DEF Script, Single
<1>4. /\ verdicts \in [DOMAIN Drills -> {"none", "passed", "failed"}]
      /\ \A d \in DOMAIN Drills : d >= drill => verdicts[d] = "none"
  BY <1>1, <1>2, ScriptIs DEF DInv, VerdictInv
<1>5. \/ /\ Valid(reply.said) /\ asked.stage < Len(Script.stages) /\ pc' = "ask" /\ verdicts' = verdicts
         /\ asked' = [stage |-> asked.stage + 1, rejected |-> 0]
      \/ /\ Valid(reply.said) /\ ~(asked.stage < Len(Script.stages)) /\ pc' = "off" /\ asked' = asked
         /\ verdicts' = [verdicts EXCEPT ![drill] = IF Passed THEN "passed" ELSE "failed"]
      \/ /\ ~Valid(reply.said) /\ asked.rejected + 1 < Attempts /\ pc' = "ask" /\ verdicts' = verdicts
         /\ asked' = [asked EXCEPT !.rejected = @ + 1]
      \/ /\ ~Valid(reply.said) /\ ~(asked.rejected + 1 < Attempts) /\ pc' \in {"off", "raised"}
         /\ verdicts' = [verdicts EXCEPT ![drill] = "failed"]
  BY DEF answered
<1>6. WaitInv' /\ RouteInv'
  BY <1>1, <1>2, <1>5, FaultDrillsAssumption DEF FaultDrillsAssumption, WaitInv, RouteInv
<1>7. ASSUME ~disturbed
      PROVE  /\ Armed /\ ProgressInv
             /\ Unmet => Single /\ reply.said = Says(<<"invalid">>) /\ asked.rejected = 0
             /\ ~Unmet => reply.said = _decide(Request)
             /\ asked.stage \in DOMAIN Script.stages
             /\ asked.rejected \in IF Single THEN {0, 1} ELSE {0}
  <2>1. Armed /\ ProgressInv
    BY <1>1, <1>7 DEF DInv, DrillInv, OnDrill
  <2>2. reply.status = 200 /\ Answered(reply.said)
    BY <1>1, <1>2, <2>1, StatusesAre DEF ProgressInv, Idle
  <2> QED
    BY <2>1, <2>2 DEF Answered, Unmet, ProgressInv
<1>8. ASSUME ~disturbed, Unmet
      PROVE  ~Valid(reply.said) /\ asked.rejected = 0 /\ Single
  <2>1. reply.said.content[1] = "invalid" /\ asked.rejected = 0 /\ Single
    BY <1>7, <1>8 DEF Says
  <2> QED
    BY <2>1 DEF Valid
<1>9. ASSUME ~disturbed, ~Unmet
      PROVE  /\ Valid(reply.said)
             /\ ~(asked.stage < Len(Script.stages)) => Passed
             /\ asked.stage < Len(Script.stages) => ~Single
  <2>1. reply.said = _decide(Request) /\ asked.stage \in DOMAIN Script.stages
    BY <1>7, <1>9
  <2>2. Valid(reply.said)
    BY <1>2, <2>1, StageAnswer DEF Valid
  <2>3. CASE Single
    <3>0. Script.text = Status /\ Script.stages = <<"DomainRequest">>
      BY <1>2, <2>3, ScriptIs
    <3>1. /\ Script.text = Status /\ Script.stages = <<"DomainRequest">> /\ asked.stage = 1
          /\ ~(asked.stage < Len(Script.stages)) /\ asked.rejected = 1
      <4>1. asked.stage = 1 /\ Len(Script.stages) = 1
        BY <2>1, <3>0
      <4>2. asked.rejected \in {0, 1} /\ asked.rejected # 0
        BY <1>7, <1>9, <2>3 DEF Unmet
      <4> QED
        BY <3>0, <4>1, <4>2
    <3>2. reply.said.content[2] = _extract(Script.text)
      BY <1>2, <2>1, <3>1, StageAnswer
    <3>3. Passed
      BY <3>1, <3>2, FaultDrillsAssumption DEF FaultDrillsAssumption, Passed
    <3> QED
      BY <2>2, <3>1, <3>3
  <2>4. CASE ~Single
    <3>1. Script.text = Hours /\ Script.stages = <<"GuardDecision", "DomainRequest">> /\ events
      BY <1>2, <1>9, <2>4, ScriptIs DEF Unmet, Message
    <3>2. ASSUME ~(asked.stage < Len(Script.stages)) PROVE Passed
      <4>1. Script.stages[asked.stage] = "DomainRequest"
        BY <2>1, <3>1, <3>2
      <4>2. reply.said.content[2] = _extract(Script.text)
        BY <1>2, <2>1, <4>1, StageAnswer
      <4> QED
        BY <3>1, <4>2, FaultDrillsAssumption DEF FaultDrillsAssumption, Passed
    <3> QED
      BY <2>2, <2>4, <3>2
  <2> QED
    BY <2>3, <2>4
<1>10. VerdictInv'
  <2>1. CASE verdicts' = verdicts /\ pc' = "ask"
    BY <2>1, <1>1, <1>2, <1>4, ScriptIs DEF VerdictInv, DrillsPass
  <2>2. ASSUME NEW v \in {"passed", "failed"}, verdicts' = [verdicts EXCEPT ![drill] = v],
               pc' \in {"off", "raised"}, v = "failed" => disturbed
        PROVE  VerdictInv'
    <3>1. \A d \in DOMAIN Drills : d > drill => d >= drill /\ d # drill
      BY <1>2, ScriptIs
    <3>2. \A d \in DOMAIN Drills : d > drill => verdicts'[d] = "none"
      BY <1>4, <2>2, <3>1
    <3>3. verdicts' \in [DOMAIN Drills -> {"none", "passed", "failed"}] /\ verdicts'[drill] = v
      BY <1>2, <1>4, <2>2
    <3> QED
      BY <1>1, <1>2, <2>2, <3>2, <3>3 DEF VerdictInv, DrillsPass
  <2>3. CASE /\ Valid(reply.said) /\ ~(asked.stage < Len(Script.stages)) /\ pc' = "off"
             /\ verdicts' = [verdicts EXCEPT ![drill] = IF Passed THEN "passed" ELSE "failed"]
    <3>1. ~Passed => disturbed
      BY <1>8, <1>9, <2>3
    <3>2. CASE Passed
      BY <2>2, <2>3, <3>2
    <3>3. CASE ~Passed
      BY <2>2, <2>3, <3>1, <3>3
    <3> QED
      BY <3>2, <3>3
  <2>4. CASE /\ ~Valid(reply.said) /\ ~(asked.rejected + 1 < Attempts) /\ pc' \in {"off", "raised"}
             /\ verdicts' = [verdicts EXCEPT ![drill] = "failed"]
    <3>1. disturbed
      BY <1>8, <1>9, <2>4 DEF Attempts
    <3> QED
      BY <2>2, <2>4, <3>1
  <2> QED
    BY <1>5, <2>1, <2>3, <2>4
<1>11. DrillInv'
  <2> SUFFICES ASSUME OnDrill', ~disturbed PROVE Armed' /\ ProgressInv'
    BY <1>1 DEF DrillInv
  <2>1. Armed'
    BY <1>1, <1>3, <1>7 DEF Armed
  <2>2. pc' = "ask"
    BY <1>5 DEF OnDrill
  <2>3. CASE Unmet
    <3>1. /\ asked' = [asked EXCEPT !.rejected = @ + 1] /\ asked.rejected = 0 /\ Single
          /\ asked \in [stage: DOMAIN Script.stages, rejected: {0, 1}]
      BY <1>5, <1>7, <1>8, <2>2, <2>3 DEF ProgressInv
    <3>2. asked' \in [stage: DOMAIN Script'.stages, rejected: {0, 1}] /\ asked'.rejected = 1
      BY <1>3, <3>1
    <3>3. ~Unmet' /\ Single'
      BY <1>3, <3>1, <3>2 DEF Unmet
    <3>4. /\ asked' \in [stage: DOMAIN Script'.stages, rejected: IF Single' THEN {0, 1} ELSE {0}]
          /\ hop' \in {1, 2} /\ pc' # "wait"
      BY <1>1, <2>2, <3>2, <3>3
    <3> QED
      BY <2>1, <3>3, <3>4 DEF ProgressInv
  <2>4. CASE ~Unmet
    <3>1. /\ ~Single /\ asked' = [stage |-> asked.stage + 1, rejected |-> 0]
          /\ asked.stage < Len(Script.stages)
      BY <1>5, <1>9, <2>2, <2>4
    <3>2. Script.stages = <<"GuardDecision", "DomainRequest">>
      BY <1>2, <3>1, ScriptIs DEF Message
    <3>3. asked.stage + 1 \in DOMAIN Script.stages
      BY <1>7, <3>1, <3>2
    <3>4. ~Unmet' /\ ~Single'
      BY <1>1, <1>3, <2>4, <3>1 DEF Unmet
    <3>5. asked' \in [stage: DOMAIN Script'.stages, rejected: {0}]
      BY <1>3, <3>1, <3>3
    <3>6. /\ asked' \in [stage: DOMAIN Script'.stages, rejected: IF Single' THEN {0, 1} ELSE {0}]
          /\ hop' \in {1, 2} /\ pc' # "wait"
      BY <1>1, <2>2, <3>4, <3>5
    <3> QED
      BY <2>1, <3>4, <3>6 DEF ProgressInv
  <2> QED
    BY <2>1, <2>3, <2>4
<1> QED
  BY <1>1, <1>6, <1>10, <1>11 DEF DInv

LEMMA OffStep ==
  ASSUME DInv, off
  PROVE  DInv'
<1>1. /\ pc = "off" /\ pc' \in {"post", "done"}
      /\ UNCHANGED <<now, serving, reply, hop, attempt, verdicts, disturbed>>
      /\ \/ drill < Len(Drills) /\ drill' = drill + 1
         \/ pc' = "done" /\ drill' = drill
  BY DEF off
<1>2. drill \in DOMAIN Drills /\ DOMAIN Drills = 1 .. 4 /\ Len(Drills) = 4
  BY ScriptIs DEF DInv, VerdictInv
<1>3. WaitInv' /\ RouteInv' /\ DrillInv'
  BY <1>1 DEF DInv, WaitInv, RouteInv, DrillInv, OnDrill
<1>4. VerdictInv'
  <2>1. /\ verdicts \in [DOMAIN Drills -> {"none", "passed", "failed"}] /\ DrillsPass
        /\ \A d \in DOMAIN Drills : d > drill => verdicts[d] = "none"
    BY DEF DInv, VerdictInv
  <2>2. CASE drill < Len(Drills) /\ drill' = drill + 1
    <3>1. drill' \in DOMAIN Drills /\ \A d \in DOMAIN Drills : d >= drill' => d > drill
      BY <1>2, <2>2
    <3>2. \A d \in DOMAIN Drills : d > drill' => d >= drill'
      BY <1>2, <3>1
    <3>3. \A d \in DOMAIN Drills : d > drill' \/ d = drill' => verdicts'[d] = "none"
      BY <1>1, <1>2, <2>1, <3>1, <3>2
    <3> QED
      BY <1>1, <2>1, <3>1, <3>3 DEF VerdictInv, DrillsPass
  <2>3. CASE pc' = "done" /\ drill' = drill
    BY <1>1, <1>2, <2>1, <2>3 DEF VerdictInv, DrillsPass
  <2> QED
    BY <1>1, <2>2, <2>3
<1> QED
  BY <1>1, <1>3, <1>4 DEF DInv

(* While the others act, the drill is where it was.                         *)
LEMMA Meanwhile ==
  ASSUME DInv, UNCHANGED drillVars, disturbed => disturbed'
  PROVE  /\ RouteInv' /\ VerdictInv'
         /\ Request' = Request /\ Script' = Script
         /\ Single' <=> Single
         /\ Unmet' <=> Unmet
         /\ OnDrill' <=> OnDrill
         /\ pc' = pc /\ hop' = hop /\ asked' = asked
<1>1. UNCHANGED <<drill, pc, asked, hop, attempt, events, verdicts>>
  BY DEF drillVars
<1>2. RouteInv' /\ VerdictInv'
  BY <1>1 DEF DInv, RouteInv, VerdictInv, DrillsPass
<1>3. Request' = Request /\ Script' = Script
  BY <1>1 DEF Request, Script
<1> QED
  BY <1>1, <1>2, <1>3 DEF Single, Unmet, OnDrill

LEMMA ArriveStep ==
  ASSUME DInv, NEW p \in Payloads, Arrive(p)
  PROVE  DInv'
<1>1. /\ ~Delivered /\ serving = Idle /\ serving' = [at |-> "fault", payload |-> p]
      /\ UNCHANGED <<_fault, now, disturbed, drillVars>>
  BY DEF Arrive, complete
<1>2. pc # "wait"
  BY <1>1 DEF DInv, WaitInv, Idle
<1>3. p.from # "drill"
  BY FaultDrillsAssumption DEF FaultDrillsAssumption
<1>4. WaitInv'
  BY <1>1, <1>2, <1>3, Meanwhile DEF WaitInv
<1>5. DrillInv'
  <2> SUFFICES ASSUME OnDrill', ~disturbed PROVE Armed' /\ ProgressInv'
    BY <1>1 DEF DrillInv
  <2>1. pc = "ask" /\ Armed /\ ProgressInv
    BY <1>1, <1>2, Meanwhile DEF DInv, DrillInv, OnDrill
  <2>2. Armed'
    BY <1>1, <2>1, Meanwhile DEF Armed
  <2>3. ProgressInv'
    BY <1>1, <2>1, Meanwhile DEF ProgressInv
  <2> QED
    BY <2>2, <2>3
<1> QED
  BY <1>1, <1>4, <1>5, Meanwhile DEF DInv

LEMMA AdminStep ==
  ASSUME DInv, Admin
  PROVE  DInv'
<1>1. /\ UNCHANGED <<now, serving, reply, drillVars>>
      /\ disturbed' = (disturbed \/ OnDrill)
  BY DEF Admin
<1>2. WaitInv'
  BY <1>1, Meanwhile DEF DInv, WaitInv, Delivered
<1>3. DrillInv'
  BY <1>1, Meanwhile DEF DrillInv
<1> QED
  BY <1>1, <1>2, <1>3, Meanwhile DEF DInv

LEMMA PassStep ==
  ASSUME DInv, Pass
  PROVE  DInv'
<1>1. /\ UNCHANGED <<_fault, serving, reply, drillVars>> /\ now' = now + 1
      /\ disturbed' = (disturbed \/ (OnDrill /\ _fault.until # None /\ now' >= _fault.until))
  BY DEF Pass, Tick, state
<1>2. now \in Nat /\ now' \in Nat
  BY <1>1 DEF DInv
<1>3. WaitInv'
  BY <1>1, Meanwhile DEF DInv, WaitInv, Delivered
<1>4. DrillInv'
  <2> SUFFICES ASSUME OnDrill', ~disturbed' PROVE Armed' /\ ProgressInv'
    BY DEF DrillInv
  <2>1. OnDrill /\ ~disturbed /\ Armed /\ ProgressInv
    BY <1>1, Meanwhile DEF DInv, DrillInv
  <2>2. _fault.until \in Nat /\ _fault.until # None
    BY <2>1, GatewayAssumption DEF GatewayAssumption, Armed
  <2>3. now' < _fault.until
    <3>1. ~(now' >= _fault.until)
      BY <1>1, <2>1, <2>2
    <3> QED
      BY <1>2, <2>2, <3>1
  <2>4. Armed'
    BY <1>1, <2>1, <2>3, Meanwhile DEF Armed
  <2>5. ProgressInv'
    BY <1>1, <2>1, Meanwhile DEF ProgressInv, Answered
  <2> QED
    BY <2>4, <2>5
<1> QED
  BY <1>1, <1>2, <1>3, <1>4, Meanwhile DEF DInv

(* The drill's fault, while it is in force, and whom it is for.             *)
LEMMA ArmedFault ==
  ASSUME Armed, now \in Nat
  PROVE  /\ InForce = _fault /\ _fault.remaining \in Nat /\ _fault.remaining # None
         /\ _fault.mode = Script.mode /\ _fault.model = Script.model
<1>1. /\ _fault.mode = Script.mode /\ _fault.model = Script.model
      /\ _fault.until \in Nat /\ _fault.remaining \in Nat /\ now < _fault.until
  BY DEF Armed
<1>2. ~(_fault.until <= now)
  BY <1>1
<1>3. InForce = _fault
  BY <1>2 DEF InForce, Expired
<1> QED
  BY <1>1, <1>3, GatewayAssumption DEF GatewayAssumption

(* The drill's own request meets its fault as long as the drill has not,    *)
(* and a message drill's only on the primary route.                         *)
LEMMA DrillMeets ==
  ASSUME DInv, Armed, ProgressInv
  PROVE  /\ Unmet /\ _fault.remaining > 0 => Meets(Request.model)
         /\ Meets(Request.model) => _fault.remaining # 0 /\ (Single \/ hop = 1)
<1>1. /\ drill \in DOMAIN Drills /\ InForce = _fault /\ _fault.remaining \in Nat
      /\ _fault.mode = Script.mode /\ _fault.model = Script.model
  BY ArmedFault DEF DInv, VerdictInv
<1>2. /\ Chain[1] \in MODELS /\ Chain[2] \in MODELS /\ Chain[1] # Chain[2]
      /\ Chain[1] # None /\ Chain[2] # None
  BY FaultDrillsAssumption, GatewayAssumption DEF FaultDrillsAssumption, GatewayAssumption
<1>3. Request.model = Chain[hop] /\ hop \in {1, 2}
  BY DEF Request, ProgressInv
<1>4. CASE Single
  BY <1>1, <1>4, ScriptIs DEF Meets
<1>5. CASE ~Single
  <2>1. /\ _fault.mode \in {"rate_limit", "overload", "server_error"} /\ _fault.model = Chain[1]
        /\ Unmet => hop = 1
    BY <1>1, <1>5, ScriptIs DEF ProgressInv
  <2> QED
    BY <1>1, <1>2, <1>3, <2>1 DEF Meets
<1> QED
  BY <1>4, <1>5

LEMMA DrillFaultFor ==
  ASSUME DInv, Serve, _fault_for
  PROVE  DInv'
<1> DEFINE p == serving.payload
           mode == IF Meets(p.model) THEN InForce.mode ELSE "off"
<1>1. /\ serving.at = "fault" /\ now' = now /\ UNCHANGED drillVars
      /\ disturbed' = (disturbed \/ (OnDrill /\ p.from # "drill" /\ _fault'.remaining # _fault.remaining))
      /\ _fault' = IF Meets(p.model) /\ InForce.remaining # None
                   THEN [InForce EXCEPT !.remaining = @ - 1] ELSE InForce
  BY DEF Serve, _fault_for
<1>2. \/ /\ mode \in DOMAIN Statuses /\ serving' = Idle
         /\ reply' = Answer(p, Statuses[mode], Says(<<"refusal">>), 0)
      \/ /\ mode \notin DOMAIN Statuses /\ reply' = reply
         /\ serving' = [at |-> "decide", payload |-> p, mode |-> mode]
  BY DEF _fault_for
<1>3. IF pc = "wait" THEN p = Request /\ ~Delivered ELSE p.from # "drill"
  BY <1>1 DEF DInv, WaitInv, Idle
<1> HIDE DEF mode
<1>4. WaitInv'
  <2>1. Request' = Request /\ pc' = pc
    BY <1>1, Meanwhile
  <2>2. CASE serving' = Idle /\ reply' = Answer(p, Statuses[mode], Says(<<"refusal">>), 0)
    <3>1. pc = "wait" => Delivered' /\ reply'.payload = Request
      BY <1>3, <2>1, <2>2 DEF Delivered, Answer, Request
    <3> QED
      BY <2>1, <2>2, <3>1 DEF WaitInv
  <2>3. CASE reply' = reply /\ serving' = [at |-> "decide", payload |-> p, mode |-> mode]
    BY <1>3, <2>1, <2>3 DEF WaitInv, Delivered
  <2> QED
    BY <1>2, <2>2, <2>3
<1>5. ASSUME OnDrill', ~disturbed'
      PROVE  Armed' /\ ProgressInv'
  <2>1. OnDrill /\ ~disturbed /\ Armed /\ ProgressInv
    BY <1>1, <1>5, Meanwhile DEF DInv, DrillInv
  <2>2. /\ InForce = _fault /\ _fault.remaining \in Nat /\ _fault.remaining # None
        /\ drill \in DOMAIN Drills /\ _fault.mode = Script.mode
    BY <2>1, ArmedFault DEF DInv, VerdictInv
  <2>3. _fault' = IF Meets(p.model) THEN [_fault EXCEPT !.remaining = @ - 1] ELSE _fault
    BY <1>1, <2>2
  <2>4. Meets(p.model) => _fault.remaining # 0
    BY <2>2 DEF Meets
  <2>5. Armed'
    <3>1. _fault' \in [mode: {Script.mode}, model: {Script.model}, until: Nat, remaining: Nat]
      BY <2>1, <2>2, <2>3, <2>4 DEF Armed
    <3>2. _fault'.until = _fault.until
      BY <2>1, <2>3 DEF Armed
    <3> QED
      BY <1>1, <2>1, <3>1, <3>2, Meanwhile DEF Armed
  <2>6. ASSUME pc = "ask" PROVE ProgressInv'
    <3>1. _fault'.remaining = _fault.remaining
      BY <1>1, <1>3, <1>5, <2>1, <2>6
    <3> QED
      BY <1>1, <2>1, <2>6, <3>1, Meanwhile DEF ProgressInv
  <2>7. ASSUME pc = "wait" PROVE ProgressInv'
    <3>1. /\ p = Request /\ (Unmet => Meets(p.model))
          /\ Meets(p.model) => Single \/ hop = 1
      BY <1>1, <1>3, <2>1, <2>7, DrillMeets DEF ProgressInv
    <3>2. mode = IF Meets(p.model) THEN Script.mode ELSE "off"
      BY <2>2 DEF mode
    <3>3. "off" \notin DOMAIN Statuses
      BY StatusesAre
    <3>4. CASE ~Single /\ Meets(p.model)
      <4>1. mode \in DOMAIN Statuses /\ hop = 1
        BY <2>2, <3>1, <3>2, <3>4, ScriptIs, StatusesAre
      <4>2. /\ serving'.at = "idle"
            /\ reply'.status \in {Statuses[m] : m \in DOMAIN Statuses}
        BY <1>2, <4>1 DEF Idle, Answer
      <4> QED
        BY <2>1, <2>7, <3>4, <4>1, <4>2, Meanwhile, <1>1 DEF ProgressInv
    <3>5. CASE Single \/ ~Meets(p.model)
      <4>1. mode \notin DOMAIN Statuses
        BY <2>2, <3>2, <3>3, <3>5, ScriptIs, StatusesAre
      <4>2. serving'.at = "decide" /\ serving'.mode = mode
        BY <1>2, <4>1
      <4>3. Answered(Spoiled(Request, mode))
        <5>1. CASE Unmet
          <6>1. Single /\ mode = "invalid_json_until_repair" /\ ~(asked.rejected > 0)
            BY <2>2, <3>1, <3>2, <3>5, <5>1, ScriptIs DEF Unmet
          <6>2. ~Request.repair
            BY <6>1 DEF Request
          <6>3. Spoiled(Request, mode) = Says(<<"invalid">>)
            BY <6>1, <6>2 DEF Spoiled
          <6> QED
            BY <5>1, <6>1, <6>3 DEF Answered
        <5>2. CASE ~Unmet
          <6>1. mode = "off" \/ (mode = "invalid_json_until_repair" /\ asked.rejected > 0)
            <7>1. CASE ~Meets(p.model)
              BY <3>2, <7>1
            <7>2. CASE Single
              <8>1. asked.rejected \in {0, 1} /\ asked.rejected # 0
                BY <2>1, <5>2, <7>2 DEF ProgressInv, Unmet
              <8> QED
                BY <2>2, <3>2, <7>2, <8>1, ScriptIs
            <7> QED
              BY <3>5, <7>1, <7>2
          <6>2. asked.rejected > 0 => Request.repair
            BY DEF Request
          <6>3. Spoiled(Request, mode) = _decide(Request)
            BY <6>1, <6>2 DEF Spoiled
          <6> QED
            BY <5>2, <6>3 DEF Answered
        <5> QED
          BY <5>1, <5>2
      <4>4. Answered(Spoiled(Request, serving.mode))'
        <5>1. Spoiled(Request', serving'.mode) = Spoiled(Request, mode) /\ Request' = Request
          BY <1>1, <4>2, Meanwhile
        <5> HIDE DEF mode
        <5> QED
          BY <1>1, <4>3, <5>1, Meanwhile DEF Answered
      <4> QED
        BY <1>1, <2>1, <2>7, <4>2, <4>4, Meanwhile DEF ProgressInv
    <3> QED
      BY <3>4, <3>5
  <2> QED
    BY <2>1, <2>5, <2>6, <2>7 DEF OnDrill
<1> QED
  BY <1>1, <1>4, <1>5, Meanwhile DEF DInv, DrillInv

LEMMA DrillDecide ==
  ASSUME DInv, Serve, Decide
  PROVE  DInv'
<1> DEFINE p == serving.payload
           said == Spoiled(p, serving.mode)
<1>1. /\ serving.at = "decide" /\ now' = now /\ _fault' = _fault /\ UNCHANGED drillVars
      /\ disturbed' = (disturbed \/ (OnDrill /\ p.from # "drill" /\ _fault'.remaining # _fault.remaining))
  BY DEF Serve, Decide, state
<1>2. \/ /\ p.title \in Titles /\ reply' = reply
         /\ serving' = [at |-> "usage", payload |-> p, said |-> said, clock |-> now]
      \/ /\ p.title \notin Titles /\ serving' = Idle
         /\ reply' = Answer(p, 400, Says(<<"refusal">>), 0)
  BY DEF Decide
<1>3. IF pc = "wait" THEN p = Request /\ ~Delivered ELSE p.from # "drill"
  BY <1>1 DEF DInv, WaitInv, Idle
<1>4. WaitInv'
  <2>1. Request' = Request /\ pc' = pc
    BY <1>1, Meanwhile
  <2>2. CASE serving' = Idle /\ reply' = Answer(p, 400, Says(<<"refusal">>), 0)
    <3>1. pc = "wait" => Delivered' /\ reply'.payload = Request
      BY <1>3, <2>1, <2>2 DEF Delivered, Answer, Request
    <3> QED
      BY <2>1, <2>2, <3>1 DEF WaitInv
  <2>3. CASE reply' = reply /\ serving' = [at |-> "usage", payload |-> p, said |-> said, clock |-> now]
    <3> HIDE DEF said
    <3> QED
      BY <1>3, <2>1, <2>3 DEF WaitInv, Delivered
  <2> QED
    BY <1>2, <2>2, <2>3
<1>5. ASSUME OnDrill', ~disturbed'
      PROVE  Armed' /\ ProgressInv'
  <2>1. OnDrill /\ ~disturbed /\ Armed /\ ProgressInv
    BY <1>1, <1>5, Meanwhile DEF DInv, DrillInv
  <2>2. Armed'
    BY <1>1, <2>1, Meanwhile DEF Armed
  <2>3. ASSUME pc = "ask" PROVE ProgressInv'
    BY <1>1, <2>1, <2>3, Meanwhile DEF ProgressInv
  <2>4. ASSUME pc = "wait" PROVE ProgressInv'
    <3>1. p = Request /\ Request.title \in Titles /\ Answered(said)
      <4>1. drill \in DOMAIN Drills /\ asked.stage \in DOMAIN Script.stages
        BY <2>1 DEF DInv, VerdictInv, ProgressInv
      <4> QED
        BY <1>1, <1>3, <2>1, <2>4, <4>1, StageAnswer DEF ProgressInv
    <3>2. serving'.at = "usage" /\ serving'.said = said
      BY <1>2, <3>1
    <3>3. Answered(serving.said)'
      <4> HIDE DEF said
      <4> QED
        BY <1>1, <3>1, <3>2, Meanwhile DEF Answered
    <3> QED
      BY <1>1, <2>1, <2>4, <3>2, <3>3, Meanwhile DEF ProgressInv
  <2> QED
    BY <2>1, <2>2, <2>3, <2>4 DEF OnDrill
<1> QED
  BY <1>1, <1>4, <1>5, Meanwhile DEF DInv, DrillInv

LEMMA DrillUsage ==
  ASSUME DInv, Serve, _usage
  PROVE  DInv'
<1> DEFINE p == serving.payload
<1>1. /\ serving.at = "usage" /\ now' = now /\ _fault' = _fault /\ UNCHANGED drillVars
      /\ disturbed' = (disturbed \/ (OnDrill /\ p.from # "drill" /\ _fault'.remaining # _fault.remaining))
      /\ serving' = Idle
  BY DEF Serve, _usage
<1>2. PICK cached :
        reply' = Answer(p, 200, IF p.short /\ serving.said.calls = <<>> THEN Says(<<"cut">>)
                                ELSE serving.said, cached)
  BY DEF _usage
<1>3. IF pc = "wait" THEN p = Request /\ ~Delivered ELSE p.from # "drill"
  BY <1>1 DEF DInv, WaitInv, Idle
<1>4. WaitInv'
  <2>1. Request' = Request /\ pc' = pc
    BY <1>1, Meanwhile
  <2>2. reply'.at = "answer" /\ reply'.payload = p
    BY <1>2 DEF Answer
  <2>3. pc = "wait" => Delivered' /\ reply'.payload = Request
    BY <1>3, <2>1, <2>2 DEF Delivered, Request
  <2> QED
    BY <1>1, <2>1, <2>3 DEF WaitInv
<1>5. ASSUME OnDrill', ~disturbed'
      PROVE  Armed' /\ ProgressInv'
  <2>1. OnDrill /\ ~disturbed /\ Armed /\ ProgressInv
    BY <1>1, <1>5, Meanwhile DEF DInv, DrillInv
  <2>2. Armed'
    BY <1>1, <2>1, Meanwhile DEF Armed
  <2>3. ASSUME pc = "ask" PROVE ProgressInv'
    BY <1>1, <2>1, <2>3, Meanwhile DEF ProgressInv, Idle
  <2>4. ASSUME pc = "wait" PROVE ProgressInv'
    <3>1. p = Request /\ ~p.short /\ Answered(serving.said)
      BY <1>1, <1>3, <2>1, <2>4 DEF ProgressInv, Request
    <3>2. reply'.status = 200 /\ reply'.said = serving.said
      BY <1>2, <3>1 DEF Answer
    <3>3. Answered(reply.said)'
      BY <1>1, <3>1, <3>2, Meanwhile DEF Answered
    <3> QED
      BY <1>1, <2>1, <2>4, <3>2, <3>3, Meanwhile DEF ProgressInv, Idle
  <2> QED
    BY <2>1, <2>2, <2>3, <2>4 DEF OnDrill
<1> QED
  BY <1>1, <1>4, <1>5, Meanwhile DEF DInv, DrillInv

LEMMA NextDInv == DInv /\ [Next]_vars => DInv'
<1> SUFFICES ASSUME DInv, [Next]_vars PROVE DInv'
  OBVIOUS
<1>1. CASE UNCHANGED vars
  <2>1. UNCHANGED <<_fault, now, serving, reply, drillVars, disturbed>>
    BY <1>1 DEF vars, gatewayVars, state
  <2>2. WaitInv'
    BY <2>1, Meanwhile DEF DInv, WaitInv, Delivered
  <2>3. DrillInv'
    BY <2>1, Meanwhile DEF DInv, DrillInv, Armed, ProgressInv, Answered
  <2> QED
    BY <2>1, <2>2, <2>3, Meanwhile DEF DInv
<1>2. CASE DrillStep
  BY <1>2, PostStep, AskStep, RetryStep, AnsweredStep, OffStep DEF DrillStep
<1>3. CASE Serve
  BY <1>3, DrillFaultFor, DrillDecide, DrillUsage DEF Serve
<1> QED
  BY <1>1, <1>2, <1>3, ArriveStep, AdminStep, PassStep DEF Next

(* Whatever other clients, administrators and the clock do between them: a  *)
(* drill whose fault nobody else replaced or used up, and whose time did    *)
(* not run out, passes; the retries, the fallback and the repair do it.     *)
THEOREM DrillsPassUndisturbed == Spec => []DrillsPass
<1>1. DInv => DrillsPass
  BY DEF DInv, VerdictInv
<1> QED
  BY InitDInv, NextDInv, <1>1, PTL DEF Spec

=============================================================================
