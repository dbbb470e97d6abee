---------------------------- MODULE MCMeasurement -----------------------------
(* A small instance of the experiments: six intents with one or two cases,  *)
(* two questions that mean the same, and models that may misroute one; and  *)
(* configurations that differ from a complete one in one or two places.     *)
EXTENDS Measurement

Case(id, intent, language, risk, messages, allowed, tools, contains) ==
  [id |-> id, intent |-> intent, language |-> language, difficulty |-> "easy", risk |-> risk,
   session |-> "A", messages |-> messages, allowed |-> allowed, tools |-> tools, contains |-> contains,
   forbidden |-> {}, citations |-> {}, actions |-> 0, terminal |-> Unknown, turn_statuses |-> <<>>, tags |-> {}]

Hours == Case(1, "faq", "ar", "low", <<"hours">>, {"answer"}, {}, {"nine"})
Opens == Case(2, "faq", "ar", "low", <<"opens">>, {"answer"}, {"lookup_catalog"}, {"nine"})
Order == Case(3, "order_status", "en", "low", <<"order">>, {"answer"}, {"lookup_order"}, {"shipped"})
Return == [Case(4, "return", "ar", "high", <<"return", "yes">>, {"created"}, {}, {"receipt"})
             EXCEPT !.actions = 1, !.turn_statuses = <<"confirmation_required", "created">>]
Exchange == [Case(5, "exchange", "ar", "high", <<"swap">>, {"denied"}, {}, {}) EXCEPT !.forbidden = {"receipt"}]
Visit == Case(6, "appointment", "en", "low", <<"visit">>, {"clarification"}, {}, {})
Human == [Case(7, "handoff", "ar", "low", <<"human">>, {"handoff"}, {}, {}) EXCEPT !.actions = 1, !.terminal = TRUE]

MCCases == {Hours, Opens, Order, Return, Exchange, Visit, Human}
MCTraffic == <<Hours, Order, Opens>>

Said(status, facts, request, tools) ==
  [status |-> status, facts |-> facts, citations |-> {}, request |-> request, tools |-> tools, leaks |-> FALSE]
Ended(results, actions, terminal) == [results |-> results, actions |-> actions, terminal |-> terminal]
Turn(status, facts, request, tools) == Ended(<<Said(status, facts, request, tools)>>, 0, FALSE)

Failure == Turn("error", {}, Unknown, {})
Handed == Ended(<<Said("handoff", {}, "handoff", {"handoff_to_support"})>>, 1, TRUE)
Proposal == Said("confirmation_required", {}, "return", {"create_return_or_exchange"})

MCConversations ==
  <<{Turn("answer", {"nine"}, "faq", {}), Failure},
    {Turn("answer", {"nine"}, "faq", {"lookup_catalog"})},
    {Turn("answer", {"shipped"}, "order_status", {"lookup_order"}), Turn("answer", {"shipped"}, "order_status", {"lookup_catalog"}), Handed},
    {Ended(<<Proposal, Said("created", {"receipt"}, Unknown, {})>>, 1, FALSE), Failure},
    {Turn("denied", {}, "exchange", {"create_return_or_exchange"})},
    {Turn("clarification", {}, "appointment", {})},
    {Handed}>>

MCScore == [p \in {"hours", "opens", "order"} \X {"hours", "opens", "order"} |->
              IF "order" \in {p[1], p[2]} THEN (IF p[1] = p[2] THEN 100 ELSE 0) ELSE 100]

Pair(id, split, should_hit) == [id |-> id, split |-> split, should_hit |-> should_hit]
Alike == Pair(1, "development", TRUE)
Apart == Pair(2, "development", FALSE)
Held  == Pair(3, "holdout", FALSE)
Miss  == Pair(4, "near", FALSE)
MCPairs == {Alike, Apart, Held, Miss}
MCScoreTables == {(Alike :> 100) @@ (Apart :> 60) @@ (Held :> h) @@ (Miss :> 0) : h \in {0, 100}}
                 \cup {(Alike :> 100) @@ (Apart :> 100) @@ (Held :> 0) @@ (Miss :> 0)}

-----------------------------------------------------------------------------
MCIdsOf == [v \in {"v1", "v2"} |-> <<1, 2>>]

Item(cost, billed, attempts, failed) == [cost |-> cost, billed |-> billed, attempts |-> attempts, failed |-> failed]
Items == {Item(1, 1, 1, FALSE), Item(3, 3, 1, FALSE), Item(Nothing, 1, 1, FALSE),
          Item(1, 2, 2, FALSE), Item(0, 1, 1, TRUE)}
Content(v, first, second) ==
  [traffic |-> v, models |-> 1, rows |-> <<[id |-> 1, usage |-> <<first>>], [id |-> 2, usage |-> <<second>>]>>]

Manifest(files) == [status |-> "LIVE_COMPLETE", live |-> TRUE, pilot |-> FALSE, traffic |-> "v1",
                    setup |-> "now", hosted |-> TRUE, files |-> files, summaries |-> [r \in Routes |-> "its own"]]
Files == {[commercial |-> Content("v1", i, Item(1, 1, 1, FALSE)), open_weight_gateway |-> Content("v1", Item(1, 1, 1, FALSE), j)] :
            i, j \in Items}
Flaws(m) == {[m EXCEPT !.status = "LIVE_ERRORS"], [m EXCEPT !.live = FALSE], [m EXCEPT !.pilot = TRUE],
             [m EXCEPT !.hosted = FALSE]}
Plain == [commercial |-> Content("v1", Item(1, 1, 1, FALSE), Item(3, 3, 1, FALSE)),
          open_weight_gateway |-> Content("v1", Item(1, 1, 1, FALSE), Item(1, 1, 1, FALSE))]
MCManifests == {Manifest(f) : f \in Files \cup {Plain}} \cup Flaws(Manifest(Plain))

(* The files of the plain comparison may be replaced, the others' stay.    *)
Untouched == [rows |-> {}, summaries |-> {}]
OtherFiles == [rows |-> {Content("v2", Item(4, 4, 1, FALSE), Item(1, 1, 1, FALSE))}, summaries |-> {"other"}]
MCReplacements == [m \in MCManifests |-> IF m = Manifest(Plain) THEN OtherFiles ELSE Untouched]

-----------------------------------------------------------------------------
Without(mapping, k) == [x \in DOMAIN mapping \ {k} |-> mapping[x]]
Capabilities == [json_schema |-> TRUE, tools |-> TRUE, parallel_tool_calls |-> FALSE, temperature |-> FALSE,
                 token_parameter |-> "max_completion_tokens"]
LiveRoute(mode, name) ==
  [mode |-> mode, url |-> [scheme |-> "https", host |-> "remote"], model |-> "m", caps |-> Capabilities,
   auth |-> [type |-> "env", name |-> name], tariff |-> "complete", max_input_tokens |-> 9, deployment |-> "hosted"]

Full == [routes |-> [primary |-> LiveRoute("live_commercial", "KEY_A"), open_weight |-> LiveRoute("live_open_weight", "KEY_B"),
                     judge |-> LiveRoute("live_commercial", "KEY_C")],
         fallbacks |-> [primary |-> <<"open_weight">>], money |-> Unset]
Simulator == [mode |-> "simulator", url |-> [scheme |-> "http", host |-> "loopback"], model |-> "m"]

(* What a route may have instead.                                           *)
Capable(route) ==
  {[route EXCEPT !.caps = extra @@ @] :
     extra \in {<<>>, [json_schema |-> FALSE], [tools |-> FALSE], [token_parameter |-> "max_words"], [json_schema |-> Unset]}}
  \cup {[route EXCEPT !.caps = o @@ m @@ @] :
          m \in {<<>>, [json_schema |-> FALSE, json_object |-> TRUE], [json_schema |-> FALSE, json_object |-> FALSE]},
          o \in {<<>>, [developer_role |-> FALSE], [schema_with_tools |-> FALSE],
                 [developer_role |-> FALSE, schema_with_tools |-> FALSE], [developer_role |-> Unset]}}
  \cup {[route EXCEPT !.caps = Without(@, k)] : k \in {"json_schema", "tools", "token_parameter"}}
  \cup {[route EXCEPT !.caps = <<>>]}
Altered(route) ==
  Capable(route)
  \cup {Without(route, k) : k \in DOMAIN route}
  \cup {[route EXCEPT !.url = u] : u \in {Unset} \cup [scheme : {"http", "https"}, host : {"loopback", "remote"}]}
  \cup {[route EXCEPT !.url.host = h, !.auth = a] :
          h \in {"loopback", "remote"}, a \in {[type |-> "none"], [type |-> "none", name |-> "KEY_A"], [type |-> "secret", name |-> "KEY_S"], [type |-> "env"], [type |-> "basic", name |-> "KEY_A"], <<>>}}
  \cup {[temperature |-> t] @@ [route EXCEPT !.caps.temperature = b] : t \in {0, 1, Unset}, b \in BOOLEAN}
  \cup {[route EXCEPT !.deployment = d] : d \in {Unset, "self_hosted", "elsewhere"}}
  \cup {[route EXCEPT !.tariff = t] : t \in {Unset, "partial"}}
  \cup {[route EXCEPT !.mode = m] : m \in LIVE_MODES \cup {Unset}}

Compositions ==
  UNION {{[Full EXCEPT !.routes[a] = r, !.money = m] : r \in Altered(Full.routes[a]), m \in {Unset, 1}} : a \in Aliases}
  \cup {[Full EXCEPT !.routes.primary = p, !.routes.open_weight = o] :
          p \in Capable(Full.routes.primary), o \in Capable(Full.routes.open_weight)}
  \cup {[Full EXCEPT !.routes = Without(@, a)] : a \in DOMAIN Full.routes}
  \cup {[Full EXCEPT !.routes.judge.auth = <<>>]}

(* The simulator's file, and what a hand may have changed in it.            *)
Local == [routes |-> [primary |-> Simulator, fallback |-> Simulator], money |-> Unset,
          fallbacks |-> [primary |-> <<"fallback">>, fallback |-> <<>>]]
Demonstrations ==
  {Local, [Local EXCEPT !.routes.fallback = Full.routes.open_weight], [Local EXCEPT !.routes.primary.url.host = "remote"]}
  \cup {[Local EXCEPT !.fallbacks.fallback = chain] : chain \in {<<"fallback">>, <<"judge">>, <<"primary">>, <<"primary", "primary">>}}
  \cup {[Local EXCEPT !.money = 1, !.routes = [a \in DOMAIN @ |-> extra @@ Simulator]] :
          extra \in {<<>>, [tariff |-> "complete", max_input_tokens |-> 9]}}

(* The load test is of a server of one's own, the rest of a provider.       *)
MCProfiles ==
  [k \in Kinds |->
     CASE k = "comparison" -> Compositions
       [] k = "cache" -> {Full}
       [] k = "demonstration" -> Demonstrations
       [] k = "self-host" -> {[Full EXCEPT !.routes.open_weight.deployment = "self_hosted"], Full}]
=============================================================================
