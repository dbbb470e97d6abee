---------------------------- MODULE Configuration -----------------------------
(***************************************************************************)
(* From a configuration file to a client that can be asked: the readiness  *)
(* check of scripts/live_evaluate.py, the routes each live program selects *)
(* of the file, the boundary check of talabak/llm.py, the construction of  *)
(* SDKClient and the request it makes of what the application asks.        *)
(*                                                                         *)
(* Abstraction.  Mappings keep their keys: a record may lack one.  An URL  *)
(* is its scheme and whether its host is the loopback, Unset when it does  *)
(* not parse; a tariff is what the code tells about it; ranges of numbers  *)
(* and the spelling of names are left out.  A message's content is the     *)
(* sequence of the texts put together in it.                               *)
(***************************************************************************)
EXTENDS Integers, Sequences, FiniteSets, SequencesExt, TLC

CONSTANTS
  Profiles,   (* Profiles[kind]: the configurations a program is given     *)
  Unset       (* Python None                                               *)

LIVE_MODES == {"live_commercial", "live_open_weight"}
Aliases == {"primary", "open_weight"}
ExpectedMode == [primary |-> "live_commercial", open_weight |-> "live_open_weight"]
SIM_CAPABILITIES == [json_schema |-> TRUE, tools |-> TRUE, schema_with_tools |-> TRUE, parallel_tool_calls |-> TRUE,
                     temperature |-> TRUE, developer_role |-> TRUE, token_parameter |-> "max_tokens"]

Kinds == {"comparison", "cache", "self-host", "demonstration"}

(* What a program asks as a live model, when it may.                        *)
Selectable ==
  [k \in Kinds |-> CASE k = "comparison" -> Aliases
                     [] k = "cache" -> {"primary"}
                     [] k = "self-host" -> {"open_weight"}
                     [] k = "demonstration" -> {}]

ASSUME ConfigurationAssumption ==
  /\ DOMAIN Profiles = Kinds
  /\ \A k \in Kinds : \A c \in Profiles[k] : {"routes", "fallbacks"} \subseteq DOMAIN c
  /\ Unset \notin BOOLEAN /\ Unset \notin {"complete", "max_tokens", "max_completion_tokens"}

VARIABLES
  kind,      (* the comparison, a kind of live_benchmark, or run_all       *)
  config,    (* what it was given, then what it gives to SDKClient         *)
  client     (* SDKClient: its construction, [at, made, read]              *)

clientVars == <<kind, config, client>>

Get(mapping, key, default) == IF key \in DOMAIN mapping THEN mapping[key] ELSE default
Simulated(route) == Get(route, "mode", Unset) = "simulator"
Given(mapping) == mapping # Unset /\ DOMAIN mapping # {}

_caps(route) ==
  IF Simulated(route) THEN Get(route, "caps", <<>>) @@ SIM_CAPABILITIES ELSE Get(route, "caps", <<>>)
Temperature(route) == Get(route, "temperature", IF Simulated(route) THEN 0 ELSE Unset)

-----------------------------------------------------------------------------
(* preflight_config: one route.                                             *)
_parsed_url(route) == Get(route, "url", Unset) # Unset
require_loopback(route) == _parsed_url(route) /\ route.url.host = "loopback"
_tariff(route) == Get(route, "tariff", Unset)

Authorized(route) ==
  LET auth == Get(route, "auth", <<>>) IN
  CASE Get(auth, "type", Unset) = "none" -> route.url.host = "loopback" /\ DOMAIN auth = {"type"}
    [] Get(auth, "type", Unset) \in {"env", "secret"} -> DOMAIN auth = {"type", "name"}
    [] OTHER -> FALSE

Admitted(route, money) ==
  LET caps == _caps(route) IN
  /\ Get(route, "mode", Unset) \in LIVE_MODES \cup {"simulator"}
  /\ Simulated(route) => require_loopback(route)
  /\ _parsed_url(route)
  /\ ~Simulated(route) => route.url.scheme = "https" \/ route.url.host = "loopback"
  /\ Get(route, "model", Unset) # Unset
  /\ \A k \in {"json_schema", "tools", "parallel_tool_calls", "temperature"} : Get(caps, k, Unset) \in BOOLEAN
  /\ Get(caps, "token_parameter", Unset) \in {"max_tokens", "max_completion_tokens"}
  /\ \A k \in {"schema_with_tools", "developer_role", "json_object"} \cap DOMAIN caps : caps[k] \in BOOLEAN
  /\ Temperature(route) # Unset => caps.temperature
  /\ Get(route, "deployment", Unset) \in {Unset, "hosted", "self_hosted"}
  /\ _tariff(route) \in {Unset, "complete"}
  /\ Simulated(route) \/ Authorized(route)
  /\ money # Unset => _tariff(route) = "complete" /\ Get(route, "max_input_tokens", Unset) # Unset

preflight_config(c, allow_live) ==
  LET Chain(alias) == <<alias>> \o c.fallbacks[alias] IN
  /\ DOMAIN c.routes # {}
  /\ \A a \in DOMAIN c.routes : /\ Get(c.routes[a], "mode", Unset) \in LIVE_MODES => allow_live
                                /\ Admitted(c.routes[a], c.money)
  /\ \A a \in DOMAIN c.fallbacks :
       /\ ToSet(Chain(a)) \subseteq DOMAIN c.routes
       /\ IsInjective(Chain(a))
       /\ Cardinality({Simulated(c.routes[hop]) : hop \in ToSet(Chain(a))}) = 1

-----------------------------------------------------------------------------
(* What the programs select of a configuration: no fallbacks for any.       *)
Selecting(c, aliases, chains) ==
  [c EXCEPT !.routes = [a \in DOMAIN c.routes \cap aliases |-> c.routes[a]],
            !.fallbacks = [a \in chains |-> <<>>]]

(* Slip: the comparison gives the client every route of the file.           *)
comparison_config_EveryRoute(c) == Selecting(c, DOMAIN c.routes, Aliases)

comparison_config(c) == Selecting(c, Aliases, Aliases)
benchmark_config(c, alias) == Selecting(c, {alias}, DOMAIN c.routes \cap {alias})

(* Slip: a route that cannot promise a schema is taken for ready.           *)
preflight_AnySchema(c) ==
  /\ \A a \in Aliases :
       LET route == Get(c.routes, a, <<>>)  caps == Get(route, "caps", <<>>) IN
       /\ \A k \in {"url", "model", "mode"} : Get(route, k, Unset) # Unset
       /\ Given(Get(route, "auth", Unset)) /\ Given(Get(route, "caps", Unset))
       /\ route.mode = ExpectedMode[a]
       /\ Get(caps, "tools", Unset) = TRUE
       /\ a = "open_weight" => Get(route, "deployment", Unset) \in {"hosted", "self_hosted"}
  /\ preflight_config(comparison_config(c), TRUE)

(* preflight of live_evaluate: nothing missing and no issue.                *)
preflight(c) ==
  /\ \A a \in Aliases :
       LET route == Get(c.routes, a, <<>>)  caps == Get(route, "caps", <<>>) IN
       /\ \A k \in {"url", "model", "mode"} : Get(route, k, Unset) # Unset
       /\ Given(Get(route, "auth", Unset)) /\ Given(Get(route, "caps", Unset))
       /\ route.mode = ExpectedMode[a]
       /\ Get(caps, "tools", Unset) = TRUE
       /\ TRUE \in {Get(caps, "json_schema", Unset), Get(caps, "json_object", Unset)}
       /\ a = "open_weight" => Get(route, "deployment", Unset) \in {"hosted", "self_hosted"}
  /\ preflight_config(comparison_config(c), TRUE)

(* measure_self_host takes a self-hosted route only.                        *)
SelfHosted(c) ==
  LET route == Get(c.routes, "open_weight", <<>>) IN
  Get(route, "mode", Unset) = "live_open_weight" /\ Get(route, "deployment", Unset) = "self_hosted"

-----------------------------------------------------------------------------
ClientInit ==
  /\ kind \in Kinds /\ config \in Profiles[kind]
  /\ client = [at |-> "start", made |-> {}, read |-> {}]

select ==
  /\ client.at = "start"
  /\ LET refused == \/ kind = "comparison" /\ ~preflight(config)
                    \/ kind = "self-host" /\ ~SelfHosted(config)
     IN client' = [client EXCEPT !.at = IF refused THEN "refused" ELSE "checking"]
  /\ config' = CASE kind = "comparison" -> comparison_config(config)
                 [] kind = "cache" -> benchmark_config(config, "primary")
                 [] kind = "self-host" -> benchmark_config(config, "open_weight")
                 [] kind = "demonstration" -> config
  /\ UNCHANGED kind

check ==
  /\ client.at = "checking"
  /\ client' = [client EXCEPT !.at = IF preflight_config(config, kind # "demonstration") THEN "making" ELSE "refused"]
  /\ UNCHANGED <<kind, config>>

(* One turn of the loop of SDKClient.__init__; a secret that is not there   *)
(* closes what was opened before.                                           *)
make(alias) ==
  LET auth == Get(config.routes[alias], "auth", <<>>)
      named == ~Simulated(config.routes[alias]) /\ auth.type # "none"
      read == IF named THEN client.read \cup {auth.name} ELSE client.read
  IN
  /\ client.at = "making" /\ alias \in DOMAIN config.routes \ client.made
  /\ \E found \in {TRUE} \cup {~named} :
       client' = IF found
                 THEN [at |-> IF client.made \cup {alias} = DOMAIN config.routes THEN "ready" ELSE "making",
                       made |-> client.made \cup {alias}, read |-> read]
                 ELSE [at |-> "refused", made |-> {}, read |-> read]
  /\ UNCHANGED <<kind, config>>

ClientNext == select \/ check \/ \E alias \in DOMAIN config.routes : make(alias)

-----------------------------------------------------------------------------
(* What the application asks: its stages, with the prefix it may share, the *)
(* answers it rejected and the rounds of tools so far.                      *)
Message(role, text) == [role |-> role, content |-> <<text>>]
Repeat(n, message) == [i \in 1 .. n |-> message]

StablePrefix(stable) == IF stable THEN <<Message("system", "context")>> ELSE <<>>
Structured(again) == <<Message("system", "prompt"), Message("user", "text")>> \o Repeat(again, Message("developer", "repair"))
Tools(again) ==
  <<Message("system", "workflow"), Message("developer", "request")>>
  \o [i \in 1 .. 2 * again |-> IF i % 2 = 1 THEN Message("assistant", "call") ELSE Message("tool", "result")]

Asked(stage, stable, again) == StablePrefix(stable) \o IF stage = "tools" THEN Tools(again) ELSE Structured(again)

(* Slip: a trusted instruction in the middle stays a system message.        *)
fold_developer_messages_Midway(messages) ==
  [i \in DOMAIN messages |-> IF messages[i].role = "developer" THEN [messages[i] EXCEPT !.role = "system"]
                             ELSE messages[i]]

(* _fold_developer_messages: the leading instructions become one, a later   *)
(* one is labelled.                                                         *)
Trusted(m) == m.role \in {"system", "developer"}
Later(m) == IF m.role = "developer" THEN [role |-> "user", content |-> <<"label">> \o m.content] ELSE m

fold_developer_messages(messages) ==
  LET leading == CHOOSE n \in 0 .. Len(messages) :
                   /\ \A i \in 1 .. n : Trusted(messages[i])
                   /\ n = Len(messages) \/ ~Trusted(messages[n + 1])
      first == [role |-> "system", content |-> FlattenSeq([i \in 1 .. leading |-> messages[i].content])]
  IN (IF leading = 0 THEN <<>> ELSE <<first>>)
     \o [i \in 1 .. Len(messages) - leading |-> Later(messages[leading + i])]

(* Whether the schema is asked for as an instruction, not enforced.         *)
json_mode_only(route, schema) == schema /\ ~_caps(route).json_schema

(* _kwargs raises when a capability is missing.                             *)
Unsupported(route, schema, tools) ==
  LET caps == _caps(route) IN
  \/ json_mode_only(route, schema) /\ ~Get(caps, "json_object", FALSE)
  \/ tools /\ ~caps.tools
  \/ tools /\ schema /\ ~Get(caps, "schema_with_tools", TRUE)

_kwargs(route, messages, schema, tools) ==
  LET caps == _caps(route)
      wire == messages \o (IF json_mode_only(route, schema) THEN <<Message("developer", "schema")>> ELSE <<>>)
  IN
  [messages |-> IF Get(caps, "developer_role", TRUE) THEN wire ELSE fold_developer_messages(wire),
   limit |-> caps.token_parameter, temperature |-> Temperature(route), tools |-> tools,
   response_format |-> CASE json_mode_only(route, schema) -> "json_object"
                         [] schema /\ caps.json_schema -> "json_schema"
                         [] ~schema -> "none"]

-----------------------------------------------------------------------------
(* What the messages say, but for the label of an instruction.              *)
Unlabelled(content) == IF content[1] = "label" THEN Tail(content) ELSE content
Texts(messages) == FlattenSeq([i \in 1 .. Len(messages) |-> Unlabelled(messages[i].content)])

(* A configuration called ready serves: once the client is made, no stage   *)
(* of the application meets a missing capability, every text it asked with  *)
(* is sent in its order, the schema with it where it is not enforced, in    *)
(* roles the route knows, and a capped budget can price the request.        *)
ReadyMeansServed ==
  client.at = "ready" /\ kind = "comparison" =>
    \A a \in Aliases, stage \in {"structured", "tools"}, stable \in BOOLEAN, again \in 0 .. 3 :
      LET route == config.routes[a]  caps == _caps(route)
          schema == stage = "tools" => Get(caps, "schema_with_tools", TRUE)
          asked == Asked(stage, stable, again)
          sent == _kwargs(route, asked, schema, stage = "tools")
      IN
      /\ ~Unsupported(route, schema, stage = "tools") /\ sent.limit # Unset
      /\ Texts(sent.messages)
           = Texts(asked) \o (IF sent.response_format = "json_object" THEN <<"schema">> ELSE <<>>)
      /\ schema => sent.response_format # "none"
      /\ Get(caps, "developer_role", TRUE)
         \/ \A i \in DOMAIN sent.messages : sent.messages[i].role # "developer"
                                            /\ (sent.messages[i].role = "system" => i = 1)
      /\ sent.temperature # Unset => caps.temperature
      /\ config.money # Unset => route.tariff = "complete" /\ route.max_input_tokens # Unset

(* "All route validation precedes every named secret lookup": a secret is   *)
(* read only for a route its program selects as a live one, of a            *)
(* configuration that passed as a whole, and a client that could not be     *)
(* made holds nothing open, whichever route's secret was missing.  The      *)
(* demonstration selects no live one, and stays on this machine.            *)
OnlySelectedSecrets ==
  /\ client.read # {} => preflight_config(config, TRUE)
  /\ \A name \in client.read : \E a \in Selectable[kind] \cap DOMAIN config.routes :
       Get(Get(config.routes[a], "auth", <<>>), "name", Unset) = name
  /\ client.at = "refused" => client.made = {}
  /\ client.at = "ready" /\ kind = "demonstration" =>
       \A a \in DOMAIN config.routes : config.routes[a].url.host = "loopback"
=============================================================================
