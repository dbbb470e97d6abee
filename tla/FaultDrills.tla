----------------------------- MODULE FaultDrills ------------------------------
(***************************************************************************)
(* The fault drills of scripts/run_all.py: a script puts a fault into the  *)
(* simulator, sends a message through the application, and takes the fault *)
(* out again.  Its requests share the Gateway with whoever else talks to   *)
(* it; what SDKClient does with a status is its retries and its fallback   *)
(* (llm.py, complete), without the budget.                                 *)
(***************************************************************************)
EXTENDS Gateway

CONSTANTS
  Chain,          (* the models of the primary route and its fallbacks      *)
  max_attempts,
  DrillPrefix, Hours, Status,   (* the prompt; the two customers' texts      *)
  Seconds         (* how long a fault lasts that does not say so            *)

ASSUME FaultDrillsAssumption ==
  /\ Chain \in Seq(MODELS) /\ Len(Chain) > 1 /\ Chain[1] # Chain[2]
  /\ max_attempts \in Nat \ {0}
  /\ Seconds \in Nat \ {0}
  /\ DrillPrefix \in Prompts
  /\ {Hours, Status} \subseteq Texts /\ Hours # Status
  /\ _extract(Hours).intent = "faq" /\ _extract(Hours).sure
  /\ _extract(Status).order_id
  /\ \A p \in Payloads : p.from # "drill"

VARIABLES
  drill,     (* the drill it is in                                          *)
  pc,        (* where in it                                                 *)
  asked,     (* the stage of the message, and its rejected answers          *)
  hop, attempt,
  events,    (* a model_error is among the client's events                  *)
  verdicts,  (* "passed" of every drill                                     *)
  disturbed  (* history: others, or the clock, had a hand in this fault     *)

drillVars == <<drill, pc, asked, hop, attempt, events, verdicts>>
vars == <<gatewayVars, drillVars, disturbed>>

Drill(mode, count, model, stages, text) ==
  [mode |-> mode, count |-> count, model |-> model, stages |-> stages, text |-> text]

Message == <<"GuardDecision", "DomainRequest">>

Drills == << Drill("rate_limit", 1, Chain[1], Message, Hours),
             Drill("overload", 20, Chain[1], Message, Hours),
             Drill("server_error", 20, Chain[1], Message, Hours),
             Drill("invalid_json_until_repair", 3, None, <<"DomainRequest">>, Status) >>

Attempts == 3   (* range(3) in _structured *)

Init ==
  /\ InitGateway
  /\ drill = 1 /\ pc = "post" /\ hop = 1 /\ attempt = 1 /\ events = FALSE
  /\ asked = [stage |-> 1, rejected |-> 0]
  /\ verdicts = [d \in DOMAIN Drills |-> "none"]
  /\ disturbed = FALSE

Script == Drills[drill]

post ==
  /\ pc = "post"
  /\ fault([readable |-> TRUE, mode |-> Script.mode, model |-> Script.model,
            seconds |-> Seconds, count |-> Script.count])
  /\ pc' = "ask" /\ events' = FALSE /\ disturbed' = FALSE
  /\ hop' = 1 /\ attempt' = 1 /\ asked' = [stage |-> 1, rejected |-> 0]
  /\ UNCHANGED <<now, serving, reply, bound, drill, verdicts>>

Request ==
  [from |-> "drill", model |-> Chain[hop], title |-> Script.stages[asked.stage], prefix |-> DrillPrefix,
   users |-> <<Script.text>>, messages |-> <<>>, tools |-> {}, context |-> None,
   degraded |-> FALSE, repair |-> asked.rejected > 0, short |-> FALSE]

ask ==
  /\ pc = "ask"
  /\ complete(Request)
  /\ pc' = "wait"
  /\ UNCHANGED <<bound, drill, asked, hop, attempt, events, verdicts, disturbed>>

Delivered == pc = "wait" /\ reply.at = "answer" /\ reply.payload.from = "drill"

(* Slip: a fallback is asked only after a rejection that is final.          *)
retry_SameRoute ==
  /\ Delivered
  /\ reply.status \in {Statuses[m] : m \in DOMAIN Statuses}
  /\ events' = TRUE
  /\ IF attempt < max_attempts
     THEN /\ attempt' = attempt + 1 /\ pc' = "ask" /\ UNCHANGED <<hop, verdicts>>
     ELSE pc' = "off" /\ verdicts' = [verdicts EXCEPT ![drill] = "failed"] /\ UNCHANGED <<hop, attempt>>
  /\ UNCHANGED <<gatewayVars, drill, asked, disturbed>>

(* A status that may be retried: the same route, then the next one.  With   *)
(* none left the message fails; the last drill, which is not a message,     *)
(* ends the script.                                                         *)
retry ==
  /\ Delivered
  /\ reply.status \in {Statuses[m] : m \in DOMAIN Statuses}
  /\ events' = TRUE
  /\ CASE attempt < max_attempts ->
            attempt' = attempt + 1 /\ pc' = "ask" /\ UNCHANGED <<hop, verdicts>>
       [] attempt = max_attempts /\ hop < Len(Chain) ->
            attempt' = 1 /\ hop' = hop + 1 /\ pc' = "ask" /\ UNCHANGED verdicts
       [] attempt = max_attempts /\ hop = Len(Chain) ->
            /\ pc' = IF Script.text = Hours THEN "off" ELSE "raised"
            /\ verdicts' = [verdicts EXCEPT ![drill] = "failed"]
            /\ UNCHANGED <<hop, attempt>>
  /\ UNCHANGED <<gatewayVars, drill, asked, disturbed>>

Valid(said) ==
  said.content[1] = IF Script.stages[asked.stage] = "GuardDecision" THEN "blocked" ELSE "request"

(* What the answer must lead to for the drill to pass.                      *)
Passed ==
  IF Script.text = Hours
  THEN reply.said.content[2].intent = "faq" /\ reply.said.content[2].sure /\ events
  ELSE reply.said.content[2].order_id /\ asked.rejected = 1

(* An answer that does not validate is asked for again with the repair      *)
(* instruction; one that does ends the stage.                               *)
answered ==
  /\ Delivered /\ reply.status = 200
  /\ hop' = 1 /\ attempt' = 1
  /\ IF Valid(reply.said)
     THEN IF asked.stage < Len(Script.stages)
          THEN asked' = [stage |-> asked.stage + 1, rejected |-> 0] /\ pc' = "ask" /\ UNCHANGED verdicts
          ELSE /\ verdicts' = [verdicts EXCEPT ![drill] = IF Passed THEN "passed" ELSE "failed"]
               /\ pc' = "off" /\ UNCHANGED asked
     ELSE IF asked.rejected + 1 < Attempts
          THEN asked' = [asked EXCEPT !.rejected = @ + 1] /\ pc' = "ask" /\ UNCHANGED verdicts
          ELSE /\ pc' = IF Script.text = Hours THEN "off" ELSE "raised"
               /\ verdicts' = [verdicts EXCEPT ![drill] = "failed"]
               /\ UNCHANGED asked
  /\ UNCHANGED <<gatewayVars, drill, events, disturbed>>

off ==
  /\ pc = "off"
  /\ fault([readable |-> TRUE, mode |-> "off", model |-> None, seconds |-> Seconds, count |-> None])
  /\ IF drill < Len(Drills)
     THEN drill' = drill + 1 /\ pc' = "post"
     ELSE pc' = "done" /\ UNCHANGED drill
  /\ UNCHANGED <<now, serving, reply, bound, asked, hop, attempt, events, verdicts, disturbed>>

DrillStep == post \/ ask \/ retry \/ answered \/ off

-----------------------------------------------------------------------------
(* Everybody else.  What a client sends is served when the loop is free and *)
(* the drill has read its answer, which it does without touching anything.  *)
Arrive(p) ==
  /\ ~Delivered
  /\ bound.arrivals < MaxArrivals
  /\ complete(p)
  /\ bound' = [bound EXCEPT !.arrivals = @ + 1]
  /\ UNCHANGED <<drillVars, disturbed>>

OnDrill == pc \in {"ask", "wait"}

Admin ==
  /\ bound.admin < MaxAdmin
  /\ bound' = [bound EXCEPT !.admin = @ + 1]
  /\ \/ reset_state
     \/ \E i \in Injections : fault(i)
  /\ disturbed' = (disturbed \/ OnDrill)
  /\ UNCHANGED <<now, serving, reply, drillVars>>

(* The sections of a completion that is being served.                       *)
Serve ==
  /\ \/ _fault_for
     \/ (Decide \/ _usage)
  /\ disturbed' = (disturbed \/ (OnDrill /\ serving.payload.from # "drill"
                                 /\ _fault'.remaining # _fault.remaining))
  /\ UNCHANGED <<bound, drillVars>>

Pass ==
  /\ Tick
  /\ disturbed' = (disturbed \/ (OnDrill /\ _fault.until # None /\ now' >= _fault.until))
  /\ UNCHANGED <<bound, drillVars>>

Next == DrillStep \/ (\E p \in Payloads : Arrive(p)) \/ Admin \/ Serve \/ Pass

Spec == Init /\ [][Next]_vars

-----------------------------------------------------------------------------
(* What /admin/stats reports adds up whenever it is asked: every request is *)
(* one model's, and there are no more hits or served faults than requests,  *)
(* but for the one completion a reset may fall into (its request is no      *)
(* longer counted, its fault and its tokens still are).                     *)
StatsReconcile ==
  /\ _stats.requests = SumFunction(_stats.by_model)
  /\ _stats.faults_served <= _stats.requests + adrift
  /\ _stats.cache_hits <= _stats.requests + adrift
  /\ _stats.cached_tokens <= _stats.input_tokens
  /\ _stats.cached_tokens >= _stats.cache_hits * MIN_CACHEABLE_TOKENS

(* Cached input is charged only for a whole prefix that the same model was  *)
(* sent less than a lifetime ago and after the last reset, however resets   *)
(* and time fall between the sections of the completion.                    *)
HitsAreWarm ==
  [][reply'.at = "answer" /\ reply' # reply /\ reply'.cached > 0 =>
       /\ reply'.cached = PrefixTokens[reply'.payload.prefix]
       /\ \E s \in sent : /\ s.model = reply'.payload.model /\ s.prefix = reply'.payload.prefix
                          /\ serving.clock - s.at < CACHE_TTL_S]_vars

(* "Facts in final answers can only come from correlated tool-result        *)
(* messages": whatever fault is in force, an answer told as a fact is the   *)
(* body of a tool message whose call the same request shows, and an action  *)
(* is called for only after a lookup that did not fail.                     *)
AnswersAreGrounded ==
  reply.at = "answer" =>
    LET said == reply.said  p == reply.payload
        Shown(id) == \E m \in ToSet(p.messages) : m.role = "assistant" /\ m.id = id
    IN
    /\ said.content[1] = "told" =>
         /\ Shown(said.content[2])
         /\ \E m \in ToSet(p.messages) : m.role = "tool" /\ m.id = said.content[2] /\ m.body = said.content[3]
    /\ said.calls = <<"create_return_or_exchange">> =>
         \E m \in ToSet(p.messages) : m.role = "tool" /\ Shown(m.id) /\ ~Failed(m.body)

(* Retries, the fallback and the repair instruction get every drill through *)
(* the fault it injects, unless somebody else replaced or used the fault up *)
(* or its time ran out in the middle.                                       *)
DrillsPass == verdicts[drill] = "failed" => disturbed

=============================================================================
