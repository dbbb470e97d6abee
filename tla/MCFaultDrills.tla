---------------------------- MODULE MCFaultDrills -----------------------------
(* A small instance of FaultDrills: the drill's own requests, and one other *)
(* client at a time with requests of every kind.                            *)
EXTENDS FaultDrills, TLC

CONSTANTS primary, secondary, long, brief, hours, status, talk

MCTokens == (long :> 3) @@ (brief :> 1)
MCHas == (hours :> {"hours"}) @@ (status :> {"order", "tracking"}) @@ (talk :> {"overlap"})
MCChain == <<primary, secondary>>

Plain == [from |-> "other", model |-> primary, title |-> "Answer", prefix |-> long, users |-> <<talk>>,
          messages |-> <<>>, tools |-> {"lookup_order", "create_return_or_exchange"}, context |-> "return",
          degraded |-> FALSE, repair |-> FALSE, short |-> FALSE]

Called(id, tool) == [role |-> "assistant", id |-> id, tool |-> tool]
Told(id, body) == [role |-> "tool", id |-> id, body |-> body]

MCPayloads ==
  {Plain,
   [Plain EXCEPT !.model = secondary],
   [Plain EXCEPT !.title = "JudgeVerdict", !.prefix = brief],
   [Plain EXCEPT !.title = "Unheard"],
   [Plain EXCEPT !.title = "DomainRequest", !.degraded = TRUE, !.prefix = brief],
   [Plain EXCEPT !.messages = <<Told(1, "facts")>>],
   [Plain EXCEPT !.messages = <<Called(1, "lookup_order"), Told(1, "facts")>>],
   [Plain EXCEPT !.messages = <<Called(1, "lookup_order"), Told(1, "denial"), Told(2, "facts")>>],
   [Plain EXCEPT !.messages = <<Called(1, "lookup_order"), Told(1, "facts")>>, !.tools = {}, !.short = TRUE],
   [Plain EXCEPT !.messages = <<Called(1, "lookup_order"), Told(1, "facts"), Told(2, "facts")>>, !.tools = {}]}

Inject(mode, model, count) ==
  [readable |-> TRUE, mode |-> mode, model |-> model, seconds |-> 1, count |-> count]

MCInjections ==
  {Inject("overload", None, None), Inject("invalid_tool", primary, None), Inject("invalid_json", None, -1),
   [Inject("off", None, None) EXCEPT !.readable = FALSE]}
=============================================================================
