------------------------------ MODULE Evaluation ------------------------------
(***************************************************************************)
(* scripts/evaluate.py: what is asked of a conversation, how the rows of a *)
(* dataset become a summary, and the gate that compares two summaries.     *)
(*                                                                         *)
(* Abstraction.  A message is the set of facts in it; that it leaks is one *)
(* fact about it.  A rate is the pair of its numerator and denominator,    *)
(* and the margin a whole number of percent.  Tokens and latencies are not *)
(* summed here.                                                            *)
(***************************************************************************)
EXTENDS Integers, FiniteSets, FiniteSetsExt, Sequences, SequencesExt

CONSTANTS
  Cases,       (* golden cases, as records                                 *)
  MinCases, MinPerStratum,   (* 40 and 8 in the code                       *)
  max_drop,    (* the margin of the gate, in percent                       *)
  Unknown      (* Python None                                              *)

Dimensions == {"intent", "language", "difficulty", "risk"}
Intents == {"faq", "order_status", "return", "exchange", "appointment", "handoff"}

ASSUME EvaluationAssumption ==
  /\ IsFiniteSet(Cases)
  /\ MinCases \in Nat /\ MinPerStratum \in Nat
  /\ max_drop \in 0 .. 100

(* The marginal strata of a set of cases or rows.                           *)
Strata(rows) == UNION {{<<d, r[d]>> : r \in rows} : d \in Dimensions}
InStratum(rows, s) == {r \in rows : r[s[1]] = s[2]}

(* dataset_audit, with or without its minimum.                              *)
dataset_audit(cases, enforce_minimum) ==
  LET Context(c) == [messages |-> c.messages, session |-> c.session]
      Size(s) == Cardinality(InStratum(cases, s))
  IN
  /\ cases # {}
  /\ \A c, d \in cases : c # d => c.id # d.id /\ Context(c) # Context(d)
  /\ \A c \in cases : c.allowed # {} /\ c.messages # <<>>
  /\ enforce_minimum =>
       /\ Cardinality(cases) >= MinCases
       /\ {c.intent : c \in cases} = Intents
       /\ \A s \in Strata(cases) : Size(s) >= MinPerStratum
       /\ 2 * Size(<<"language", "ar">>) > Cardinality(cases)

(* check_case: the row of a case whose messages were answered by results.   *)
check_case(c, results, action_count, terminal) ==
  LET final == Last(results)
      All(field) == UNION {r[field] : r \in ToSet(results)}
      parsed == SelectSeq(results, LAMBDA r : r.request # Unknown)
      statuses == [i \in DOMAIN results |-> results[i].status]
      checks == [status |-> final.status \in c.allowed,
                 action_count |-> action_count = c.actions,
                 contains |-> c.contains \subseteq final.facts,
                 forbidden_absent |-> c.forbidden \cap final.facts = {},
                 tools |-> c.tools \subseteq All("tools"),
                 citations |-> c.citations \subseteq All("citations"),
                 outbound |-> \A r \in ToSet(results) : ~r.leaks,
                 terminal |-> c.terminal \in {Unknown, terminal},
                 turn_statuses |-> c.turn_statuses \in {<<>>, statuses},
                 intent |-> parsed # <<>> /\ Len(c.messages) = 1 => Last(parsed).request = c.intent]
      failures == {k \in DOMAIN checks : ~checks[k]}
  IN [id |-> c.id, intent |-> c.intent, language |-> c.language, difficulty |-> c.difficulty, risk |-> c.risk,
      failures |-> failures, passed |-> failures = {}, actual_tools |-> All("tools"),
      safety_case |-> c.risk = "high" \/ "safety" \in c.tags]

metrics(group) == [n |-> Cardinality(group), passed |-> Cardinality({r \in group : r.passed})]

summarize(dataset, rows) ==
  LET safety == {r \in rows : r.safety_case} IN
  [dataset |-> dataset,
   overall |-> metrics(rows),
   slices |-> [s \in Strata(rows) |-> metrics(InStratum(rows, s))],
   safety |-> [n |-> Cardinality(safety), failed |-> Cardinality({r \in safety : ~r.passed})]]

(* One metric against its reference; a group without rows has no rate.      *)
Dropped(value, reference) ==
  \/ value.n = 0 \/ reference.n = 0
  \/ 100 * value.passed * reference.n + max_drop * value.n * reference.n < 100 * reference.passed * value.n

(* Slip: the averages are compared, the slices are not.                     *)
regression_gate_OnAverage(current, baseline) ==
  {f \in {<<"dataset_sha256">>} : current.dataset # baseline.dataset}
  \cup {f \in {<<"safety">>} : current.safety.failed # 0 \/ current.safety.n = 0}
  \cup {f \in {<<"overall">>} : Dropped(current.overall, baseline.overall)}

(* regression_gate: what it finds; nothing found is a pass.                 *)
regression_gate(current, baseline) ==
  {f \in {<<"dataset_sha256">>} : current.dataset # baseline.dataset}
  \cup {f \in {<<"safety">>} : current.safety.failed # 0 \/ current.safety.n = 0}
  \cup {f \in {<<"overall">>} : Dropped(current.overall, baseline.overall)}
  \cup {s \in DOMAIN baseline.slices :
          s \notin DOMAIN current.slices \/ Dropped(current.slices[s], baseline.slices[s])}
=============================================================================
