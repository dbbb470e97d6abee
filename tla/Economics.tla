------------------------------ MODULE Economics -------------------------------
(***************************************************************************)
(* Self-hosting against a provider: measure_self_host writes two files,    *)
(* build_breakeven_input (scripts/live_benchmark.py) binds them to a       *)
(* comparison of two routes, and scripts/breakeven.py says from how many   *)
(* requests on the fixed cost pays.                                        *)
(*                                                                         *)
(* Abstraction.  A hash is the content it was taken of; sources, fixtures  *)
(* and pipeline settings are one setup.  The comparison is the work of     *)
(* LiveRun: it is there from the start, and somebody may replace the rows  *)
(* and the summary of a route at any time, between two reads of them too,  *)
(* if never by what they were before.  The model ends with the result.     *)
(* Money is a whole number of units, a rate the pair of its numerator and  *)
(* denominator: rounding to a float near an integer, which breakeven.py    *)
(* takes back, has nothing to round here.                                  *)
(***************************************************************************)
EXTENDS Integers, FiniteSets, FiniteSetsExt, Sequences, SequencesExt

CONSTANTS
  Versions, IdsOf,    (* versions of the golden set, and their case ids    *)
  Setups,             (* sources, fixtures and pipeline settings           *)
  Manifests,          (* manifests of comparisons that may be given        *)
  Replacements,       (* of each: rows and summaries that may come instead *)
  Fixed, Variable,    (* assumptions.monthly_fixed_usd, per request        *)
  SecondsPerMonth,    (* available_hours_per_month, in seconds             *)
  Utilizations,       (* planned_utilization, in percent                   *)
  Elapsed,            (* seconds a load test may take                      *)
  Losses,             (* requests of it that may not complete              *)
  MaxMeasurements,    (* bound of the model                                *)
  Nothing             (* Python None, or no such file                      *)

Routes == {"commercial", "open_weight_gateway"}

ASSUME EconomicsAssumption ==
  /\ Fixed \subseteq Nat /\ Variable \subseteq Nat
  /\ SecondsPerMonth \in Nat \ {0}
  /\ Utilizations \subseteq 0 .. 100
  /\ Elapsed \subseteq Nat \ {0} /\ Losses \subseteq Nat
  /\ \A v \in Versions : Len(IdsOf[v]) \in Nat \ {0}

VARIABLES
  load_dir,      (* requests.json and measurement.json                     *)
  measuring,     (* the report that is not saved yet                       *)
  measurements,  (* load tests so far                                      *)
  comparison,    (* manifest.json, the rows and summaries of the routes    *)
  build,         (* where build_breakeven_input is, and what it has read   *)
  overwritten,   (* history: the files written since that began            *)
  result

econVars == <<load_dir, measuring, measurements, comparison, build, overwritten, result>>

Start == [at |-> "start"]

EconStart ==
  /\ load_dir = [requests |-> Nothing, measurement |-> Nothing]
  /\ measuring = Nothing /\ measurements = 0
  /\ build = Start /\ overwritten = {} /\ result = Nothing

EconInit == EconStart /\ \E m \in Manifests : comparison = [manifest |-> m, rows |-> m.files, summaries |-> m.summaries]

(* What a build that is under way has read may be the file before or after. *)
Written(file) == overwritten' = IF build = Start THEN {} ELSE overwritten \cup {file}

-----------------------------------------------------------------------------
(* measure_self_host: the rows are saved first, hashed, and then the report.*)
save_requests ==
  /\ measurements < MaxMeasurements
  /\ \E v \in Versions, s \in Setups, e \in Elapsed, genuine \in BOOLEAN, repeats \in 1 .. 2 :
       LET n == repeats * Len(IdsOf[v]) IN
       \E completed \in {n - l : l \in Losses} \cap Nat :
         measuring' = [status |-> IF genuine THEN "MEASURED" ELSE "NOT_LIVE_EVIDENCE", repeats |-> repeats,
                       traffic |-> v, setup |-> s, attempted |-> n, completed |-> completed, elapsed |-> e]
  /\ measurements' = measurements + 1
  /\ load_dir' = [load_dir EXCEPT !.requests = [traffic |-> measuring'.traffic, run |-> measurements']]
  /\ Written(<<"requests">>)
  /\ UNCHANGED <<comparison, build, result>>

save_measurement ==
  /\ measuring # Nothing
  /\ load_dir' = [load_dir EXCEPT !.measurement = [report |-> measuring, source |-> load_dir.requests]]
  /\ measuring' = Nothing
  /\ UNCHANGED <<measurements, comparison, build, overwritten, result>>

(* <alias>.results.jsonl or <alias>.summary.json is written over.           *)
Replace(name, route) ==
  /\ \E content \in Replacements[comparison.manifest][name] : comparison' = [comparison EXCEPT ![name][route] = content]
  /\ Written(<<name, route>>)
  /\ UNCHANGED <<load_dir, measuring, measurements, build, result>>

-----------------------------------------------------------------------------
(* A step of build_breakeven_input, which reads no file twice in one: a     *)
(* check that fails raises.                                                 *)
Step(from, ok, next) ==
  /\ build.at = from
  /\ IF ok THEN build' = next /\ UNCHANGED result
     ELSE result' = [status |-> "rejected"] /\ build' = Start
  /\ UNCHANGED <<load_dir, measuring, measurements, comparison, overwritten>>

(* What the measurement and the manifest must have in common.               *)
Matched(m, c) ==
  /\ m.status = "MEASURED" /\ m.repeats = 1
  /\ c.live /\ c.status = "LIVE_COMPLETE" /\ ~c.pilot
  /\ m.traffic = c.traffic
  /\ m.setup = c.setup
  /\ c.hosted

read_measurement ==
  /\ load_dir.measurement # Nothing
  /\ Step("start", Matched(load_dir.measurement.report, comparison.manifest),
          [at |-> "check requests", route |-> "commercial",
           measured |-> load_dir.measurement.report, named |-> load_dir.measurement.source,
           ids |-> <<>>, source |-> Nothing,
           read |-> [r \in Routes |-> Nothing], hashes |-> [r \in Routes |-> Nothing],
           quality |-> [r \in Routes |-> Nothing]])

(* requests.json is hashed, read for the ids, and hashed for the result.    *)
check_requests == Step("check requests", load_dir.requests = build.named, [build EXCEPT !.at = "read requests"])

read_requests == Step("read requests", TRUE, [build EXCEPT !.at = "hash requests", !.ids = IdsOf[load_dir.requests.traffic]])

hash_requests == Step("hash requests", TRUE, [build EXCEPT !.at = "check rows", !.source = load_dir.requests])

(* meter_totals: a sum with an unknown part is unknown.                     *)
meter_totals(usage) ==
  IF usage = <<>> \/ \E i \in DOMAIN usage : usage[i].cost = Nothing THEN Nothing
  ELSE SumFunction([i \in DOMAIN usage |-> usage[i].cost])

(* Slip: retried and failed calls are taken as they are.                    *)
Clean_Anything(usage) == TRUE

(* Retries and failures are billed in ways nobody saw.                      *)
Clean(usage) == \A i \in DOMAIN usage : ~usage[i].failed /\ usage[i].attempts = 1

UsageOf(content) == FlattenSeq([i \in DOMAIN content.rows |-> content.rows[i].usage])
CaseIds(content) == [i \in DOMAIN content.rows |-> content.rows[i].id]

(* What LiveRun leaves: a complete comparison that is no pilot has a row    *)
(* for each case of its traffic, in order.  An attempt that neither failed  *)
(* nor was repeated is billed what it cost, where the provider said; that   *)
(* goes for rows of another run too.                                        *)
Billed(item) == item.cost # Nothing /\ ~item.failed /\ item.attempts = 1 => item.billed = item.cost
Metered(content) ==
  LET usage == UsageOf(content) IN
  IsFiniteSet(DOMAIN usage) /\ \A i \in DOMAIN usage : usage[i].cost \in Nat \cup {Nothing} /\ Billed(usage[i])

ASSUME ManifestsAssumption ==
  \A m \in Manifests :
    /\ DOMAIN m.files = Routes /\ DOMAIN m.summaries = Routes
    /\ \A r \in Routes : Metered(m.files[r]) /\ m.files[r] \notin Replacements[m].rows
    /\ \A content \in Replacements[m].rows : Metered(content)
    /\ m.live /\ m.status = "LIVE_COMPLETE" /\ ~m.pilot =>
         \A r \in Routes : m.files[r].traffic = m.traffic /\ CaseIds(m.files[r]) = IdsOf[m.traffic]

(* Of each route the two files are hashed, then read, and the rows hashed   *)
(* once more for the result.                                                *)
Now(name) == comparison[name][build.route]

check_rows == Step("check rows", Now("rows") = comparison.manifest.files[build.route], [build EXCEPT !.at = "check summary"])

check_summary ==
  Step("check summary", Now("summaries") = comparison.manifest.summaries[build.route], [build EXCEPT !.at = "read rows"])

read_rows == Step("read rows", TRUE, [build EXCEPT !.at = "read summary", !.read[build.route] = Now("rows")])

read_summary ==
  LET content == build.read[build.route]
      usage == UsageOf(content)
  IN
  Step("read summary",
       /\ CaseIds(content) = build.ids
       /\ meter_totals(usage) # Nothing /\ content.models = 1
       /\ Clean(usage),
       [build EXCEPT !.at = "hash rows", !.quality[build.route] = Now("summaries")])

(* Slip: the hash that was compared goes into the result.                   *)
hash_rows_Compared ==
  Step("hash rows", TRUE,
       [build EXCEPT !.at = IF build.route = "commercial" THEN "check rows" ELSE "compute",
                     !.route = "open_weight_gateway", !.hashes[build.route] = comparison.manifest.files[build.route]])

hash_rows ==
  Step("hash rows", TRUE,
       [build EXCEPT !.at = IF build.route = "commercial" THEN "check rows" ELSE "compute",
                     !.route = "open_weight_gateway", !.hashes[build.route] = Now("rows")])

-----------------------------------------------------------------------------
CeilDiv(a, b) == (a + b - 1) \div b

(* Slip: parity taken for the strict saving.                                *)
Crossing_NotStrict(F, v, C, n) ==
  [status |-> "CROSSING", parity |-> CeilDiv(F * n, C - v * n), strict |-> CeilDiv(F * n, C - v * n)]

(* compare_route: F + vN against cN, where n requests cost C.               *)
Crossing(F, v, C, n) ==
  [status |-> "CROSSING", parity |-> CeilDiv(F * n, C - v * n), strict |-> (F * n) \div (C - v * n) + 1]

NoCrossing(F, v, C, n) ==
  [status |-> IF C = v * n /\ F = 0 THEN "ALWAYS_EQUAL" ELSE "NO_COST_CROSSING",
   parity |-> Nothing, strict |-> Nothing]

compare_route(F, v, C, n, capacity, planned) ==
  LET x == IF C - v * n > 0 THEN Crossing(F, v, C, n) ELSE NoCrossing(F, v, C, n)
      Within(limit) == IF x.status = "CROSSING" THEN x.parity <= limit ELSE x.status = "ALWAYS_EQUAL"
  IN [status |-> x.status, parity |-> x.parity, strict |-> x.strict,
      within_capacity |-> Within(capacity), within_plan |-> Within(planned),
      strict_within_plan |-> x.status = "CROSSING" /\ x.strict <= planned]

(* compute_breakeven, of the evidence the steps before bound together; the  *)
(* result carries the two kinds of hashes, and the quality of the routes.   *)
Compared(m, F, v, u) ==
  LET n == Len(build.ids)
      capacity == (m.completed * SecondsPerMonth) \div m.elapsed
      planned == (m.completed * SecondsPerMonth * u) \div (m.elapsed * 100)
      Cost(r) == meter_totals(UsageOf(build.read[r]))
  IN [status |-> "computed", fixed |-> F, variable |-> v, requests |-> n, capacity |-> capacity, planned |-> planned,
      source |-> build.source, hashes |-> build.hashes, quality |-> build.quality,
      costs |-> [r \in Routes |-> Cost(r)],
      comparisons |-> [r \in Routes |-> compare_route(F, v, Cost(r), n, capacity, planned)]]

compute ==
  /\ build.at = "compute"
  /\ \E F \in Fixed, v \in Variable, u \in Utilizations :
       result' = IF build.measured.completed = 0 THEN [status |-> "rejected"]
                 ELSE Compared(build.measured, F, v, u)
  /\ UNCHANGED <<load_dir, measuring, measurements, comparison, build, overwritten>>

BuildNext ==
  \/ read_measurement \/ check_requests \/ read_requests \/ hash_requests
  \/ check_rows \/ check_summary \/ read_rows \/ read_summary \/ hash_rows
  \/ compute

EconNext ==
  /\ result = Nothing
  /\ \/ save_requests \/ save_measurement
     \/ \E name \in {"rows", "summaries"}, r \in Routes : Replace(name, r)
     \/ BuildNext

-----------------------------------------------------------------------------
Computed == result # Nothing /\ result.status = "computed"

(* A result rests on one live load test and a complete comparison of the    *)
(* same traffic under the same setup.  The rows it was computed of are      *)
(* those the comparison ended with, unless they were written over while the *)
(* inputs were put together, and then the hash in the result tells: it is   *)
(* not the manifest's.  So with the cases of the load test and the hash the *)
(* measurement names; the summaries are not hashed again.                   *)
ComputedIsMatched ==
  Computed =>
    LET m == build.measured  c == comparison.manifest IN
    /\ m.status = "MEASURED" /\ c.live /\ ~c.pilot
    /\ m.setup = c.setup /\ m.traffic = c.traffic /\ m.attempted = Len(IdsOf[m.traffic])
    /\ <<"requests">> \notin overwritten \/ result.source = build.named =>
         result.source = build.named /\ build.named.traffic = m.traffic /\ build.ids = IdsOf[m.traffic]
    /\ \A r \in Routes :
         /\ CaseIds(build.read[r]) = build.ids
         /\ <<"rows", r>> \notin overwritten \/ result.hashes[r] = c.files[r] =>
              /\ build.read[r] = c.files[r] /\ result.hashes[r] = c.files[r]
              /\ build.read[r].traffic = m.traffic /\ CaseIds(build.read[r]) = IdsOf[m.traffic]
         /\ <<"summaries", r>> \notin overwritten => result.quality[r] = c.summaries[r]

(* The cost of a route is all that its attempts were billed: no retry, no   *)
(* failure and no unreported usage goes missing from it.                    *)
ProjectedCostIsComplete ==
  Computed => \A r \in Routes :
    LET usage == UsageOf(build.read[r]) IN
    result.costs[r] = SumFunction([i \in DOMAIN usage |-> usage[i].billed])

(* The two volumes are the least at which self-hosting costs no more, and   *)
(* less, than the route; without a crossing no volume reaches parity; and a *)
(* volume is called feasible when one within the limit is.                  *)
Exact(x, F, v, C, n, capacity, planned) ==
  LET Parity(N) == F * n + v * n * N <= C * N
      Saves(N) == F * n + v * n * N < C * N
  IN
  /\ x.status = "CROSSING" =>
       /\ Parity(x.parity) /\ (x.parity > 0 => ~Parity(x.parity - 1))
       /\ Saves(x.strict) /\ (x.strict > 0 => ~Saves(x.strict - 1))
       /\ x.parity > 0 => (x.within_plan <=> \E N \in 1 .. planned : Parity(N))
       /\ x.strict_within_plan <=> \E N \in 1 .. planned : Saves(N)
  /\ x.status = "NO_COST_CROSSING" => ~\E N \in 1 .. capacity + 1 : Parity(N)
  /\ x.status = "ALWAYS_EQUAL" => \A N \in 0 .. capacity : F * n + v * n * N = C * N

(* That holds of either route's comparison in every result, for the costs   *)
(* that were read and the assumptions it was given.                         *)
BreakEvenIsExact ==
  Computed => \A r \in Routes :
    Exact(result.comparisons[r], result.fixed, result.variable, result.costs[r], result.requests,
          result.capacity, result.planned)
=============================================================================
