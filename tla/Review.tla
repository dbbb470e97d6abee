------------------------------- MODULE Review --------------------------------
(***************************************************************************)
(* The chain from a live run to a calibrated judge (scripts/               *)
(* prepare_review.py): prepare_review selects recorded answers and binds   *)
(* them to their run, judge_review has a model label them, score_review    *)
(* compares its labels with those of people.  Each is a process of its own *)
(* that may stop between two files, and people edit files in between.      *)
(*                                                                         *)
(* Abstraction.  A hash is the content it was taken of.  The items of a    *)
(* review are the distinct (case, answer) pairs: question and evidence are *)
(* the case's.  One review directory is modelled, with one judge; the      *)
(* annotated sheet is an argument of score_review.                         *)
(***************************************************************************)
EXTENDS LiveRun, Integers, FiniteSetsExt

CONSTANTS
  Stratum,       (* language, intent, difficulty and risk of a case, ranked *)
  Labels,        (* PASS, PARTIAL, FAIL                                     *)
  limit,         (* how many answers a review selects                       *)
  min_pairs,     (* how many pairs a calibration needs                      *)
  kappa_threshold,   (* in tenths                                           *)
  judge_max_calls,   (* max_calls of judge_review                           *)
  worst,         (* max_attempts times the routes of the judge's chain      *)
  PriorCalls,    (* calls the judge's client may have made before           *)
  JudgeFinals,   (* how the judge's model calls of an instance may end      *)
  MaxEdits       (* bound of the model: files edited by hand                *)

ASSUME ReviewAssumption ==
  /\ Stratum \in [ToSet(Cases) -> Nat]
  /\ IsFiniteSet(Labels) /\ Unset \notin Labels
  /\ limit \in Nat \ {0} /\ min_pairs \in Nat \ {0}
  /\ kappa_threshold \in 0 .. 10
  /\ judge_max_calls \in Nat \ {0} /\ worst \in Nat \ {0}
  /\ PriorCalls \subseteq Nat
  /\ JudgeFinals \subseteq {f \in AllFinals : f.kind # "no_call"}
  /\ MaxEdits \in Nat

VARIABLES
  job,           (* the step of prepare_review or judge_review under way    *)
  source,        (* prepare_review: the run it has read, and is_live        *)
  judge,         (* judge_review: its client, and what it has collected     *)
  review_dir,    (* the files of the review: rubric, items, review,         *)
                 (* predictions, judge_events, judge                        *)
  calibration,   (* calibration.json; without one nothing is calibrated     *)
  edits

reviewvars == <<job, source, judge, review_dir, calibration, edits>>
vars == <<runvars, reviewvars>>

NoJudge == [injected |-> FALSE, initial |-> 0, wire |-> 0, stopped |-> FALSE,
            events |-> <<>>, predictions |-> <<>>]

Init ==
  /\ RunInit
  /\ job = "none"
  /\ source = [is_live |-> FALSE]
  /\ judge = NoJudge
  /\ review_dir = [f \in {} |-> <<>>]
  /\ calibration = [status |-> "NOT_CALIBRATED", pairs |-> 0]
  /\ edits = 0

-----------------------------------------------------------------------------
(* prepare_review.                                                          *)

(* Everything the run's manifest hashes is what it was.                     *)
SourceIntact(manifest) == \A a \in manifest.aliases : manifest.files[a] = run_dir[a]

is_live(manifest) ==
  manifest.live /\ manifest.status \in {"LIVE_COMPLETE", "PILOT_COMPLETE", "LIVE_ERRORS"}

(* The answers of both routes, in order.                                    *)
RecordedAnswers(manifest) ==
  LET of(a) == IF a \in manifest.aliases THEN manifest.files[a] ELSE <<>>
      all == of("primary") \o of("open_weight")
  IN  [i \in DOMAIN all |-> [case |-> all[i].case, answer |-> all[i].answer]]

(* Exact repetitions count once: where an answer is given that was not      *)
(* given before.                                                            *)
Candidates(answers) == {i \in DOMAIN answers : \A j \in 1 .. i - 1 : answers[j] # answers[i]}

(* The members of a set in the order of a strict total order, a set of      *)
(* pairs: the k-th has k - 1 members before it.                             *)
InOrder(S, order) ==
  [k \in 1 .. Cardinality(S) |-> CHOOSE i \in S : Cardinality({j \in S : <<j, i>> \in order}) = k - 1]

SampleSize(answers) == Min({limit, Cardinality(Candidates(answers))})

(* Slip: the first answers, in file order.                                  *)
Selected_FirstOnes(answers) ==
  LET S == Candidates(answers)
      order == {p \in S \X S : p[1] < p[2]}
  IN  [k \in 1 .. SampleSize(answers) |-> answers[InOrder(S, order)[k]]]

(* One from each stratum that has any left, in order of strata, until the   *)
(* limit is reached: a candidate is taken in the round of its place among   *)
(* those of its stratum.                                                    *)
Position(answers, i) == Stratum[answers[i].case]
Rounds(answers) ==
  LET S == Candidates(answers)
  IN  [i \in S |-> Cardinality({j \in S : j <= i /\ Position(answers, j) = Position(answers, i)})]

Turns(answers) ==
  LET round == Rounds(answers)
  IN  {p \in (DOMAIN round) \X (DOMAIN round) :
         \/ round[p[1]] < round[p[2]]
         \/ /\ round[p[1]] = round[p[2]]
            /\ Position(answers, p[1]) < Position(answers, p[2])}

Selected(answers) ==
  LET order == InOrder(Candidates(answers), Turns(answers))
  IN  [k \in 1 .. SampleSize(answers) |-> answers[order[k]]]

(* The directory must be empty; the rubric and the items are written first. *)
prepare_review(allow_non_live) ==
  /\ job = "none"
  /\ DOMAIN review_dir = {}
  /\ "manifest" \in DOMAIN run_dir
  /\ LET manifest == run_dir["manifest"]
         answers == RecordedAnswers(manifest) IN
     /\ manifest.aliases # {}
     /\ SourceIntact(manifest)
     /\ is_live(manifest) \/ allow_non_live
     /\ answers # <<>>
     /\ review_dir' = Write(Write(review_dir, "rubric", "rubric"), "items", Selected(answers))
     /\ source' = [is_live |-> is_live(manifest)]
  /\ job' = "binding"
  /\ UNCHANGED <<runvars, judge, calibration, edits>>

(* The binding takes its hashes from the files, except the rubric's; the    *)
(* review is there once its manifest is.                                    *)
BindReview ==
  /\ job = "binding"
  /\ review_dir' = Write(review_dir, "review",
       [manifest |-> run_dir["manifest"], items |-> review_dir["items"], rubric |-> "rubric",
        source_is_live |-> source.is_live])
  /\ job' = "none"
  /\ UNCHANGED <<runvars, source, judge, calibration, edits>>

(* Slip: the run's own files are not looked at again.                       *)
ReviewIntact_ManifestOnly ==
  /\ "review" \in DOMAIN review_dir
  /\ review_dir["items"] = review_dir["review"].items
  /\ review_dir["rubric"] = review_dir["review"].rubric
  /\ run_dir["manifest"] = review_dir["review"].manifest

(* _load_review: nothing the review is bound to has changed.                *)
ReviewIntact ==
  /\ "review" \in DOMAIN review_dir
  /\ review_dir["items"] = review_dir["review"].items
  /\ review_dir["rubric"] = review_dir["review"].rubric
  /\ run_dir["manifest"] = review_dir["review"].manifest
  /\ SourceIntact(run_dir["manifest"])

-----------------------------------------------------------------------------
(* judge_review.                                                            *)

(* Slip: an earlier judge's files are written over.                         *)
BeginJudge_Again ==
  /\ job = "none"
  /\ ReviewIntact
  /\ \E prior \in PriorCalls, transport \in BOOLEAN :
       judge' = [NoJudge EXCEPT !.injected = transport, !.initial = prior, !.wire = prior]
  /\ job' = "judging"
  /\ UNCHANGED <<runvars, source, review_dir, calibration, edits>>

BeginJudge ==
  /\ job = "none"
  /\ ReviewIntact
  /\ "predictions" \notin DOMAIN review_dir
  /\ \E prior \in PriorCalls, transport \in BOOLEAN :
       judge' = [NoJudge EXCEPT !.injected = transport, !.initial = prior, !.wire = prior]
  /\ job' = "judging"
  /\ UNCHANGED <<runvars, source, review_dir, calibration, edits>>

(* Slip: a call is made when one more attempt is left.                      *)
MayJudge_OneAttempt == ~judge.stopped /\ judge.wire - judge.initial < judge_max_calls

(* There is room for every attempt the next item may take.                  *)
MayJudge == ~judge.stopped /\ judge.wire - judge.initial + worst <= judge_max_calls

(* What the judge says of an item: a label if its response is accepted and  *)
(* valid.  Its mode is known only from a response.                          *)
run_judge(item, final, label) ==
  [item |-> item, label |-> label, valid |-> label # Unset,
   live |-> final.kind \in {"response", "success"} /\ ~judge.injected, served |-> final.served]

JudgeItem ==
  /\ job = "judging"
  /\ Len(judge.predictions) < Len(review_dir["review"].items)
  /\ MayJudge
  /\ \E retries \in 0 .. worst - 1, final \in JudgeFinals, label \in Labels \cup {Unset}, stop \in BOOLEAN :
       LET last == IF final.kind \in {"no_call", "refused"} THEN <<>> ELSE <<final>>
           sent == [i \in 1 .. retries |-> [kind |-> "unanswered", served |-> Unset]] \o last IN
       /\ label # Unset => final.kind = "success"
       /\ stop => Capped
       /\ judge' = [judge EXCEPT
            !.wire = @ + Len(sent), !.events = @ \o sent, !.stopped = stop,
            !.predictions = Append(@, run_judge(review_dir["review"].items[Len(@) + 1], final, label))]
  /\ UNCHANGED <<runvars, job, source, review_dir, calibration, edits>>

(* Its three files are written one after the other, the manifest last.      *)
WritePredictions ==
  /\ job = "judging"
  /\ Len(judge.predictions) = Len(review_dir["review"].items) \/ ~MayJudge
  /\ review_dir' = Write(review_dir, "predictions", judge.predictions)
  /\ job' = "metering"
  /\ UNCHANGED <<runvars, source, judge, calibration, edits>>

WriteJudgeEvents ==
  /\ job = "metering"
  /\ review_dir' = Write(review_dir, "judge_events", judge.events)
  /\ job' = "signing"
  /\ UNCHANGED <<runvars, source, judge, calibration, edits>>

WriteJudgeManifest ==
  /\ job = "signing"
  /\ review_dir' = Write(review_dir, "judge",
       [review |-> review_dir["review"], predictions |-> review_dir["predictions"],
        events |-> review_dir["judge_events"]])
  /\ job' = "none"
  /\ UNCHANGED <<runvars, source, judge, calibration, edits>>

(* prepare_review or judge_review is stopped; its files stay.               *)
Stop ==
  /\ job # "none"
  /\ job' = "none"
  /\ UNCHANGED <<runvars, source, judge, review_dir, calibration, edits>>

-----------------------------------------------------------------------------
(* score_review.                                                            *)

(* The judge's files are the ones its manifest was written for.             *)
JudgeIntact ==
  /\ "judge" \in DOMAIN review_dir
  /\ review_dir["judge"].review = review_dir["review"]
  /\ review_dir["judge"].predictions = review_dir["predictions"]
  /\ review_dir["judge"].events = review_dir["judge_events"]

(* Cohen's kappa of pairs of labels, if defined, reaches the threshold:     *)
(* n * agreed and by_chance are n^2 times the shares the code computes.     *)
agreement_holds(pairs) ==
  LET n == Cardinality(pairs)
      agreed == Cardinality({p \in pairs : p.human = p.judge})
      by_chance == MapThenSumSet(LAMBDA l : Cardinality({p \in pairs : p.human = l})
                                            * Cardinality({p \in pairs : p.judge = l}), Labels)
  IN  by_chance # n * n /\ 10 * (n * agreed - by_chance) >= kappa_threshold * (n * n - by_chance)

(* One known model answered every response and every prediction.            *)
judge_identity(predictions, log) ==
  /\ single_known_served_model(log)
  /\ predictions # <<>>
  /\ {p.served : p \in ToSet(predictions)} = served_models(log)

gate_reasons(label, predictions, log, pairs, source_matches) ==
  LET items == ToSet(review_dir["review"].items)
      reason(name, holds) == IF holds THEN {name} ELSE {} IN
  UNION {
    reason("insufficient_unique_human_pairs", Cardinality(pairs) < min_pairs),
    reason("incomplete_annotation_or_judge_coverage",
           Cardinality(pairs) # Cardinality(items) \/ Len(predictions) # Cardinality(items)),
    reason("source_answers_are_not_verified_live", ~review_dir["review"].source_is_live),
    reason("judge_is_not_verified_live", pairs = {} \/ \E p \in pairs : ~p.live),
    reason("judge_served_model_identity_unknown_or_mixed", ~judge_identity(predictions, log)),
    reason("kappa_not_established_or_below_threshold", ~agreement_holds(pairs)),
    reason("application_source_changed_since_evaluation", ~source_matches)}

(* label is the annotated sheet; one whose fixed columns or rows are not    *)
(* those of the review is refused, and changes nothing.                     *)
score_review(label, source_matches) ==
  /\ ReviewIntact
  /\ "predictions" \in DOMAIN review_dir => JudgeIntact
  /\ LET judged == "predictions" \in DOMAIN review_dir
         predictions == IF judged THEN review_dir["predictions"] ELSE <<>>
         log == IF judged THEN review_dir["judge_events"] ELSE <<>>
         pairs == {[item |-> p.item, human |-> label[p.item], judge |-> p.label, live |-> p.live] :
                     p \in {q \in ToSet(predictions) : q.valid /\ label[q.item] # Unset}}
         reasons == gate_reasons(label, predictions, log, pairs, source_matches)
     IN  calibration' = [status |-> IF reasons = {} THEN "CALIBRATED" ELSE "NOT_CALIBRATED",
                         pairs |-> Cardinality(pairs)]
  /\ UNCHANGED <<runvars, job, source, judge, review_dir, edits>>

-----------------------------------------------------------------------------
(* A person changes a file while no process is at work: a recorded answer,  *)
(* the run's manifest once a review is bound to it, an item, the rubric, a  *)
(* label of the judge's or its log.                                         *)
MayEdit == job = "none" /\ edits < MaxEdits /\ edits' = edits + 1

EditRun(a) ==
  /\ MayEdit
  /\ stage = "ended" /\ a \in DOMAIN run_dir /\ run_dir[a] # <<>>
  /\ \E answer \in Answers \ {run_dir[a][1].answer} : run_dir' = [run_dir EXCEPT ![a][1].answer = answer]
  /\ UNCHANGED <<stage, client, rows, stop_reason, job, source, judge, review_dir, calibration>>

EditManifest ==
  /\ MayEdit
  /\ "review" \in DOMAIN review_dir
  /\ run_dir' = [run_dir EXCEPT !["manifest"].live = ~@]
  /\ UNCHANGED <<stage, client, rows, stop_reason, job, source, judge, review_dir, calibration>>

EditReview ==
  /\ MayEdit
  /\ \/ /\ "items" \in DOMAIN review_dir
        /\ \E answer \in Answers \ {review_dir["items"][1].answer} :
             review_dir' = [review_dir EXCEPT !["items"][1].answer = answer]
     \/ /\ "rubric" \in DOMAIN review_dir
        /\ review_dir' = [review_dir EXCEPT !["rubric"] = "another"]
     \/ /\ "predictions" \in DOMAIN review_dir /\ review_dir["predictions"] # <<>>
        /\ \E label \in Labels \ {review_dir["predictions"][1].label} :
             review_dir' = [review_dir EXCEPT !["predictions"][1].label = label]
     \/ /\ "judge_events" \in DOMAIN review_dir /\ review_dir["judge_events"] # <<>>
        /\ review_dir' = [review_dir EXCEPT !["judge_events"] = Tail(@)]
  /\ UNCHANGED <<runvars, job, source, judge, calibration>>

-----------------------------------------------------------------------------
Run == RunNext /\ UNCHANGED reviewvars

Next ==
  \/ Run
  \/ \E allow_non_live \in BOOLEAN : prepare_review(allow_non_live)
  \/ BindReview
  \/ BeginJudge \/ JudgeItem \/ WritePredictions \/ WriteJudgeEvents \/ WriteJudgeManifest
  \/ Stop
  \/ /\ ReviewIntact
     /\ \E label \in [ToSet(review_dir["review"].items) -> Labels \cup {Unset}], source_matches \in BOOLEAN :
          score_review(label, source_matches)
  \/ \E a \in Aliases : EditRun(a)
  \/ EditManifest \/ EditReview

Spec == Init /\ [][Next]_vars

-----------------------------------------------------------------------------
(* Properties.                                                              *)

(* A judge is called calibrated only on a live run of which every file is   *)
(* as it was written, for items that are answers of that run, each labelled *)
(* by a person and, under one model that was really asked, by the judge,    *)
(* with the label the judge gave.                                           *)
CalibratedIsEarned ==
  [][calibration' # calibration /\ calibration'.status = "CALIBRATED" =>
       LET items == ToSet(review_dir["items"]) IN
       /\ ~injected /\ \A a \in Aliases : run_dir[a] = rows[a] /\ Len(rows[a]) = Len(Cases)
       /\ \A i \in items : \E a \in Aliases : \E row \in ToSet(rows[a]) :
            i = [case |-> row.case, answer |-> row.answer]
       /\ Cardinality(items) >= min_pairs
       /\ calibration'.pairs = Cardinality(items)
       /\ ~judge.injected
       /\ review_dir["predictions"] = judge.predictions
       /\ {p.item : p \in ToSet(judge.predictions)} = items
       /\ \E m \in Models : \A e \in Received(judge.events) : e.served = m]_calibration

(* LIVE_EVALUATION.md: "Files are never overwritten in a nonempty review    *)
(* directory", and earlier predictions are not: what a process has written  *)
(* only a person changes, a stopped process and its successor included.     *)
EvidenceKept ==
  [][edits' = edits =>
       \A f \in DOMAIN review_dir :
         f \in DOMAIN review_dir' /\ review_dir'[f] = review_dir[f]]_review_dir

(* "The optional local cap bounds wire attempts as well as top-level judge  *)
(* requests", retries included, whatever the client had sent before.        *)
JudgeWithinCap == judge.wire - judge.initial <= judge_max_calls

(* The sample is balanced: a stratum has two answers more than another only *)
(* when the other has none left; no answer is in it twice.                  *)
SelectionBalanced ==
  "review" \in DOMAIN review_dir =>
    LET items == review_dir["review"].items
        manifest == review_dir["review"].manifest
        all == ToSet(RecordedAnswers(manifest))
        of(s, set) == {i \in set : Stratum[i.case] = s}
        chosen == ToSet(items)
    IN  /\ Cardinality(chosen) = Len(items) /\ chosen \subseteq all
        /\ Len(items) = Min({limit, Cardinality(all)})
        /\ \A s, u \in {Stratum[i.case] : i \in all} :
             Cardinality(of(s, chosen)) > Cardinality(of(u, chosen)) + 1 => of(u, all) \subseteq chosen
=============================================================================
