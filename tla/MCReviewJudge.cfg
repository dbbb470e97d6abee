SPECIFICATION Spec
CONSTANTS
  m1 = m1
  m2 = m2
  yes = yes
  no = no
  sorry = sorry
  Cases <- OneCase
  Pilot = FALSE
  Answers = {yes, no}
  Refusal = sorry
  Models = {m1, m2}
  Unset = Unset
  Finals <- JustAccepted
  max_calls = 2
  configured = Unset
  Capped = TRUE
  Stratum <- LastApart
  Labels = {"PASS", "FAIL"}
  limit = 2
  min_pairs = 2
  kappa_threshold = 6
  judge_max_calls = 3
  worst = 2
  PriorCalls = {1}
  JudgeFinals <- JudgeOutcomes
  MaxEdits = 1
SYMMETRY Names
INVARIANTS JudgeWithinCap
PROPERTIES CalibratedIsEarned EvidenceKept
CHECK_DEADLOCK FALSE
