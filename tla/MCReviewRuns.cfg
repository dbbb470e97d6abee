SPECIFICATION Spec
CONSTANTS
  m1 = m1
  m2 = m2
  yes = yes
  no = no
  sorry = sorry
  Cases <- ThreeCases
  Pilot = FALSE
  Answers = {yes}
  Refusal = sorry
  Models = {m1, m2}
  Unset = Unset
  Finals <- Outcomes
  max_calls = 4
  configured = 5
  Capped = FALSE
  Stratum <- LastApart
  Labels = {}
  limit = 2
  min_pairs = 1
  kappa_threshold = 6
  judge_max_calls = 1
  worst = 2
  PriorCalls = {}
  JudgeFinals = {}
  MaxEdits = 0
SYMMETRY Names
INVARIANTS CompleteMeansEverything SelectionBalanced
CHECK_DEADLOCK FALSE
