SPECIFICATION Spec
CONSTANTS
  primary = primary
  secondary = secondary
  long = long
  brief = brief
  hours = hours
  status = status
  talk = talk
  MODELS = {primary, secondary}
  Prompts = {long, brief}
  PrefixTokens <- MCTokens
  Texts = {hours, status, talk}
  Has <- MCHas
  Payloads <- MCPayloads
  Injections <- MCInjections
  MIN_CACHEABLE_TOKENS = 2
  CACHE_TTL_S = 1
  None = None
  MaxTime = 1
  MaxArrivals = 1
  MaxAdmin = 1
  Chain <- MCChain
  max_attempts = 2
  DrillPrefix = long
  Hours = hours
  Status = status
  Seconds = 1
INVARIANTS StatsReconcile AnswersAreGrounded DrillsPass
PROPERTIES HitsAreWarm
CHECK_DEADLOCK FALSE
