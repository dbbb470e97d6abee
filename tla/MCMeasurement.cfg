SPECIFICATION Spec
CONSTANTS
  Profiles <- MCProfiles
  Unset = Unset
  Unknown = Unknown
  Cases <- MCCases
  MinCases = 7
  MinPerStratum = 1
  max_drop = 2
  Conversations <- MCConversations
  Traffic <- MCTraffic
  Repeats = 2
  Score <- MCScore
  Pairs <- MCPairs
  ScoreTables <- MCScoreTables
  Versions = {"v1", "v2"}
  IdsOf <- MCIdsOf
  Setups = {"now", "before"}
  Manifests <- MCManifests
  Replacements <- MCReplacements
  Fixed = {0, 1, 4}
  Variable = {0, 1, 2}
  SecondsPerMonth = 8
  Utilizations = {50, 100}
  Elapsed = {3}
  Losses = {0, 2}
  MaxMeasurements = 2
  Nothing = Nothing
INVARIANTS CreditIsEarned GateSeesEverySlice ComputedIsMatched ProjectedCostIsComplete BreakEvenIsExact ReadyMeansServed OnlySelectedSecrets
CHECK_DEADLOCK FALSE
