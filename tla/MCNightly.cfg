\* After the last night nothing is left to do: the nights are bounded.
CHECK_DEADLOCK FALSE
CONSTANTS
  Nights = 1
  Retries = 1
  Severities <- MCSeverities
  PerClass = 1
  Latencies <- MCLatencies
  Options <- MCOptions
  Versions = {v0, v1}
  Verdicts <- MCVerdicts
  Judgements = {361, 380, 400}
  RunLimit = 2
  ExactDrops <- MCExactDrops
  NaN = NaN
  None = None
  Days = 3
  Rows <- MCRows
  Splits = 3
  EmbargoPercent = 10
SPECIFICATION NightlySpec
SYMMETRY VersionSymmetry
INVARIANTS
  RegistryRowsAreModels
  PurgedFolds
  WholeRunsOnly
  SummaryMatchesCases
  DrilldownShowsSelected
  BannerIsTrue
