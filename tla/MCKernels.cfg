CONSTANTS
  BucketCount = 3
  Width = 2
  Times <- MCTimes
  Sizes = {0, 1}
  MaxLateness = 2
  MaxVolume = 2
  Samples = 3
  MaxSamples = 4
  LogPrices <- MCLogPrices
  NoPrice = NoPrice
  MaxReturns = 6
  Engines = {e1, e2, e3}
  Span = 3
  WordSize = 16
  MaxTime = 8
  MaxFrames = 3
  Symbols <- MCSymbols
  SymbolMax = 8
  Amounts <- MCAmounts
  SizeRange = 8
  Nul = Nul
  Nothing = Nothing
  Malformed = Malformed
  Truncated = Truncated
  WrongType = WrongType
  Rejected = Rejected
SPECIFICATION KernelsSpec
SYMMETRY EngineSymmetry
INVARIANTS
  WindowExact
  ValuesMatchWindows
  DistinctAcrossWindows
  TradeArrives
  FrameIsUnderstood
