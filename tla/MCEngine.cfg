CONSTANTS
  Interval = 2
  RingBound = 2
  KafkaBound = 1
  MaxTicks = 5
SPECIFICATION FairSpec
INVARIANTS
  TickAccounting
  FrameAccounting
PROPERTIES
  FlushIsFinal
  EngineStops
