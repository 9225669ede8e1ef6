CONSTANTS
  Interval = 2
  RingBound = 2
  KafkaBound = 1
  MaxTicks = 3
SPECIFICATION Spec
INVARIANT FatalErrorFails
