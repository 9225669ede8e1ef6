CONSTANTS
  Interval = 2
  RingBound = 1
  KafkaBound = 1
  MaxTicks = 2
SPECIFICATION FairSpec
PROPERTY SignalStops
