CONSTANTS
  Capacity = 4
  Values = {v1, v2}
  Torn = Torn
  MaxPushes = 7
SPECIFICATION FairSpec
INVARIANTS
  HappensBefore
  JustifiedRefusal
PROPERTIES
  ImplementsQueue
  EveryPushIsPopped
