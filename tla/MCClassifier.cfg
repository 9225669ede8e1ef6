CONSTANTS
  MaxRecords = 3
  BatchMax = 2
  MaxDeaths = 2
  Malformed <- MCMalformed
  BufferMax = 1
SPECIFICATION FairSpec
INVARIANTS
  NoFrameForgotten
  MirrorPaired
PROPERTIES
  NoLossByClosing
  EveryFrameHandled
