CONSTANTS
  MaxRecords = 6
  BatchMax = 2
  MaxDeaths = 2
  MaxFrames = 2
  Alerts = {0}
  MaxRewinds = 2
SPECIFICATION PipelineSpec
INVARIANTS
  NothingSkipped
  AlertsConserved
PROPERTIES
  ImplementsReader
  EveryAlertResolved
