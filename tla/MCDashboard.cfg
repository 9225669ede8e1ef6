\* Four reports, two places in the list.
CONSTANTS
  MaxReports = 4
  Capacity = 2
  Ts <- MCTs
  Wire <- MCWire
  IdText <- MCIdText
  Enforced <- MCEnforced
  Replayable <- MCRows
  Null = Null

SPECIFICATION MCSpec

INVARIANTS
  InspectorShowsNewest
  ReplayMatchesReceipt

PROPERTIES
  ReceiptNeverGoesBack
  NewReportAppears
