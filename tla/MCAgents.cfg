CONSTANTS
  MaxRecords = 3
  BatchMax = 2
  MaxDeaths = 1
  One = 1000
  Threshold = 850
  Gate = 950
  Score <- MCScore
  OfiShare <- MCOfiShare
  VolShare <- MCVolShare
  Environments <- MCEnvironments
  Matches <- MCMatches
  Answers <- MCAnswers
  None = None
  Corpus = {1, 2}
  Seeders = {s1, s2}
  Validators = {v1}
  Attacks = Attacks
  MaxRestarts = 1
SPECIFICATION MCSpec
INVARIANTS
  ReportsConsistent
  NoCaseForgotten
  SuccessesHold
PROPERTIES
  VerdictsAreFinal
  EveryCaseHandled
