SPECIFICATION Spec
CONSTANTS
  Last = 2
  Scripts <- MCScripts
  MaxRuns = 2
INVARIANTS
  TypeOK
  PassesSayWhatHappened
  RecordsAreOfWholeRuns
  CleanPairsAgree
PROPERTIES
  RunsClose
