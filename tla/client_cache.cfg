SPECIFICATION FairSpec
CONSTANTS
  Views <- MCViews
  MaxVersion = 2
  MaxCalls = 2
INVARIANTS
  TypeOK
  OwnWritesShown
PROPERTIES
  NeverBack
  OwnWritesArrive
CHECK_DEADLOCK FALSE
