SPECIFICATION Spec
CHECK_DEADLOCK FALSE
CONSTANTS
  ana = ana
  ben = ben
  q1 = q1
  q2 = q2
  v1 = v1
  v2 = v2
  NoOne = NoOne
  NoView = NoView
  Gone = Gone
  Requests = {q1, q2}
  Accounts = {ana, ben}
  Views = {v1}
  MaxRuns = 1
  MaxVersions = 1
SYMMETRY Symmetric
INVARIANTS
  VoidedRunIsNeverFinal
