SPECIFICATION RacesSpec
CHECK_DEADLOCK FALSE
CONSTANTS
  ana = ana
  ben = ben
  eve = eve
  q1 = q1
  q2 = q2
  v1 = v1
  v2 = v2
  NotAMember = NotAMember
  NoOne = NoOne
  NoView = NoView
  Gone = Gone
  Requests = {q1, q2}
  Accounts = {ana, ben}
  Views = {v1}
  MaxRuns = 2
  MaxVersions = 2
SYMMETRY Symmetric
INVARIANTS
  RowIsWhole
  NumbersAreDense
PROPERTIES
  MembersEnterByAddition
