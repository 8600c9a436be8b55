SPECIFICATION Spec
CHECK_DEADLOCK FALSE
CONSTANTS
  ana = ana
  ben = ben
  eve = eve
  i1 = i1
  i2 = i2
  i3 = i3
  v1 = v1
  v2 = v2
  v3 = v3
  NoInv = NoInv
  NoOne = NoOne
  NoView = NoView
  Accounts = {ana}
  Admins = {}
  OfferedRoles <- OwnersOnly
  Invs = {i1}
  Views = {v1, v2, v3}
  Straddling = {v2}
  Unsited = {v3}
  Unbounded = {}
  Circumstances <- EveryAct
  Treatments <- Both
  Bases = {}
  Against <- NoneFollows
  MaxRuns = 2
  MaxVersions = 2
INVARIANTS
  OfferedIsAccepted
  RunReadsItsVersion
PROPERTIES
  PublishedIsARecord
  ActsAreOffered
