SPECIFICATION Spec
CHECK_DEADLOCK FALSE
CONSTANTS
  ana = ana
  ben = ben
  eve = eve
  i1 = i1
  i2 = i2
  i3 = i3
  v1 = v1
  v2 = v2
  v3 = v3
  NoInv = NoInv
  NoOne = NoOne
  NoView = NoView
  Accounts = {ana}
  Admins = {}
  OfferedRoles <- OwnersOnly
  Invs = {i1, i2, i3}
  Views = {v1}
  Straddling = {}
  Unsited = {}
  Unbounded = {}
  Circumstances <- NothingHeld
  Treatments <- ProRateOnly
  Bases = {i1}
  Against <- BothFollowFirst
  MaxRuns = 1
  MaxVersions = 1
SYMMETRY LaterYears
INVARIANTS
  OfferedIsAccepted
  CorrectionsChain
  RecordsOutliveTheOrganization
PROPERTIES
  HeldFiguresStay
  ActsAreOffered
