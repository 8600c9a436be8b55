SPECIFICATION Spec
CHECK_DEADLOCK FALSE
CONSTANTS
  ana = ana
  ben = ben
  eve = eve
  i1 = i1
  i2 = i2
  i3 = i3
  v1 = v1
  v2 = v2
  v3 = v3
  NoInv = NoInv
  NoOne = NoOne
  NoView = NoView
  Accounts = {ana, ben, eve}
  Admins = {eve}
  OfferedRoles <- WriteRoles
  Invs = {i1}
  Views = {v1, v2}
  Straddling = {}
  Unsited = {v2}
  Unbounded = {v2}
  Circumstances <- NothingHeld
  Treatments <- ProRateOnly
  Bases = {}
  Against <- NoneFollows
  MaxRuns = 2
  MaxVersions = 1
SYMMETRY Symmetric
INVARIANTS
  OfferedIsAccepted
  TypeOK
  SubmissionStands
  FinalRunIsTheSubmittedRun
  SelfApprovalIsDisclosed
PROPERTIES
  ImplementsSignOff
  SignedByAnother
  RunsAreARecord
  ActsOnPeopleAreOffered
