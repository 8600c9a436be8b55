SPECIFICATION Spec
CHECK_DEADLOCK FALSE
CONSTANTS
  ana = ana
  ben = ben
  eve = eve
  q1 = q1
  q2 = q2
  NotAMember = NotAMember
  Requests = {q1, q2}
  Accounts = {ana, ben, eve}
  Roles <- OwnerOrPreparer
SYMMETRY Symmetric
INVARIANTS
  OwnerRemains
