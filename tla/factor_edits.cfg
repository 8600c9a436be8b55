SPECIFICATION Spec
CHECK_DEADLOCK FALSE
CONSTANTS
  seed = seed
  e1 = e1
  e2 = e2
  low = low
  high = high
  ada = ada
  bo = bo
  year = year
  NoRow = NoRow
  NoOne = NoOne
  LastDay = 2
  Values = {low, high}
  Editions = {seed, e1}
  Seeded = seed
  Admins = {ada, bo}
  Inventories = {}
  PeriodStart <- NoPeriod
  PeriodEnd <- NoPeriod
  FollowDay <- NoPeriod
  Curators = {ada}
  MaxDrafts = 1
  MaxVersions = 3
  Handled = {1, 2}
CONSTRAINT Bounded
SYMMETRY ValuesAlike
INVARIANTS
  LineageIsOneChain
