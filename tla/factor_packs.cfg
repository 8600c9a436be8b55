SPECIFICATION Spec
CHECK_DEADLOCK FALSE
CONSTANTS
  seed = seed
  e1 = e1
  e2 = e2
  low = low
  high = high
  ada = ada
  bo = bo
  year = year
  NoRow = NoRow
  NoOne = NoOne
  LastDay = 3
  Values = {low, high}
  Editions = {seed, e1, e2}
  Seeded = seed
  Admins = {ada, bo}
  Inventories = {year}
  PeriodStart <- FirstDay
  PeriodEnd <- SecondDay
  FollowDay <- SecondDay
  Curators = {ada}
  MaxDrafts = 1
  MaxVersions = 3
  Handled = {}
CONSTRAINT Bounded
SYMMETRY Symmetric
INVARIANTS
  TypeOK
  LineageIsOneChain
  OneEditionPerVintage
PROPERTIES
  ImportsReachOnlyTheirVintage
  PeriodsKeepTheirFactors
