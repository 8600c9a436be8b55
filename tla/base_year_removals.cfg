SPECIFICATION Spec
CHECK_DEADLOCK FALSE
CONSTANTS
  port = port
  depot = depot
  barn = barn
  whole = whole
  part = part
  r1 = r1
  y1 = y1
  y2 = y2
  Out = Out
  NoRun = NoRun
  Facilities = {port, depot, barn}
  Emitting = {port, depot}
  Windows = {whole, part}
  BaseBoundary <- Start
  Suffix = {}
  Years = {y1, y2}
  Later = {y1}
  Drafts <- YearDrafts
  BaseApproach = "CONTROL"
  BaseRuns = {r1}
  MaxVersions <- Versions
INVARIANTS
  RemovalsKeepACandidate
