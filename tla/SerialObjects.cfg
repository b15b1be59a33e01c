CONSTANTS
  db = db  tab = tab  idx = idx  qry = qry  nested = nested
  a1 = a1  a2 = a2  Nobody = Nobody  NoRow = NoRow  Unknown = Unknown
  Objects = {idx}
  Kind <- MCKind
  KeyOf <- DistinctKeys
  Agents = {a1, a2}
  Mode = "none"
  Cooldown = 0
  MinHistory = 1
  Large = 1
  AlertTypes = {"large_never_scanned_index"}
  Requests <- SlowCycles
  MaxClock = 5
  MaxActivity = 1
  MaxResets = 1
  MaxAttr = 1
  MayOverrun = TRUE
SPECIFICATION Spec
CONSTRAINT CyclesDoNotOverlap
CHECK_DEADLOCK FALSE
INVARIANTS AttrIsNeverForgotten ElisionIsLossless SlowPassIsComplete SizesAreMeasured
SYMMETRY AgentSymmetry
PROPERTIES CollectsOnce CommitsAsReported
