CONSTANTS
  db = db  tab = tab  idx = idx  qry = qry  nested = nested
  a1 = a1  a2 = a2  Nobody = Nobody  NoRow = NoRow  Unknown = Unknown
  Objects = {db, qry}
  Kind <- MCKind
  KeyOf <- DistinctKeys
  Agents = {a1, a2}
  Mode = "all"
  Cooldown = 0
  MinHistory = 1
  Large = 1
  AlertTypes = {}
  Requests <- FastCycles
  MaxClock = 4
  MaxActivity = 3
  MaxResets = 1
  MaxAttr = 0
  MayOverrun = FALSE
SPECIFICATION TotalsSpec
CONSTRAINT CyclesDoNotOverlap
CHECK_DEADLOCK FALSE
INVARIANTS TypeOK WindowsAddUp DeltasAddUp ElisionIsLossless NoRedundantRows
SYMMETRY AgentSymmetry
