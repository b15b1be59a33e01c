CONSTANTS
  db = db  tab = tab  idx = idx  qry = qry  nested = nested
  a1 = a1  a2 = a2  Nobody = Nobody  NoRow = NoRow  Unknown = Unknown
  Objects = {db}
  Kind <- MCKind
  KeyOf <- DistinctKeys
  Agents = {a1, a2}
  Mode = "none"
  Cooldown = 0
  MinHistory = 1
  Large = 1
  AlertTypes = {}
  Requests <- FastCycles
  MaxClock = 5
  MaxActivity = 3
  MaxResets = 0
  MaxAttr = 0
  MayOverrun = FALSE
SPECIFICATION Spec
CHECK_DEADLOCK FALSE
INVARIANT NoPhantomReset
