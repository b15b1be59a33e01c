CONSTANTS
  db = db  tab = tab  idx = idx  qry = qry  nested = nested
  a1 = a1  a2 = a2  Nobody = Nobody  NoRow = NoRow  Unknown = Unknown
  Objects = {qry, nested}
  Kind <- MCKind
  KeyOf <- SharedKeys
  Agents = {a1}
  Mode = "none"
  Cooldown = 0
  MinHistory = 1
  Large = 1
  AlertTypes = {}
  Requests <- FastCycles
  MaxClock = 7
  MaxActivity = 4
  MaxResets = 0
  MaxAttr = 0
  MayOverrun = FALSE
SPECIFICATION Spec
CHECK_DEADLOCK FALSE
INVARIANT NoRedundantRows
