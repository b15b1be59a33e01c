CONSTANTS
  db = db  tab = tab  idx = idx  qry = qry  nested = nested
  a1 = a1  a2 = a2  Nobody = Nobody  NoRow = NoRow  Unknown = Unknown
  Objects = {qry}
  Kind <- MCKind
  KeyOf <- DistinctKeys
  Agents = {a1, a2}
  Mode = "events"
  Cooldown = 1
  MinHistory = 1
  Large = 1
  AlertTypes = {"query_regression"}
  Requests <- FastCycles
  MaxClock = 6
  MaxActivity = 3
  MaxResets = 0
  MaxAttr = 0
  MayOverrun = FALSE
SPECIFICATION Spec
SYMMETRY AgentSymmetry
CHECK_DEADLOCK FALSE
INVARIANTS SpacingInv CooldownSpacing AlertsAreAnswered TextsAreExplained
PROPERTY CollectsOnce
