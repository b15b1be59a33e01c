CONSTANTS
  db = db  tab = tab  idx = idx  qry = qry  nested = nested
  a1 = a1  a2 = a2  Nobody = Nobody  NoRow = NoRow  Unknown = Unknown
  Objects = {db}
  Kind <- MCKind
  KeyOf <- DistinctKeys
  Agents = {a1, a2}
  Mode = "none"
  Cooldown = 2
  MinHistory = 1
  Large = 1
  AlertTypes = {"deadlock"}
  Requests <- FastCycles
  MaxClock = 3
  MaxActivity = 2
  MaxResets = 1
  MaxAttr = 0
  MayOverrun = FALSE
SPECIFICATION FairSpec
CHECK_DEADLOCK FALSE
INVARIANT InOrderDeltaIsHonest
PROPERTIES PublishesWholeCycles CycleEnds
