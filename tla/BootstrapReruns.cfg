CONSTANTS
  o1 = o1  o2 = o2  Nobody = Nobody
  Operators = {o1, o2}
  MaxCrashes = 1
SPECIFICATION FairSpec
CHECK_DEADLOCK FALSE
INVARIANTS TypeOK ProgressInv SuccessIsComplete GuardedUnlessInterrupted
PROPERTIES ForeignIsKept Converges
