CONSTANTS
  o1 = o1  o2 = o2  Nobody = Nobody
  Operators = {o1}
  MaxCrashes = 2
SPECIFICATION Spec
CHECK_DEADLOCK FALSE
INVARIANT CreatedRoleIsGuarded
