CONSTANTS
  Agents = {a1, a2}
  Window = 1
  ListLimit = 2
  Alerts <- MCAlerts
  Outcomes <- MCOutcomes
  MaxSkew = 2
  MaxClock = 3
SPECIFICATION Spec
CHECK_DEADLOCK FALSE
SYMMETRY AgentSymmetry
INVARIANTS DeadlocksAreListed HealthAddsUp
