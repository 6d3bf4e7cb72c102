CONSTANTS
  Callers = {"cmd", "recv"}
  MaxCalls = 2
  Faults = FALSE
SPECIFICATION Spec
INVARIANT SuccessMeansSent
CHECK_DEADLOCK FALSE
