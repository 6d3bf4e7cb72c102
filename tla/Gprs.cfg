CONSTANTS
  Callers = {"cmd", "recv"}
  MaxCalls = 4
  Faults = TRUE
SPECIFICATION Spec
INVARIANTS GprsInv SuccessMeansSentAlone ModemNotLeftInText LossLeavesTrace NoMessageTwice
CHECK_DEADLOCK FALSE
