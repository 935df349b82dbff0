SPECIFICATION Spec
CONSTANTS
  Remote = Remote
  None = None
  RetryCount = 2
  MaxCalls = 3
INVARIANTS DecisionFollowsResult SuccessIsAcknowledged NoForgottenTransaction SuspendedStaysOut UnboundAfterDecision
PROPERTIES OnlyLauncherDecides
CHECK_DEADLOCK FALSE
