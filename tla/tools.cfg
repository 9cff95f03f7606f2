CONSTANTS
  Requests = {e1, e2}
  n = n
  Nested <- MCNested
  CallIds = {c1}
  Asked = {"control", "book", "unbook", "outcome", "follow_up", "workflow"}
  Kinds <- MCKinds
  MaxRaises = 1
SPECIFICATION GatewaySpec
SYMMETRY MCSymmetry
INVARIANT AnswerTellsEffect
INVARIANT DoubleBookingIsExcused
INVARIANT StepRunsOnce
INVARIANT AbandonedFlowIsExcused
CHECK_DEADLOCK FALSE
