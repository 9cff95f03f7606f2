CONSTANTS
  Requests = {e1, e2}
  n = n
  Nested <- MCNested
  CallIds = {c1}
  Asked = {"book", "query"}
  Kinds <- MCKinds
  MaxRaises = 0
SPECIFICATION GatewaySpec
INVARIANT OwnAnswer
CHECK_DEADLOCK FALSE
