\* One follow-up, three workers whose executions may outlive their leases, one that dies,
\* and up to two API requests at a time.  The system comes to rest.
CONSTANTS
  Rows = {f1}
  Workers = {w1, w2, w3}
  NoRow = NoRow
  MaxAttempts = 2
  MaxRequests = 2
  MaxAbandons = 1
SPECIFICATION FairSpec
INVARIANT TypeOK
INVARIANT AttemptsAreUnique
INVARIANT OverlapIsExcused
INVARIANT CeilingIsExcused
INVARIANT NoRowIsStranded
PROPERTY IsSettled
CHECK_DEADLOCK FALSE
