\* A call task under every fault: denials, failing database calls, media and engine
\* failures, a hangup at any time, late writes of other processes, and a shutdown that
\* closes the database and exits the process around it.  A conversation of two
\* utterances, one tool request and a reply over a queue of three events, whose log
\* stores without failing; two responses of a model with two calls of three fragments
\* each, one line of which gets lost; and a worker with two tenants, one of which always
\* has something due and fills every tick.  Tasks and processes end.
SPECIFICATION ProcessesSpec
CHECK_DEADLOCK FALSE
CONSTANTS
  Runtimes = {self}
  NoOwner = NoOwner
  Self = self
  Faults = {"deny", "error", "media", "engine", "shutdown", "outsider"}
  Turns <- MCTurns
  QueueSize = 1
  MaxRetries = 0
  MaxFailures = 0
  MaxDeletions = 0
  MaxUtterances = 2
  MaxTools = 1
  CallId <- RestartedIds
  MaxReplies = 1
  EventsSize = 3
  MaxResponses = 2
  MaxCalls = 2
  Fragments = 3
  MaxLosses = 1
  IdleLimit = 1
  TenantIds = {w1, w2}
  Busy = {w1}
  MaxConcurrent = 1
  MaxClaims = 2
  Threads = 1
  MaxDue = 1
  MaxErrors = 1
INVARIANT ProcessesTypeOK
INVARIANT FinalizedUnlessCutShort
INVARIANT Released
INVARIANT OutcomeMatchesCause
PROPERTY ImplementsHostedCall
INVARIANT CallIsAsAsked
INVARIANT AskedCallIsMade
INVARIANT UnansweredCallIsExcused
PROPERTY StopsWhenTold
PROPERTY TurnIsFinished
PROPERTY TeardownCompletes
PROPERTY EveryTenantIsServed
PROPERTY StopCompletes
