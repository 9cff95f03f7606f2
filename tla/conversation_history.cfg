\* Three utterances, the second of which comes while the pump sends the audio of the reply
\* to the first, and asks for a tool.
CONSTANTS
  Turns <- MCTurns
  QueueSize = 8
  MaxRetries = 0
  MaxFailures = 0
  MaxDeletions = 0
  MaxUtterances = 3
  MaxTools = 1
  MaxReplies = 1
  EventsSize = 3
  CallId <- RestartedIds
SPECIFICATION PromptSpec
INVARIANT RequestsAreAnswered
CHECK_DEADLOCK FALSE
