SPECIFICATION BackOfficeSpec
\* Editors, requests and calls may all have come to an end.
CHECK_DEADLOCK FALSE
CONSTANTS
  Analysts = {a1, a2}
  Requesters = {q1, q2}
  MaxVersion = 2
  AttemptLimit = 2
  MaxMishaps = 1
  Turns = {t1, t2}
  MaxTurns = 3
  QueueSize = 2
  MaxRetries = 1
  MaxFailures = 2
  MaxDeletions = 1
  Commands = {c1, c2}
  MaxLinks = 2
  MaxRefusals = 1
  MaxEvents = 2
  EventRoom = 1
  Sockets = {k1, k2}
  MaxFrames = 5
  ChunkSize = 2
  Editors = {e1, e2}
  MaxDrafts = 2
  Contents = {x, y}
  Processes = {p1, p2}
  MaxDumps = 2
  Users = {u1, u2}
  Tenants = {"n1", "n2"}
  Records <- ClientRecords
  NoUser = NoUser
  NoTenant = NoTenant
  NoRecord = NoRecord
INVARIANT BackOfficeTypeOK
INVARIANT ConcurrentAnalysesAreExcused
INVARIANT LogKeepsOrder
INVARIANT EveryTurnIsAccountedFor
INVARIANT ReplyIsItsOwn
INVARIANT EventsKeepOrder
INVARIANT MediaIsSettled
INVARIANT BackupsAreRecoverable
INVARIANT ClientShowsItsContext
PROPERTY JobIsSettled
PROPERTY CallRunsFrozenContent
