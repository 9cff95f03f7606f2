# Verification of voiceagent

TLA+ models of the parts of this repository in which several processes, tasks,
threads, transactions or messages act on the same state, TLC configurations
that check them, and TLAPS proofs of what matters most. Paths below are relative
to `src/voiceagent/` unless they start with `src/`.

```
tlc -workers 4 -config back_office.cfg BackOffice     # the module of each run is in PROJECT.json
tlapm CallFleetProofs.tla                             # and the other *Proofs modules
```

## 1. The system

A voice agent platform. FreeSWITCH broadcasts call events to a fleet of
*call-runtime* processes. Each of them is one asyncio event loop with a bounded
pool of database threads; the processes share PostgreSQL (the rows), Redis
(heartbeats) and nothing else. Separate worker processes poll the database for
follow-ups and for analysis jobs, a control API writes the same rows, a browser
frontend talks to that API, and scripts back the database up and drill its
recovery.

| Component | State | Operations | What is hard about it |
|---|---|---|---|
| Call sessions `calls/` | a `call_sessions` row: status, owner, end reason | create (idempotent by channel), claim ownership, claim activation, transition | claims lock the row, transitions do not: a transition decides on a row it read earlier |
| Orchestrator `runtime/orchestrator.py`, `assignment.py` | one background task per offer | route, create, authorize, select a runtime, claim, answer, start | every process handles every offer; they agree only through the row |
| Runtime `runtime/supervisor.py`, `heartbeat.py` | tasks of the calls it hosts; its heartbeat in Redis | start, cancel, heartbeat, shutdown | heartbeats lapse while the process lives; shutdown races starting calls |
| Call task `runtime/call_task.py`, `db.py` | engine session, media stream, conversation worker, reason | load, authorize, attach, start, pump, tear down, finalize | cancellation at every await; threads that outlive their awaiter |
| Event router `runtime/telephony_events.py` | subscriptions by call | subscribe, unsubscribe, dispatch | events without a subscriber, and beyond a queue of 32, are dropped |
| Reconciliation `runtime/reconciliation.py` | none | mark calls of runtimes without heartbeat interrupted | races the runtime, which may live |
| Follow-ups `followups/` | a `follow_up_actions` row: status, attempts, next attempt | create, claim, complete, fail, cancel, reprocess | leases, unlocked transitions, crashes |
| Pipelined engine `providers/engines/pipelined.py` | history, event queue, pending tool results | consume speech, turn, interrupt, submit tool result, close | two tasks and a pump over one bounded queue; cancellation inside a turn |
| Model stream `providers/llm/*` | the pieces of the tool calls of one response | request, assemble lines, time out, hand a call over | calls that arrive interleaved, garbled or cut off |
| Conversation persistence `runtime/conversation_persistence.py` | a bounded queue and a worker per call; `conversation_turns` | submit, persist, retry, drain, delete | drops, order under retry, answers lost after the commit, turns that repeat an (event_id, role), drain timeout |
| Tool gateway `tools/` | results by call and call_id | execute, remember, forget; the handlers' writes | timeouts, threads that run on, repeated call_ids |
| Workflows `workflows/` | an execution row | begin, advance, complete, fail, cancel | unlocked reads, no recovery |
| Calendars `calendars/` | events of a calendar | create, cancel | the conflict check takes no lock |
| Analysis jobs `call_intelligence/` | versioned job rows | request, claim, run, complete, fail | as follow-ups, and concurrent versions |
| ESL link `telephony/freeswitch/esl_transport.py` | connections, send lock, reply queue, event queues | send, read loop, reconnect, close | replies are matched by order only |
| Media `telephony/freeswitch/media*.py` | sockets by call, streams, a send buffer | register, attach, send, flush, detach | sockets arrive when they like; closes are bounded and cancelled |
| Agents, knowledge, numbers `agents/`, `knowledge/`, `phone_numbers/`, `calls/routing.py` | versions and their pointers, items, routes | draft, publish, archive, review, route | unlocked edits, partly caught by triggers, under a call that starts |
| Backups `src/scripts/offhost_backup.py`, `db_recovery_drill.py` | a lock file, a ledger, remote dumps, a drill database | back up, verify, retain, fetch, restore | a lock taken over as stale; death between any two steps |
| Worker processes `src/scripts/run_*_worker.py`, `*/worker.py`, `runtime/db.py`, `health.py` | the polling loop and its tick, the threads, readiness | start, poll, drain a tenant, signal, shut down, probe | a busy tenant beside the others; a stop that meets a tick, a thread and a probe |
| Frontend `src/frontend/src` | session, active tenant, query cache | sign in and out, switch tenant, query, mutate | answers and saves that outlive the context they were made in |
| Stuck calls, call analysis, contacts, API, tenancy, configuration, staging scripts | single rows, or none | reports, CRUD, validation | no interaction |

Correctness, component by component:

* *fleet*: a call has one owner for good, one handler activates it, one process
  hosts it; a call is not left open by a process that lives;
* *call task*: it stops when told, finalizes its row, releases what it opened,
  and records the cause;
* *follow-ups*: an execution is known by its attempt number, executions overlap
  or exceed the ceiling only when a lease ran out or a reprocess came late, no
  row is stranded, every scheduled follow-up is settled;
* *engine*: the history pairs tool requests with results, no reader waits for an
  event that cannot come, turns finish, the teardown completes;
* *model stream*: a tool is called as the model asked for it, and a request for one
  is not taken for an answer;
* *log*: turns are stored once, in the order they were accepted, none is lost
  unnoticed but one that has the (event_id, role) of a stored one, and what was
  said never has;
* *tools, workflows, bookings*: what the model is told of an effect is so unless it
  is told of a timeout or an internal error, a step runs once, appointments overlap
  and executions are abandoned only in the ways the code cannot prevent;
* *analysis*: jobs are settled, and older versions are not revived beside newer
  ones without the one reason for it;
* *link*: a reply is the command's own, events keep their order, a torn
  connection is replaced;
* *media*: sockets are released and audio is kept;
* *catalogue*: what a call runs was published and reviewed, and does not change
  under it;
* *backups*: the newest entry of the ledger can be fetched; a drill checks the
  dump it restored;
* *worker processes*: every tenant is served, and a process told to stop exits;
* *frontend*: the tab shows nothing of another user, tenant or older state.

## 2. Modules

| Module | Models | EXTENDS / INSTANCE |
|---|---|---|
| `CallSessions` | one `call_sessions` row and each function that writes it, as operators | |
| `CallOwnership` | abstract: a call gets one holder, which activates it once | |
| `HostedCall` | abstract: a started call between its task and the rest of the fleet | extends `CallSessions` |
| `CallFleet` | the fleet: orchestrators, heartbeats, runtimes, reconciler | extends `CallSessions`, instantiates `CallOwnership`, and `HostedCall` for each process and call |
| `CallFleetMC` | symmetry for TLC | extends `CallFleet` |
| `CallTask` | one call task and everything that interrupts it | extends `CallSessions`, instantiates `HostedCall` |
| `FollowUps` | follow-up rows, workers, API requests | |
| `TurnLog` | the durable log of a conversation: queue, worker, thread, rows | |
| `Conversation` | the pipelined engine, its pump and tool tasks, composed with the log | extends `TurnLog` |
| `ModelStream` | a model's streamed responses: the adapters, the idle timeout, what a turn makes of them | |
| `WorkerProcess` | a background worker from start to exit: loop, tick, threads, health listener | |
| `Processes` | the call task, the conversation, the model stream and the worker, each on its own | extends `CallTask`, `ConversationMC`, `ModelStream`, `WorkerProcess` |
| `ToolGateway` | tool executions of a call, their database calls, the workflow behind them | |
| `ConversationMC`, `ToolGatewayMC` | the turns, the workflow and the symmetry of the runs | |
| `AnalysisJobs` | versions of an analysis, requesters, workers | |
| `ControlLink` | the ESL connections of a process, its commands and events | |
| `MediaStream` | the media sockets and the outgoing audio of a call | |
| `Catalogue` | agent versions, a knowledge item, a route, editors, an inbound call | |
| `OffhostBackups` | the backup and drill scripts | |
| `WebClient` | one browser tab | |
| `BackOffice` | the seven components beside the calls, each on its own | extends `AnalysisJobs`, `TurnLog`, `ControlLink`, `MediaStream`, `Catalogue`, `OffhostBackups`, `WebClient` |
| `CallFleetProofs`, `FollowUpsProofs`, `CallTaskProofs`, `ToolGatewayProofs`, `WebClientProofs` | theorems | extend their component |
| `ConversationProofs` | theorems | extends `Conversation` (and with it `TurnLog`), `ModelStream` |
| `FreeSwitchProofs` | theorems | extends `ControlLink`, `MediaStream` |
| `BackOfficeProofs` | theorems | extends `AnalysisJobs`, `Catalogue`, `OffhostBackups` |

### How the models stand for the code

*Transactions.* The database runs at READ COMMITTED and no row has a version
column. `claim_runtime_ownership`, `claim_call_for_activation`,
`claim_due_follow_up` and `claim_pending_analysis` use `SELECT ... FOR UPDATE`:
one step. Every other transition reads the row, decides, and at commit writes
the columns it changed: two steps, with the decision made on the row that was
read and the write applied to the row as it is by then. SQLAlchemy leaves a
column out of the UPDATE when the new value equals the one it read; `"keep"` is
that. Triggers and constraints of the schema act at the commit.

*Tasks.* A coroutine runs undisturbed from one await to the next, so a program
counter names awaits and an action is what lies between two of them. A
cancellation lands at an await. `DatabaseBoundary.run` hands the call to a
thread: cancelling the awaiter drops a call that is still queued and leaves a
started one running, whose write lands later (`cancelled` and `late` in
`CallFleet`, `orphans` in `CallTask`, `late` in `ToolGateway`, `thread` in
`TurnLog`).

*History variables* record what only a property needs: who won an activation, an
excuse, the order in which turns were accepted. No guard reads them; `accepted` is
also where `TurnLog` looks up the (event_id, role) of a turn, which it otherwise
knows by its place.

*`CallFleet`.* A handler `<<r, c, n>>` is `_handle_offer` in process `r` for the
`n`-th delivery of the offer of call `c`; `pc` is where it stands, `choice` the
runtime it selected, `why` the end reason it is about to write. `beat[r]` is the
Redis key. Reading all heartbeats is one step, although the code scans and then
gets key by key; each process reads at its own time, which is where the
disagreements come from. A started call is seen only through the writes its task
decides on and commits (`TaskDecides`, `TaskCommits`) and through what is left of
them when it is cancelled (`late`). A process that exits or dies loses its
handlers, tasks and pending writes. Faults
are switched on by the constant `Faults`, so that a configuration can ask for
one kind of trouble at a time.

*`HostedCall`.* `task` is the phase a started call is in, or the one write its task
has decided on; `Open` says which writes a phase has. `late` is what threads still
write for a task that was cancelled. The rest of the fleet may write refusals and
repairs over the row (`OutsiderCommits`), tell the process to stop, or end it. The
two detailed modules share nothing but this: `CallTask` has everything inside the
task and takes the fleet for `OutsiderCommits`, `CallFleet` has the other processes
and takes the task for its writes. That each is right about the other is checked and
proved: `CallTask` implements `HostedCall`, from whatever row a handler may hand over
(`HandedOver`), and every process of `CallFleet` treats every call as it says.

*`CallTask`.* `pc` runs over the awaits of `run_call_task` and of its finally
block; `stage` says whether the awaited database call is queued, running or has
read the row. `attach` does not suspend, so it has no program counter of its
own. `_run_pumps` is one activity, `"talking"`, that ends, raises, or is
stopped by the hangup watcher or a cancellation, and takes another step
(`"unwinding"`) to wind down, in which the other two may still arrive.

*`FollowUps`.* A row is its status, `attempt_count` and what `next_attempt_at`
says: never, later or now. Time passes by `Elapse`, at any moment, so a lease
may run out under any execution, as it does when the event loop or the database
is slow. A follow-up of another type than appointment, or without `due_at`, is a
row created with `never`. `execution_id` is left out: it is generated at the
first claim and never changed, so comparing it (`service.py:562`, `607`) never
tells two executions of a row apart, although the comment at `service.py:553`
relies on it. The history variable `excused` counts leases that ran out
and reprocess requests that landed on anything but a row waiting to be retried.

*`AnalysisJobs`.* The same treatment of time and of writes. `asking[q]` is the
version `request_analysis` has computed and not inserted; the unique constraint
on the version makes the second of two equal inserts fail. `AnalysisConflict` is
a worker that finds its row out of processing; `Allowed` is what the table itself
says of a write that was decided before: a completed row is immutable, and a
failure reason belongs to failed rows only. `execution_id` is left out here too:
a claim keeps the one a row has (`call_intelligence/service.py:205`).

*`TurnLog`.* `queue` is the asyncio queue, `worker` the coroutine, `thread` the
call of `persist_conversation_turn` with the sequence number it has chosen. A turn
is its place in `accepted`, and what it is stored under, its (event_id, role), is
what stands there: nothing keeps two turns from having the same, and
`persist_conversation_turn` returns the row of the first for the second
(`IsStored`). A call that raises may have committed: `PersistRaises` has both
outcomes.
Deletion takes no lock and may fall between two calls, not inside one that holds
the row's lock and has not committed.

*`Conversation`.* The state of `PipelinedEngineSession` under the names of its
fields. `_consume_stt` awaits the turn it starts, so there is one turn at a time
and no speech is heard during it; `CutIsStale` says what this leaves of barge-in.
Speech starts only once the pumps run, which bring the caller's audio. `CallId` gives
each tool request the call_id of its adapter; the turns of the request go to the log
under it (`EventId`), and a result resolves the future that waits under its call_id,
be it that of a later request (`SubmitToolResult`). What was said has an event_id of
its own.
Putting an event is enabled only while the queue has room; the closing `None`
evicts an element instead, as `_force_put_nowait` does.

*`ModelStream`.* A call is the set of its pieces: its name and the fragments of
its arguments, of which only the whole, none, or a middle part missing can be
told apart by `json.loads`. The two adapters differ in what a line brings: one
piece, or a call at once. A garbled line is dropped as the adapters drop it
(`lossy`); a response may end anywhere (`clipped`), since nobody looks at the
reason it ended for. `Conversation` has all this as one step.

*`WorkerProcess`.* Both scripts, which differ in who executes: a thread or a
coroutine (`script`). `drain[t]` is `_bounded` of the tick, `run[t]` the
execution it awaits, which outlives a cancellation as far as it is a thread.
`Busy` tenants always have something due. What an execution does to its row is
in `FollowUps` and `AnalysisJobs`.

*`ToolGateway`.* An execution is where `execute()` is, `db[e]` the call its
handler awaits; the handlers differ in the sequence of their database calls and
in what each decides. The executor of a workflow walks its steps within one
execution; each step that is a tool asks the gateway for an execution of its own,
under a call_id of its own (`Nested`). `create_follow_up` is one call of the thread
with two commits: it books, and goes on to its row. A call that raises may have
committed (`CallRaises`). The exception of a handler is answered `internal`; that of
`execute()` itself, from a look-up or an audit (`"raised"`), the engine is told as
internal_error too, while an executor that awaits a nested `execute()` is left by it
(`FlowRaises`).
Commits are steps of their own because a check and its insert are not atomic:
that is where double bookings come from.

*`ControlLink`.* `command[c]` is a call of `send()`: waiting for the lock, waiting
for the reply, or finished. `esl[n].sent` is what FreeSWITCH has to answer, in
order. A timeout tears the connection down and cancels the reader, which the
supervisor waits for.

*`MediaStream`.* Frames are numbered; `buffer`, `flushing` and `heard` are
sequences of them. `mediaTask` is what the call task does about its stream.

*`Catalogue`.* One agent, one item, one number. `edit[e]` is the write an API
request has decided on. What the triggers refuse is in the guards of the commit.

*`OffhostBackups`.* A dump is its number, since dumps sort by time. `lock.by` is
whose token the file holds; taking over a stale lock judges the owner before it
removes the file, and may be wrong by then (`overlapped`).

*`WebClient`.* One kind of record, so one key per tenant: the keys of the detail
queries hold the tenant and no id. React Query is external; what it does on
mount, unmount, invalidation and `clear()` is modelled as the hooks use it.

## 3. What the runs check

| Run | Bounds | Checks |
|---|---|---|
| `fleet_race` | 2 processes, 1 call, each offer twice, capacity 1, lapsing heartbeats, reconciler | `ExclusiveTask`, `ActivatedCallIsNotLeft` |
| `fleet_faults` | 2 processes, 1 call, one delivery each, all faults | `OwnershipInvariant` (the inductive invariant, with the type invariant), `ImplementsOwnership`, `HostedCallsKeepContract` |
| `fleet_solo` | 1 process, 3 deliveries, denials | `OfferedCallIsSettled`, with fairness |
| `fleet_owner_acts` | 2 processes, no faults | violates `OwnerActs` |
| `processes` | see below | `ProcessesTypeOK` and, by activity: `FinalizedUnlessCutShort`, `Released`, `OutcomeMatchesCause`, `ImplementsHostedCall`, `StopsWhenTold`; `UnansweredCallIsExcused`, `TurnIsFinished`, `TeardownCompletes`; `CallIsAsAsked`, `AskedCallIsMade`; `EveryTenantIsServed`, `StopCompletes` |
| `task_always_finalized` | one call, a shutdown | violates `AlwaysFinalized` |
| `followups_lease` | 1 row, 3 workers, 2 attempts, 2 requests at a time, 1 abandoned execution | `TypeOK`, `AttemptsAreUnique`, `OverlapIsExcused`, `CeilingIsExcused`, `NoRowIsStranded`, `IsSettled` |
| `conversation_history` | 3 utterances, 1 tool request, 1 reply, 3 events, no failing log, a prompt pump | violates `RequestsAreAnswered` |
| `tools` | 2 requests with one call_id, a workflow with a step of every kind, 1 unexpected exception, of a call that may have committed or of `execute()` | `AnswerTellsEffect`, `DoubleBookingIsExcused`, `StepRunsOnce`, `AbandonedFlowIsExcused` |
| `tools_own_answer` | 2 requests with one call_id, no exceptions | violates `OwnAnswer` |
| `link_returns` | 2 commands, 2 connections, 1 event | violates `TornLinkIsReplaced` |
| `back_office` | see below | `BackOfficeTypeOK` and, by component: `ConcurrentAnalysesAreExcused`, `JobIsSettled`; `LogKeepsOrder`, `EveryTurnIsAccountedFor`; `ReplyIsItsOwn`, `EventsKeepOrder`; `MediaIsSettled`; `CallRunsFrozenContent`; `BackupsAreRecoverable`; `ClientShowsItsContext` |

`processes` runs four activities, one per behaviour, so its states are the sum of
theirs. Its bounds: 1 call task under all faults; 2 utterances, 1 tool request, 1
reply, 3 events, a log queue of 1 whose calls do not fail (`back_office` has the
log with failures); 2 responses, 2 calls of 3 fragments, 1 garbled line, an idle
limit of 1; 2 tenants of which one is always busy, 1 drained at a time, 2 claims
per tick, 1 thread, 1 due execution, 1 that raises.

`back_office` runs seven components that share no state, one per behaviour, so
its states are the sum of theirs and not the product. Its bounds: 2 workers, 2
requesters, 2 versions, 2 attempts, 1 mishap; 3 turns (`MaxTurns`) under 2
(event_id, role), so that one comes twice, over a queue of 2, 1 retry,
2 failing calls, 1 deletion; 2 commands, 2 connections, 1 refused attempt, 2
events with room for 1; 2 sockets, 5 frames in chunks of 2; 2 editors, 2 versions,
2 contents; 2 processes, 2 dumps; 2 users, 2 tenants, 3 records.

Why these bounds. Rows of different calls, follow-ups or agents meet only in the
load of a process, which capacity 1 already exhausts with one call. Two
processes produce every disagreement between a process that selects itself and
one that does not; a second delivery produces the duplicates within a process
that `claim_call_for_activation` exists for, and the repeated offer that finds
the fleet full. Three workers are one more than a lease and its successor need,
so that a late write can meet a third claim, and two attempts put the ceiling
within reach; two workers suffice for analysis jobs, where the table itself
refuses most late writes. Two utterances are needed for a speech event read
late, and a queue of three holds the speech, the transcript and the tool request of
one, so that the speech cuts the turn at its tool, and is full while a fourth event is
due. One tool request is enough where the history is at stake; tool requests that share
a call_id meet in the log, where `back_office` offers a turn twice under one
(event_id, role), and in the gateway, where `tools` has them; `Conversation` is proved
for any `CallId`. In `conversation_history` the first utterance gets the reply whose
audio holds the pump, the second the tool, and the third is the request to the model
after the cut. Two calls of
three fragments are a first and a later one with a middle to lose. A busy tenant
and another share one thread and one place in the tick, which is where the other
could starve, and a ceiling of two claims is reached by draining a tenant once
more. The log's queue of two is full with a turn at the
worker, so that both a turn and the sentinel find no room. Two requests and the
nested one are two bookings and a workflow. Two connections are a torn one and
its successor, and three sockets would only repeat the replacement of one by
another. Five frames are two chunks and a rest. Two dumps are an old and a new
one, two processes a lock and its taker. Two tenants and two records of one of
them tell a wrong tenant from a wrong record.

`PromptSpec`, of `conversation_history`, keeps
the behaviours in which a free pump takes the event that waits before anything else
happens: the trace owes nothing to an unlucky order of the event loop's tasks, only
to what is slow in itself, such as pacing a frame out to the caller.

Deadlock is not checked where the system really may stop: in `fleet_faults` (all
processes may be gone), in `processes`, `task_always_finalized` and
`conversation_history` (calls and processes end), of `FollowUps` (every row may be settled), of `ToolGateway` (every request
answered), in `link_returns` (the runtime may close the link) and in
`back_office` (editors, requests and calls may all have come to an end).

### Disagreements with the repository's own words

1. `fleet_owner_acts`. `runtime/orchestrator.py:394` says that the runtime a call
   went to "is independently processing the identical broadcast event and will
   proceed from here itself". Two processes that read the heartbeats at
   different times can each select the other; the first claim makes an owner of
   the one that has already left. The row stays `initiated` with a live owner,
   which reconciliation never touches.
2. `task_always_finalized`. `runtime/call_task.py:490`: the call session "is
   always finalized". A cancellation inside the finally block leaves it; a
   shutdown that meets a call at its teardown is enough.
3. `tools_own_answer`. `providers/engines/contracts.py:231`: the call_id
   "correlates the later `ToolResult`" and is the idempotency key. The Gemini
   adapter counts calls from 0 in every response (`providers/llm/gemini.py:180`)
   and the gateway remembers results for the whole call, so the second request of
   a conversation is answered with the result of the first and never runs.
4. `link_returns`. `telephony/freeswitch/esl_transport.py:306`: a torn connection
   is left to `ManagedEslConnection`, which "reconnects". The `CancelledError` of
   the reader passes the `suppress(Exception)` of `wait_closed()` and ends the
   supervisor: nothing connects again.
5. `conversation_history`. `providers/engines/pipelined.py:397`: the history is
   recorded "exactly as an OpenAI-compatible chat-completions history requires",
   an assistant message with `tool_calls` "immediately followed" by the result. A
   turn that `interrupt()` cancels while it awaits its tool (`:418`) leaves the
   request without one, and every later request of the session sends it. In the run
   the pump is pacing the audio of a reply out to the caller
   (`telephony/freeswitch/media.py:143`; the session listens again once the last frame
   is in the queue) while the next utterance is heard and its turn asks for a tool;
   the `SpeechStarted` of that utterance waited behind the audio and cuts the turn.

### Met on the way

Without a run of their own; most are what the excuses in the properties name.

*Calls.* `transition_call_session` may commit over a terminal status committed
since it read (`calls/service.py:314`, against `calls/lifecycle.py:22`). A media
stream that cannot be attached, an engine that fails, and a denial whose write is
refused are all recorded as `completed`. An offer that arrives after the
orchestrator's shutdown can still start a call that nobody cancels. The
orchestrator takes the agent's published version and ignores the version pinned
to the number (`runtime/orchestrator.py:321`,
`src/docs/PHASE-0-ARCHITECTURE.md:535`).

*Follow-ups.* `complete_follow_up` is documented as `pending -> completed` but
completes a row in `processing`; `followups/service.py:487` says an active lease
is never stolen, and `:733` that no path grants more than `MAX_ATTEMPTS`
attempts, while a late reprocess does the first and a reclaimed lease the second
(`OverlapIsExcused` and `CeilingIsExcused` say exactly when); a failing execution
that read the row before a manual completion overwrites it (`:411`).

*Conversation and log.* Barge-in is not heard during a turn
(`providers/engines/contracts.py:219`), and a failing speech recognition leaves the
line open and silent. Only the first tool call of a reply is executed; the idle
timeout counts items and not lines (`providers/engines/pipelined.py:145`), so a
long tool call that streams steadily may time out; the Gemini adapter names every
function response `tool` (`providers/llm/gemini.py:104`). A turn that was
deleted may come back when the answer to its commit was lost. The result of a tool
whose turn was cut resolves a later request that has its call_id
(`providers/engines/pipelined.py:486`). Tool turns are persisted under their call_id
(`runtime/call_task.py:339`, `:359`), which starts anew in every Gemini response
(`providers/llm/gemini.py:186`; the fallback of `_openai_compatible.py:195` likewise),
and `persist_conversation_turn` returns the row that exists
(`conversations/service.py:76`): the tool turns of every later request of such a call
are accepted and never stored, counted as failed or logged, against
`src/docs/PHASE-2.5-STATUS.md:176`, a gap "is never silent". This is the excuse in
`EveryTurnIsAccountedFor`; `SpokenTurnIsKept` says that nothing but tool turns goes
this way.

*Tools.* `create_event` checks for conflicts without a lock, so two bookings may
overlap; `create_follow_up` books in a transaction of its own and may leave the
appointment without the follow-up; two first writes of a call outcome raise an
IntegrityError. An execution row is left running when `begin_execution` is
cancelled after its thread started, or commits and its answer is lost, when a step
raises something unexpected, and when the nested `execute()` of a tool step raises
at its look-up or audit (`workflows/executor.py:179` has nothing around it);
completing over a cancelled execution succeeds. After the audit of a success raises
(`tools/gateway.py:484`), the engine is told internal_error of an effect that stands
(`runtime/call_task.py:321`), and so may it be when a commit's answer is lost:
`AnswerTellsEffect` promises nothing of internal_error.

*Analysis.* A forced rebuild beside a failed version with attempts left runs both.
An unexpected exception leaves the job in processing until its lease runs out,
and such retries are not bounded.

*FreeSWITCH.* A handshake that times out ends the supervisor as well
(`esl_transport.py:228`). A command that waits for the send lock writes on a torn
connection and may be answered with the reply of the command before it. A socket
registered after detach stays in `_sockets`; attaching right after the answer
races the socket's arrival.

*Catalogue.* Archiving a version leaves `published_version_id` on it; a racing
publication turns an archived version published again, or clears a draft
pointer set meanwhile; two concurrent drafts choose the same number and one
raises.

*Backups.* A lock judged stale may belong to a process that lives, or have been
written just now: two runs then save over each other's ledger. Two drills may
both pass the check that the database is empty. `_cmd_recover` fetches the dump and
checks its digest, but none of the sidecars that `verify_artifact` of the drill asks
for (`src/scripts/offhost_backup.py:985`, `src/scripts/db_recovery_drill.py:248`);
`CheckTarget` takes them as put there. An entry whose dump is deleted and one of whose
sidecars is not stays in the ledger, "still retained remotely" by the comment at
`src/scripts/offhost_backup.py:698`: true of the newest entry, not of an older one.

*Workers.* The read timeout of the health listener is per line (`health.py:116`), so
a request that comes line by line, each in time, is read for as long as it comes;
`WorkerProcess` has a request that comes and one that stalls.

*Frontend.* The detail hooks leave the id out of the query key (`hooks.ts`,
against `queryClient.ts:13`): a page shows the previous record until its own
arrives, and a selection on the same page shows it for good. Publishing an
agent version invalidates the list and not the detail. A save whose tenant is
switched under it invalidates the new tenant's key. A session that ends elsewhere
leaves the stored tenant to the next user.

### Fairness

`CallFleet!Fairness`: weak fairness of each handler's steps (everything it awaits
is bounded: database, telephony commands, `answer_timeout_seconds`), and of a
started task up to the conversation and within its finalization. Offers,
faults, heartbeats and the end of a conversation are not fair.
`CallTask!FairSpec`, and `TaskIsFair` in `Processes`: weak fairness of the task's own steps, of running
threads, and of the end of a process that was told to stop (`ProcessEnds`: the
waits of `CallRuntime.shutdown()` are bounded); not of hangups, of the pumps' end, or of
being told to stop. A task that is started in a process that is stopping already
is cancelled by `asyncio.run()` alone, and stops only because the process ends.
`FollowUps!FairSpec` and `AnalysisJobs!AnalysisFairness`: every worker polls
(`_run_loop`) and gets on with what it claimed, time passes, and (for follow-ups)
a request that read its row writes it; nobody has to create or request anything.
`ConversationIsFair` in `Processes`: each asyncio task that can go on does so (the
STT task with what it has heard or once it is closed, the turn, the pump, the
tool executions, which have a timeout, the call task's teardown), and so do the
log's worker, its thread and its drain timeout. The caller does not have to
speak and nothing has to fail. The steps of the log are fair there as steps of
the composition that leave the engine alone.
`WorkerProcess!WorkerFairness`: the event loop runs what is ready, the semaphore
and the executor serve whoever waits, executions end, and a probe that sends
nothing is given up on (one that drips line after line, which no timeout bounds, is
left out). `ThreadTakes` is strongly fair: the executor's queue is
first in, first out, while another tenant may hold the thread again and again.
In `Processes` these are asked of the activity that goes on.
`ControlLink!LinkFairness`: commands reach their reply or their timeout, the
supervisor and the pump run. FreeSWITCH is not fair.
Elsewhere weak fairness suffices since these steps stay enabled until they are
taken.

## 4. What is proved

All for every value of the constants, from the assumptions the modules name
(`OwnerAssumption`, `FleetAssumption`, `TaskAssumption`, `FollowUpAssumption`,
`TurnLogAssumption`, `ConversationAssumption`, `ModelStreamAssumption`,
`GatewayAssumption`, `AnalysisAssumption`, `LinkAssumption`, `MediaAssumption`,
`CatalogueAssumption`, `BackupAssumption`, `WebClientAssumption`). They say that
bounds are natural numbers, that the names of nobody and nothing are no members
of the sets they stand beside, and that calls and workers are finitely many.

`CallFleetProofs`:

* `TypeCorrect`, one lemma per group of actions;
* `OwnershipHolds`: `OwnershipInvariant` is inductive. `ExclusiveTask` alone is
  not: the step that starts a task says nothing of why its handler was entitled
  to. The strengthening says that a handler at the activation claim belongs to
  the owner (`ClaimersOwn`), that handlers past it are recorded winners
  (`ActiveHandlersWon`), that a claimed row never looks `initiated` again
  (`ClaimIsSpent`, which every unlocked write keeps because none of them writes
  `initiated`), and hence that a call has at most one winner, a handler of its
  owner (`OneWinner`), which tasks and late writes descend from (`HostsWon`);
* `ExclusiveTaskHolds`, `ActiveRowWasClaimedHolds` follow;
* `ActivatedCallIsNotLeftHolds`, for every set of faults without `"error"`: with
  it a handler may fail to write any end, and the theorem would be false.
  `LeftInvariant` adds that the winner of an activation is past its claim for
  good, hands the call to its task as the last thing it does, and is over only
  with a task or a terminal row, and (`LateOnesStop`) that a thread still to write
  belongs to a process that is stopping;
* `FleetImplementsOwnership`: every step of the fleet is a step of
  `CallOwnership` or a stutter, with the row's owner as holder and the recorded
  winners as activations;
* `HostedCallsKeepContractHolds`, an action property over all processes and calls.
  `HostingInvariant` adds to the ownership invariant what a handler knows that the
  contract needs: it refuses calls it has not activated with a refusal only, hands
  over a row that it answered and owns (`HandlerHosting`), nobody takes the row of a
  hosted call back behind `answered`, and until the winner is through the row tells
  of refusals and repairs at most (`CallHosting`). Then a handler writes the row of a
  call it does not host as a stranger (`HandlerRow`), a task step is one of
  `HostedCall` (`TaskStepIsContract`), and nobody else hosts its call (`OneHost`).

`FollowUpsProofs`:

* `TypeCorrect`;
* `AttemptsAreUniqueHolds`, strengthened by: no worker's attempt exceeds the
  count on its row. Only a claim writes the count (`OnlyClaimsCount`);
* `NoRowIsStrandedHolds`, strengthened by: whatever waits to be written is a
  *safe change* for its row, one that strands no row whatever status it lands
  on. A safe change stays safe because attempts only grow (`AttemptsGrow`);
* `OverlapIsExcusedHolds`, strengthened by: a row somebody executes without an
  excuse is *guarded*, either settled or under a lease that still runs, and so
  out of every claim's reach;
* `CeilingIsExcusedHolds`, a count (`CeilingInvariant`): the executions of a row
  and the claim its status has in store are at most one more than the excuses;
  its attempts, the claim in store and the executions about to hand it back for a
  retry are at most `MaxAttempts` more. Every action either changes neither side
  (`Quiet`), or moves one from one term to another, or is an excuse; the library's
  facts on cardinalities do the arithmetic, for which the workers are finite.

`BackOfficeProofs`:

* `AnalysisTypeCorrect`;
* `ConcurrentAnalysesHold`. The property speaks of versions that exist; the
  invariant (`SuccessionInvariant`) also of those about to be inserted: whatever
  precedes them is completed or was overtaken. That stays so because a completed
  row is immutable whoever writes it (`PastIsForever`), and a worker only runs
  versions that exist (`RunsExist`);
* `CatalogueTypeCorrect`, and `CallRunsFrozenContentHolds`, an action property:
  versions are numbered without gaps (`Numbered`), what an editor is about to
  write was decided on a version that exists and an item that left its draft
  (`EditsAreSound`), and the version the agent points to, or a call was created
  with, was published (`PublishedIsPublished`), so that the triggers refuse every
  write that would change it;
* `BackupTypeCorrect`, and `BackupsAreRecoverableHolds`: unless a live owner lost
  its lock, whoever works holds it and prunes only what has a newer entry
  (`HasLock`), the newest entry is off the host at every step of retention
  (`LedgerIsSound`), and a drill restores into a database of its own
  (`DrillIsSound`, which holds with or without the lock).

`ConversationProofs`:

* `TurnLogTypeCorrect`, `LogKeepsOrderHolds`, `EveryTurnIsAccountedForHolds`, for
  turns offered in any order and as often as one likes: the
  queue holds accepted turns in their order (`QueueInv`), what the worker holds
  was accepted before all of them (`HeldInv`), what is stored not after that, and what
  a call has read under its lock stays true, that its turn has no row and which
  sequence number is next (`LogInv`); a call that returned has stored its turn or found
  one that was accepted before it in its place (`StoredInv`);
* `ConversationTypeCorrect`, `UnansweredCallIsExcusedHolds`,
  and two of its own that no run lists, `SentinelIsNotLostHolds` and
  `CutIsStaleHolds`: a turn exists exactly while the STT
  task awaits it and answers the last utterance (`TurnInv`), so events still to be
  read are no younger than it (`NumbersInv`); a turn that awaits a result has its
  request at the end of the history (`AwaitInv`);
* `ConversationLogIsSound` carries the two properties of the log over to whole
  conversations, by way of `ConversationImplementsTurnLog`: the engine, its pump and
  its tools move the log by the steps `TurnLogSpec` allows, which assumes nothing of
  what is offered. `SpokenTurnIsKeptHolds`, which no run lists either, is what the
  conversation adds, for any `CallId`: an event of something said is in the queue once and accepted once
  (`FreshInv`), so `StoredInv` never finds another in its place;
* `StreamTypeCorrect`, `CallIsAsAskedHolds`, `AskedCallIsMadeHolds`: what was
  assembled is what was sent unless a line was garbled (`AssembledInv`), the fate
  of a reply is open while it is streamed (`PastRepliesInv`), and calls begin in
  order, so the first one that parses is the first one asked for (`WholeReply`).

`CallTaskProofs`:

* `TaskTypeCorrect`, `FinalizedUnlessCutShortHolds`, `ReleasedHolds`,
  `OutcomeMatchesCauseHolds`: where the task may be while a resource is open
  (`ResourcesInv`), what its flags say of where it was (`CauseInv`), that the row
  is its own and terminal at the end of an uncut task (`RowInv`), and that its end
  reason is the cause unless another process wrote first (`OutcomeInv`);
* `TaskImplementsHostedCall`: every step of the task, of the threads it left behind
  and of the process is a step of `HostedCall` or a stutter, seen through `SeenTask`
  and `SeenLate`. `ContractInv` says that writes of the owner start only in the body,
  that the fallback of the finalization never finds a row to write (its row is
  terminal), that `interrupted` is written only by a process that is stopping, and
  that what is left behind was open to the task when it was cancelled.

Together with `HostedCallsKeepContractHolds` this is an assume-guarantee argument:
the environment `CallTask` assumes is the one the fleet is, and the task `CallFleet`
assumes is the one `CallTask` is.

`ToolGatewayProofs`:

* `GatewayTypeCorrect`, `AnswerTellsEffectHolds`, `DoubleBookingIsExcusedHolds`,
  `StepRunsOnceHolds`, `AbandonedFlowIsExcusedHolds`, for any workflow: the unique
  row of an execution admits one executor ever, which only moves forward
  (`ClaimInv`); a running row has it or lost it in a way the code accepts
  (`OwnerInv`); of two bookings one had looked before the other was made
  (`BookInv`); and what an execution was told, is told from memory, or left to a
  thread agrees with what the database holds of it (`EffectInv`), where what was told
  is not a timeout or an internal error, after which a commit may stand.

`FreeSwitchProofs`:

* `LinkTypeCorrect`;
* `EventsKeepOrderHolds`: what was delivered, what the managed queue and the
  queue of the open connection hold are three growing sequences in this order
  (`OrderInv`), and a connection is read to its end before the next one
  (`LinksInv`);
* `ReplyIsItsOwnHolds`: what is on its way over a connection that still works,
  the command FreeSWITCH has to answer, its answer, or the reply in the queue,
  belongs to whoever holds the send lock, and there is at most one of it
  (`RepliesInv`);
* `MediaTypeCorrect`;
* `MediaIsSettledHolds`, from `LetGoInvariant` (from the moment `detach()` has
  popped the socket, only late ones are registered) and `QueuesInvariant`: what
  was sent, what is being sent and what waits are three growing sequences in this
  order, and together with what was dropped they are everything produced.

`WebClientProofs`:

* `WebClientTypeCorrect`;
* `ClientShowsItsContextHolds`, from three invariants: `SessionInvariant` (who is
  signed in here has the browser's session, or lost it elsewhere),
  `CacheInvariant` (every entry, and the one a request will bring, was fetched by
  that user, is a record of the tenant of its key, and only an open page asks)
  and `SaveInvariant` (a save under way invalidates the key of its record unless
  it lost its tenant; once it is over, an entry without it is one the page is
  about to replace).

The invariants were checked by TLC on the instances above before they were proved
for all; all steps are checked by the SMT, Zenon and temporal backends, with
nothing assumed beyond the constants.

Only model-checked: liveness, since fairness and ENABLED are out of the prover's
reach (`OfferedCallIsSettled`, `IsSettled`, `JobIsSettled`, `StopsWhenTold`,
`TurnIsFinished`, `TeardownCompletes`, `EveryTenantIsServed`, `StopCompletes`), and
with it all that `WorkerProcess` promises. The compositions `Processes` and
`BackOffice` only juxtapose components that share no variable: their type
invariants are the conjunction of the ones proved, and `WorkerTypeOK`.

## 5. Not modelled

*Components.* The realtime engine: the repository has its contract and fakes. The
vendor adapters for speech: an answer, a failure or nothing; of those for language
models the HTTP and JSON below a line.
`call_analysis` aggregates rows, `stuck_calls.py` and the diagnostics report on
them; contacts are single-row writes behind constraints. The API's routing and
validation, roles, settings and metrics. The staging and smoke scripts,
which exercise a deployed system. List pages, forms and layout of the frontend.

*Aspects.* Content: audio, transcripts, prompts, routing tables, most of an
agent's configuration. Metrics, logs, traces, audit and metering rows. The
syntax of ESL and the commands of FreeSWITCH beyond success, failure and
timeout. Several tenants on the server: row level security keeps them apart.
Starvation in the thread pool (a queued database call may wait for any time, but
it is not lost). The bound of 32 on a subscriber's events, and the HUNGUP that
falls between two subscriptions. The scan order of Redis keys. Encryption and
the storage client of the backups. `reconcile_tenant` and the reports of
`stuck_calls.py` have no caller in the repository that schedules them; the
reconciler runs in the models only where a configuration asks for it.

## 6. Plan

1. Safety of a worker process: no more executions at once than threads and
   tenants admitted, as an invariant beside its liveness.
2. An abstract specification of a follow-up (one execution at a time, up to a
   ceiling) that `FollowUps` implements as long as nothing is excused.
3. An abstract log that only appends, and `TurnLog` as its implementation as long
   as nothing is deleted.
4. The window between the orchestrator's and the task's subscription to a call's
   events (`runtime/orchestrator.py:476`), with the bound on a subscriber's queue.
