----------------------------- MODULE Conversation -----------------------------
(***************************************************************************)
(* The conversation of one call: a PipelinedEngineSession with its STT     *)
(* task and its turn task, the pumps of the call task that read its        *)
(* events, the tool executions they start, and the log (TurnLog) the       *)
(* durable turns go to.                                                    *)
(*                                                                         *)
(* Utterances, replies and tool requests are numbered.  The STT task does  *)
(* not listen while it awaits the turn it started.  Events that are only   *)
(* observed (partial transcripts, ends of speech and of turns, usage,      *)
(* errors) are left out; audio is one event per frame of a reply.  What an *)
(* utterance or a reply is stored under is its number, for the event_id    *)
(* each has of its own; a tool request has the call_id that the model's    *)
(* adapter gave it, which may have been another request's before.          *)
(***************************************************************************)
EXTENDS TurnLog, Functions

CONSTANTS
  MaxUtterances,  \* bound: utterances of the caller
  MaxTools,       \* bound: tool requests of the model
  MaxReplies,     \* bound: replies of the model
  EventsSize,     \* maxsize of _events
  CallId          \* [1..MaxTools -> the call_id of the request]

ToolRoles == {"tool_call", "tool_result"}
Roles == {"system", "user", "tool_call", "tool_result", "assistant"}
Numbers == 0..(MaxUtterances + MaxTools + MaxReplies)

ASSUME ConversationAssumption ==
  /\ MaxUtterances \in Nat /\ MaxTools \in Nat /\ MaxReplies \in Nat
  /\ EventsSize \in Nat \ {0}
  /\ DOMAIN CallId = 1..MaxTools
  /\ (Roles \ ToolRoles) \X Numbers \subseteq Turns
  /\ ToolRoles \X {CallId[n] : n \in 1..MaxTools} \subseteq Turns

VARIABLES
  events,      \* PipelinedEngineSession._events
  stt,         \* where _consume_stt is
  speaking,    \* _caller_speaking
  heard,       \* utterances so far; the current or last one
  turn,        \* where _turn is
  messages,    \* _messages after the system prompt
  replies,     \* replies so far
  tools,       \* tool requests so far
  future,      \* [1..MaxTools -> state of the future made for the request]
  closed,      \* the session's closed
  pump,        \* where pump_engine_events is
  running,     \* tool_tasks: the executions under way
  cuts         \* history: the turns interrupt() cut: by whose SpeechStarted, the answer
               \* to which utterance, awaiting which tool

engineVars == <<events, stt, speaking, heard, turn, messages, replies, tools, future, closed>>
pumpVars == <<pump, running>>
beyondEngine == <<pumpVars, cuts, turnLogVars>>
conversationVars == <<engineVars, pumpVars, cuts, turnLogVars>>

EventTypes == {"SystemPromptSet", "SpeechStarted", "FinalTranscript", "ToolCallRequested",
               "AssistantResponse", "AudioOut", "None"}
Event(type, n) == [type |-> type, n |-> n]
Events == [type : EventTypes, n : Numbers]
None == Event("None", 0)
IsEvent(i, type) == events[i].type = type

ConversationTypeOK ==
  /\ TurnLogTypeOK
  /\ events \in Seq(Events) /\ Len(events) <= EventsSize
  /\ stt \in {"listening", "started", "final", "turn", "done"}
  /\ speaking \in BOOLEAN /\ closed \in BOOLEAN
  /\ heard \in 0..MaxUtterances
  /\ turn \in {"none", "llm", "offer", "await", "reply", "speak"}
  /\ messages \in Seq({"user", "calls", "tool", "assistant"} \X Numbers)
  /\ replies \in 0..MaxReplies /\ tools \in 0..MaxTools
  /\ future \in [1..MaxTools -> {"none", "waiting", "set", "cancelled"}]
  /\ pump \in {"wait", "get", "send", "ended", "cancelled"}
  /\ running \subseteq 1..MaxTools
  /\ cuts \subseteq [by : Numbers, of : Numbers, awaiting : Numbers]

ConversationInit ==
  /\ TurnLogInit
  /\ events = <<Event("SystemPromptSet", 0)>>
  /\ stt = "listening" /\ speaking = FALSE /\ heard = 0
  /\ turn = "none" /\ messages = <<>> /\ replies = 0 /\ tools = 0
  /\ future = [n \in 1..MaxTools |-> "none"]
  /\ closed = FALSE
  /\ pump = "wait" /\ running = {}
  /\ cuts = {}

-----------------------------------------------------------------------------
(* _events                                                                 *)

\* Mutation: the bound is off by one.
HasMoreRoom == Len(events) <= EventsSize
HasRoom == Len(events) < EventsSize

\* _emit: waits for room, except that nothing waits once the session is closed.
ForcePutEvent(e) == IF HasRoom THEN Append(events, e) ELSE Append(Tail(events), e)
Emit(e) == (HasRoom \/ closed) /\ events' = ForcePutEvent(e)

\* A cancelled turn takes the future it awaits with it.
CancelTurn ==
  /\ turn' = "none"
  /\ future' = [n \in 1..MaxTools |->
                  IF turn = "await" /\ n = tools /\ future[n] = "waiting"
                    THEN "cancelled" ELSE future[n]]

\* _run_turn absorbs the cancellation: the session listens again.
ListenAgain == stt' = IF turn = "none" THEN stt ELSE "listening"

-----------------------------------------------------------------------------
(* _consume_stt                                                            *)

\* Mutation: the session listens while the agent's turn goes on.
ListensAlways == stt \in {"listening", "turn"}
Listens == stt = "listening"

\* The first partial transcript of an utterance: its audio came through the pumps.
SpeechStarts ==
  /\ Listens /\ pump # "wait" /\ ~ speaking /\ heard < MaxUtterances
  /\ speaking' = TRUE /\ heard' = heard + 1 /\ stt' = "started"
  /\ UNCHANGED <<events, turn, messages, replies, tools, future, closed, beyondEngine>>

EmitSpeechStarted ==
  /\ stt = "started"
  /\ Emit(Event("SpeechStarted", heard))
  /\ stt' = "listening"
  /\ UNCHANGED <<speaking, heard, turn, messages, replies, tools, future, closed, beyondEngine>>

\* Its final transcript: ignored once the session is closed.
SpeechIsFinal ==
  /\ stt = "listening" /\ speaking
  /\ speaking' = FALSE
  /\ stt' = IF closed THEN "listening" ELSE "final"
  /\ UNCHANGED <<events, heard, turn, messages, replies, tools, future, closed, beyondEngine>>

EmitFinalTranscript ==
  /\ stt = "final"
  /\ Emit(Event("FinalTranscript", heard))
  /\ messages' = Append(messages, <<"user", heard>>)
  /\ stt' = "turn" /\ turn' = "llm"
  /\ UNCHANGED <<speaking, heard, replies, tools, future, closed, beyondEngine>>

\* Mutation: the sentinel is dropped when the queue is full.
DropSentinel == IF HasRoom THEN Append(events, None) ELSE events
PutSentinel == ForcePutEvent(None)

\* The provider's stream ends or fails, or close() has waited long enough and cancels.
SttEnds ==
  /\ stt = "listening" \/ (closed /\ stt # "done")
  /\ stt' = "done"
  /\ CancelTurn
  /\ events' = PutSentinel
  /\ UNCHANGED <<speaking, heard, messages, replies, tools, closed, beyondEngine>>

-----------------------------------------------------------------------------
(* _turn                                                                   *)

\* The model answers with text, with a tool request, or with nothing; or it fails.
ModelReplies ==
  /\ turn = "llm" /\ replies < MaxReplies
  /\ replies' = replies + 1
  /\ messages' = Append(messages, <<"assistant", replies + 1>>)
  /\ turn' = "reply"
  /\ UNCHANGED <<events, stt, speaking, heard, tools, future, closed, beyondEngine>>

ModelAsksForTool ==
  /\ turn = "llm" /\ tools < MaxTools
  /\ tools' = tools + 1
  /\ turn' = "offer"
  /\ UNCHANGED <<events, stt, speaking, heard, messages, replies, future, closed, beyondEngine>>

\* The turn is over: there was nothing to say, the speech is synthesized, or it failed.
TurnEnds ==
  /\ turn \in {"llm", "speak"}
  /\ turn' = "none" /\ stt' = "listening"
  /\ UNCHANGED <<events, speaking, heard, messages, replies, tools, future, closed, beyondEngine>>

EmitToolCall ==
  /\ turn = "offer"
  /\ Emit(Event("ToolCallRequested", tools))
  /\ messages' = Append(messages, <<"calls", tools>>)
  /\ future' = [future EXCEPT ![tools] = "waiting"]
  /\ turn' = "await"
  /\ UNCHANGED <<stt, speaking, heard, replies, tools, closed, beyondEngine>>

\* Mutation: the history keeps the request only.
NoToolMessage == messages
ToolMessage == Append(messages, <<"tool", tools>>)

\* The result re-enters the conversation as the model's next turn.
ToolResultArrives ==
  /\ turn = "await" /\ future[tools] = "set"
  /\ messages' = ToolMessage
  /\ turn' = "llm"
  /\ UNCHANGED <<events, stt, speaking, heard, replies, tools, future, closed, beyondEngine>>

EmitResponse ==
  /\ turn = "reply"
  /\ Emit(Event("AssistantResponse", replies))
  /\ turn' = "speak"
  /\ UNCHANGED <<stt, speaking, heard, messages, replies, tools, future, closed, beyondEngine>>

EmitAudio ==
  /\ turn = "speak"
  /\ Emit(Event("AudioOut", replies))
  /\ turn' = "none" /\ stt' = "listening"
  /\ UNCHANGED <<speaking, heard, messages, replies, tools, future, closed, beyondEngine>>

-----------------------------------------------------------------------------
(* The pumps                                                               *)

StartPumps ==
  /\ pump = "wait" /\ worker.at # "none"
  /\ pump' = "get"
  /\ UNCHANGED <<engineVars, running, cuts, turnLogVars>>

NextEvent == pump = "get" /\ events # <<>>
TakeEvent(type) == NextEvent /\ Head(events).type = type /\ events' = Tail(events)
KeepsEngine == UNCHANGED <<stt, speaking, heard, turn, messages, replies, tools, future, closed>>
KeepsLog == UNCHANGED <<worker, thread, log, finishing, failures, deletions, failed, stored>>

\* Role of the turn an event is persisted as.
RoleOf == [type \in {"SystemPromptSet", "FinalTranscript", "AssistantResponse", "ToolCallRequested"} |->
             CASE type = "SystemPromptSet" -> "system"
               [] type = "FinalTranscript" -> "user"
               [] type = "AssistantResponse" -> "assistant"
               [] type = "ToolCallRequested" -> "tool_call"]

\* What was said has an event_id of its own, made with its event; a tool's turns have the
\* call_id of the request.
EventId(role, n) == IF role \in ToolRoles THEN CallId[n] ELSE n

PersistEvent ==
  \E type \in DOMAIN RoleOf :
    /\ TakeEvent(type)
    /\ EnqueueTurn(<<RoleOf[type], EventId(RoleOf[type], Head(events).n)>>)
    /\ running' = IF type = "ToolCallRequested" THEN running \cup {Head(events).n} ELSE running
    /\ KeepsEngine /\ KeepsLog
    /\ UNCHANGED <<pump, cuts>>

PlayAudio ==
  /\ TakeEvent("AudioOut")
  /\ pump' = "send"
  /\ KeepsEngine
  /\ UNCHANGED <<running, cuts, turnLogVars>>

AudioPlayed ==
  /\ pump = "send" /\ pump' = "get"
  /\ UNCHANGED <<engineVars, running, cuts, turnLogVars>>

\* The utterance the turn under way answers: the last one said.
Answering ==
  LET said == {i \in DOMAIN messages : messages[i][1] = "user"}
  IN messages[CHOOSE i \in said : \A j \in said : j <= i][2]

\* The events S of the queue, in their order.
KeepEvents(S) ==
  \E f \in Surjection(1..Cardinality(S), S) :
    /\ \A i, j \in DOMAIN f : i < j => f[i] < f[j]
    /\ events' = [i \in DOMAIN f |-> events[f[i]]]

\* Barge-in: interrupt() cancels the turn and drops the audio that waits.
BargeIn ==
  /\ NextEvent /\ Head(events).type = "SpeechStarted"
  /\ KeepEvents({i \in DOMAIN events : i > 1 /\ ~ IsEvent(i, "AudioOut")})
  /\ CancelTurn /\ ListenAgain
  /\ cuts' = IF turn = "none" THEN cuts
             ELSE cuts \cup {[by |-> Head(events).n, of |-> Answering,
                              awaiting |-> IF turn = "await" THEN tools ELSE 0]}
  /\ UNCHANGED <<speaking, heard, messages, replies, tools, closed, pumpVars, turnLogVars>>

EventsEnd ==
  /\ TakeEvent("None")
  /\ pump' = "ended"
  /\ KeepsEngine
  /\ UNCHANGED <<running, cuts, turnLogVars>>

\* Mutation: an execution that raises submits no result.
SubmitNothing(n) == UNCHANGED future
\* The last future made for the call_id, if it still waits, is resolved: with the result of
\* an earlier request of that call_id, if its execution went on.
SubmitToolResult(n) ==
  future' = [m \in 1..MaxTools |->
               IF future[m] = "waiting" /\ CallId[m] = CallId[n] THEN "set" ELSE future[m]]

\* An execution ends with a result or an error: its turn is persisted, then submitted.
ToolDone(n) ==
  /\ n \in running
  /\ running' = running \ {n}
  /\ EnqueueTurn(<<"tool_result", EventId("tool_result", n)>>)
  /\ SubmitToolResult(n)
  /\ KeepsLog
  /\ UNCHANGED <<events, stt, speaking, heard, turn, messages, replies, tools, closed, pump, cuts>>

-----------------------------------------------------------------------------
(* The end of the call                                                     *)

\* A hangup or shutdown cancels the pumps, with the executions they started.
CancelPumps ==
  /\ pump \notin {"wait", "cancelled"}
  /\ pump' = "cancelled" /\ running' = {}
  /\ UNCHANGED <<engineVars, cuts, turnLogVars>>

\* run_call_task's finally: finish the log first.
FinishTurns ==
  /\ pump = "cancelled" /\ FinishLog
  /\ UNCHANGED <<engineVars, pumpVars, cuts>>

\* Then close the session: its turn is cancelled, its audio ends.
CloseSession ==
  /\ finishing = "returned" /\ ~ closed
  /\ closed' = TRUE
  /\ CancelTurn /\ ListenAgain
  /\ UNCHANGED <<events, speaking, heard, messages, replies, tools, pumpVars, cuts, turnLogVars>>

-----------------------------------------------------------------------------
SttStep == \/ SpeechStarts \/ EmitSpeechStarted \/ SpeechIsFinal
           \/ EmitFinalTranscript \/ SttEnds
TurnStep == \/ ModelReplies \/ ModelAsksForTool \/ TurnEnds \/ EmitToolCall
            \/ ToolResultArrives \/ EmitResponse \/ EmitAudio
PumpStep == PersistEvent \/ PlayAudio \/ AudioPlayed \/ BargeIn \/ EventsEnd
LogRuns == (StartWorker \/ LogStep) /\ UNCHANGED <<engineVars, pumpVars, cuts>>

ConversationNext ==
  \/ SttStep \/ TurnStep \/ StartPumps \/ PumpStep
  \/ \E n \in 1..MaxTools : ToolDone(n)
  \/ CancelPumps \/ FinishTurns \/ CloseSession \/ LogRuns

ConversationSpec == ConversationInit /\ [][ConversationNext]_conversationVars

\* Steps the scheduling of the call's event loop and of its threads brings about.
SttProceeds == EmitSpeechStarted \/ EmitFinalTranscript \/ (closed /\ SttEnds)
LogProceeds == /\ StartWorker \/ WorkerStep \/ FinishReturns \/ DrainTimesOut
               /\ UNCHANGED <<engineVars, pumpVars, cuts>>
ThreadProceeds == ThreadStep /\ UNCHANGED <<engineVars, pumpVars, cuts>>

-----------------------------------------------------------------------------
(* Properties                                                              *)

\* pipelined.py, _turn: the history the model is given holds "an assistant message carrying
\* `tool_calls`, immediately followed by the matching `tool`-role message(s)".  A request
\* without its result is one whose turn was interrupted while it waited, or the session is
\* closed; a result without its request is never there.
UnansweredCallIsExcused ==
  \A i \in DOMAIN messages :
    LET n == messages[i][2]
    IN /\ messages[i][1] = "calls" =>
            \/ i < Len(messages) /\ messages[i + 1] = <<"tool", n>>
            \/ i = Len(messages) /\ turn = "await" /\ n = tools
            \/ closed \/ \E c \in cuts : c.awaiting = n
       /\ messages[i][1] = "tool" => i > 1 /\ messages[i - 1] = <<"calls", n>>

\* pipelined.py:397, "exactly as an OpenAI-compatible chat-completions history requires":
\* when a model is asked for its next reply, no request for a tool is without its result.
RequestsAreAnswered ==
  turn = "llm" => \A i \in DOMAIN messages :
    messages[i][1] = "calls" =>
      i < Len(messages) /\ messages[i + 1] = <<"tool", messages[i][2]>>

\* pipelined.py, _force_put_nowait: the None that ends events() is never lost, however full
\* the queue, so the pump is never left to wait for an event that cannot come.
SentinelIsNotLost ==
  stt = "done" => pump \in {"ended", "cancelled"} \/ \E i \in DOMAIN events : IsEvent(i, "None")

\* pump_engine_events treats SpeechStarted as barge-in, but the session does not listen
\* during a turn: the only speech that ever cuts a turn is the utterance it answers, or an
\* earlier one, read late.
CutIsStale == \A c \in cuts : c.by <= c.of

\* An event_id is made once for each thing said: however the turns of tools repeat, what
\* the caller and the agent said is never taken for a turn that is stored already.
SpokenTurnIsKept ==
  worker.at # "cancelled" =>
    \A k \in DOMAIN accepted : accepted[k][1] \notin ToolRoles => IsKept(k)

\* No turn waits for ever: for room in the queue of events, for the result of a tool, for
\* an interrupted predecessor.
TurnIsFinished == stt = "turn" ~> stt # "turn"

\* However full the queues and whatever hangs, a call whose pumps were cancelled finishes
\* its log and ends its STT task.
TeardownCompletes == pump = "cancelled" ~> stt = "done" /\ finishing = "returned"
===============================================================================
