----------------------------- MODULE ToolGateway ------------------------------
(***************************************************************************)
(* The tool calls of one call: ToolGateway.execute, the handlers it runs   *)
(* and, behind workflow.advance, the executor that walks the call's        *)
(* workflow and goes through the gateway again for a tool step.            *)
(*                                                                         *)
(* An execution awaits database calls that run in threads.  Each reads and *)
(* decides, then commits what it decided.  When the execution is timed out *)
(* or cancelled, a call that is still queued may be dropped; one that runs *)
(* is `late` and commits nevertheless.  A call that raises may have         *)
(* committed all the same.                                                 *)
(*                                                                         *)
(* Every booking is for the same interval of the same calendar, so any two *)
(* of them conflict.  Refusals of a request, which differ in their error   *)
(* code only, are one; so are the tools that command the telephone, and    *)
(* those that only read.                                                   *)
(***************************************************************************)
EXTENDS Naturals, Sequences, FiniteSets

CONSTANTS
  Requests,      \* executions the engine asks for
  CallIds,       \* ToolCallRequested.call_id of the engine's requests
  Asked,         \* tools the engine may ask for
  Kinds,         \* the kinds of the workflow's steps, in an order of its edges
  Nested,        \* [tool steps of the workflow -> the execution each asks for]
  MaxRaises      \* bound: database calls that raise something unexpected

Tools == {"control", "query", "book", "unbook", "outcome", "follow_up", "workflow"}
StepKinds == {"condition", "tool", "outcome", "follow_up", "end"}

Steps == 1..Len(Kinds)
ToolSteps == {s \in Steps : Kinds[s] = "tool"}
StepExecutions == {Nested[s] : s \in ToolSteps}
Executions == Requests \cup StepExecutions

\* The call_id of a tool step has the step's id in it: its execution stands for it here.
Ids == CallIds \cup StepExecutions

ASSUME GatewayAssumption ==
  /\ Asked \subseteq Tools
  /\ Kinds \in Seq(StepKinds) /\ Len(Kinds) > 0 /\ Kinds[Len(Kinds)] = "end"
  /\ DOMAIN Nested = ToolSteps
  /\ \A s, t \in ToolSteps : Nested[s] = Nested[t] => s = t
  /\ StepExecutions \cap (Requests \cup CallIds) = {}
  /\ "none" \notin Executions
  /\ MaxRaises \in Nat

VARIABLES
  exec,      \* [Executions -> where execute() is, and for what]
  db,        \* [Executions -> the database call its handler awaits]
  late,      \* database calls that outlived their execution, with it
  memory,    \* [Ids -> the Answer remembered], _results of the call
  flow,      \* the call_workflow_executions row
  events,    \* [Executions -> status of the appointment it created]
  outcome,   \* the execution whose value the call's outcome row has, if there is one
  rows,      \* executions whose follow-up was created
  ended,     \* the pumps were cancelled
  raises,    \* unexpected exceptions so far
  runs,      \* history: [Steps -> times the step was begun]
  overlaps,  \* history: pairs of bookings, the second decided before the first committed
  dropped    \* history: the workflow lost its executor in a way the code accepts

gatewayVars ==
  <<exec, db, late, memory, flow, events, outcome, rows, ended, raises, runs, overlaps, dropped>>

Calls == {"none", "command", "search", "book", "row", "unbook", "outcome", "begin",
          "condition", "advance", "complete", "fail", "cancel"}
\* A call is about to write, has committed, is done without writing, has failed as its
\* contract says, or raised.
Phases == {"queued", "decided", "inserting", "committed", "done", "failed", "raised"}
Writing == {"decided", "inserting"}
NoCall == [call |-> "none", phase |-> "done"]
Awaits(name) == [call |-> name, phase |-> "queued"]

\* "internal" is the internal_error of a handler that raised; "raised" is execute() itself.
Codes == {"ok", "error", "internal", "timeout", "cancelled", "raised"}
NoAnswer == [code |-> "none", of |-> "none"]
Answers == [code : Codes, of : Executions] \cup {NoAnswer}

Execution == [at     : {"idle", "resolve", "handle", "unwind", "record", "done"},
              tool   : Tools,
              id     : Ids \cup {"none"},
              step   : Steps \cup {0},         \* executor: the current step
              answer : Answers]

GatewayTypeOK ==
  /\ exec \in [Executions -> Execution]
  /\ db \in [Executions -> [call : Calls, phase : Phases]]
  /\ late \subseteq [call : Calls, phase : Phases, by : Executions]
  /\ memory \in [Ids -> Answers]
  /\ flow \in {"none", "running", "completed", "failed", "cancelled"}
  /\ events \in [Executions -> {"none", "scheduled", "cancelled"}]
  /\ outcome \in Executions \cup {"none"}
  /\ rows \subseteq Executions
  /\ ended \in BOOLEAN /\ dropped \in BOOLEAN
  /\ raises \in 0..MaxRaises
  /\ runs \in [Steps -> Nat]
  /\ overlaps \subseteq (Executions \X Executions)

Idle == [at |-> "idle", tool |-> "query", id |-> "none", step |-> 0, answer |-> NoAnswer]
Asks(tool, id) ==
  [at |-> "resolve", tool |-> tool, id |-> id, step |-> 0, answer |-> NoAnswer]

GatewayInit ==
  /\ exec = [e \in Executions |-> Idle]
  /\ db = [e \in Executions |-> NoCall]
  /\ late = {}
  /\ memory = [id \in Ids |-> NoAnswer]
  /\ flow = "none"
  /\ events = [e \in Executions |-> "none"]
  /\ outcome = "none"
  /\ rows = {}
  /\ ended = FALSE /\ dropped = FALSE
  /\ raises = 0
  /\ runs = [s \in Steps |-> 0]
  /\ overlaps = {}

\* What the database holds, and what only the call's own process does.
stored == <<flow, events, outcome, rows>>
history == <<runs, overlaps, dropped>>

-----------------------------------------------------------------------------
(* ToolGateway.execute                                                     *)

Request(e) ==
  /\ exec[e].at = "idle" /\ ~ ended
  /\ \E t \in Asked, c \in CallIds : exec' = [exec EXCEPT ![e] = Asks(t, c)]
  /\ UNCHANGED <<db, late, memory, stored, ended, raises, history>>

FirstCall(tool) ==
  Awaits(CASE tool = "control"   -> "command"
           [] tool = "query"     -> "search"
           [] tool = "follow_up" -> "book"
           [] tool = "workflow"  -> "begin"
           [] OTHER              -> tool)

Answer(e, code) == [code |-> code, of |-> e]
To(e, at, answer) == exec' = [exec EXCEPT ![e].at = at, ![e].answer = answer]

Remembered(e) == memory[exec[e].id] # NoAnswer

\* The service account is known: replay what the call_id was answered before.
Replay(e) ==
  /\ exec[e].at = "resolve" /\ Remembered(e)
  /\ To(e, "done", memory[exec[e].id])
  /\ UNCHANGED <<db, late, memory, stored, ended, raises, history>>

\* Unknown, not allowed, invalid or unauthorized.
Refuse(e) ==
  /\ exec[e].at = "resolve" /\ ~ Remembered(e)
  /\ To(e, "record", Answer(e, "error"))
  /\ UNCHANGED <<db, late, memory, stored, ended, raises, history>>

RunHandler(e) ==
  /\ exec[e].at = "resolve" /\ ~ Remembered(e)
  /\ exec' = [exec EXCEPT ![e].at = "handle"]
  /\ db' = [db EXCEPT ![e] = FirstCall(exec[e].tool)]
  /\ UNCHANGED <<late, memory, stored, ended, raises, history>>

\* Audit the outcome, then remember the result.
Remember(e) ==
  /\ exec[e].at = "record"
  /\ exec' = [exec EXCEPT ![e].at = "done"]
  /\ memory' = IF exec[e].answer.code = "cancelled" THEN memory
               ELSE [memory EXCEPT ![exec[e].id] = exec[e].answer]
  /\ UNCHANGED <<db, late, stored, ended, raises, history>>

\* A look-up or an audit fails: the exception leaves execute(), and nothing is remembered.
\* The engine is told internal_error; an executor that waits gets the exception.
ExecuteRaises(e) ==
  /\ exec[e].at \in {"resolve", "record"} /\ raises < MaxRaises
  /\ raises' = raises + 1
  /\ To(e, "done", Answer(e, "raised"))
  /\ UNCHANGED <<db, late, memory, stored, ended, history>>

-----------------------------------------------------------------------------
(* The database calls of handlers: calendars, follow-ups, workflow rows    *)

Scheduled == {f \in Executions : events[f] = "scheduled"}

\* The provider's command for the call: a TelephonyProviderError is a failure.
CommandEnds == {"done", "failed"}

\* A contact by its number, the free intervals of a calendar, passages of the documents.
SearchEnds == {"done", "failed"}

\* Mutation: no search for conflicts.
BookUnchecked == {"decided"}
\* create_event looks for a scheduled event that overlaps.
BookDecides == IF Scheduled = {} THEN {"decided"} ELSE {"failed"}

\* cancel_event: no such event, cancelled before, or scheduled.
UnbookDecides ==
  {"done", "failed"} \cup {phase \in {"decided"} : Scheduled # {}}

\* set_call_outcome inserts the row of the call, or updates the one it found.
OutcomeDecides == IF outcome = "none" THEN {"inserting"} ELSE {"decided"}

\* begin_execution finds the row the call has: running, or ended before.
BeginDecides == IF flow = "none" THEN {"decided"}
                ELSE IF flow = "running" THEN {"failed"} ELSE {"done"}

\* _require_running_row: a step is recorded, and an end, for a running execution only.
RecordDecides == IF flow = "running" THEN {"decided"} ELSE {"failed"}

\* cancel_execution leaves an execution that has ended as it is.
CancelDecides == IF flow = "running" THEN {"decided"} ELSE {"done"}

\* What a call may find when it reads.
Decides(name) ==
  CASE name = "command"   -> CommandEnds
    [] name = "search"    -> SearchEnds
    [] name = "book"      -> BookDecides
    [] name = "unbook"    -> UnbookDecides
    [] name = "outcome"   -> OutcomeDecides
    [] name = "row"       -> {"decided"}
    [] name = "begin"     -> BeginDecides
    [] name = "condition" -> {"done"}
    [] name = "cancel"    -> CancelDecides
    [] OTHER              -> RecordDecides

\* UNIQUE(call_session_id): a second begin raises WorkflowExecutionInProgressError.
\* Mutation: the table has no such constraint.
BeginsAnyway == TRUE
Begins == flow = "none"

WritesFlow(name) ==
  flow' = CASE name = "begin" /\ Begins -> "running"
            [] name = "complete"        -> "completed"
            [] name = "fail"            -> "failed"
            [] name = "cancel"          -> "cancelled"
            [] OTHER                    -> flow

\* An appointment that is cancelled already stays so.
WritesEvents(name, e) ==
  IF name = "unbook" /\ Scheduled # {}
    THEN \E f \in Scheduled : events' = [events EXCEPT ![f] = "cancelled"]
    ELSE events' = IF name = "book" THEN [events EXCEPT ![e] = "scheduled"] ELSE events

\* The write of call `name` of execution e; every other column is left as it is.
Writes(name, e) ==
  /\ WritesFlow(name) /\ WritesEvents(name, e)
  /\ rows' = IF name = "row" THEN rows \cup {e} ELSE rows
  /\ outcome' = IF name = "outcome" THEN e ELSE outcome

\* uq_call_outcomes_call_session: the second of two inserts raises IntegrityError.
Collides(phase) == phase = "inserting" /\ outcome # "none"

Booking == {f \in Executions : db[f] = [call |-> "book", phase |-> "decided"]}
             \cup {l.by : l \in {l \in late : l.call = "book" /\ l.phase = "decided"}}

NotesOverlap(e, name, phase) ==
  overlaps' = IF name = "book" /\ phase = "decided"
                THEN overlaps \cup (Booking \X {e}) ELSE overlaps

CallReads(e) ==
  /\ db[e].call # "none" /\ db[e].phase = "queued"
  /\ \E phase \in Decides(db[e].call) :
       /\ db' = [db EXCEPT ![e].phase = phase]
       /\ NotesOverlap(e, db[e].call, phase)
  /\ UNCHANGED <<exec, late, memory, stored, ended, raises, runs, dropped>>

\* create_follow_up books the appointment in a transaction of its own and goes on, in the
\* same call of the thread, to insert its row.
InsertsRow == [call |-> "row", phase |-> "decided"]
GoesOn(name, e) == name = "book" /\ exec[e].tool = "follow_up"

CallCommits(e) ==
  /\ db[e].call # "none" /\ db[e].phase \in Writing /\ ~ Collides(db[e].phase)
  /\ Writes(db[e].call, e)
  /\ db' = IF GoesOn(db[e].call, e) THEN [db EXCEPT ![e] = InsertsRow]
           ELSE [db EXCEPT ![e].phase =
                   IF db[e].call = "begin" /\ ~ Begins THEN "failed" ELSE "committed"]
  /\ UNCHANGED <<exec, late, memory, ended, raises, history>>

CallCollides(e) ==
  /\ db[e].call # "none" /\ Collides(db[e].phase)
  /\ db' = [db EXCEPT ![e].phase = "raised"]
  /\ UNCHANGED <<exec, late, memory, stored, ended, raises, history>>

\* The call raises where nothing is expected to: the transaction is rolled back, or it has
\* committed and its answer is lost.  Nobody then walks a workflow that was claimed so.
CallRaises(e) ==
  /\ db[e].call # "none"
  /\ db[e].phase \in {"queued"} \cup Writing
  /\ raises < MaxRaises
  /\ raises' = raises + 1
  /\ db' = [db EXCEPT ![e].phase = "raised"]
  /\ \/ UNCHANGED <<stored, dropped>>
     \/ /\ db[e].phase \in Writing /\ ~ Collides(db[e].phase)
        /\ db[e].call = "begin" => Begins
        /\ Writes(db[e].call, e)
        /\ dropped' = (dropped \/ db[e].call = "begin")
  /\ UNCHANGED <<exec, late, memory, ended, runs, overlaps>>

LateReads(l) ==
  /\ l \in late /\ l.phase = "queued"
  /\ \E phase \in Decides(l.call) :
       /\ late' = (late \ {l}) \cup
            {k \in {[l EXCEPT !.phase = phase]} : phase \in Writing}
       /\ NotesOverlap(l.by, l.call, phase)
  /\ UNCHANGED <<exec, db, memory, stored, ended, raises, runs, dropped>>

LateCommits(l) ==
  /\ l \in late /\ l.phase \in Writing
  /\ IF Collides(l.phase) THEN UNCHANGED stored ELSE Writes(l.call, l.by)
  /\ late' = (late \ {l}) \cup
       {[call |-> "row", phase |-> "decided", by |-> e] :
          e \in {e \in {l.by} : GoesOn(l.call, e)}}
  /\ UNCHANGED <<exec, db, memory, ended, raises, history>>

-----------------------------------------------------------------------------
(* Handlers                                                                *)

Succeeded(e) == db[e].phase \in {"committed", "done"}
Returned(e) == Succeeded(e) \/ db[e].phase \in {"failed", "raised"}

\* The handler has its value, failed with a ToolExecutionError, or raised anything else.
HowItEnds(e) == IF Succeeded(e) THEN "ok" ELSE IF db[e].phase = "raised" THEN "internal" ELSE "error"

HandlerEnds(e, code) ==
  /\ To(e, "record", Answer(e, code))
  /\ db' = [db EXCEPT ![e] = NoCall]
  /\ UNCHANGED <<late, memory, stored, ended, raises, runs, overlaps>>

SimpleHandlerReturns(e) ==
  /\ exec[e].at = "handle" /\ exec[e].tool # "workflow"
  /\ db[e].call # "none" /\ Returned(e)
  /\ HandlerEnds(e, HowItEnds(e))
  /\ UNCHANGED dropped

-----------------------------------------------------------------------------
(* run_workflow                                                            *)

Runs(e) == exec[e].at = "handle" /\ exec[e].tool = "workflow" /\ Returned(e)

\* Begin step s: evaluate, apply, end the workflow, or go through the gateway again.
Dispatch(e, s) ==
  /\ runs' = [runs EXCEPT ![s] = @ + 1]
  /\ db' = [db EXCEPT ![e] = CASE Kinds[s] = "end"       -> Awaits("complete")
                               [] Kinds[s] = "tool"      -> NoCall
                               [] Kinds[s] = "follow_up" -> Awaits("row")
                               [] OTHER                  -> Awaits(Kinds[s])]
  /\ LET moved == [exec EXCEPT ![e].step = s]
     IN IF Kinds[s] = "tool"
          THEN \E t \in Asked \ {"workflow"} :
                 exec' = [moved EXCEPT ![Nested[s]] = Asks(t, Nested[s])]
          ELSE exec' = moved
  /\ UNCHANGED <<late, memory, stored, ended, raises, overlaps, dropped>>

\* The claim is this execution's: walk from the entry step.
BeginExecution(e) ==
  /\ Runs(e) /\ db[e].call = "begin" /\ db[e].phase = "committed"
  /\ Dispatch(e, 1)

\* The workflow has ended before, or is running: report it.
ReportExecution(e) ==
  /\ Runs(e) /\ db[e].call = "begin" /\ db[e].phase # "committed"
  /\ HandlerEnds(e, HowItEnds(e))
  /\ UNCHANGED dropped

Targets(s) == IF Kinds[s] = "condition" THEN {t \in Steps : t > s} ELSE {s + 1}

AdvanceTo(e) ==
  \E t \in Targets(exec[e].step) :
    /\ exec' = [exec EXCEPT ![e].step = t]
    /\ db' = [db EXCEPT ![e] = Awaits("advance")]
    /\ UNCHANGED <<late, memory, stored, ended, raises, history>>

\* A condition is evaluated, an outcome or a follow-up is written.
StepDone(e) ==
  Runs(e) /\ db[e].call \in {"condition", "outcome", "row"} /\ Succeeded(e) /\ AdvanceTo(e)

AtToolStep(e) == exec[e].at \in {"handle", "unwind"} /\ exec[e].step # 0
                   /\ Kinds[exec[e].step] = "tool" /\ db[e].call = "none"

\* The execution of the tool step is over, with this code.
NestedEnds(e, code) ==
  LET nested == exec[Nested[exec[e].step]]
  IN AtToolStep(e) /\ nested.at = "done" /\ nested.answer.code = code

\* A result: go on, or fail the workflow.
ToolStepDone(e) ==
  /\ exec[e].at = "handle"
  /\ \/ NestedEnds(e, "ok") /\ AdvanceTo(e)
     \/ /\ \E code \in Codes \ {"ok", "raised"} : NestedEnds(e, code)
        /\ db' = [db EXCEPT ![e] = Awaits("fail")]
        /\ UNCHANGED <<exec, late, memory, stored, ended, raises, history>>

NextStep(e) ==
  Runs(e) /\ db[e].call = "advance" /\ Succeeded(e) /\ Dispatch(e, exec[e].step)

\* Completed, failed, or found in conflict by record_step_advance: a value.  A conflict
\* of the last write is an exception, which the handler does not expect.
FlowEnds(e) ==
  /\ Runs(e)
  /\ \/ db[e].call \in {"complete", "fail"} /\ db[e].phase # "raised"
     \/ db[e].call = "advance" /\ db[e].phase = "failed"
  /\ HandlerEnds(e, IF Succeeded(e) \/ db[e].call = "advance" THEN "ok" ELSE "internal")
  /\ UNCHANGED dropped

\* Nothing catches an exception of a step, nor one that leaves the nested execute(), not
\* even in place of the CancelledError it was sent: the row is left running.
FlowRaises(e) ==
  /\ \/ Runs(e) /\ db[e].call # "begin" /\ db[e].phase = "raised"
     \/ NestedEnds(e, "raised")
  /\ HandlerEnds(e, "internal")
  /\ dropped' = TRUE

-----------------------------------------------------------------------------
(* Timeouts and cancellation                                               *)

Readers == {"none", "command", "search", "condition"}

\* The database call of e loses its awaiter.
Orphans(e) ==
  LET left == [call |-> db[e].call, phase |-> db[e].phase, by |-> e]
  IN /\ db' = [db EXCEPT ![e] = NoCall]
     /\ \/ left.phase \notin Writing /\ UNCHANGED late
        \/ left.call \notin Readers /\ left.phase \in {"queued"} \cup Writing
             /\ late' = late \cup {left}

\* The executor handles the cancellation once its execution has begun.
\* Mutation: it does not.
NeverUnwinds(e) == FALSE
Unwinds(e) == exec[e].tool = "workflow" /\ exec[e].step # 0

\* Mutation: a timeout is an error like any other.
TimedOutAsError == "error"
TimedOut == "timeout"

\* Stopped before it knows that the row is its own, the executor does not end it.
StopHandler(e, code) ==
  /\ Orphans(e)
  /\ dropped' = (dropped \/ db[e].call = "begin")
  /\ To(e, IF Unwinds(e) THEN "unwind" ELSE "record", Answer(e, code))

HandlerTimesOut(e) ==
  /\ exec[e].at = "handle"
  /\ StopHandler(e, TimedOut)
  /\ UNCHANGED <<memory, stored, ended, raises, runs, overlaps>>

\* The pumps were cancelled, or the executor of the nested execution was.
IsCancelled(e) ==
  /\ exec[e].answer.code # "cancelled"
  /\ \/ e \in Requests /\ ended
     \/ \E p \in Requests :
          exec[p].at = "unwind" /\ AtToolStep(p) /\ Nested[exec[p].step] = e

CancelHandler(e) ==
  /\ IsCancelled(e) /\ exec[e].at = "handle"
  /\ StopHandler(e, "cancelled")
  /\ UNCHANGED <<memory, stored, ended, raises, runs, overlaps>>

\* Cancelled while it looks up or records: nothing is remembered.
CancelExecute(e) ==
  /\ IsCancelled(e) /\ exec[e].at \in {"resolve", "record"}
  /\ To(e, "done", Answer(e, "cancelled"))
  /\ UNCHANGED <<db, late, memory, stored, ended, raises, history>>

\* The nested execution, if there is one, is over and has raised nothing.
NestedIsOut(e) == AtToolStep(e) => \E code \in Codes \ {"raised"} : NestedEnds(e, code)

\* Cancelled a second time, while it records the first.
CancelUnwinding(e) ==
  /\ IsCancelled(e) /\ exec[e].at = "unwind" /\ NestedIsOut(e)
  /\ Orphans(e)
  /\ To(e, "record", Answer(e, "cancelled"))
  /\ dropped' = TRUE
  /\ UNCHANGED <<memory, stored, ended, raises, runs, overlaps>>

\* Once a nested execution is out of the way, record the cancellation in the row.
CancelFlow(e) ==
  /\ exec[e].at = "unwind" /\ db[e].call = "none" /\ NestedIsOut(e)
  /\ db' = [db EXCEPT ![e] = Awaits("cancel")]
  /\ UNCHANGED <<exec, late, memory, stored, ended, raises, history>>

Unwound(e) ==
  /\ exec[e].at = "unwind" /\ db[e].call = "cancel" /\ Returned(e)
  /\ exec' = [exec EXCEPT ![e].at = "record"]
  /\ db' = [db EXCEPT ![e] = NoCall]
  /\ dropped' = (dropped \/ ~ Succeeded(e))
  /\ UNCHANGED <<late, memory, stored, ended, raises, runs, overlaps>>

\* The call ends and its pumps are cancelled.
EndCall ==
  /\ ~ ended /\ ended' = TRUE
  /\ UNCHANGED <<exec, db, late, memory, stored, raises, history>>

\* The pumps have waited for every execution; run_call_task forgets the call.
ForgetCall ==
  /\ ended /\ \A e \in Executions : exec[e].at \in {"idle", "done"}
  /\ memory' = [id \in Ids |-> NoAnswer]
  /\ UNCHANGED <<exec, db, late, stored, ended, raises, history>>

-----------------------------------------------------------------------------
ExecuteStep(e) == Replay(e) \/ Refuse(e) \/ RunHandler(e) \/ Remember(e) \/ ExecuteRaises(e)
CallStep(e) == CallReads(e) \/ CallCommits(e) \/ CallCollides(e) \/ CallRaises(e)
FlowStep(e) == \/ BeginExecution(e) \/ ReportExecution(e) \/ StepDone(e) \/ ToolStepDone(e)
               \/ NextStep(e) \/ FlowEnds(e) \/ FlowRaises(e)
StopStep(e) == \/ HandlerTimesOut(e) \/ CancelHandler(e) \/ CancelExecute(e)
               \/ CancelUnwinding(e) \/ CancelFlow(e) \/ Unwound(e)

GatewayNext ==
  \/ \E e \in Requests : Request(e)
  \/ \E e \in Executions : \/ ExecuteStep(e) \/ CallStep(e) \/ SimpleHandlerReturns(e)
                           \/ FlowStep(e) \/ StopStep(e)
  \/ \E l \in late : LateReads(l) \/ LateCommits(l)
  \/ EndCall \/ ForgetCall

GatewaySpec == GatewayInit /\ [][GatewayNext]_gatewayVars

-----------------------------------------------------------------------------
(* Properties                                                              *)

\* What the engine is told of a tool is what the database holds: "ok" means the
\* appointment, the follow-up or the outcome is there, and the error of a handler's contract
\* that it is not and never will be.  A timeout leaves it open, and so does internal_error,
\* which the engine is told as well when the answer to a commit is lost, or when the audit
\* of a success raises.
AnswerTellsEffect ==
  \A e \in Executions :
    LET answer == exec[e].answer
    IN exec[e].at = "done" /\ answer.of = e =>
         /\ answer.code = "ok" =>
              /\ exec[e].tool \in {"book", "follow_up"} => events[e] # "none"
              /\ exec[e].tool = "follow_up" => e \in rows
              /\ exec[e].tool = "outcome" => outcome # "none"
         /\ answer.code = "error" =>
              /\ exec[e].tool \in {"book", "follow_up"} => events[e] = "none"
              /\ exec[e].tool = "follow_up" => e \notin rows
              /\ exec[e].tool = "outcome" => outcome # e

\* Two appointments stand for the same interval only if each booking had looked for
\* conflicts before the other was committed: the check takes no lock, and no constraint
\* of the table repeats it.
DoubleBookingIsExcused ==
  \A e, f \in Scheduled : e # f => <<e, f>> \in overlaps \/ <<f, e>> \in overlaps

\* workflows/service.py, begin_execution: whatever the model asks for, repeats, or lets
\* time out, a step of the workflow is begun at most once in a call.
StepRunsOnce == \A s \in Steps : runs[s] <= 1

\* A workflow row is running without an executor only if its executor was stopped while it
\* waited for the claim, or got no answer to it; if an exception left it, its own or that of
\* a nested execute(); or if a second cancellation cut short the recording of the first.
AbandonedFlowIsExcused ==
  flow = "running" =>
    dropped \/ \E e \in Requests : /\ exec[e].at \in {"handle", "unwind"}
                                   /\ exec[e].tool = "workflow"
                                   /\ exec[e].step # 0 \/ db[e].call = "begin"

\* contracts.py: "call_id correlates the later ToolResult": a result is of the tool that
\* was asked for.
OwnAnswer ==
  \A e \in Requests :
    exec[e].at = "done" => exec[exec[e].answer.of].tool = exec[e].tool
=============================================================================
