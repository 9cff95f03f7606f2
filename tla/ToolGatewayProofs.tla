-------------------------- MODULE ToolGatewayProofs ---------------------------
(* What ToolGateway promises, for any requests and any workflow.           *)
EXTENDS ToolGateway, TLAPS

-----------------------------------------------------------------------------
(* The inductive invariant                                                 *)

\* The database calls the handler of a tool awaits, and a step of the workflow.
StepCalls(kind) ==
  {"advance"} \cup
    (IF kind = "tool" THEN {"none", "fail"}
     ELSE IF kind = "follow_up" THEN {"row"}
     ELSE IF kind = "end" THEN {"complete"} ELSE {kind})
HandlerCalls(tool, step) ==
  IF tool = "control" THEN {"command"}
  ELSE IF tool = "query" THEN {"search"}
  ELSE IF tool = "follow_up" THEN {"book", "row"}
  ELSE IF tool # "workflow" THEN {tool}
  ELSE IF step = 0 THEN {"begin"} ELSE StepCalls(Kinds[step])

\* Where an execution stands tells what it awaits.
Shaped(e) ==
  /\ exec[e].at \in {"idle", "resolve", "record", "done"} => db[e] = NoCall
  /\ exec[e].at = "handle" => db[e].call \in HandlerCalls(exec[e].tool, exec[e].step)
  /\ exec[e].at = "unwind" => db[e].call \in {"none", "cancel"} /\ exec[e].step # 0
  /\ exec[e].at \in {"idle", "resolve"} => exec[e].step = 0
  /\ exec[e].at # "idle" => exec[e].id \in Ids
  /\ exec[e].step # 0 => exec[e].tool = "workflow"
  /\ exec[e].tool = "workflow" => e \in Requests
  /\ db[e].call = "none" => db[e] = NoCall

\* What a call may have found or done, and what follows of the workflow's row.
Over == {"completed", "failed", "cancelled"}
Settled(e) ==
  /\ db[e].call \in {"book", "row", "outcome", "advance", "complete", "fail"}
       => db[e].phase # "done"
  /\ db[e].call \in {"condition", "row", "outcome"} => db[e].phase # "failed"
  /\ db[e].call \in {"advance", "complete", "fail", "cancel"} /\ db[e].phase = "failed"
       => flow \in Over
  /\ db[e].call \in {"complete", "fail", "cancel"} /\ db[e].phase = "committed"
       => flow \in Over
  /\ db[e].call = "cancel" /\ db[e].phase = "done" => flow \in Over
  /\ db[e].phase = "inserting" => db[e].call = "outcome"

\* The execution whose begin made the row: the executor of the workflow.
Owns(e) ==
  /\ exec[e].at \in {"handle", "unwind"} /\ exec[e].tool = "workflow"
  /\ exec[e].step # 0 \/ db[e] = [call |-> "begin", phase |-> "committed"]

\* There is one executor, ever, and it has begun no step behind the one it is at.
ClaimInv ==
  /\ \A e \in Executions : Owns(e) => flow # "none"
  /\ \A e, f \in Executions : Owns(e) /\ Owns(f) => e = f
  /\ \A s \in Steps : runs[s] <= 1 /\ (runs[s] # 0 => flow # "none")
  /\ \A e \in Executions : Owns(e) /\ exec[e].at = "handle" =>
       \A s \in Steps :
         s > exec[e].step \/ (s = exec[e].step /\ db[e].call = "advance") => runs[s] = 0
  /\ \A s \in ToolSteps : runs[s] = 0 => exec[Nested[s]].at = "idle"

\* A running row has its executor, or lost it in a way the code accepts.
OwnerInv ==
  /\ flow = "running" => dropped \/ \E e \in Executions : Owns(e)
  /\ \A l \in late : l.call = "begin" => dropped

\* Two bookings that are decided or made: one had looked before the other was made.
BookInv ==
  /\ \A e, f \in Scheduled \cup Booking :
       e # f => <<e, f>> \in overlaps \/ <<f, e>> \in overlaps
  /\ \A l \in late : l.phase = "inserting" => l.call = "outcome"

\* Nothing of an execution is in the database.
Bare(e) == events[e] = "none" /\ e \notin rows /\ outcome # e

\* What its call, unless it raised, and then its answer tell of an execution's effects.
CallTells(e) ==
  db[e].phase # "raised" =>
  /\ db[e].call = "book" => /\ (events[e] = "none") <=> (db[e].phase # "committed")
                            /\ e \notin rows
                            /\ exec[e].tool = "follow_up" => db[e].phase # "committed"
  /\ db[e].call = "row" => /\ events[e] # "none"
                           /\ (e \notin rows) <=> (db[e].phase # "committed")
  /\ db[e].call = "outcome" => IF db[e].phase = "committed" THEN outcome # "none"
                               ELSE outcome # e
AnswerTells(e, code) ==
  /\ code = "ok" =>
       /\ exec[e].tool \in {"book", "follow_up"} => events[e] # "none"
       /\ exec[e].tool = "follow_up" => e \in rows
       /\ exec[e].tool = "outcome" => outcome # "none"
  /\ code = "error" =>
       /\ exec[e].tool \in {"book", "follow_up"} => events[e] = "none"
       /\ exec[e].tool = "follow_up" => e \notin rows
       /\ exec[e].tool = "outcome" => outcome # e

Unsettled == {"internal", "timeout", "cancelled", "raised"}

Told(e) ==
  /\ exec[e].at \in {"idle", "resolve"} => Bare(e)
  /\ exec[e].at = "handle" /\ exec[e].tool # "workflow" => CallTells(e)
  /\ exec[e].at = "unwind" => exec[e].answer.code \in Unsettled
  /\ exec[e].at \in {"unwind", "record"} => exec[e].answer.of = e
  /\ exec[e].at \in {"record", "done"} /\ exec[e].answer.of = e
       => AnswerTells(e, exec[e].answer.code)

\* A call that outlived its execution: nobody is told what becomes of it.
LateTold(l) ==
  /\ exec[l.by].at \in {"unwind", "record", "done"}
  /\ exec[l.by].answer.of = l.by /\ exec[l.by].answer.code \in Unsettled

\* What is remembered, an execution was told.
Recalled(id) == memory[id] # NoAnswer => exec[memory[id].of].at = "done"

EffectInv ==
  /\ \A e \in Executions : Told(e)
  /\ \A l \in late : LateTold(l)
  /\ \A id \in Ids : Recalled(id)

GatewayInv ==
  /\ GatewayTypeOK
  /\ \A e \in Executions : Shaped(e) /\ Settled(e)
  /\ ClaimInv
  /\ OwnerInv
  /\ BookInv
  /\ EffectInv

-----------------------------------------------------------------------------
(* The operators of the model                                              *)

LEMMA Nesting ==
  /\ StepExecutions \subseteq Executions
  /\ \A s \in ToolSteps : s \in Steps /\ Kinds[s] = "tool" /\ Nested[s] \in StepExecutions
  /\ \A s, t \in ToolSteps : Nested[s] = Nested[t] => s = t
  /\ \A e \in StepExecutions : e \notin Requests /\ e \in Ids
  /\ \A s \in Steps : Kinds[s] = "tool" => s \in ToolSteps
  BY GatewayAssumption DEF StepExecutions, Executions, ToolSteps, Ids

LEMMA StepsAreNumbers ==
  /\ Steps \subseteq Nat /\ 0 \notin Steps /\ 1 \in Steps
  /\ \A s \in Steps : Kinds[s] \in StepKinds
  /\ \A s \in Steps : Kinds[s] # "end" => s + 1 \in Steps
  <1>1. Len(Kinds) \in Nat \ {0} /\ Kinds \in [1..Len(Kinds) -> StepKinds]
    BY GatewayAssumption
  <1>2. \A s \in Steps : Kinds[s] # "end" => s # Len(Kinds)
    BY GatewayAssumption DEF Steps
  <1> DEFINE last == Len(Kinds)
  <1>3. last \in Nat \ {0} /\ Steps = 1..last /\ \A s \in Steps : Kinds[s] \in StepKinds
    BY <1>1 DEF Steps
  <1>4. \A s \in Steps : Kinds[s] # "end" => s # last
    BY <1>2
  <1> HIDE DEF last
  <1> QED
    BY <1>3, <1>4

LEMMA TargetsAreSteps ==
  ASSUME NEW s \in Steps, Kinds[s] # "end", NEW t \in Targets(s)
  PROVE  t \in Steps /\ t > s
  BY StepsAreNumbers DEF Targets

LEMMA CallNames ==
  /\ \A tool \in Tools : FirstCall(tool) \in [call : Calls, phase : {"queued"}]
                        /\ FirstCall(tool).call \in HandlerCalls(tool, 0)
  /\ \A name \in Calls : Awaits(name) \in [call : Calls, phase : Phases]
  /\ NoCall \in [call : Calls, phase : Phases]
  BY DEF FirstCall, Awaits, Calls, Phases, NoCall, Tools, HandlerCalls

LEMMA DecidesPhases ==
  ASSUME NEW name \in Calls, NEW phase \in Decides(name)
  PROVE  /\ phase \in Phases \ {"queued", "committed", "raised"}
         /\ name \in {"book", "row", "outcome", "advance", "complete", "fail"} => phase # "done"
         /\ name \in {"condition", "row", "outcome"} => phase # "failed"
         /\ name \in {"advance", "complete", "fail"} /\ phase = "failed" => flow # "running"
         /\ name = "cancel" => phase \in {"decided", "done"}
         /\ name = "cancel" /\ phase = "done" => flow # "running"
         /\ name = "book" /\ phase = "decided" => Scheduled = {}
         /\ phase = "inserting" => name = "outcome"
  BY DEF Decides, Calls, Phases, CommandEnds, SearchEnds, BookDecides, UnbookDecides,
         OutcomeDecides, BeginDecides, RecordDecides, CancelDecides

-----------------------------------------------------------------------------
(* What a step does to the execution it is a step of                       *)

\* Execution e is now at `at`, with the tool, call_id, step and answer given.
Becomes(e, at, tool, id, step, answer) ==
  /\ exec' \in [Executions -> Execution]
  /\ exec'[e].at = at /\ exec'[e].tool = tool /\ exec'[e].id = id
  /\ exec'[e].step = step /\ exec'[e].answer = answer
  /\ \A f \in Executions : f # e => exec'[f] = exec[f]

\* It awaits the call `call`, which is at `phase`.
Waits(e, call, phase) ==
  /\ db' \in [Executions -> [call : Calls, phase : Phases]]
  /\ db'[e].call = call /\ db'[e].phase = phase
  /\ \A f \in Executions : f # e => db'[f] = db[f]

LEMMA ExecutionFields ==
  ASSUME GatewayTypeOK, NEW e \in Executions
  PROVE  /\ exec[e] \in Execution
         /\ exec[e].at \in {"idle", "resolve", "handle", "unwind", "record", "done"}
         /\ exec[e].tool \in Tools /\ exec[e].id \in Ids \cup {"none"}
         /\ exec[e].step \in Steps \cup {0} /\ exec[e].answer \in Answers
         /\ db[e] \in [call : Calls, phase : Phases]
         /\ db[e].call \in Calls /\ db[e].phase \in Phases
         /\ db[e] = [call |-> db[e].call, phase |-> db[e].phase]
  BY DEF GatewayTypeOK, Execution

LEMMA AnswerChanges ==
  ASSUME NEW x \in Execution, NEW answer \in Answers
  PROVE  [x EXCEPT !.answer = answer] \in Execution
  BY DEF Execution

LEMMA ToBecomes ==
  ASSUME GatewayTypeOK, NEW e \in Executions, NEW answer \in Answers,
         NEW at \in {"idle", "resolve", "handle", "unwind", "record", "done"},
         To(e, at, answer)
  PROVE  Becomes(e, at, exec[e].tool, exec[e].id, exec[e].step, answer)
  <1> DEFINE moved == [exec EXCEPT ![e].at = at]
  <1>1. moved \in [Executions -> Execution] /\ moved[e] = [exec[e] EXCEPT !.at = at]
        /\ \A f \in Executions : f # e => moved[f] = exec[f]
    BY ExecutionFields DEF GatewayTypeOK, Execution
  <1>2. exec' = [moved EXCEPT ![e].answer = answer]
    BY DEF To
  <1> HIDE DEF moved
  <1>3. exec' \in [Executions -> Execution] /\ exec'[e] = [moved[e] EXCEPT !.answer = answer]
        /\ \A f \in Executions : f # e => exec'[f] = moved[f]
    <2>0. moved[e] \in Execution
      BY <1>1
    <2>1. [moved[e] EXCEPT !.answer = answer] \in Execution
      BY <2>0, AnswerChanges
    <2> QED
      BY <1>1, <1>2, <2>1
  <1>4. exec'[e] = [[exec[e] EXCEPT !.at = at] EXCEPT !.answer = answer]
    BY <1>1, <1>3
  <1> QED
    BY <1>1, <1>3, <1>4, ExecutionFields DEF Becomes, Execution

LEMMA AtBecomes ==
  ASSUME GatewayTypeOK, NEW e \in Executions,
         NEW at \in {"idle", "resolve", "handle", "unwind", "record", "done"},
         exec' = [exec EXCEPT ![e].at = at]
  PROVE  Becomes(e, at, exec[e].tool, exec[e].id, exec[e].step, exec[e].answer)
  BY ExecutionFields DEF Becomes, GatewayTypeOK, Execution

LEMMA StepBecomes ==
  ASSUME GatewayTypeOK, NEW e \in Executions, NEW s \in Steps,
         exec' = [exec EXCEPT ![e].step = s]
  PROVE  Becomes(e, exec[e].at, exec[e].tool, exec[e].id, s, exec[e].answer)
  BY ExecutionFields DEF Becomes, GatewayTypeOK, Execution

LEMMA AskedBecomes ==
  ASSUME GatewayTypeOK, NEW e \in Executions, NEW tool \in Tools, NEW id \in Ids,
         exec' = [exec EXCEPT ![e] = Asks(tool, id)]
  PROVE  Becomes(e, "resolve", tool, id, 0, NoAnswer)
  <1>1. Asks(tool, id) \in Execution
    BY DEF Asks, Execution, Answers
  <1> QED
    BY <1>1 DEF Becomes, GatewayTypeOK, Asks

LEMMA CallWaits ==
  ASSUME GatewayTypeOK, NEW e \in Executions, NEW call \in Calls, NEW phase \in Phases,
         db' = [db EXCEPT ![e] = [call |-> call, phase |-> phase]]
  PROVE  Waits(e, call, phase)
  BY DEF Waits, GatewayTypeOK

LEMMA PhaseWaits ==
  ASSUME GatewayTypeOK, NEW e \in Executions, NEW phase \in Phases,
         db' = [db EXCEPT ![e].phase = phase]
  PROVE  Waits(e, db[e].call, phase)
  BY ExecutionFields DEF Waits, GatewayTypeOK

LEMMA RequestFacts ==
  ASSUME GatewayTypeOK, NEW e \in Requests, Request(e)
  PROVE  /\ e \in Executions /\ exec[e].at = "idle"
         /\ \E t \in Tools, c \in Ids : Becomes(e, "resolve", t, c, 0, NoAnswer)
  BY AskedBecomes, GatewayAssumption DEF Request, Executions, Ids

LEMMA AnswerTypes ==
  /\ NoAnswer \in Answers
  /\ \A e \in Executions, code \in Codes : Answer(e, code) \in Answers \ {NoAnswer}
  /\ \A answer \in Answers \ {NoAnswer} : answer.of \in Executions /\ answer.code \in Codes
  BY DEF Answers, NoAnswer, Answer, Codes

\* Steps of execute that touch no database call.
LEMMA ExecuteFacts ==
  ASSUME GatewayTypeOK, \A f \in Executions : Shaped(f), NEW e \in Executions
  PROVE  /\ Replay(e) => /\ exec[e].at = "resolve" /\ memory[exec[e].id] \in Answers \ {NoAnswer}
                          /\ Becomes(e, "done", exec[e].tool, exec[e].id, exec[e].step,
                                     memory[exec[e].id])
         /\ Refuse(e) => Becomes(e, "record", exec[e].tool, exec[e].id, exec[e].step,
                                 Answer(e, "error"))
         /\ Remember(e) => Becomes(e, "done", exec[e].tool, exec[e].id, exec[e].step,
                                   exec[e].answer)
         /\ ExecuteRaises(e) => Becomes(e, "done", exec[e].tool, exec[e].id, exec[e].step,
                                      Answer(e, "raised"))
         /\ CancelExecute(e) => Becomes(e, "done", exec[e].tool, exec[e].id, exec[e].step,
                                        Answer(e, "cancelled"))
  <1>1. \A code \in {"error", "raised", "cancelled"} : Answer(e, code) \in Answers
    BY DEF Answer, Answers, Codes
  <1>2. ASSUME Replay(e)
        PROVE  exec[e].at = "resolve" /\ memory[exec[e].id] \in Answers \ {NoAnswer}
    BY <1>2 DEF Replay, Remembered, Shaped, GatewayTypeOK
  <1> QED
    BY <1>1, <1>2, ToBecomes, AtBecomes
       DEF Replay, Refuse, Remember, ExecuteRaises, CancelExecute

LEMMA RunHandlerFacts ==
  ASSUME GatewayTypeOK, NEW e \in Executions, RunHandler(e)
  PROVE  /\ Becomes(e, "handle", exec[e].tool, exec[e].id, exec[e].step, exec[e].answer)
         /\ Waits(e, FirstCall(exec[e].tool).call, "queued")
  <1>1. FirstCall(exec[e].tool) = [call |-> FirstCall(exec[e].tool).call, phase |-> "queued"]
        /\ FirstCall(exec[e].tool).call \in Calls /\ "queued" \in Phases
    BY ExecutionFields, CallNames DEF Phases
  <1> QED
    BY <1>1, AtBecomes, CallWaits DEF RunHandler

LEMMA CallReadsFacts ==
  ASSUME GatewayTypeOK, NEW e \in Executions, CallReads(e)
  PROVE  \E phase \in Decides(db[e].call) :
           /\ phase \in Phases
           /\ Waits(e, db[e].call, phase)
           /\ NotesOverlap(e, db[e].call, phase)
  BY PhaseWaits, DecidesPhases, ExecutionFields DEF CallReads

\* A booking of a follow-up goes on to its row; any other call is over.
LEMMA CallCommitsFacts ==
  ASSUME GatewayTypeOK, NEW e \in Executions, CallCommits(e)
  PROVE  /\ GoesOn(db[e].call, e) => Waits(e, "row", "decided")
         /\ ~ GoesOn(db[e].call, e) =>
              Waits(e, db[e].call, IF db[e].call = "begin" /\ ~ Begins THEN "failed"
                                   ELSE "committed")
  BY PhaseWaits, CallWaits DEF CallCommits, InsertsRow, Phases, Calls

LEMMA CallFailsFacts ==
  ASSUME GatewayTypeOK, NEW e \in Executions, CallCollides(e) \/ CallRaises(e)
  PROVE  Waits(e, db[e].call, "raised")
  BY PhaseWaits DEF CallCollides, CallRaises, Phases

LEMMA HandlerEndsFacts ==
  ASSUME GatewayTypeOK, NEW e \in Executions, NEW code \in Codes, HandlerEnds(e, code)
  PROVE  /\ Becomes(e, "record", exec[e].tool, exec[e].id, exec[e].step, Answer(e, code))
         /\ Waits(e, "none", "done")
  <1>1. Answer(e, code) \in Answers
    BY DEF Answer, Answers
  <1> QED
    BY <1>1, ToBecomes, CallWaits DEF HandlerEnds, NoCall, Calls, Phases

LEMMA AwaitsFacts ==
  ASSUME GatewayTypeOK, NEW e \in Executions, NEW name \in Calls,
         db' = [db EXCEPT ![e] = Awaits(name)]
  PROVE  Waits(e, name, "queued")
  BY CallWaits DEF Awaits, Phases

LEMMA AdvanceFacts ==
  ASSUME GatewayTypeOK, NEW e \in Executions, exec[e].step \in Steps,
         Kinds[exec[e].step] # "end", AdvanceTo(e)
  PROVE  /\ Waits(e, "advance", "queued")
         /\ \E t \in Steps :
              /\ t > exec[e].step
              /\ Becomes(e, exec[e].at, exec[e].tool, exec[e].id, t, exec[e].answer)
  <1>1. PICK t \in Targets(exec[e].step) :
          /\ exec' = [exec EXCEPT ![e].step = t]
          /\ db' = [db EXCEPT ![e] = Awaits("advance")]
    BY DEF AdvanceTo
  <1>2. t \in Steps /\ t > exec[e].step
    BY TargetsAreSteps
  <1> QED
    BY <1>1, <1>2, StepBecomes, AwaitsFacts DEF Calls

\* Execution e goes on to step s, and asks for the execution of a tool step.
Walks(e, s) ==
  /\ exec' \in [Executions -> Execution]
  /\ exec'[e].at = exec[e].at /\ exec'[e].tool = exec[e].tool /\ exec'[e].id = exec[e].id
  /\ exec'[e].step = s /\ exec'[e].answer = exec[e].answer
  /\ Kinds[s] = "tool" =>
       /\ exec'[Nested[s]].at = "resolve" /\ exec'[Nested[s]].tool \in Tools \ {"workflow"}
       /\ exec'[Nested[s]].id = Nested[s] /\ exec'[Nested[s]].step = 0
  /\ \A f \in Executions : f # e /\ ~ (Kinds[s] = "tool" /\ f = Nested[s]) => exec'[f] = exec[f]

LEMMA DispatchFacts ==
  ASSUME GatewayTypeOK, NEW e \in Requests, NEW s \in Steps, Dispatch(e, s)
  PROVE  /\ Walks(e, s)
         /\ \E name \in StepCalls(Kinds[s]) \ {"advance"}, phase \in {"queued", "done"} :
              Waits(e, name, phase) /\ ((phase = "done") <=> (name = "none"))
         /\ runs' \in [Steps -> Nat]
         /\ runs'[s] = runs[s] + 1 /\ \A t \in Steps : t # s => runs'[t] = runs[t]
  <1>1. e \in Executions
    BY DEF Executions
  <1> DEFINE moved == [exec EXCEPT ![e].step = s]
  <1>2. /\ moved \in [Executions -> Execution]
        /\ moved[e].at = exec[e].at /\ moved[e].tool = exec[e].tool /\ moved[e].id = exec[e].id
        /\ moved[e].step = s /\ moved[e].answer = exec[e].answer
        /\ \A f \in Executions : f # e => moved[f] = exec[f]
    BY <1>1, ExecutionFields DEF GatewayTypeOK, Execution
  <1>3. IF Kinds[s] = "tool"
          THEN \E t \in Asked \ {"workflow"} :
                 exec' = [moved EXCEPT ![Nested[s]] = Asks(t, Nested[s])]
          ELSE exec' = moved
    BY DEF Dispatch
  <1> HIDE DEF moved
  <1>4. Walks(e, s)
    <2>1. CASE Kinds[s] # "tool"
      BY <2>1, <1>2, <1>3 DEF Walks
    <2>2. CASE Kinds[s] = "tool"
      <3>1. PICK t \in Asked \ {"workflow"} :
              exec' = [moved EXCEPT ![Nested[s]] = Asks(t, Nested[s])]
        BY <2>2, <1>3
      <3>2. Nested[s] \in Executions /\ Nested[s] \in Ids /\ Nested[s] # e
        BY <2>2, Nesting
      <3>3. t \in Tools \ {"workflow"} /\ Asks(t, Nested[s]) \in Execution
        BY <3>2, GatewayAssumption DEF Asks, Execution, Answers
      <3> QED
        BY <3>1, <3>2, <3>3, <1>1, <1>2, <2>2 DEF Walks, Asks
    <2> QED
      BY <2>1, <2>2
  <1>5. PICK value \in {Awaits("complete"), NoCall, Awaits("row"), Awaits(Kinds[s])} :
          /\ db' = [db EXCEPT ![e] = value]
          /\ value = IF Kinds[s] = "end" THEN Awaits("complete")
                     ELSE IF Kinds[s] = "tool" THEN NoCall
                     ELSE IF Kinds[s] = "follow_up" THEN Awaits("row") ELSE Awaits(Kinds[s])
    BY DEF Dispatch
  <1>6. \E name \in StepCalls(Kinds[s]) \ {"advance"}, phase \in {"queued", "done"} :
          /\ value = [call |-> name, phase |-> phase]
          /\ (phase = "done") <=> (name = "none")
          /\ name \in Calls /\ phase \in Phases
    BY <1>5, StepsAreNumbers DEF Awaits, NoCall, StepCalls, Calls, Phases, StepKinds
  <1>7. /\ runs' \in [Steps -> Nat]
        /\ runs'[s] = runs[s] + 1 /\ \A t \in Steps : t # s => runs'[t] = runs[t]
    BY DEF Dispatch, GatewayTypeOK
  <1> QED
    BY <1>1, <1>4, <1>5, <1>6, <1>7, CallWaits

LEMMA OrphansFacts ==
  ASSUME GatewayTypeOK, NEW e \in Executions, Orphans(e)
  PROVE  /\ Waits(e, "none", "done")
         /\ \/ db[e].phase \notin Writing /\ late' = late
            \/ /\ db[e].call \notin Readers /\ db[e].phase \in {"queued"} \cup Writing
               /\ late' = late \cup {[call |-> db[e].call, phase |-> db[e].phase, by |-> e]}
  BY CallWaits DEF Orphans, NoCall, Calls, Phases

LEMMA StopFacts ==
  ASSUME GatewayTypeOK, NEW e \in Executions, NEW code \in {"timeout", "cancelled"},
         StopHandler(e, code)
  PROVE  /\ Becomes(e, IF Unwinds(e) THEN "unwind" ELSE "record",
                     exec[e].tool, exec[e].id, exec[e].step, Answer(e, code))
         /\ Orphans(e) /\ dropped' = (dropped \/ db[e].call = "begin")
  <1>1. Answer(e, code) \in Answers
    BY DEF Answer, Answers, Codes
  <1> QED
    BY <1>1, ToBecomes DEF StopHandler

LEMMA CancelUnwindingFacts ==
  ASSUME GatewayTypeOK, NEW e \in Executions, CancelUnwinding(e)
  PROVE  Becomes(e, "record", exec[e].tool, exec[e].id, exec[e].step, Answer(e, "cancelled"))
  <1>1. Answer(e, "cancelled") \in Answers
    BY DEF Answer, Answers, Codes
  <1> QED
    BY <1>1, ToBecomes DEF CancelUnwinding

LEMMA UnwoundFacts ==
  ASSUME GatewayTypeOK, NEW e \in Executions, Unwound(e)
  PROVE  /\ Becomes(e, "record", exec[e].tool, exec[e].id, exec[e].step, exec[e].answer)
         /\ Waits(e, "none", "done")
  BY AtBecomes, CallWaits DEF Unwound, NoCall, Calls, Phases

\* What a write does to the row of the workflow.
LEMMA FlowMoves ==
  ASSUME GatewayTypeOK, NEW name \in Calls, WritesFlow(name)
  PROVE  /\ flow' \in {"none", "running", "completed", "failed", "cancelled"}
         /\ flow # "none" => flow' # "none"
         /\ flow \in Over => flow' \in Over
         /\ flow' = "running" /\ flow # "running" => name = "begin" /\ Begins
         /\ name = "begin" /\ Begins => flow = "none" /\ flow' = "running"
         /\ name \in {"complete", "fail", "cancel"} => flow' \in Over
         /\ name \notin {"begin", "complete", "fail", "cancel"} => flow' = flow
  BY DEF WritesFlow, Begins, Over, GatewayTypeOK

\* And to the appointments.
LEMMA EventsMove ==
  ASSUME GatewayTypeOK, NEW name \in Calls, NEW e \in Executions, WritesEvents(name, e)
  PROVE  /\ events' \in [Executions -> {"none", "scheduled", "cancelled"}]
         /\ \A f \in Executions : f # e \/ name # "book" =>
              /\ (events'[f] = "none") <=> (events[f] = "none")
              /\ events'[f] = "scheduled" => events[f] = "scheduled"
         /\ name = "book" => events'[e] = "scheduled"
  <1>1. CASE name = "unbook" /\ Scheduled # {}
    BY <1>1 DEF WritesEvents, Scheduled, GatewayTypeOK
  <1>2. CASE ~ (name = "unbook" /\ Scheduled # {})
    BY <1>2 DEF WritesEvents, GatewayTypeOK
  <1> QED
    BY <1>1, <1>2

LEMMA LateFields ==
  ASSUME GatewayTypeOK, NEW l \in late
  PROVE  /\ l.call \in Calls /\ l.phase \in Phases /\ l.by \in Executions
         /\ l = [call |-> l.call, phase |-> l.phase, by |-> l.by]
  BY DEF GatewayTypeOK

LEMMA LateReadsFacts ==
  ASSUME GatewayTypeOK, NEW l \in late, LateReads(l)
  PROVE  \E phase \in Decides(l.call) :
           /\ phase \in Phases
           /\ late' \subseteq late \cup {[call |-> l.call, phase |-> phase, by |-> l.by]}
           /\ NotesOverlap(l.by, l.call, phase)
  <1>1. PICK phase \in Decides(l.call) :
          /\ late' = (late \ {l}) \cup {k \in {[l EXCEPT !.phase = phase]} : phase \in Writing}
          /\ NotesOverlap(l.by, l.call, phase)
    BY DEF LateReads
  <1>2. phase \in Phases /\ [l EXCEPT !.phase = phase]
                              = [call |-> l.call, phase |-> phase, by |-> l.by]
    BY LateFields, DecidesPhases
  <1> QED
    BY <1>1, <1>2

LEMMA LateCommitsFacts ==
  ASSUME NEW l \in late, LateCommits(l)
  PROVE  \A k \in late' : k \in late \/ k = [call |-> "row", phase |-> "decided", by |-> l.by]
  BY DEF LateCommits

\* How a handler ends is a code.
LEMMA HandlersEndInCodes ==
  ASSUME NEW e \in Executions,
         \/ SimpleHandlerReturns(e) \/ ReportExecution(e) \/ FlowEnds(e) \/ FlowRaises(e)
  PROVE  \E code \in Codes : HandlerEnds(e, code)
  <1>1. HowItEnds(e) \in Codes /\ {"ok", "internal"} \subseteq Codes
    BY DEF HowItEnds, Codes
  <1> QED
    BY <1>1 DEF SimpleHandlerReturns, ReportExecution, FlowEnds, FlowRaises

-----------------------------------------------------------------------------
(* Type correctness                                                        *)

LEMMA NotesOverlapType ==
  ASSUME GatewayTypeOK, NEW e \in Executions, NEW name, NEW phase, NotesOverlap(e, name, phase)
  PROVE  overlaps' \subseteq (Executions \X Executions)
  <1>1. Booking \subseteq Executions
    BY LateFields DEF Booking
  <1> QED
    BY <1>1 DEF NotesOverlap, GatewayTypeOK

LEMMA WritesType ==
  ASSUME GatewayTypeOK, NEW e \in Executions, NEW name \in Calls, Writes(name, e)
  PROVE  /\ flow' \in {"none", "running", "completed", "failed", "cancelled"}
         /\ events' \in [Executions -> {"none", "scheduled", "cancelled"}]
         /\ outcome' \in Executions \cup {"none"}
         /\ rows' \subseteq Executions
  BY FlowMoves, EventsMove DEF Writes, GatewayTypeOK

\* An execution of a workflow that runs is at a step, or claims the row.
LEMMA RunsFacts ==
  ASSUME GatewayTypeOK, NEW e \in Executions, Shaped(e), Runs(e)
  PROVE  /\ e \in Requests /\ exec[e].at = "handle" /\ exec[e].tool = "workflow"
         /\ db[e].call = "begin" => exec[e].step = 0
         /\ db[e].call # "begin" => /\ exec[e].step \in Steps
                                    /\ db[e].call \in StepCalls(Kinds[exec[e].step])
         /\ db[e].call \in {"condition", "outcome", "row"} => Kinds[exec[e].step] # "end"
  <1>1. exec[e].at = "handle" /\ exec[e].tool = "workflow" /\ e \in Requests
        /\ db[e].call \in HandlerCalls("workflow", exec[e].step)
        /\ exec[e].step \in Steps \cup {0}
    BY ExecutionFields DEF Runs, Shaped
  <1>2. CASE exec[e].step = 0
    BY <1>1, <1>2 DEF HandlerCalls
  <1>3. CASE exec[e].step \in Steps
    BY <1>1, <1>3, StepsAreNumbers DEF HandlerCalls, StepCalls, StepKinds
  <1> QED
    BY <1>1, <1>2, <1>3

LEMMA ToolStepFacts ==
  ASSUME GatewayTypeOK, NEW e \in Executions, AtToolStep(e)
  PROVE  exec[e].step \in ToolSteps /\ Kinds[exec[e].step] = "tool"
  BY ExecutionFields DEF AtToolStep, ToolSteps

LEMMA ToolStepDoneFacts ==
  ASSUME NEW e \in Executions, ToolStepDone(e)
  PROVE  /\ exec[e].at = "handle" /\ AtToolStep(e)
         /\ \/ AdvanceTo(e)
            \/ /\ db' = [db EXCEPT ![e] = Awaits("fail")]
               /\ UNCHANGED <<exec, late, memory, stored, ended, raises, history>>
  BY DEF ToolStepDone, NestedEnds

\* Where an executor can be left by an exception.
LEMMA FlowRaisesFacts ==
  ASSUME NEW e \in Executions, Shaped(e), FlowRaises(e)
  PROVE  /\ exec[e].at \in {"handle", "unwind"} /\ exec[e].tool = "workflow"
         /\ HandlerEnds(e, "internal") /\ dropped'
  BY DEF FlowRaises, NestedEnds, AtToolStep, Runs, Shaped

LEMMA TypesAreKept ==
  ASSUME GatewayTypeOK, \A f \in Executions : Shaped(f), GatewayNext
  PROVE  GatewayTypeOK'
  <1> USE DEF stored, history
  <1>0. raises < MaxRaises => raises + 1 \in 0..MaxRaises
    BY GatewayAssumption DEF GatewayTypeOK
  <1>1. ASSUME NEW e \in Requests, Request(e) PROVE GatewayTypeOK'
    BY <1>1, RequestFacts DEF Request, Becomes, GatewayTypeOK
  <1>2. ASSUME NEW e \in Executions, Replay(e) \/ Refuse(e) \/ ExecuteRaises(e) \/ CancelExecute(e)
        PROVE  GatewayTypeOK'
    BY <1>0, <1>2, ExecuteFacts
       DEF Replay, Refuse, ExecuteRaises, CancelExecute, Becomes, GatewayTypeOK
  <1>3. ASSUME NEW e \in Executions, Remember(e) PROVE GatewayTypeOK'
    <2>1. memory' \in [Ids -> Answers]
      BY <1>3, ExecutionFields DEF Remember, GatewayTypeOK
    <2> QED
      BY <1>3, <2>1, ExecuteFacts DEF Remember, Becomes, GatewayTypeOK
  <1>4. ASSUME NEW e \in Executions, RunHandler(e) PROVE GatewayTypeOK'
    BY <1>4, RunHandlerFacts DEF RunHandler, Becomes, Waits, GatewayTypeOK
  <1>5. ASSUME NEW e \in Executions, CallReads(e) PROVE GatewayTypeOK'
    BY <1>5, CallReadsFacts, NotesOverlapType DEF CallReads, Waits, GatewayTypeOK
  <1>6. ASSUME NEW e \in Executions, CallCommits(e) PROVE GatewayTypeOK'
    BY <1>6, CallCommitsFacts, WritesType, ExecutionFields
       DEF CallCommits, Waits, GatewayTypeOK
  <1>7. ASSUME NEW e \in Executions, CallCollides(e) \/ CallRaises(e) PROVE GatewayTypeOK'
    <2>1. db' \in [Executions -> [call : Calls, phase : Phases]]
      BY <1>7, CallFailsFacts DEF Waits
    <2>2. /\ flow' \in {"none", "running", "completed", "failed", "cancelled"}
          /\ events' \in [Executions -> {"none", "scheduled", "cancelled"}]
          /\ outcome' \in Executions \cup {"none"}
          /\ rows' \subseteq Executions
      BY <1>7, WritesType, ExecutionFields DEF CallCollides, CallRaises, GatewayTypeOK
    <2>3. raises' \in 0..MaxRaises /\ dropped' \in BOOLEAN
      BY <1>0, <1>7 DEF CallCollides, CallRaises, GatewayTypeOK
    <2> QED
      BY <1>7, <2>1, <2>2, <2>3 DEF CallCollides, CallRaises, GatewayTypeOK
  <1>8. ASSUME NEW e \in Executions, NEW code \in Codes, HandlerEnds(e, code),
               dropped' \in BOOLEAN
        PROVE  GatewayTypeOK'
    BY <1>8, HandlerEndsFacts DEF HandlerEnds, Becomes, Waits, GatewayTypeOK
  <1>9. ASSUME NEW e \in Executions, SimpleHandlerReturns(e) \/ ReportExecution(e)
                                      \/ FlowEnds(e) \/ FlowRaises(e)
        PROVE  GatewayTypeOK'
    <2>1. (\E code \in Codes : HandlerEnds(e, code)) /\ dropped' \in BOOLEAN
      BY <1>9, HandlersEndInCodes
         DEF SimpleHandlerReturns, ReportExecution, FlowEnds, FlowRaises, GatewayTypeOK
    <2> QED
      BY <2>1, <1>8
  <1>10. ASSUME NEW e \in Executions, CancelFlow(e) PROVE GatewayTypeOK'
    BY <1>10, AwaitsFacts DEF CancelFlow, Calls, Waits, GatewayTypeOK
  <1>11. ASSUME NEW e \in Executions, exec[e].step \in Steps, Kinds[exec[e].step] # "end",
                AdvanceTo(e)
         PROVE  GatewayTypeOK'
    BY <1>11, AdvanceFacts DEF AdvanceTo, Becomes, Waits, GatewayTypeOK
  <1>12. ASSUME NEW e \in Executions, StepDone(e) PROVE GatewayTypeOK'
    BY <1>12, <1>11, RunsFacts DEF StepDone
  <1>13. ASSUME NEW e \in Executions, ToolStepDone(e) PROVE GatewayTypeOK'
    <2>1. exec[e].step \in Steps /\ Kinds[exec[e].step] # "end"
      BY <1>13, ToolStepDoneFacts, ToolStepFacts DEF ToolSteps
    <2>2. CASE AdvanceTo(e)
      BY <2>1, <2>2, <1>11
    <2>3. CASE ~ AdvanceTo(e)
      BY <2>3, <1>13, ToolStepDoneFacts, AwaitsFacts DEF Calls, Waits, GatewayTypeOK
    <2> QED
      BY <2>2, <2>3
  <1>14. ASSUME NEW e \in Executions, BeginExecution(e) \/ NextStep(e) PROVE GatewayTypeOK'
    <2>1. e \in Requests /\ \E s \in Steps : Dispatch(e, s)
      BY <1>14, RunsFacts, StepsAreNumbers DEF BeginExecution, NextStep
    <2>2. PICK s \in Steps : Dispatch(e, s)
      BY <2>1
    <2>3. /\ exec' \in [Executions -> Execution]
          /\ db' \in [Executions -> [call : Calls, phase : Phases]]
          /\ runs' \in [Steps -> Nat]
      BY <2>1, <2>2, DispatchFacts DEF Walks, Waits
    <2>4. UNCHANGED <<late, memory, stored, ended, raises, overlaps, dropped>>
      BY <2>2 DEF Dispatch
    <2> QED
      BY <2>3, <2>4 DEF GatewayTypeOK
  <1>15. ASSUME NEW e \in Executions, Orphans(e)
         PROVE  late' \subseteq [call : Calls, phase : Phases, by : Executions]
    BY <1>15, OrphansFacts, ExecutionFields DEF GatewayTypeOK
  <1>16. ASSUME NEW e \in Executions, HandlerTimesOut(e) \/ CancelHandler(e)
         PROVE  GatewayTypeOK'
    <2>1. \E code \in {"timeout", "cancelled"} : StopHandler(e, code)
      BY <1>16 DEF HandlerTimesOut, CancelHandler, TimedOut
    <2>2. /\ exec' \in [Executions -> Execution] /\ Orphans(e)
          /\ dropped' \in BOOLEAN
      BY <2>1, StopFacts DEF Becomes, GatewayTypeOK
    <2>3. /\ db' \in [Executions -> [call : Calls, phase : Phases]]
          /\ late' \subseteq [call : Calls, phase : Phases, by : Executions]
      BY <1>15, <2>2, OrphansFacts DEF Waits
    <2> QED
      BY <1>16, <2>2, <2>3 DEF HandlerTimesOut, CancelHandler, GatewayTypeOK
  <1>17. ASSUME NEW e \in Executions, CancelUnwinding(e) PROVE GatewayTypeOK'
    <2>1. exec' \in [Executions -> Execution] /\ Orphans(e)
      BY <1>17, CancelUnwindingFacts DEF CancelUnwinding, Becomes
    <2>2. /\ db' \in [Executions -> [call : Calls, phase : Phases]]
          /\ late' \subseteq [call : Calls, phase : Phases, by : Executions]
      BY <1>15, <2>1, OrphansFacts DEF Waits
    <2> QED
      BY <1>17, <2>1, <2>2 DEF CancelUnwinding, GatewayTypeOK
  <1>18. ASSUME NEW e \in Executions, Unwound(e) PROVE GatewayTypeOK'
    BY <1>18, UnwoundFacts DEF Unwound, Becomes, Waits, GatewayTypeOK
  <1>19. ASSUME NEW l \in late, LateReads(l) PROVE GatewayTypeOK'
    <2>1. PICK phase \in Decides(l.call) :
            /\ phase \in Phases
            /\ late' \subseteq late \cup {[call |-> l.call, phase |-> phase, by |-> l.by]}
            /\ NotesOverlap(l.by, l.call, phase)
      BY <1>19, LateReadsFacts
    <2>2. l.call \in Calls /\ l.by \in Executions
      BY LateFields
    <2>3. overlaps' \subseteq (Executions \X Executions)
      BY <2>1, <2>2, NotesOverlapType
    <2>4. late' \subseteq [call : Calls, phase : Phases, by : Executions]
      BY <2>1, <2>2 DEF GatewayTypeOK
    <2> QED
      BY <1>19, <2>3, <2>4 DEF LateReads, GatewayTypeOK
  <1>20. ASSUME NEW l \in late, LateCommits(l) PROVE GatewayTypeOK'
    <2>1. l.call \in Calls /\ l.by \in Executions
      BY LateFields
    <2>2. late' \subseteq [call : Calls, phase : Phases, by : Executions]
      BY <1>20, <2>1, LateCommitsFacts DEF GatewayTypeOK, Calls, Phases
    <2> QED
      BY <1>20, <2>1, <2>2, WritesType DEF LateCommits, GatewayTypeOK
  <1>21. CASE EndCall \/ ForgetCall
    BY <1>21, AnswerTypes DEF EndCall, ForgetCall, GatewayTypeOK
  <1> QED
    BY <1>1, <1>2, <1>3, <1>4, <1>5, <1>6, <1>7, <1>9, <1>10, <1>12, <1>13, <1>14, <1>16,
       <1>17, <1>18, <1>19, <1>20, <1>21
       DEF GatewayNext, ExecuteStep, CallStep, FlowStep, StopStep

-----------------------------------------------------------------------------
(* What an execution awaits                                                *)

LEMMA WaitsForNothing ==
  ASSUME NEW e \in Executions, Waits(e, "none", "done")
  PROVE  db'[e] = NoCall
  BY DEF Waits, NoCall

\* Neither step s nor a later one has begun.
Untouched(s) ==
  /\ \A t \in Steps : t >= s => runs[t] = 0
  /\ \A t \in ToolSteps : t >= s => exec[Nested[t]].at = "idle"

\* A step that is dispatched was not begun before, and no later one was.
LEMMA DispatchIsFresh ==
  ASSUME GatewayInv, NEW e \in Executions, BeginExecution(e) \/ NextStep(e)
  PROVE  /\ e \in Requests /\ Owns(e) /\ exec[e].at = "handle" /\ exec[e].tool = "workflow"
         /\ \E s \in Steps : Dispatch(e, s) /\ Untouched(s)
  <1>1. GatewayTypeOK /\ Shaped(e) /\ Runs(e)
    BY DEF GatewayInv, BeginExecution, NextStep
  <1>2. CASE BeginExecution(e)
    <2>1. db[e].call = "begin" /\ db[e].phase = "committed" /\ exec[e].step = 0 /\ Dispatch(e, 1)
      BY <1>1, <1>2, RunsFacts DEF BeginExecution
    <2>2. Owns(e)
      BY <1>1, <2>1, RunsFacts, ExecutionFields DEF Owns
    <2>3. \A t \in Steps : runs[t] = 0
      BY <1>1, <2>1, <2>2, RunsFacts, StepsAreNumbers DEF GatewayInv, ClaimInv
    <2> QED
      BY <1>1, <2>1, <2>2, <2>3, RunsFacts, StepsAreNumbers
         DEF GatewayInv, ClaimInv, ToolSteps, Untouched
  <1>3. CASE NextStep(e)
    <2>1. db[e].call = "advance" /\ exec[e].step \in Steps /\ Dispatch(e, exec[e].step)
      BY <1>1, <1>3, RunsFacts DEF NextStep
    <2>2. Owns(e)
      BY <1>1, <2>1, RunsFacts, StepsAreNumbers DEF Owns
    <2>3. \A t \in Steps : t >= exec[e].step => runs[t] = 0
      <3>1. \A t \in Steps : t > exec[e].step \/ t = exec[e].step => runs[t] = 0
        BY <1>1, <2>1, <2>2, RunsFacts DEF GatewayInv, ClaimInv
      <3>2. exec[e].step \in Nat /\ \A t \in Steps : t \in Nat
        BY <2>1, StepsAreNumbers
      <3>3. \A t \in Steps : t >= exec[e].step => t > exec[e].step \/ t = exec[e].step
        BY <3>2
      <3> QED
        BY <3>1, <3>3
    <2> QED
      BY <1>1, <2>1, <2>2, <2>3, RunsFacts, StepsAreNumbers
         DEF GatewayInv, ClaimInv, ToolSteps, Untouched
  <1> QED
    BY <1>2, <1>3

LEMMA CallsOfSteps ==
  /\ \A s \in Steps : HandlerCalls("workflow", s) = StepCalls(Kinds[s])
  /\ \A kind : "advance" \in StepCalls(kind)
  BY StepsAreNumbers DEF HandlerCalls, StepCalls

LEMMA ShapesAreKept ==
  ASSUME GatewayInv, GatewayNext, NEW f \in Executions
  PROVE  Shaped(f)'
  <1> USE DEF stored, history
  <1>0. GatewayTypeOK /\ Shaped(f) /\ \A g \in Executions : Shaped(g)
    BY DEF GatewayInv
  <1>1. ASSUME NEW e \in Requests, Request(e) PROVE Shaped(f)'
    <2>1. PICK t \in Tools, c \in Ids : Becomes(e, "resolve", t, c, 0, NoAnswer)
      BY <1>0, <1>1, RequestFacts
    <2>2. e \in Executions /\ exec[e].at = "idle" /\ db' = db
      BY <1>0, <1>1, RequestFacts DEF Request
    <2> QED
      BY <1>0, <1>1, <2>1, <2>2 DEF Becomes, Shaped
  <1>2. ASSUME NEW e \in Executions,
               Replay(e) \/ Refuse(e) \/ Remember(e) \/ ExecuteRaises(e) \/ CancelExecute(e)
        PROVE  Shaped(f)'
    BY <1>0, <1>2, ExecuteFacts
       DEF Replay, Refuse, Remember, ExecuteRaises, CancelExecute, Becomes, Shaped
  <1>3. ASSUME NEW e \in Executions, RunHandler(e) PROVE Shaped(f)'
    <2>1. exec[e].step = 0 /\ FirstCall(exec[e].tool).call \in HandlerCalls(exec[e].tool, 0)
          /\ FirstCall(exec[e].tool).call # "none"
      BY <1>0, <1>3, ExecutionFields, CallNames DEF RunHandler, Shaped, FirstCall, Awaits, Tools
    <2>2. /\ Becomes(e, "handle", exec[e].tool, exec[e].id, 0, exec[e].answer)
          /\ Waits(e, FirstCall(exec[e].tool).call, "queued")
          /\ exec[e].at = "resolve"
      BY <1>0, <1>3, <2>1, RunHandlerFacts DEF RunHandler
    <2>3. CASE f = e
      BY <1>0, <2>1, <2>2, <2>3 DEF Becomes, Waits, Shaped
    <2>4. CASE f # e
      BY <1>0, <2>2, <2>4 DEF Becomes, Waits, Shaped
    <2> QED
      BY <2>3, <2>4
  <1>4. ASSUME NEW e \in Executions,
               CallReads(e) \/ CallCommits(e) \/ CallCollides(e) \/ CallRaises(e)
        PROVE  Shaped(f)'
    <2>1. \/ \E phase \in Phases : Waits(e, db[e].call, phase)
          \/ GoesOn(db[e].call, e) /\ Waits(e, "row", "decided")
      BY <1>0, <1>4, CallReadsFacts, CallCommitsFacts, CallFailsFacts DEF Phases
    <2>2. exec' = exec /\ db[e].call # "none"
      BY <1>4 DEF CallReads, CallCommits, CallCollides, CallRaises
    <2>3. exec[e].at \in {"handle", "unwind"}
      <3>1. Shaped(e) /\ NoCall.call = "none"
        BY <1>0 DEF NoCall
      <3> QED
        BY <1>0, <2>2, <3>1, ExecutionFields DEF Shaped
    <2>4. CASE \E phase \in Phases : Waits(e, db[e].call, phase)
      BY <1>0, <2>2, <2>3, <2>4 DEF Waits, Shaped
    <2>5. CASE GoesOn(db[e].call, e) /\ Waits(e, "row", "decided")
      <3>1. exec[e].at = "handle" /\ exec[e].tool = "follow_up"
        BY <1>0, <2>3, <2>5 DEF GoesOn, Shaped
      <3>2. "row" \in HandlerCalls("follow_up", exec[e].step)
        BY DEF HandlerCalls
      <3> QED
        BY <1>0, <2>2, <2>5, <3>1, <3>2 DEF Waits, Shaped
    <2> QED
      BY <2>1, <2>4, <2>5
  <1>5. ASSUME NEW e \in Executions, NEW code \in Codes, HandlerEnds(e, code),
               exec[e].at \in {"handle", "unwind"}
        PROVE  Shaped(f)'
    BY <1>0, <1>5, HandlerEndsFacts, WaitsForNothing DEF Becomes, Waits, Shaped
  <1>6. ASSUME NEW e \in Executions, SimpleHandlerReturns(e) \/ ReportExecution(e)
                                      \/ FlowEnds(e) \/ FlowRaises(e)
        PROVE  Shaped(f)'
    <2>1. (\E code \in Codes : HandlerEnds(e, code)) /\ exec[e].at \in {"handle", "unwind"}
      BY <1>0, <1>6, HandlersEndInCodes, FlowRaisesFacts
         DEF SimpleHandlerReturns, ReportExecution, FlowEnds, Runs
    <2> QED
      BY <2>1, <1>5
  <1>8. ASSUME NEW e \in Executions, CancelFlow(e) PROVE Shaped(f)'
    <2>1. Waits(e, "cancel", "queued") /\ exec' = exec /\ exec[e].at = "unwind"
      BY <1>0, <1>8, AwaitsFacts DEF CancelFlow, Calls
    <2> QED
      BY <1>0, <2>1 DEF Waits, Shaped
  <1>9. ASSUME NEW e \in Executions, exec[e].step \in Steps, Kinds[exec[e].step] # "end",
               exec[e].at = "handle", AdvanceTo(e)
        PROVE  Shaped(f)'
    <2>1. PICK t \in Steps : Becomes(e, "handle", exec[e].tool, exec[e].id, t, exec[e].answer)
      BY <1>0, <1>9, AdvanceFacts
    <2>2. Waits(e, "advance", "queued") /\ exec[e].tool = "workflow"
      BY <1>0, <1>9, AdvanceFacts, StepsAreNumbers DEF Shaped
    <2>3. "advance" \in HandlerCalls("workflow", t)
      BY CallsOfSteps
    <2> QED
      BY <1>0, <1>9, <2>1, <2>2, <2>3 DEF Becomes, Waits, Shaped
  <1>10. ASSUME NEW e \in Executions, StepDone(e) PROVE Shaped(f)'
    BY <1>0, <1>10, <1>9, RunsFacts DEF StepDone
  <1>11. ASSUME NEW e \in Executions, ToolStepDone(e) PROVE Shaped(f)'
    <2>1. exec[e].step \in Steps /\ Kinds[exec[e].step] = "tool" /\ exec[e].at = "handle"
      BY <1>0, <1>11, ToolStepDoneFacts, ToolStepFacts DEF ToolSteps
    <2>2. CASE AdvanceTo(e)
      BY <2>1, <2>2, <1>9
    <2>3. CASE ~ AdvanceTo(e)
      <3>1. Waits(e, "fail", "queued") /\ exec' = exec
        BY <1>0, <2>3, <1>11, ToolStepDoneFacts, AwaitsFacts DEF Calls
      <3>2. "fail" \in HandlerCalls("workflow", exec[e].step)
        BY <2>1, CallsOfSteps DEF StepCalls
      <3> QED
        BY <1>0, <2>1, <3>1, <3>2, StepsAreNumbers DEF Waits, Shaped
    <2> QED
      BY <2>2, <2>3
  <1>12. ASSUME NEW e \in Executions, BeginExecution(e) \/ NextStep(e) PROVE Shaped(f)'
    <2>1. PICK s \in Steps : Dispatch(e, s) /\ Untouched(s)
      BY <1>12, DispatchIsFresh
    <2>2. Walks(e, s) /\ e \in Requests /\ exec[e].at = "handle" /\ exec[e].tool = "workflow"
      BY <1>0, <1>12, <2>1, DispatchIsFresh, DispatchFacts
    <2>3. PICK name \in StepCalls(Kinds[s]) \ {"advance"}, phase \in {"queued", "done"} :
            Waits(e, name, phase) /\ ((phase = "done") <=> (name = "none"))
      BY <1>0, <2>1, <2>2, DispatchFacts
    <2>4. name \in HandlerCalls("workflow", s) /\ s # 0
      BY CallsOfSteps, StepsAreNumbers
    <2>5. CASE f = e
      BY <1>0, <2>2, <2>3, <2>4, <2>5, WaitsForNothing DEF Walks, Waits, Shaped
    <2>6. CASE f # e /\ Kinds[s] = "tool" /\ f = Nested[s]
      <3>1. exec[f].at = "idle" /\ f \in Ids
        BY <2>1, <2>6, Nesting, StepsAreNumbers DEF Untouched
      <3> QED
        BY <1>0, <2>2, <2>3, <2>6, <3>1 DEF Walks, Waits, Shaped
    <2>7. CASE f # e /\ ~ (Kinds[s] = "tool" /\ f = Nested[s])
      BY <1>0, <2>2, <2>3, <2>7 DEF Walks, Waits, Shaped
    <2> QED
      BY <2>5, <2>6, <2>7
  <1>13. ASSUME NEW e \in Executions, HandlerTimesOut(e) \/ CancelHandler(e) PROVE Shaped(f)'
    <2>1. (\E code \in {"timeout", "cancelled"} : StopHandler(e, code)) /\ exec[e].at = "handle"
      BY <1>13 DEF HandlerTimesOut, CancelHandler, TimedOut
    <2> QED
      BY <1>0, <2>1, StopFacts, OrphansFacts, WaitsForNothing
         DEF Becomes, Waits, Unwinds, Shaped
  <1>14. ASSUME NEW e \in Executions, CancelUnwinding(e) \/ Unwound(e) PROVE Shaped(f)'
    <2>1. Waits(e, "none", "done") /\ exec[e].at = "unwind"
          /\ \E answer \in Answers :
                Becomes(e, "record", exec[e].tool, exec[e].id, exec[e].step, answer)
      BY <1>0, <1>14, CancelUnwindingFacts, UnwoundFacts, OrphansFacts, AnswerTypes,
         ExecutionFields DEF CancelUnwinding, Unwound, Codes
    <2> QED
      BY <1>0, <2>1, WaitsForNothing DEF Becomes, Waits, Shaped
  <1>15. ASSUME NEW l \in late, LateReads(l) \/ LateCommits(l) PROVE Shaped(f)'
    BY <1>0, <1>15 DEF LateReads, LateCommits, Shaped
  <1>16. CASE EndCall \/ ForgetCall
    BY <1>0, <1>16 DEF EndCall, ForgetCall, Shaped
  <1> QED
    BY <1>1, <1>2, <1>3, <1>4, <1>6, <1>8, <1>10, <1>11, <1>12, <1>13, <1>14, <1>15, <1>16
       DEF GatewayNext, ExecuteStep, CallStep, FlowStep, StopStep

-----------------------------------------------------------------------------
(* What a call found of the workflow's row stays true                      *)

\* The row of the workflow is made once, and ends once.
LEMMA FlowStays ==
  ASSUME GatewayTypeOK, GatewayNext
  PROVE  /\ flow # "none" => flow' # "none"
         /\ flow \in Over => flow' \in Over
  <1> DEFINE Stays == (flow # "none" => flow' # "none") /\ (flow \in Over => flow' \in Over)
  <1>1. ASSUME NEW e \in Executions, CallCommits(e) PROVE Stays
    BY <1>1, ExecutionFields, FlowMoves DEF CallCommits, Writes
  <1>2. ASSUME NEW l \in late, LateCommits(l) PROVE Stays
    BY <1>2, LateFields, FlowMoves DEF LateCommits, Writes, stored
  <1>3. ASSUME flow' = flow PROVE Stays
    BY <1>3
  <1>4. ASSUME NEW e \in Executions, ExecuteStep(e) \/ SimpleHandlerReturns(e) PROVE Stays
    BY <1>3, <1>4 DEF ExecuteStep, Replay, Refuse, RunHandler, Remember,
                      ExecuteRaises, SimpleHandlerReturns, HandlerEnds, stored
  <1>5. ASSUME NEW e \in Executions, FlowStep(e) PROVE Stays
    BY <1>3, <1>5 DEF FlowStep, BeginExecution, ReportExecution, StepDone, ToolStepDone, NextStep,
                      FlowEnds, FlowRaises, HandlerEnds, AdvanceTo, Dispatch, stored
  <1>6. ASSUME NEW e \in Executions, StopStep(e) PROVE Stays
    BY <1>3, <1>6 DEF StopStep, HandlerTimesOut, CancelHandler, CancelExecute, CancelUnwinding,
                      CancelFlow, Unwound, stored
  <1>7. ASSUME NEW e \in Executions, CallReads(e) \/ CallCollides(e) \/ CallRaises(e) PROVE Stays
    BY <1>3, <1>7, ExecutionFields, FlowMoves DEF CallReads, CallCollides, CallRaises, Writes, stored
  <1>8. ASSUME NEW e \in Requests, Request(e) PROVE Stays
    BY <1>3, <1>8 DEF Request, stored
  <1>9. ASSUME NEW l \in late, LateReads(l) PROVE Stays
    BY <1>3, <1>9 DEF LateReads, stored
  <1>10. CASE EndCall \/ ForgetCall
    BY <1>3, <1>10 DEF EndCall, ForgetCall, stored
  <1> QED
    BY <1>1, <1>2, <1>4, <1>5, <1>6, <1>7, <1>8, <1>9, <1>10 DEF GatewayNext, CallStep

\* Whoever records a step or an end is the executor.
LEMMA RecordersOwn ==
  ASSUME GatewayInv, NEW e \in Executions,
         db[e].call \in {"advance", "complete", "fail", "cancel"}
  PROVE  Owns(e) /\ flow # "none"
  <1>1. Shaped(e) /\ GatewayTypeOK /\ (Owns(e) => flow # "none")
    BY DEF GatewayInv, ClaimInv
  <1>2. exec[e].at \in {"handle", "unwind"}
    <2>1. NoCall.call = "none"
      BY DEF NoCall
    <2> QED
      BY <1>1, <2>1, ExecutionFields DEF Shaped
  <1>3. CASE exec[e].at = "unwind"
    BY <1>1, <1>2, <1>3 DEF Shaped, Owns
  <1>4. CASE exec[e].at = "handle"
    <2>1. exec[e].tool = "workflow" /\ exec[e].step # 0
      BY <1>1, <1>4, ExecutionFields DEF Shaped, HandlerCalls, Tools
    <2> QED
      BY <1>1, <1>2, <2>1 DEF Owns
  <1> QED
    BY <1>2, <1>3, <1>4

\* A call that was just made, or is over, found nothing yet.
LEMMA SettledAnew ==
  ASSUME NEW e \in Executions, NEW f \in Executions, Settled(f),
         flow \in Over => flow' \in Over,
         NEW name, NEW phase \in {"queued", "raised", "done"}, Waits(e, name, phase),
         phase = "done" => name = "none"
  PROVE  Settled(f)'
  <1>1. CASE f = e
    BY <1>1 DEF Waits, Settled
  <1>2. CASE f # e
    BY <1>2 DEF Waits, Settled
  <1> QED
    BY <1>1, <1>2

LEMMA CallsStaySettled ==
  ASSUME GatewayInv, GatewayNext, NEW f \in Executions
  PROVE  Settled(f)'
  <1>0. GatewayTypeOK /\ Settled(f) /\ (flow \in Over => flow' \in Over)
        /\ \A g \in Executions : Shaped(g)
    BY FlowStays DEF GatewayInv
  <1>1. ASSUME db' = db PROVE Settled(f)'
    BY <1>0, <1>1 DEF Settled
  <1>2. ASSUME NEW e \in Executions, Waits(e, "none", "done") PROVE Settled(f)'
    BY <1>0, <1>2, SettledAnew
  <1>3. ASSUME NEW e \in Executions, NEW name, Waits(e, name, "queued") PROVE Settled(f)'
    BY <1>0, <1>3, SettledAnew
  <1>4. ASSUME NEW e \in Requests, Request(e) PROVE Settled(f)'
    BY <1>1, <1>4 DEF Request
  <1>5. ASSUME NEW e \in Executions,
               Replay(e) \/ Refuse(e) \/ Remember(e) \/ ExecuteRaises(e) \/ CancelExecute(e)
        PROVE  Settled(f)'
    BY <1>1, <1>5 DEF Replay, Refuse, Remember, ExecuteRaises, CancelExecute
  <1>6. ASSUME NEW e \in Executions, RunHandler(e) PROVE Settled(f)'
    BY <1>0, <1>3, <1>6, RunHandlerFacts
  <1>7. ASSUME NEW e \in Executions, CallReads(e) PROVE Settled(f)'
    <2>1. PICK phase \in Decides(db[e].call) : Waits(e, db[e].call, phase)
      BY <1>0, <1>7, CallReadsFacts
    <2>2. db[e].call \in Calls /\ flow' = flow
      BY <1>0, <1>7, ExecutionFields DEF CallReads, stored
    <2>3. CASE f = e
      <3>1. db[e].call \in {"advance", "complete", "fail", "cancel"} => flow # "none"
        BY RecordersOwn
      <3>2. flow \notin {"none", "running"} => flow \in Over
        BY <1>0 DEF GatewayTypeOK, Over
      <3> QED
        BY <2>1, <2>2, <2>3, <3>1, <3>2, DecidesPhases DEF Waits, Settled
    <2>4. CASE f # e
      BY <1>0, <2>1, <2>2, <2>4 DEF Waits, Settled
    <2> QED
      BY <2>3, <2>4
  <1>8. ASSUME NEW e \in Executions, CallCommits(e) PROVE Settled(f)'
    <2>1. /\ \/ Waits(e, db[e].call,
                      IF db[e].call = "begin" /\ ~ Begins THEN "failed" ELSE "committed")
             \/ Waits(e, "row", "decided")
          /\ db[e].call \in Calls /\ WritesFlow(db[e].call)
      BY <1>0, <1>8, CallCommitsFacts, ExecutionFields DEF CallCommits, Writes
    <2>2. db[e].call \in {"complete", "fail", "cancel"} => flow' \in Over
      BY <1>0, <2>1, FlowMoves
    <2>3. CASE f = e
      BY <2>1, <2>2, <2>3 DEF Waits, Settled
    <2>4. CASE f # e
      BY <1>0, <2>1, <2>4 DEF Waits, Settled
    <2> QED
      BY <2>3, <2>4
  <1>9. ASSUME NEW e \in Executions, CallCollides(e) \/ CallRaises(e) PROVE Settled(f)'
    BY <1>0, <1>9, CallFailsFacts, SettledAnew
  <1>10. ASSUME NEW e \in Executions, SimpleHandlerReturns(e) \/ ReportExecution(e)
                                       \/ FlowEnds(e) \/ FlowRaises(e)
         PROVE  Settled(f)'
    <2>1. \E code \in Codes : HandlerEnds(e, code)
      BY <1>10, HandlersEndInCodes
    <2> QED
      BY <1>0, <1>2, <2>1, HandlerEndsFacts
  <1>11. ASSUME NEW e \in Executions, CancelFlow(e) PROVE Settled(f)'
    BY <1>0, <1>3, <1>11, AwaitsFacts DEF CancelFlow, Calls
  <1>12. ASSUME NEW e \in Executions, StepDone(e) \/ ToolStepDone(e) PROVE Settled(f)'
    <2>1. (\E t \in Targets(exec[e].step) : db' = [db EXCEPT ![e] = Awaits("advance")])
          \/ db' = [db EXCEPT ![e] = Awaits("fail")]
      BY <1>12, ToolStepDoneFacts DEF StepDone, AdvanceTo
    <2> QED
      BY <1>0, <1>3, <2>1, AwaitsFacts DEF Calls
  <1>13. ASSUME NEW e \in Executions, BeginExecution(e) \/ NextStep(e) PROVE Settled(f)'
    <2>1. PICK s \in Steps : Dispatch(e, s) /\ e \in Requests
      BY <1>13, DispatchIsFresh
    <2>2. PICK name \in StepCalls(Kinds[s]) \ {"advance"}, phase \in {"queued", "done"} :
            Waits(e, name, phase) /\ ((phase = "done") <=> (name = "none"))
      BY <1>0, <2>1, DispatchFacts
    <2> QED
      BY <1>0, <2>2, SettledAnew
  <1>14. ASSUME NEW e \in Executions, HandlerTimesOut(e) \/ CancelHandler(e)
                                       \/ CancelUnwinding(e)
         PROVE  Settled(f)'
    <2>1. Orphans(e)
      BY <1>14 DEF HandlerTimesOut, CancelHandler, StopHandler, CancelUnwinding
    <2> QED
      BY <1>0, <1>2, <2>1, OrphansFacts
  <1>15. ASSUME NEW e \in Executions, Unwound(e) PROVE Settled(f)'
    BY <1>0, <1>2, <1>15, UnwoundFacts
  <1>16. ASSUME NEW l \in late, LateReads(l) \/ LateCommits(l) PROVE Settled(f)'
    BY <1>1, <1>16 DEF LateReads, LateCommits
  <1>17. CASE EndCall \/ ForgetCall
    BY <1>1, <1>17 DEF EndCall, ForgetCall
  <1> QED
    BY <1>4, <1>5, <1>6, <1>7, <1>8, <1>9, <1>10, <1>11, <1>12, <1>13, <1>14, <1>15, <1>16, <1>17
       DEF GatewayNext, ExecuteStep, CallStep, FlowStep, StopStep

-----------------------------------------------------------------------------
(* The workflow has one executor                                           *)

\* An execution that owns the workflow did so before, and has not gone back.
Follows(f) ==
  Owns(f)' =>
    /\ Owns(f)
    /\ exec'[f].at = "handle" =>
         /\ exec[f].at = "handle"
         /\ \/ exec'[f].step > exec[f].step
            \/ exec'[f].step = exec[f].step /\ (db'[f].call = "advance" => db[f].call = "advance")

\* One that did still does, unless the row has ended or the loss is accepted.
Keeps(f) == Owns(f) => Owns(f)' \/ dropped' \/ flow' # "running"

\* A step in which no execution becomes the executor, and the executor begins no step.
Quiet ==
  /\ runs' = runs
  /\ \A f \in Executions : Follows(f) /\ Keeps(f)
  /\ \A f \in StepExecutions : exec[f].at = "idle" => exec'[f].at = "idle"
  /\ dropped => dropped'
  /\ flow' = "running" => flow = "running" \/ dropped'
  /\ \A l \in late' : l.call = "begin" => dropped'

LEMMA QuietSteps ==
  ASSUME GatewayInv, GatewayNext, GatewayTypeOK', Quiet
  PROVE  ClaimInv' /\ OwnerInv'
  <1>1. (flow # "none" => flow' # "none") /\ GatewayTypeOK /\ ClaimInv /\ OwnerInv
    BY FlowStays DEF GatewayInv
  <1>2. \A f \in Executions : Owns(f)' => Owns(f) /\ flow' # "none"
    BY <1>1 DEF Quiet, Follows, ClaimInv
  <1>3. \A f, g \in Executions : Owns(f)' /\ Owns(g)' => f = g
    BY <1>1, <1>2 DEF ClaimInv
  <1>4. \A s \in Steps : runs'[s] <= 1 /\ (runs'[s] # 0 => flow' # "none")
    BY <1>1 DEF Quiet, ClaimInv
  <1>5. ASSUME NEW f \in Executions, Owns(f)', exec'[f].at = "handle", NEW s \in Steps,
               s > exec'[f].step \/ (s = exec'[f].step /\ db'[f].call = "advance")
        PROVE  runs'[s] = 0
    <2>1. /\ Owns(f) /\ exec[f].at = "handle" /\ runs' = runs
          /\ \/ exec'[f].step > exec[f].step
             \/ exec'[f].step = exec[f].step
                  /\ (db'[f].call = "advance" => db[f].call = "advance")
      BY <1>5 DEF Quiet, Follows
    <2>2. exec[f].step \in Nat /\ exec'[f].step \in Nat /\ s \in Nat
      <3>1. exec[f].step \in Steps \cup {0}
        BY <1>1 DEF GatewayTypeOK, Execution
      <3>2. exec'[f].step \in Steps \cup {0}
        BY DEF GatewayTypeOK, Execution
      <3>3. Steps \subseteq Nat /\ s \in Steps
        BY <1>5, StepsAreNumbers
      <3>4. Steps \cup {0} \subseteq Nat
        BY <3>3
      <3>5. s \in Nat
        BY <3>3
      <3>6. exec[f].step \in Nat
        BY <3>1, <3>4
      <3>7. exec'[f].step \in Nat
        BY <3>2, <3>4
      <3> QED
        BY <3>5, <3>6, <3>7
    <2>3. s > exec[f].step \/ (s = exec[f].step /\ db[f].call = "advance")
      BY <1>5, <2>1, <2>2
    <2> QED
      BY <1>1, <2>1, <2>3 DEF ClaimInv
  <1>6. \A s \in ToolSteps : runs'[s] = 0 => exec'[Nested[s]].at = "idle"
    BY <1>1, Nesting DEF Quiet, ClaimInv
  <1>7. ClaimInv'
    BY <1>2, <1>3, <1>4, <1>5, <1>6 DEF ClaimInv
  <1>8. OwnerInv'
    BY <1>1 DEF Quiet, Keeps, OwnerInv
  <1> QED
    BY <1>7, <1>8

LEMMA StepsAreQuiet ==
  ASSUME GatewayInv, GatewayNext, GatewayTypeOK'
  PROVE  \/ Quiet
         \/ \E e \in Executions : CallCommits(e) /\ db[e].call = "begin" /\ Begins
         \/ \E e \in Executions : BeginExecution(e) \/ NextStep(e)
  <1> USE DEF stored, history
  <1>0. /\ GatewayTypeOK /\ \A f \in Executions : Shaped(f) /\ Settled(f)
        /\ \A l \in late : l.call = "begin" => dropped
        /\ StepExecutions \subseteq Executions
        /\ \A f \in StepExecutions : f \notin Requests
    BY Nesting DEF GatewayInv, OwnerInv
  <1>1. ASSUME NEW e \in Executions, NEW at, NEW step, NEW answer,
               exec[e].at \in {"idle", "resolve", "record"},
               exec[e].at = "idle" => e \in Requests,
               at \in {"resolve", "record", "done"},
               \E tool, id : Becomes(e, at, tool, id, step, answer),
               UNCHANGED <<db, late, flow, runs, dropped>>
        PROVE  Quiet
    BY <1>0, <1>1 DEF Quiet, Becomes, Follows, Keeps, Owns
  <1>2. ASSUME NEW e \in Requests, Request(e) PROVE Quiet
    <2>1. e \in Executions /\ exec[e].at = "idle" /\ UNCHANGED <<db, late, flow, runs, dropped>>
      BY <1>2 DEF Executions, Request
    <2>2. \E tool, id : Becomes(e, "resolve", tool, id, 0, NoAnswer)
      BY <1>0, <1>2, RequestFacts
    <2> QED
      BY <1>1, <1>2, <2>1, <2>2
  <1>3. ASSUME NEW e \in Executions, Replay(e) PROVE Quiet
    <2>1. exec[e].at = "resolve" /\ UNCHANGED <<db, late, flow, runs, dropped>>
      BY <1>3 DEF Replay
    <2>2. \E tool, id : Becomes(e, "done", tool, id, exec[e].step, memory[exec[e].id])
      BY <1>0, <1>3, ExecuteFacts
    <2> QED
      BY <1>1, <2>1, <2>2
  <1>4. ASSUME NEW e \in Executions, Refuse(e) PROVE Quiet
    <2>1. exec[e].at = "resolve" /\ UNCHANGED <<db, late, flow, runs, dropped>>
      BY <1>4 DEF Refuse
    <2>2. \E tool, id : Becomes(e, "record", tool, id, exec[e].step, Answer(e, "error"))
      BY <1>0, <1>4, ExecuteFacts
    <2> QED
      BY <1>1, <2>1, <2>2
  <1>5. ASSUME NEW e \in Executions, Remember(e) \/ ExecuteRaises(e) \/ CancelExecute(e)
        PROVE  Quiet
    <2>1. exec[e].at \in {"resolve", "record"} /\ UNCHANGED <<db, late, flow, runs, dropped>>
      BY <1>5 DEF Remember, ExecuteRaises, CancelExecute
    <2>2. \E tool, id, answer : Becomes(e, "done", tool, id, exec[e].step, answer)
      BY <1>0, <1>5, ExecuteFacts
    <2> QED
      BY <1>1, <2>1, <2>2
  <1>6. ASSUME NEW e \in Executions, RunHandler(e) PROVE Quiet
    <2>1. exec[e].at = "resolve" /\ exec[e].step = 0 /\ UNCHANGED <<late, flow, runs, dropped>>
      BY <1>0, <1>6 DEF RunHandler, Shaped
    <2>2. exec'[e].step = 0 /\ db'[e].phase = "queued"
          /\ \A f \in Executions : f # e => exec'[f] = exec[f] /\ db'[f] = db[f]
      BY <1>0, <1>6, <2>1, RunHandlerFacts DEF Becomes, Waits
    <2> QED
      BY <1>0, <2>1, <2>2 DEF Quiet, Follows, Keeps, Owns
  <1>7. ASSUME NEW e \in Executions, NEW name, NEW phase \in Phases,
               Waits(e, name, phase), db[e].phase \notin {"committed"},
               phase = "committed" => name # "begin",
               name = "advance" => db[e].call = "advance",
               UNCHANGED <<exec, late, runs>>, dropped => dropped',
               flow' = "running" => flow = "running" \/ dropped'
        PROVE  Quiet
    <2>1. \A f \in Executions : f # e => db'[f] = db[f]
      BY <1>7 DEF Waits
    <2>2. (db'[e].call = "advance" => db[e].call = "advance")
          /\ db'[e] # [call |-> "begin", phase |-> "committed"]
          /\ db[e] # [call |-> "begin", phase |-> "committed"]
      BY <1>7 DEF Waits
    <2>3. \A f \in Executions : /\ Owns(f)' <=> Owns(f)
                                /\ db'[f].call = "advance" => db[f].call = "advance"
      BY <1>7, <2>1, <2>2 DEF Owns
    <2>4. \A f \in Executions : Follows(f) /\ Keeps(f)
      BY <1>7, <2>3 DEF Follows, Keeps
    <2> QED
      BY <1>0, <1>7, <2>4 DEF Quiet
  <1>8. ASSUME NEW e \in Executions, CallReads(e) PROVE Quiet
    <2>1. PICK phase \in Decides(db[e].call) : Waits(e, db[e].call, phase) /\ phase \in Phases
      BY <1>0, <1>8, CallReadsFacts
    <2>2. phase # "committed"
      <3>1. db[e].call \in Calls
        BY <1>0, ExecutionFields
      <3> QED
        BY <2>1, <3>1, DecidesPhases
    <2> QED
      BY <1>7, <1>8, <2>1, <2>2 DEF CallReads
  <1>9. ASSUME NEW e \in Executions, CallCommits(e), ~ (db[e].call = "begin" /\ Begins)
        PROVE  Quiet
    <2>1. flow' = "running" => flow = "running"
      BY <1>0, <1>9, FlowMoves, ExecutionFields DEF CallCommits, Writes
    <2>2. UNCHANGED <<exec, late, runs, dropped>> /\ db[e].phase \notin {"committed"}
      BY <1>9 DEF CallCommits, Writing
    <2>3. {"decided", "failed", "committed"} \subseteq Phases
      BY DEF Phases
    <2>4. CASE GoesOn(db[e].call, e)
      <3>1. Waits(e, "row", "decided")
        BY <1>0, <1>9, <2>4, CallCommitsFacts
      <3> QED
        BY <1>7, <2>1, <2>2, <2>3, <3>1
    <2>5. CASE ~ GoesOn(db[e].call, e)
      <3>1. PICK phase \in {"failed", "committed"} :
              Waits(e, db[e].call, phase) /\ (phase = "committed" => db[e].call # "begin")
        BY <1>0, <1>9, <2>5, CallCommitsFacts
      <3> QED
        BY <1>7, <2>1, <2>2, <2>3, <3>1
    <2> QED
      BY <2>4, <2>5
  <1>10. ASSUME NEW e \in Executions, CallCollides(e) \/ CallRaises(e) PROVE Quiet
    <2>1. Waits(e, db[e].call, "raised") /\ "raised" \in Phases
      BY <1>0, <1>10, CallFailsFacts DEF Phases
    <2>2. /\ dropped => dropped'
          /\ flow' = "running" => flow = "running" \/ dropped'
      <3>1. \/ UNCHANGED <<flow, dropped>>
            \/ WritesFlow(db[e].call) /\ dropped' = (dropped \/ db[e].call = "begin")
        BY <1>10 DEF CallCollides, CallRaises, Writes
      <3>2. CASE UNCHANGED <<flow, dropped>>
        BY <3>2
      <3>3. CASE WritesFlow(db[e].call) /\ dropped' = (dropped \/ db[e].call = "begin")
        <4>1. flow' = "running" => flow = "running" \/ db[e].call = "begin"
          BY <1>0, <3>3, FlowMoves, ExecutionFields
        <4> QED
          BY <3>3, <4>1
      <3> QED
        BY <3>1, <3>2, <3>3
    <2>3. UNCHANGED <<exec, late, runs>> /\ db[e].phase \notin {"committed"}
      BY <1>10 DEF CallCollides, CallRaises, Collides, Writing
    <2> QED
      BY <1>7, <2>1, <2>2, <2>3
  <1>11. ASSUME NEW e \in Executions, NEW code \in Codes, HandlerEnds(e, code),
                dropped => dropped',
                Owns(e) => dropped' \/ flow # "running", exec[e].at \in {"handle", "unwind"}
         PROVE  Quiet
    <2>1. UNCHANGED <<late, flow, runs>>
      BY <1>11 DEF HandlerEnds
    <2>2. exec'[e].at = "record"
          /\ \A f \in Executions : f # e => exec'[f] = exec[f] /\ db'[f] = db[f]
      BY <1>0, <1>11, HandlerEndsFacts DEF Becomes, Waits
    <2> QED
      BY <1>0, <1>11, <2>1, <2>2 DEF Quiet, Follows, Keeps, Owns
  <1>12. ASSUME NEW e \in Executions, SimpleHandlerReturns(e) PROVE Quiet
    <2>1. /\ exec[e].at = "handle" /\ ~ Owns(e) /\ dropped' = dropped
          /\ \E code \in Codes : HandlerEnds(e, code)
      BY <1>12, HandlersEndInCodes DEF SimpleHandlerReturns, Owns
    <2> QED
      BY <1>11, <2>1
  <1>13. ASSUME NEW e \in Executions, ReportExecution(e) PROVE Quiet
    <2>1. exec[e].at = "handle" /\ exec[e].step = 0 /\ db[e].phase # "committed"
      BY <1>0, <1>13, RunsFacts DEF ReportExecution
    <2>2. ~ Owns(e) /\ dropped' = dropped /\ \E code \in Codes : HandlerEnds(e, code)
      BY <1>13, <2>1, HandlersEndInCodes DEF ReportExecution, Owns
    <2> QED
      BY <1>11, <2>1, <2>2
  <1>14. ASSUME NEW e \in Executions, FlowEnds(e) PROVE Quiet
    <2>1. exec[e].at = "handle" /\ dropped' = dropped /\ \E code \in Codes : HandlerEnds(e, code)
      BY <1>14, HandlersEndInCodes DEF FlowEnds, Runs
    <2>2. flow \in Over
      BY <1>0, <1>14 DEF FlowEnds, Runs, Returned, Succeeded, Settled
    <2> QED
      BY <1>11, <2>1, <2>2 DEF Over
  <1>15. ASSUME NEW e \in Executions, FlowRaises(e) PROVE Quiet
    <2>1. /\ exec[e].at \in {"handle", "unwind"} /\ dropped'
          /\ \E code \in Codes : HandlerEnds(e, code)
      BY <1>0, <1>15, FlowRaisesFacts, HandlersEndInCodes
    <2> QED
      BY <1>11, <2>1
  <1>16. ASSUME NEW e \in Executions, NEW name, Waits(e, name, "queued"), name # "advance",
                UNCHANGED <<exec, late, flow, runs, dropped>>,
                ~ Owns(e) \/ exec[e].step # 0
         PROVE  Quiet
    <2>1. \A f \in Executions : f # e => db'[f] = db[f]
      BY <1>16 DEF Waits
    <2>2. db'[e].call # "advance" /\ db'[e] # [call |-> "begin", phase |-> "committed"]
      BY <1>16 DEF Waits
    <2>3. \A f \in Executions : Owns(f)' <=> Owns(f)
      BY <1>16, <2>1, <2>2 DEF Owns
    <2> QED
      BY <1>0, <1>16, <2>1, <2>2, <2>3 DEF Quiet, Follows, Keeps
  <1>17. ASSUME NEW e \in Executions, CancelFlow(e) PROVE Quiet
    <2>1. exec[e].step # 0 /\ Waits(e, "cancel", "queued")
      BY <1>0, <1>17, AwaitsFacts DEF CancelFlow, Shaped, Calls
    <2>2. UNCHANGED <<exec, late, flow, runs, dropped>>
      BY <1>17 DEF CancelFlow
    <2> QED
      BY <1>16, <2>1, <2>2
  <1>18. ASSUME NEW e \in Executions, exec[e].step \in Steps, Kinds[exec[e].step] # "end",
                exec[e].at = "handle", AdvanceTo(e)
         PROVE  Quiet
    <2>1. PICK t \in Steps :
            t > exec[e].step /\ Becomes(e, "handle", exec[e].tool, exec[e].id, t, exec[e].answer)
      BY <1>0, <1>18, AdvanceFacts
    <2>2. Waits(e, "advance", "queued") /\ exec[e].tool = "workflow" /\ exec[e].step # 0
      BY <1>0, <1>18, AdvanceFacts, StepsAreNumbers DEF Shaped
    <2>3. UNCHANGED <<late, flow, runs, dropped>>
      BY <1>18 DEF AdvanceTo
    <2>4. Owns(e) /\ exec'[e].at = "handle" /\ exec'[e].tool = "workflow" /\ exec'[e].step = t
          /\ t # 0
      BY <1>18, <2>1, <2>2, StepsAreNumbers DEF Becomes, Owns
    <2>5. \A f \in Executions : f # e => exec'[f] = exec[f] /\ db'[f] = db[f]
      BY <2>1, <2>2 DEF Becomes, Waits
    <2>6. \A f \in Executions : Follows(f) /\ Keeps(f)
      BY <1>18, <2>1, <2>4, <2>5 DEF Follows, Keeps, Owns
    <2> QED
      BY <1>0, <1>18, <2>3, <2>4, <2>5, <2>6 DEF Quiet
  <1>19. ASSUME NEW e \in Executions, StepDone(e) PROVE Quiet
    BY <1>0, <1>18, <1>19, RunsFacts DEF StepDone
  <1>20. ASSUME NEW e \in Executions, ToolStepDone(e) PROVE Quiet
    <2>1. exec[e].step \in Steps /\ Kinds[exec[e].step] # "end" /\ exec[e].at = "handle"
      BY <1>0, <1>20, ToolStepDoneFacts, ToolStepFacts DEF ToolSteps
    <2>2. CASE AdvanceTo(e)
      BY <1>18, <2>1, <2>2
    <2>3. CASE ~ AdvanceTo(e)
      <3>1. Waits(e, "fail", "queued") /\ UNCHANGED <<exec, late, flow, runs, dropped>>
        BY <1>0, <1>20, <2>3, ToolStepDoneFacts, AwaitsFacts DEF Calls
      <3> QED
        BY <1>16, <2>1, <3>1, StepsAreNumbers
    <2> QED
      BY <2>2, <2>3
  <1>21. ASSUME NEW e \in Executions, Orphans(e), db[e].call = "begin" => dropped',
                dropped => dropped'
         PROVE  /\ \A f \in Executions : f # e => db'[f] = db[f]
                /\ \A l \in late' : l.call = "begin" => dropped'
    BY <1>0, <1>21, OrphansFacts DEF Waits
  <1>22. ASSUME NEW e \in Executions, HandlerTimesOut(e) \/ CancelHandler(e) PROVE Quiet
    <2>1. PICK code \in {"timeout", "cancelled"} : StopHandler(e, code)
      BY <1>22 DEF HandlerTimesOut, CancelHandler, TimedOut
    <2>2. /\ Becomes(e, IF Unwinds(e) THEN "unwind" ELSE "record",
                     exec[e].tool, exec[e].id, exec[e].step, Answer(e, code))
          /\ Orphans(e) /\ dropped' = (dropped \/ db[e].call = "begin")
      BY <1>0, <2>1, StopFacts
    <2>3. UNCHANGED <<flow, runs>> /\ exec[e].at = "handle"
      BY <1>22 DEF HandlerTimesOut, CancelHandler
    <2>4. /\ \A f \in Executions : f # e => exec'[f] = exec[f] /\ db'[f] = db[f]
          /\ \A l \in late' : l.call = "begin" => dropped'
      BY <1>21, <2>2 DEF Becomes
    <2>5. Follows(e) /\ Keeps(e)
      <3>1. CASE Unwinds(e)
        <4>1. exec'[e].at = "unwind" /\ exec'[e].tool = "workflow" /\ exec'[e].step # 0
              /\ exec[e].tool = "workflow" /\ exec[e].step # 0
          BY <2>2, <3>1 DEF Becomes, Unwinds
        <4> QED
          BY <2>3, <4>1 DEF Follows, Keeps, Owns
      <3>2. CASE ~ Unwinds(e)
        <4>1. exec'[e].at = "record" /\ (Owns(e) => db[e].call = "begin")
          BY <2>2, <3>2 DEF Becomes, Unwinds, Owns
        <4> QED
          BY <2>2, <4>1 DEF Follows, Keeps, Owns
      <3> QED
        BY <3>1, <3>2
    <2>6. \A f \in Executions : f # e => Follows(f) /\ Keeps(f)
      BY <2>4 DEF Follows, Keeps, Owns
    <2> QED
      BY <1>0, <2>2, <2>3, <2>4, <2>5, <2>6 DEF Quiet
  <1>23. ASSUME NEW e \in Executions, CancelUnwinding(e) \/ Unwound(e) PROVE Quiet
    <2>1. exec'[e].at = "record" /\ exec[e].at = "unwind"
          /\ \A f \in Executions : f # e => exec'[f] = exec[f]
      BY <1>0, <1>23, CancelUnwindingFacts, UnwoundFacts DEF Becomes, CancelUnwinding, Unwound
    <2>2. UNCHANGED <<flow, runs>> /\ (dropped => dropped') /\ (dropped' \/ flow \in Over)
      BY <1>0, <1>23 DEF CancelUnwinding, Unwound, Succeeded, Settled
    <2>3. /\ \A f \in Executions : f # e => db'[f] = db[f]
          /\ \A l \in late' : l.call = "begin" => dropped'
      <3>1. CASE CancelUnwinding(e)
        BY <1>21, <3>1 DEF CancelUnwinding
      <3>2. CASE Unwound(e)
        BY <1>0, <2>2, <3>2, UnwoundFacts DEF Unwound, Waits
      <3> QED
        BY <1>23, <3>1, <3>2
    <2> QED
      BY <1>0, <2>1, <2>2, <2>3 DEF Quiet, Follows, Keeps, Owns, Over
  <1>24. ASSUME NEW l \in late, LateReads(l) \/ LateCommits(l) PROVE Quiet
    <2>1. UNCHANGED <<exec, db, runs, dropped>>
      BY <1>24 DEF LateReads, LateCommits
    <2>2. \A k \in late' : k.call = "begin" => dropped'
      BY <1>0, <1>24, <2>1, LateReadsFacts, LateCommitsFacts
    <2>3. flow' = "running" => flow = "running" \/ dropped'
      BY <1>0, <1>24, <2>1, LateFields, FlowMoves DEF LateReads, LateCommits, Writes
    <2> QED
      BY <2>1, <2>2, <2>3 DEF Quiet, Follows, Keeps, Owns
  <1>25. CASE EndCall \/ ForgetCall
    BY <1>0, <1>25 DEF EndCall, ForgetCall, Quiet, Follows, Keeps, Owns
  <1> QED
    BY <1>2, <1>3, <1>4, <1>5, <1>6, <1>8, <1>9, <1>10, <1>12, <1>13, <1>14, <1>15, <1>17,
       <1>19, <1>20, <1>22, <1>23, <1>24, <1>25
       DEF GatewayNext, ExecuteStep, CallStep, FlowStep, StopStep

LEMMA ClaimIsKept ==
  ASSUME GatewayInv, GatewayNext, GatewayTypeOK'
  PROVE  ClaimInv' /\ OwnerInv'
  <1>0. /\ GatewayTypeOK /\ ClaimInv /\ OwnerInv
        /\ \A f \in Executions : Shaped(f)
    BY DEF GatewayInv
  <1>1. ASSUME NEW e \in Executions, CallCommits(e), db[e].call = "begin", Begins
        PROVE  ClaimInv' /\ OwnerInv'
    <2>1. flow = "none" /\ flow' = "running" /\ UNCHANGED <<exec, late, runs, dropped>>
      BY <1>0, <1>1, FlowMoves, ExecutionFields DEF CallCommits, Writes, history
    <2>2. Waits(e, "begin", "committed")
      BY <1>0, <1>1, CallCommitsFacts DEF GoesOn
    <2>3. exec[e].at = "handle" /\ exec[e].tool = "workflow"
      <3>1. Shaped(e) /\ NoCall.call # "begin"
        BY <1>0 DEF NoCall
      <3>2. exec[e].at = "handle" /\ "begin" \in HandlerCalls(exec[e].tool, exec[e].step)
        BY <1>0, <1>1, <3>1, ExecutionFields DEF Shaped
      <3> QED
        BY <1>0, <3>2, ExecutionFields DEF HandlerCalls, Tools
    <2>4. Owns(e)'
      BY <1>0, <2>1, <2>2, <2>3 DEF Waits, Owns
    <2>5. \A f \in Executions : ~ Owns(f)
      BY <1>0, <2>1 DEF ClaimInv
    <2>6. \A f \in Executions : Owns(f)' => f = e
      BY <2>1, <2>2, <2>5 DEF Waits, Owns
    <2>7. \A s \in Steps : runs'[s] = 0
      BY <1>0, <2>1 DEF ClaimInv
    <2>8. \A s \in ToolSteps : runs'[s] = 0 => exec'[Nested[s]].at = "idle"
      BY <1>0, <2>1 DEF ClaimInv
    <2> QED
      BY <1>0, <2>1, <2>4, <2>6, <2>7, <2>8 DEF ClaimInv, OwnerInv
  <1>2. ASSUME NEW e \in Executions, BeginExecution(e) \/ NextStep(e)
        PROVE  ClaimInv' /\ OwnerInv'
    <2>1. PICK s \in Steps : Dispatch(e, s) /\ Untouched(s)
      BY <1>2, DispatchIsFresh
    <2>2. e \in Requests /\ Owns(e) /\ exec[e].at = "handle" /\ exec[e].tool = "workflow"
      BY <1>2, DispatchIsFresh
    <2>3. UNCHANGED <<late, flow, dropped>>
      BY <2>1 DEF Dispatch, stored
    <2>4. Walks(e, s) /\ db'[e].call # "advance"
          /\ \A f \in Executions : f # e => db'[f] = db[f]
      BY <1>0, <2>1, <2>2, DispatchFacts DEF Waits
    <2>5. runs' \in [Steps -> Nat] /\ runs'[s] = 1 /\ \A t \in Steps : t # s => runs'[t] = runs[t]
      BY <1>0, <2>1, <2>2, DispatchFacts, StepsAreNumbers DEF Untouched
    <2>6. Owns(e)' /\ exec'[e].at = "handle" /\ exec'[e].step = s
      BY <2>2, <2>4, StepsAreNumbers DEF Walks, Owns
    <2>7. \A f \in Executions : Owns(f)' => f = e
      <3>1. ASSUME NEW f \in Executions, Owns(f)', f # e PROVE FALSE
        <4>1. CASE Kinds[s] = "tool" /\ f = Nested[s]
          BY <2>4, <3>1, <4>1 DEF Walks, Owns
        <4>2. CASE ~ (Kinds[s] = "tool" /\ f = Nested[s])
          <5>1. Owns(f)
            BY <2>4, <3>1, <4>2 DEF Walks, Owns
          <5> QED
            BY <1>0, <2>2, <3>1, <5>1 DEF ClaimInv
        <4> QED
          BY <4>1, <4>2
      <3> QED
        BY <3>1
    <2>8. flow # "none" /\ flow' = flow
      BY <1>0, <2>2, <2>3 DEF ClaimInv
    <2>9. \A t \in Steps : runs'[t] <= 1
      BY <1>0, <2>5 DEF ClaimInv
    <2>10. \A t \in Steps : t > s => runs'[t] = 0
      BY <2>1, <2>5, StepsAreNumbers DEF Untouched
    <2>11. \A t \in ToolSteps : runs'[t] = 0 => exec'[Nested[t]].at = "idle"
      <3>1. ASSUME NEW t \in ToolSteps, runs'[t] = 0 PROVE exec'[Nested[t]].at = "idle"
        <4>1. t \in Steps /\ t # s /\ runs[t] = 0
          BY <2>5, <3>1, Nesting
        <4>2. exec[Nested[t]].at = "idle"
          BY <1>0, <4>1 DEF ClaimInv
        <4>3. /\ Nested[t] \in Executions /\ Nested[t] # e
              /\ s \in ToolSteps => Nested[t] # Nested[s]
          BY <2>2, <4>1, Nesting
        <4>4. Kinds[s] = "tool" => s \in ToolSteps
          BY Nesting
        <4> QED
          BY <2>4, <4>2, <4>3, <4>4 DEF Walks
      <3> QED
        BY <3>1
    <2>12. ClaimInv'
      BY <2>4, <2>6, <2>7, <2>8, <2>9, <2>10, <2>11 DEF ClaimInv
    <2>13. OwnerInv'
      BY <1>0, <2>2, <2>3, <2>6 DEF OwnerInv, Executions
    <2> QED
      BY <2>12, <2>13
  <1> QED
    BY <1>1, <1>2, StepsAreQuiet, QuietSteps

-----------------------------------------------------------------------------
(* Appointments                                                            *)

\* Nobody decides to book: the appointments and the bookings are among those before.
NoBooking ==
  /\ Scheduled' \cup Booking' \subseteq Scheduled \cup Booking
  /\ overlaps' = overlaps
  /\ \A l \in late' : l.phase = "inserting" => l.call = "outcome"

LEMMA WaitsBooksNothing ==
  ASSUME NEW e \in Executions, NEW name, NEW phase, Waits(e, name, phase),
         name # "book" \/ phase # "decided", UNCHANGED <<late, events, overlaps>>, BookInv
  PROVE  NoBooking
  BY DEF Waits, NoBooking, Booking, Scheduled, BookInv

LEMMA NothingBooksNothing ==
  ASSUME UNCHANGED <<db, late, events, overlaps>>, BookInv
  PROVE  NoBooking
  BY DEF NoBooking, Booking, Scheduled, BookInv

LEMMA OrphansBookNothing ==
  ASSUME GatewayTypeOK, NEW e \in Executions, Orphans(e), Settled(e),
         UNCHANGED <<events, overlaps>>, BookInv
  PROVE  NoBooking
  <1>1. Scheduled' = Scheduled
    BY DEF Scheduled
  <1>2. ASSUME NEW f \in Executions, db'[f] = [call |-> "book", phase |-> "decided"]
        PROVE  f \in Booking
    BY <1>2, OrphansFacts DEF Waits, Booking
  <1>3. ASSUME NEW l \in late', l.call = "book", l.phase = "decided"
        PROVE  l.by \in Booking
    <2>1. CASE l \in late
      BY <1>3, <2>1 DEF Booking
    <2>2. CASE l = [call |-> db[e].call, phase |-> db[e].phase, by |-> e]
      <3>1. db[e] = [call |-> "book", phase |-> "decided"] /\ l.by = e
        BY <1>3, <2>2, ExecutionFields
      <3> QED
        BY <3>1 DEF Booking
    <2> QED
      BY <2>1, <2>2, OrphansFacts
  <1>4. Booking' \subseteq Booking
    BY <1>2, <1>3 DEF Booking
  <1>5. \A l \in late' : l.phase = "inserting" => l.call = "outcome"
    BY OrphansFacts DEF BookInv, Settled
  <1> QED
    BY <1>1, <1>4, <1>5 DEF NoBooking

\* A booking that is written was decided.
LEMMA CommitsBookNothing ==
  ASSUME GatewayTypeOK, NEW e \in Executions, NEW name \in Calls, Writes(name, e),
         name = "book" => e \in Booking, Booking' \subseteq Booking, overlaps' = overlaps,
         \A l \in late' : l.phase = "inserting" => l.call = "outcome", BookInv
  PROVE  NoBooking
  <1>1. Scheduled' \subseteq Scheduled \cup Booking
    <2>1. ASSUME NEW f \in Executions, events'[f] = "scheduled"
          PROVE  f \in Scheduled \cup Booking
      BY <2>1, EventsMove DEF Writes, Scheduled
    <2> QED
      BY <2>1 DEF Scheduled
  <1> QED
    BY <1>1 DEF NoBooking, BookInv

LEMMA BooksNothing ==
  ASSUME GatewayInv, GatewayNext
  PROVE  \/ NoBooking
         \/ \E e \in Executions : CallReads(e)
         \/ \E l \in late : LateReads(l)
  <1> USE DEF stored, history
  <1>0. GatewayTypeOK /\ BookInv /\ \A f \in Executions : Settled(f)
    BY DEF GatewayInv
  <1>1. ASSUME NEW e \in Executions, NEW name, NEW phase \in {"queued", "raised", "done"},
               Waits(e, name, phase), UNCHANGED <<late, events, overlaps>>
        PROVE  NoBooking
    BY <1>0, <1>1, WaitsBooksNothing
  <1>2. ASSUME NEW e \in Requests, Request(e) PROVE NoBooking
    BY <1>0, <1>2, NothingBooksNothing DEF Request
  <1>3. ASSUME NEW e \in Executions,
               Replay(e) \/ Refuse(e) \/ Remember(e) \/ ExecuteRaises(e) \/ CancelExecute(e)
        PROVE  NoBooking
    BY <1>0, <1>3, NothingBooksNothing DEF Replay, Refuse, Remember, ExecuteRaises, CancelExecute
  <1>4. ASSUME NEW e \in Executions, RunHandler(e) PROVE NoBooking
    BY <1>0, <1>1, <1>4, RunHandlerFacts DEF RunHandler
  <1>5. ASSUME NEW e \in Executions, CallCommits(e) PROVE NoBooking
    <2>1. \/ \E phase \in {"failed", "committed"} : Waits(e, db[e].call, phase)
          \/ Waits(e, "row", "decided")
      BY <1>0, <1>5, CallCommitsFacts
    <2>2. /\ Writes(db[e].call, e) /\ UNCHANGED <<late, overlaps>>
          /\ db[e].phase \in Writing /\ db[e].call \in Calls
      BY <1>0, <1>5, ExecutionFields DEF CallCommits
    <2>3. db[e].call = "book" => e \in Booking
      <3>1. db[e].call = "book" => db[e] = [call |-> "book", phase |-> "decided"]
        BY <1>0, <2>2, ExecutionFields DEF Settled, Writing
      <3> QED
        BY <3>1 DEF Booking
    <2>4. Booking' \subseteq Booking
      BY <2>1, <2>2 DEF Waits, Booking
    <2> QED
      BY <1>0, <2>2, <2>3, <2>4, CommitsBookNothing DEF BookInv
  <1>6. ASSUME NEW e \in Executions, CallCollides(e) \/ CallRaises(e) PROVE NoBooking
    <2>1. Waits(e, db[e].call, "raised") /\ UNCHANGED <<late, overlaps>>
      BY <1>0, <1>6, CallFailsFacts DEF CallCollides, CallRaises
    <2>2. CASE events' = events
      BY <1>1, <2>1, <2>2
    <2>3. CASE Writes(db[e].call, e) /\ db[e].phase \in Writing
      <3>1. db[e].call \in Calls /\ (db[e].call = "book" => e \in Booking)
        BY <1>0, <2>3, ExecutionFields DEF Settled, Writing, Booking
      <3>2. Booking' \subseteq Booking
        BY <2>1 DEF Waits, Booking
      <3> QED
        BY <1>0, <2>1, <2>3, <3>1, <3>2, CommitsBookNothing DEF BookInv
    <2> QED
      BY <1>6, <2>2, <2>3 DEF CallCollides, CallRaises
  <1>7. ASSUME NEW e \in Executions, SimpleHandlerReturns(e) \/ ReportExecution(e)
                                      \/ FlowEnds(e) \/ FlowRaises(e)
        PROVE  NoBooking
    <2>1. PICK code \in Codes : HandlerEnds(e, code)
      BY <1>7, HandlersEndInCodes
    <2> QED
      BY <1>0, <1>1, <2>1, HandlerEndsFacts DEF HandlerEnds
  <1>8. ASSUME NEW e \in Executions, CancelFlow(e) PROVE NoBooking
    <2>1. Waits(e, "cancel", "queued")
      BY <1>0, <1>8, AwaitsFacts DEF CancelFlow, Calls
    <2> QED
      BY <1>1, <1>8, <2>1 DEF CancelFlow
  <1>9. ASSUME NEW e \in Executions, StepDone(e) \/ ToolStepDone(e) PROVE NoBooking
    <2>1. /\ \E name \in {"advance", "fail"} : db' = [db EXCEPT ![e] = Awaits(name)]
          /\ UNCHANGED <<late, events, overlaps>>
      BY <1>9, ToolStepDoneFacts DEF StepDone, AdvanceTo
    <2>2. \E name \in Calls : Waits(e, name, "queued")
      BY <1>0, <2>1, AwaitsFacts DEF Calls
    <2> QED
      BY <1>1, <2>1, <2>2
  <1>10. ASSUME NEW e \in Executions, BeginExecution(e) \/ NextStep(e) PROVE NoBooking
    <2>1. PICK s \in Steps : Dispatch(e, s) /\ e \in Requests
      BY <1>10, DispatchIsFresh
    <2>2. PICK name \in StepCalls(Kinds[s]) \ {"advance"}, phase \in {"queued", "done"} :
            Waits(e, name, phase)
      BY <1>0, <2>1, DispatchFacts
    <2>3. UNCHANGED <<late, events, overlaps>>
      BY <2>1 DEF Dispatch
    <2> QED
      BY <1>1, <2>2, <2>3
  <1>11. ASSUME NEW e \in Executions, HandlerTimesOut(e) \/ CancelHandler(e)
                                       \/ CancelUnwinding(e)
         PROVE  NoBooking
    <2>1. Orphans(e) /\ UNCHANGED <<events, overlaps>>
      BY <1>11 DEF HandlerTimesOut, CancelHandler, StopHandler, CancelUnwinding
    <2> QED
      BY <1>0, <2>1, OrphansBookNothing
  <1>12. ASSUME NEW e \in Executions, Unwound(e) PROVE NoBooking
    BY <1>0, <1>1, <1>12, UnwoundFacts DEF Unwound
  <1>13. ASSUME NEW l \in late, LateCommits(l) PROVE NoBooking
    <2>1. l.call \in Calls /\ l.by \in Executions
      BY <1>0, LateFields
    <2>2. /\ db' = db /\ overlaps' = overlaps /\ Booking' \subseteq Booking
          /\ \A k \in late' : k.phase = "inserting" => k.call = "outcome"
      BY <1>0, <1>13, LateCommitsFacts DEF LateCommits, Booking, BookInv
    <2>3. CASE Writes(l.call, l.by)
      <3>1. l.call = "book" => l.by \in Booking
        BY <1>0, <1>13 DEF LateCommits, Writing, BookInv, Booking
      <3> QED
        BY <1>0, <2>1, <2>2, <2>3, <3>1, CommitsBookNothing
    <2>4. CASE events' = events
      BY <1>0, <2>2, <2>4 DEF NoBooking, Scheduled, BookInv
    <2> QED
      BY <1>13, <2>3, <2>4 DEF LateCommits
  <1>14. CASE EndCall \/ ForgetCall
    BY <1>0, <1>14, NothingBooksNothing DEF EndCall, ForgetCall
  <1> QED
    BY <1>2, <1>3, <1>4, <1>5, <1>6, <1>7, <1>8, <1>9, <1>10, <1>11, <1>12, <1>13, <1>14
       DEF GatewayNext, ExecuteStep, CallStep, FlowStep, StopStep

\* Who decides to book has seen no appointment, and notes the bookings under way.
LEMMA BookingIsNoted ==
  ASSUME BookInv, NEW e \in Executions, NEW name, NEW phase, NotesOverlap(e, name, phase),
         name = "book" /\ phase = "decided" => Scheduled = {}, Scheduled' = Scheduled,
         Booking' \subseteq Booking \cup (IF name = "book" /\ phase = "decided" THEN {e} ELSE {}),
         \A l \in late' : l.phase = "inserting" => l.call = "outcome"
  PROVE  BookInv'
  <1>1. CASE name = "book" /\ phase = "decided"
    <2>1. Scheduled' = {} /\ Booking' \subseteq Booking \cup {e}
          /\ overlaps' = overlaps \cup (Booking \X {e})
      BY <1>1 DEF NotesOverlap
    <2>2. ASSUME NEW f \in Booking', NEW g \in Booking', f # g
          PROVE  <<f, g>> \in overlaps' \/ <<g, f>> \in overlaps'
      <3>1. CASE f = e
        BY <2>1, <2>2, <3>1
      <3>2. CASE g = e
        BY <2>1, <2>2, <3>2
      <3>3. CASE f # e /\ g # e
        BY <2>1, <2>2, <3>3 DEF BookInv
      <3> QED
        BY <3>1, <3>2, <3>3
    <2> QED
      BY <2>1, <2>2 DEF BookInv
  <1>2. CASE ~ (name = "book" /\ phase = "decided")
    <2>1. overlaps' = overlaps /\ Booking' \subseteq Booking
      BY <1>2 DEF NotesOverlap
    <2> QED
      BY <2>1 DEF BookInv
  <1> QED
    BY <1>1, <1>2

LEMMA BookingsAreKept ==
  ASSUME GatewayInv, GatewayNext
  PROVE  BookInv'
  <1>0. GatewayTypeOK /\ BookInv
    BY DEF GatewayInv
  <1>1. CASE NoBooking
    BY <1>0, <1>1 DEF NoBooking, BookInv
  <1>2. ASSUME NEW e \in Executions, CallReads(e) PROVE BookInv'
    <2>1. PICK phase \in Decides(db[e].call) :
            Waits(e, db[e].call, phase) /\ NotesOverlap(e, db[e].call, phase)
      BY <1>0, <1>2, CallReadsFacts
    <2>2. UNCHANGED <<late, events>> /\ db[e].call \in Calls
      BY <1>0, <1>2, ExecutionFields DEF CallReads, stored
    <2>3. db[e].call = "book" /\ phase = "decided" => Scheduled = {}
      BY <2>1, <2>2, DecidesPhases
    <2>4. Scheduled' = Scheduled
      BY <2>2 DEF Scheduled
    <2>5. Booking' \subseteq Booking
                     \cup (IF db[e].call = "book" /\ phase = "decided" THEN {e} ELSE {})
      BY <2>1, <2>2 DEF Waits, Booking
    <2>6. \A l \in late' : l.phase = "inserting" => l.call = "outcome"
      BY <1>0, <2>2 DEF BookInv
    <2> QED
      BY <1>0, <2>1, <2>3, <2>4, <2>5, <2>6, BookingIsNoted
  <1>3. ASSUME NEW l \in late, LateReads(l) PROVE BookInv'
    <2>1. PICK phase \in Decides(l.call) :
            /\ late' \subseteq late \cup {[call |-> l.call, phase |-> phase, by |-> l.by]}
            /\ NotesOverlap(l.by, l.call, phase)
      BY <1>0, <1>3, LateReadsFacts
    <2>2. UNCHANGED <<db, events>> /\ l.call \in Calls /\ l.by \in Executions
      BY <1>0, <1>3, LateFields DEF LateReads, stored
    <2>3. /\ l.call = "book" /\ phase = "decided" => Scheduled = {}
          /\ phase = "inserting" => l.call = "outcome"
      BY <2>1, <2>2, DecidesPhases
    <2>4. Scheduled' = Scheduled
      BY <2>2 DEF Scheduled
    <2>5. Booking' \subseteq Booking
                     \cup (IF l.call = "book" /\ phase = "decided" THEN {l.by} ELSE {})
      BY <2>1, <2>2 DEF Booking
    <2>6. \A k \in late' : k.phase = "inserting" => k.call = "outcome"
      BY <1>0, <2>1, <2>3 DEF BookInv
    <2> QED
      BY <1>0, <2>1, <2>2, <2>3, <2>4, <2>5, <2>6, BookingIsNoted
  <1> QED
    BY <1>1, <1>2, <1>3, BooksNothing

-----------------------------------------------------------------------------
(* What the engine is told                                                 *)

\* A step of execution e that writes nothing.
LEMMA ElsewhereTold ==
  ASSUME GatewayTypeOK, EffectInv, NEW e \in Executions, UNCHANGED <<events, rows, outcome>>,
         \A f \in Executions : f # e => exec'[f] = exec[f] /\ db'[f] = db[f],
         exec[e].at # "done" \/ exec'[e].at = "done", Told(e)',
         \A l \in late' : (l \in late /\ l.by # e) \/ LateTold(l)',
         \A id \in Ids : memory'[id] = memory[id] \/ Recalled(id)'
  PROVE  EffectInv'
  <1>1. ASSUME NEW f \in Executions PROVE Told(f)'
    <2>1. CASE f # e
      BY <2>1 DEF EffectInv, Told, Bare, CallTells, AnswerTells
    <2> QED
      BY <2>1
  <1>2. ASSUME NEW l \in late' PROVE LateTold(l)'
    <2>1. CASE l \in late /\ l.by # e
      BY <2>1, LateFields DEF EffectInv, LateTold
    <2> QED
      BY <2>1
  <1>3. ASSUME NEW id \in Ids PROVE Recalled(id)'
    <2>1. CASE memory'[id] = memory[id]
      <3>1. memory[id] \in Answers
        BY DEF GatewayTypeOK
      <3>2. memory[id] # NoAnswer => memory[id].of \in Executions
        BY <3>1, AnswerTypes
      <3> QED
        BY <2>1, <3>2 DEF EffectInv, Recalled
    <2> QED
      BY <2>1
  <1> QED
    BY <1>1, <1>2, <1>3 DEF EffectInv

\* The same of a step that leaves what is late and what is remembered as it is.
LEMMA StepTold ==
  ASSUME GatewayTypeOK, EffectInv, NEW e \in Executions,
         UNCHANGED <<events, rows, outcome, late, memory>>,
         \A f \in Executions : f # e => exec'[f] = exec[f] /\ db'[f] = db[f],
         exec[e].at # "done" \/ exec'[e].at = "done", Told(e)',
         exec[e].at \in {"unwind", "record", "done"} =>
           /\ exec'[e].at \in {"unwind", "record", "done"}
           /\ \/ exec'[e].answer = exec[e].answer
              \/ exec'[e].answer.of = e /\ exec'[e].answer.code \in Unsettled
  PROVE  EffectInv'
  <1>1. ASSUME NEW l \in late' PROVE (l \in late /\ l.by # e) \/ LateTold(l)'
    <2>1. l \in late /\ LateTold(l)
      BY DEF EffectInv
    <2> QED
      BY <2>1 DEF LateTold
  <1> QED
    BY <1>1, ElsewhereTold

\* A write of execution e shows in nothing that concerns another one.
LEMMA WritesElsewhere ==
  ASSUME GatewayTypeOK, NEW e \in Executions, NEW name \in Calls, Writes(name, e),
         NEW f \in Executions, f # e, exec' = exec, db'[f] = db[f], Told(f)
  PROVE  Told(f)'
  <1>1. /\ (events'[f] = "none") <=> (events[f] = "none")
        /\ (f \in rows') <=> (f \in rows)
        /\ outcome # f => outcome' # f
        /\ outcome # "none" => outcome' # "none"
    BY EventsMove, GatewayAssumption DEF Writes
  <1> QED
    BY <1>1 DEF Told, Bare, CallTells, AnswerTells

LEMMA EffectIsToldByCalls ==
  ASSUME GatewayInv
  PROVE  /\ \A e \in Executions :
              CallReads(e) \/ CallCommits(e) \/ CallCollides(e) \/ CallRaises(e) => EffectInv'
         /\ \A l \in late : LateReads(l) \/ LateCommits(l) => EffectInv'
  <1>0. GatewayTypeOK /\ EffectInv /\ \A f \in Executions : Shaped(f) /\ Settled(f)
    BY DEF GatewayInv
  <1>1. ASSUME NEW e \in Executions, db[e].call # "none"
        PROVE  exec[e].at \in {"handle", "unwind"}
    <2>1. Shaped(e) /\ NoCall.call = "none"
      BY <1>0 DEF NoCall
    <2> QED
      BY <1>0, <1>1, <2>1, ExecutionFields DEF Shaped
  <1>2. ASSUME NEW e \in Executions, NEW phase, Waits(e, db[e].call, phase),
               phase # "committed", db[e].phase \notin {"committed", "raised"},
               db[e].call # "none",
               UNCHANGED <<exec, late, memory, events, rows, outcome>>
        PROVE  EffectInv'
    <2>1. Told(e)
      BY <1>0 DEF EffectInv
    <2>2. Told(e)'
      BY <1>1, <1>2, <2>1 DEF Waits, Told, CallTells, AnswerTells
    <2> QED
      BY <1>0, <1>1, <1>2, <2>2, StepTold DEF Waits
  <1>3. ASSUME NEW e \in Executions, CallReads(e) PROVE EffectInv'
    <2>1. PICK phase \in Decides(db[e].call) : Waits(e, db[e].call, phase)
      BY <1>0, <1>3, CallReadsFacts
    <2>2. db[e].call \in Calls
      BY <1>0, ExecutionFields
    <2>3. phase # "committed"
      BY <2>1, <2>2, DecidesPhases
    <2> QED
      BY <1>2, <1>3, <2>1, <2>3 DEF CallReads, stored
  <1>4. ASSUME NEW e \in Executions, CallCollides(e) \/ CallRaises(e) PROVE EffectInv'
    <2>1. /\ Waits(e, db[e].call, "raised") /\ UNCHANGED <<exec, late, memory>>
          /\ db[e].call # "none" /\ db[e].phase \notin {"committed", "raised"}
      BY <1>0, <1>4, CallFailsFacts DEF CallCollides, CallRaises, Collides, Writing
    <2>2. CASE UNCHANGED stored
      BY <1>2, <2>1, <2>2 DEF stored
    <2>3. CASE Writes(db[e].call, e)
      <3>1. Told(e)'
        BY <1>0, <1>1, <2>1 DEF Waits, EffectInv, Told, CallTells
      <3>2. \A f \in Executions : Told(f)'
        BY <1>0, <2>1, <2>3, <3>1, WritesElsewhere, ExecutionFields DEF Waits, EffectInv
      <3> QED
        BY <1>0, <2>1, <3>2 DEF EffectInv, LateTold, Recalled
    <2> QED
      BY <1>4, <2>2, <2>3 DEF CallCollides, CallRaises
  <1>5. ASSUME NEW e \in Executions, CallCommits(e) PROVE EffectInv'
    <2>1. /\ \/ /\ ~ GoesOn(db[e].call, e)
                /\ Waits(e, db[e].call,
                         IF db[e].call = "begin" /\ ~ Begins THEN "failed" ELSE "committed")
             \/ GoesOn(db[e].call, e) /\ Waits(e, "row", "decided")
          /\ Writes(db[e].call, e) /\ db[e].call \in Calls
          /\ UNCHANGED <<exec, late, memory>> /\ db[e].call # "none"
          /\ db[e].phase \notin {"committed", "raised"}
      BY <1>0, <1>5, CallCommitsFacts, ExecutionFields DEF CallCommits, Writing
    <2>2. exec[e].at \in {"handle", "unwind"} /\ Told(e)
      BY <1>0, <1>1, <2>1 DEF EffectInv
    <2>3. /\ db[e].call = "book" => events'[e] # "none" /\ (e \in rows' <=> e \in rows)
          /\ db[e].call = "row" => events'[e] = events[e] /\ e \in rows'
          /\ db[e].call = "outcome" => outcome' # "none"
      <3>1. db[e].call = "book" => events'[e] = "scheduled"
        BY <1>0, <2>1, EventsMove DEF Writes
      <3>2. db[e].call = "row" => events' = events
        BY <2>1 DEF Writes, WritesEvents
      <3> QED
        BY <2>1, <3>1, <3>2, GatewayAssumption DEF Writes
    <2>4. Told(e)'
      BY <2>1, <2>2, <2>3 DEF Waits, Told, CallTells, GoesOn
    <2>5. \A f \in Executions : Told(f)'
      BY <1>0, <2>1, <2>4, WritesElsewhere DEF Waits, EffectInv
    <2> QED
      BY <1>0, <2>1, <2>5 DEF EffectInv, LateTold, Recalled
  <1>6. ASSUME NEW l \in late, LateReads(l) PROVE EffectInv'
    <2>1. UNCHANGED <<exec, db, memory, events, rows, outcome>>
      BY <1>6 DEF LateReads, stored
    <2>2. \A k \in late' : \E m \in late : k.by = m.by
      BY <1>0, <1>6, LateReadsFacts
    <2>3. \A k \in late' : LateTold(k)'
      BY <1>0, <2>1, <2>2 DEF EffectInv, LateTold
    <2> QED
      BY <1>0, <2>1, <2>3 DEF EffectInv, Told, Bare, CallTells, AnswerTells, Recalled
  <1>7. ASSUME NEW l \in late, LateCommits(l) PROVE EffectInv'
    <2>1. UNCHANGED <<exec, db, memory>> /\ \A k \in late' : \E m \in late : k.by = m.by
      BY <1>7, LateCommitsFacts DEF LateCommits
    <2>2. l.call \in Calls /\ l.by \in Executions /\ LateTold(l) /\ \A f \in Executions : Told(f)
      BY <1>0, <1>7, LateFields DEF EffectInv
    <2>3. Told(l.by)'
      BY <2>1, <2>2 DEF LateTold, Told, AnswerTells, Unsettled
    <2>4. ASSUME NEW f \in Executions PROVE Told(f)'
      <3>1. CASE Writes(l.call, l.by)
        BY <1>0, <2>1, <2>2, <2>3, <3>1, WritesElsewhere
      <3>2. CASE UNCHANGED stored
        BY <2>1, <2>2, <3>2 DEF stored, Told, Bare, CallTells, AnswerTells
      <3> QED
        BY <1>7, <3>1, <3>2 DEF LateCommits
    <2> QED
      BY <1>0, <2>1, <2>4 DEF EffectInv, LateTold, Recalled
  <1> QED
    BY <1>3, <1>4, <1>5, <1>6, <1>7

LEMMA EffectIsToldByExecute ==
  ASSUME GatewayInv, NEW e \in Executions, ExecuteStep(e) \/ CancelExecute(e)
  PROVE  EffectInv'
  <1>0. GatewayTypeOK /\ EffectInv /\ Shaped(e) /\ Told(e) /\ (\A f \in Executions : Shaped(f))
    BY DEF GatewayInv, EffectInv
  <1>1. ASSUME NEW at, NEW answer, Becomes(e, at, exec[e].tool, exec[e].id, exec[e].step, answer),
               UNCHANGED <<db, late, memory, events, rows, outcome>>,
               at \in {"record", "done"}, exec[e].at \in {"resolve", "record"},
               at = "record" => answer.of = e,
               exec[e].at = "record" => answer.of = e /\ answer.code \in Unsettled,
               answer.of = e => AnswerTells(e, answer.code)
        PROVE  EffectInv'
    <2>1. Told(e)'
      BY <1>1 DEF Becomes, Told, AnswerTells
    <2> QED
      BY <1>0, <1>1, <2>1, StepTold DEF Becomes
  <1>2. CASE Replay(e)
    <2>1. /\ Becomes(e, "done", exec[e].tool, exec[e].id, exec[e].step, memory[exec[e].id])
          /\ exec[e].at = "resolve" /\ memory[exec[e].id] # NoAnswer
      BY <1>0, <1>2, ExecuteFacts
    <2>2. exec[e].id \in Ids
      BY <1>0, <2>1 DEF Shaped
    <2>3. memory[exec[e].id].of # e
      BY <1>0, <2>1, <2>2 DEF EffectInv, Recalled
    <2> QED
      BY <1>1, <1>2, <2>1, <2>3 DEF Replay, stored
  <1>3. CASE Refuse(e)
    <2>1. Becomes(e, "record", exec[e].tool, exec[e].id, exec[e].step, Answer(e, "error"))
      BY <1>0, <1>3, ExecuteFacts
    <2>2. exec[e].at = "resolve" /\ UNCHANGED <<db, late, memory, events, rows, outcome>>
      BY <1>3 DEF Refuse, stored
    <2>3. AnswerTells(e, "error") /\ Answer(e, "error").of = e /\ Answer(e, "error").code = "error"
      BY <1>0, <2>2 DEF Told, Bare, AnswerTells, Answer
    <2> QED
      BY <1>1, <2>1, <2>2, <2>3
  <1>4. ASSUME NEW code \in {"raised", "cancelled"}, exec[e].at \in {"resolve", "record"},
               Becomes(e, "done", exec[e].tool, exec[e].id, exec[e].step, Answer(e, code)),
               UNCHANGED <<db, late, memory, events, rows, outcome>>
        PROVE  EffectInv'
    <2>1. /\ AnswerTells(e, code) /\ code \in Unsettled
          /\ Answer(e, code).of = e /\ Answer(e, code).code = code
      BY <1>4 DEF AnswerTells, Answer, Unsettled
    <2> QED
      BY <1>1, <1>4, <2>1
  <1>5. CASE ExecuteRaises(e) \/ CancelExecute(e)
    BY <1>0, <1>4, <1>5, ExecuteFacts DEF ExecuteRaises, CancelExecute, stored
  <1>6. CASE RunHandler(e)
    <2>1. /\ Becomes(e, "handle", exec[e].tool, exec[e].id, exec[e].step, exec[e].answer)
          /\ Waits(e, FirstCall(exec[e].tool).call, "queued")
          /\ exec[e].at = "resolve" /\ UNCHANGED <<late, memory, events, rows, outcome>>
      BY <1>0, <1>6, RunHandlerFacts DEF RunHandler, stored
    <2>2. FirstCall(exec[e].tool).call # "row"
      BY <1>0, ExecutionFields DEF FirstCall, Awaits, Tools
    <2>3. Told(e)'
      BY <1>0, <2>1, <2>2 DEF Becomes, Waits, Told, Bare, CallTells
    <2> QED
      BY <1>0, <2>1, <2>3, StepTold DEF Becomes, Waits
  <1>7. CASE Remember(e)
    <2>1. /\ Becomes(e, "done", exec[e].tool, exec[e].id, exec[e].step, exec[e].answer)
          /\ exec[e].at = "record" /\ UNCHANGED <<db, late, events, rows, outcome>>
      BY <1>0, <1>7, ExecuteFacts DEF Remember, stored
    <2>2. Told(e)'
      BY <1>0, <2>1 DEF Becomes, Told, AnswerTells
    <2>3. ASSUME NEW id \in Ids PROVE memory'[id] = memory[id] \/ Recalled(id)'
      <3>1. memory'[id] = memory[id] \/ memory'[id] = exec[e].answer
        BY <1>0, <1>7 DEF Remember, GatewayTypeOK
      <3>2. exec[e].answer.of = e /\ exec'[e].at = "done"
        BY <1>0, <2>1 DEF Told, Becomes
      <3> QED
        BY <3>1, <3>2 DEF Recalled
    <2>4. ASSUME NEW l \in late' PROVE (l \in late /\ l.by # e) \/ LateTold(l)'
      BY <1>0, <2>1 DEF EffectInv, LateTold, Becomes
    <2> QED
      BY <1>0, <2>1, <2>2, <2>3, <2>4, ElsewhereTold DEF Becomes
  <1> QED
    BY <1>2, <1>3, <1>5, <1>6, <1>7 DEF ExecuteStep

LEMMA EffectIsToldByHandlers ==
  ASSUME GatewayInv, NEW e \in Executions, SimpleHandlerReturns(e) \/ FlowStep(e)
  PROVE  EffectInv'
  <1>0. GatewayTypeOK /\ EffectInv /\ Shaped(e) /\ Settled(e) /\ Told(e)
    BY DEF GatewayInv, EffectInv
  <1>1. ASSUME NEW code \in Codes, HandlerEnds(e, code), AnswerTells(e, code),
               exec[e].at \in {"handle", "unwind"}, exec[e].at = "unwind" => code \in Unsettled
        PROVE  EffectInv'
    <2>1. /\ Becomes(e, "record", exec[e].tool, exec[e].id, exec[e].step, Answer(e, code))
          /\ Waits(e, "none", "done") /\ UNCHANGED <<late, memory, events, rows, outcome>>
      BY <1>0, <1>1, HandlerEndsFacts DEF HandlerEnds, stored
    <2>2. Answer(e, code).of = e /\ Answer(e, code).code = code
      BY DEF Answer
    <2>3. Told(e)'
      BY <1>1, <2>1, <2>2 DEF Becomes, Told, AnswerTells
    <2>4. /\ exec'[e].at = "record" /\ exec'[e].answer = Answer(e, code)
          /\ \A f \in Executions : f # e => exec'[f] = exec[f] /\ db'[f] = db[f]
      BY <2>1 DEF Becomes, Waits
    <2> QED
      BY <1>0, <1>1, <2>1, <2>2, <2>3, <2>4, StepTold
  <1>2. CASE SimpleHandlerReturns(e)
    <2>1. exec[e].at = "handle" /\ exec[e].tool # "workflow" /\ Returned(e)
          /\ HandlerEnds(e, HowItEnds(e))
      BY <1>2 DEF SimpleHandlerReturns
    <2>2. CallTells(e) /\ db[e].call \in HandlerCalls(exec[e].tool, exec[e].step)
      BY <1>0, <2>1 DEF Told, Shaped
    <2>3. /\ exec[e].tool = "book" => db[e].call = "book"
          /\ exec[e].tool = "outcome" => db[e].call = "outcome"
          /\ exec[e].tool = "follow_up" => db[e].call \in {"book", "row"}
      BY <2>1, <2>2 DEF HandlerCalls
    <2>4. /\ db[e].call \in {"book", "row", "outcome"} =>
                (Succeeded(e) <=> (db[e].phase = "committed"))
          /\ db[e].call \in {"row", "outcome"} => db[e].phase # "failed"
      BY <1>0 DEF Settled, Succeeded
    <2>5. AnswerTells(e, HowItEnds(e)) /\ HowItEnds(e) \in Codes
      <3>1. CASE Succeeded(e)
        <4>1. AnswerTells(e, "ok")
          BY <2>2, <2>3, <2>4, <3>1 DEF CallTells, AnswerTells, Succeeded
        <4> QED
          BY <3>1, <4>1 DEF HowItEnds, Codes
      <3>2. CASE ~ Succeeded(e) /\ db[e].phase = "failed"
        <4>1. AnswerTells(e, "error")
          BY <2>2, <2>3, <2>4, <3>2 DEF CallTells, AnswerTells
        <4> QED
          BY <3>2, <4>1 DEF HowItEnds, Codes
      <3>3. CASE ~ Succeeded(e) /\ db[e].phase = "raised"
        BY <3>3 DEF HowItEnds, Codes, AnswerTells
      <3> QED
        BY <2>1, <3>1, <3>2, <3>3 DEF Returned
    <2> QED
      BY <1>1, <2>1, <2>5
  <1>3. CASE ReportExecution(e) \/ FlowEnds(e) \/ FlowRaises(e)
    <2>1. exec[e].tool = "workflow"
      BY <1>0, <1>3, FlowRaisesFacts DEF ReportExecution, FlowEnds, Runs
    <2>2. \A code \in Codes : AnswerTells(e, code)
      BY <2>1 DEF AnswerTells
    <2>3. CASE FlowRaises(e)
      BY <1>0, <1>1, <2>2, <2>3, FlowRaisesFacts DEF Codes, Unsettled
    <2>4. CASE ReportExecution(e) \/ FlowEnds(e)
      <3>1. exec[e].at = "handle" /\ \E code \in Codes : HandlerEnds(e, code)
        BY <2>4, HandlersEndInCodes DEF ReportExecution, FlowEnds, Runs
      <3> QED
        BY <1>1, <2>2, <3>1
    <2> QED
      BY <1>3, <2>3, <2>4
  <1>5. ASSUME exec[e].at = "handle", exec[e].tool = "workflow",
               \E id, step, answer : Becomes(e, "handle", "workflow", id, step, answer),
               \A f \in Executions : f # e => db'[f] = db[f],
               UNCHANGED <<late, memory, events, rows, outcome>>
        PROVE  EffectInv'
    <2>1. /\ exec'[e].at = "handle" /\ exec'[e].tool = "workflow"
          /\ \A f \in Executions : f # e => exec'[f] = exec[f]
      BY <1>5 DEF Becomes
    <2>2. Told(e)'
      BY <2>1 DEF Told
    <2> QED
      BY <1>0, <1>5, <2>1, <2>2, StepTold
  <1>6. ASSUME exec[e].step \in Steps, Kinds[exec[e].step] # "end", exec[e].at = "handle",
               exec[e].tool = "workflow", AdvanceTo(e)
        PROVE  EffectInv'
    <2>1. UNCHANGED <<late, memory, events, rows, outcome>>
      BY <1>6 DEF AdvanceTo, stored
    <2>2. /\ \E t \in Steps : Becomes(e, "handle", "workflow", exec[e].id, t, exec[e].answer)
          /\ \A f \in Executions : f # e => db'[f] = db[f]
      BY <1>0, <1>6, AdvanceFacts DEF Waits
    <2> QED
      BY <1>5, <1>6, <2>1, <2>2
  <1>7. CASE StepDone(e)
    BY <1>0, <1>6, <1>7, RunsFacts DEF StepDone
  <1>8. CASE ToolStepDone(e)
    <2>1. exec[e].step \in Steps /\ Kinds[exec[e].step] # "end" /\ exec[e].at = "handle"
      BY <1>0, <1>8, ToolStepDoneFacts, ToolStepFacts DEF ToolSteps
    <2>2. exec[e].tool = "workflow"
      BY <1>0, <2>1, StepsAreNumbers DEF Shaped
    <2>3. CASE AdvanceTo(e)
      BY <1>6, <2>1, <2>2, <2>3
    <2>4. CASE ~ AdvanceTo(e)
      <3>1. /\ Waits(e, "fail", "queued") /\ exec' = exec
            /\ UNCHANGED <<late, memory, events, rows, outcome>>
        BY <1>0, <1>8, <2>4, ToolStepDoneFacts, AwaitsFacts DEF Calls, stored
      <3>2. Told(e)'
        BY <2>1, <2>2, <3>1 DEF Told
      <3> QED
        BY <1>0, <2>1, <3>1, <3>2, StepTold DEF Waits
    <2> QED
      BY <2>3, <2>4
  <1>9. CASE BeginExecution(e) \/ NextStep(e)
    <2>1. PICK s \in Steps : Dispatch(e, s) /\ Untouched(s)
      BY <1>9, DispatchIsFresh
    <2>2. e \in Requests /\ exec[e].at = "handle" /\ exec[e].tool = "workflow"
      BY <1>9, DispatchIsFresh
    <2>3. Walks(e, s) /\ \A f \in Executions : f # e => db'[f] = db[f]
      BY <1>0, <2>1, <2>2, DispatchFacts DEF Waits
    <2>4. UNCHANGED <<late, memory, events, rows, outcome>>
      BY <2>1 DEF Dispatch, stored
    <2>5. Kinds[s] = "tool" => /\ exec[Nested[s]].at = "idle" /\ exec'[Nested[s]].at = "resolve"
                              /\ Nested[s] \in Executions
      BY <2>1, <2>3, Nesting, StepsAreNumbers DEF Untouched, Walks
    <2>6. ASSUME NEW f \in Executions PROVE Told(f)'
      <3>1. CASE f = e
        BY <2>2, <2>3, <3>1 DEF Walks, Told
      <3>2. CASE Kinds[s] = "tool" /\ f = Nested[s]
        BY <1>0, <2>4, <2>5, <3>2 DEF EffectInv, Told, Bare
      <3>3. CASE f # e /\ ~ (Kinds[s] = "tool" /\ f = Nested[s])
        BY <1>0, <2>3, <2>4, <3>3 DEF Walks, EffectInv, Told, Bare, CallTells, AnswerTells
      <3> QED
        BY <3>1, <3>2, <3>3
    <2>7. \A f \in Executions : exec[f].at \in {"unwind", "record", "done"} => exec'[f] = exec[f]
      BY <2>2, <2>3, <2>5 DEF Walks
    <2>8. \A l \in late' : LateTold(l)'
      <3>1. \A l \in late : LateTold(l) /\ l.by \in Executions
        BY <1>0, LateFields DEF EffectInv
      <3> QED
        BY <2>4, <2>7, <3>1 DEF LateTold
    <2>9. \A id \in Ids : Recalled(id)'
      <3>1. ASSUME NEW id \in Ids, memory[id] # NoAnswer PROVE memory[id].of \in Executions
        <4>1. memory[id] \in Answers
          BY <1>0 DEF GatewayTypeOK
        <4> QED
          BY <3>1, <4>1, AnswerTypes
      <3> QED
        BY <1>0, <2>4, <2>7, <3>1 DEF EffectInv, Recalled
    <2> QED
      BY <2>6, <2>8, <2>9 DEF EffectInv
  <1> QED
    BY <1>2, <1>3, <1>7, <1>8, <1>9 DEF FlowStep

LEMMA EffectIsToldByStops ==
  ASSUME GatewayInv, NEW e \in Executions,
         \/ HandlerTimesOut(e) \/ CancelHandler(e) \/ CancelUnwinding(e)
         \/ CancelFlow(e) \/ Unwound(e)
  PROVE  EffectInv'
  <1>0. GatewayTypeOK /\ EffectInv /\ Shaped(e) /\ Told(e)
    BY DEF GatewayInv, EffectInv
  <1>1. ASSUME NEW at \in {"unwind", "record"}, NEW code \in {"timeout", "cancelled"}, Orphans(e),
               Becomes(e, at, exec[e].tool, exec[e].id, exec[e].step, Answer(e, code)),
               exec[e].at \in {"handle", "unwind"}, UNCHANGED <<memory, events, rows, outcome>>
        PROVE  EffectInv'
    <2>1. /\ exec'[e].at = at /\ exec'[e].answer.of = e /\ exec'[e].answer.code = code
          /\ code \in Unsettled /\ \A f \in Executions : f # e => exec'[f] = exec[f]
      BY <1>1 DEF Becomes, Answer, Unsettled
    <2>2. Told(e)'
      BY <1>1, <2>1 DEF Told, AnswerTells
    <2>3. \A l \in late' : (l \in late /\ l.by # e) \/ LateTold(l)'
      <3>1. \A l \in late' : l \in late \/ l.by = e
        BY <1>0, <1>1, OrphansFacts
      <3> QED
        BY <1>1, <2>1, <3>1 DEF LateTold
    <2> QED
      BY <1>0, <1>1, <2>1, <2>2, <2>3, OrphansFacts, ElsewhereTold DEF Waits
  <1>2. CASE HandlerTimesOut(e) \/ CancelHandler(e)
    <2>1. PICK code \in {"timeout", "cancelled"} : StopHandler(e, code)
      BY <1>2 DEF HandlerTimesOut, CancelHandler, TimedOut
    <2>2. exec[e].at = "handle" /\ UNCHANGED <<memory, events, rows, outcome>>
      BY <1>2 DEF HandlerTimesOut, CancelHandler, stored
    <2> QED
      BY <1>0, <1>1, <2>1, <2>2, StopFacts
  <1>3. CASE CancelUnwinding(e)
    BY <1>0, <1>1, <1>3, CancelUnwindingFacts DEF CancelUnwinding, stored
  <1>4. CASE CancelFlow(e)
    <2>1. /\ Waits(e, "cancel", "queued") /\ exec[e].at = "unwind"
          /\ UNCHANGED <<exec, late, memory, events, rows, outcome>>
      BY <1>0, <1>4, AwaitsFacts DEF CancelFlow, Calls, stored
    <2>2. Told(e)'
      BY <1>0, <2>1 DEF Told
    <2> QED
      BY <1>0, <2>1, <2>2, StepTold DEF Waits
  <1>5. CASE Unwound(e)
    <2>1. /\ Becomes(e, "record", exec[e].tool, exec[e].id, exec[e].step, exec[e].answer)
          /\ Waits(e, "none", "done") /\ exec[e].at = "unwind"
          /\ UNCHANGED <<late, memory, events, rows, outcome>>
      BY <1>0, <1>5, UnwoundFacts DEF Unwound, stored
    <2>2. Told(e)'
      BY <1>0, <2>1 DEF Becomes, Told, AnswerTells, Unsettled
    <2> QED
      BY <1>0, <2>1, <2>2, StepTold DEF Becomes, Waits
  <1> QED
    BY <1>2, <1>3, <1>4, <1>5

LEMMA EffectIsTold ==
  ASSUME GatewayInv, GatewayNext
  PROVE  EffectInv'
  <1>0. GatewayTypeOK /\ EffectInv
    BY DEF GatewayInv
  <1>1. ASSUME NEW e \in Requests, Request(e) PROVE EffectInv'
    <2>1. e \in Executions /\ exec[e].at = "idle" /\ exec'[e].at = "resolve"
          /\ \A f \in Executions : f # e => exec'[f] = exec[f]
      BY <1>0, <1>1, RequestFacts DEF Becomes
    <2>2. UNCHANGED <<db, late, memory, events, rows, outcome>>
      BY <1>1 DEF Request, stored
    <2>3. Told(e)'
      BY <1>0, <2>1, <2>2 DEF EffectInv, Told, Bare
    <2> QED
      BY <1>0, <2>1, <2>2, <2>3, StepTold
  <1>2. CASE EndCall
    BY <1>0, <1>2
       DEF EndCall, stored, EffectInv, Told, Bare, CallTells, AnswerTells, LateTold, Recalled
  <1>3. CASE ForgetCall
    BY <1>0, <1>3
       DEF ForgetCall, stored, EffectInv, Told, Bare, CallTells, AnswerTells, LateTold, Recalled
  <1> QED
    BY <1>1, <1>2, <1>3, EffectIsToldByCalls, EffectIsToldByExecute, EffectIsToldByHandlers,
       EffectIsToldByStops
       DEF GatewayNext, CallStep, StopStep

-----------------------------------------------------------------------------
LEMMA GatewayInvInit ==
  ASSUME GatewayInit
  PROVE  GatewayInv
  <1>1. GatewayTypeOK
    <2>1. Idle \in Execution
      BY AnswerTypes DEF Idle, Execution, Tools
    <2>2. 0 \in 0..MaxRaises
      BY GatewayAssumption
    <2> QED
      BY <2>1, <2>2, AnswerTypes, CallNames DEF GatewayInit, GatewayTypeOK
  <1>2. \A e \in Executions : exec[e] = Idle /\ db[e] = NoCall
    BY DEF GatewayInit
  <1>3. /\ Idle.at = "idle" /\ Idle.step = 0 /\ Idle.tool = "query"
        /\ NoCall.call = "none" /\ NoCall.phase = "done"
    BY DEF Idle, NoCall
  <1>4. \A e \in Executions : Shaped(e) /\ Settled(e) /\ ~ Owns(e)
    BY <1>2, <1>3 DEF Shaped, Settled, Owns
  <1>5. \A s \in ToolSteps : exec[Nested[s]].at = "idle"
    BY <1>2, <1>3, Nesting
  <1>6. \A s \in Steps : runs[s] = 0
    BY DEF GatewayInit
  <1>7. ClaimInv /\ OwnerInv
    BY <1>4, <1>5, <1>6 DEF ClaimInv, OwnerInv, GatewayInit
  <1>8. Scheduled = {} /\ Booking = {}
    BY <1>2, <1>3 DEF GatewayInit, Scheduled, Booking
  <1>9. BookInv
    BY <1>8 DEF BookInv, GatewayInit
  <1>10. EffectInv
    <2>1. \A e \in Executions : Bare(e)
      BY GatewayAssumption DEF GatewayInit, Bare
    <2> QED
      BY <1>2, <1>3, <2>1 DEF GatewayInit, EffectInv, Told, Recalled
  <1> QED
    BY <1>1, <1>4, <1>7, <1>9, <1>10 DEF GatewayInv

LEMMA GatewayInvIsInductive ==
  ASSUME GatewayInv, [GatewayNext]_gatewayVars
  PROVE  GatewayInv'
  <1>1. CASE GatewayNext
    <2>1. GatewayTypeOK'
      BY <1>1, TypesAreKept DEF GatewayInv
    <2>2. \A f \in Executions : Shaped(f)' /\ Settled(f)'
      BY <1>1, ShapesAreKept, CallsStaySettled
    <2>3. ClaimInv' /\ OwnerInv'
      BY <1>1, <2>1, ClaimIsKept
    <2>4. BookInv' /\ EffectInv'
      BY <1>1, BookingsAreKept, EffectIsTold
    <2> QED
      BY <2>1, <2>2, <2>3, <2>4 DEF GatewayInv
  <1>2. CASE UNCHANGED gatewayVars
    BY <1>2 DEF gatewayVars, GatewayInv, GatewayTypeOK, Shaped, Settled, ClaimInv, OwnerInv, Owns,
                BookInv, Booking, Scheduled, EffectInv, Told, Bare, CallTells, AnswerTells,
                LateTold, Recalled
  <1> QED
    BY <1>1, <1>2

\* The inductive invariant of the gateway: what an execution awaits, who runs the workflow,
\* which bookings overlap and what the database holds of an execution belong together.
THEOREM GatewayInvHolds == GatewaySpec => []GatewayInv
  <1>1. GatewayInit => GatewayInv
    BY GatewayInvInit
  <1>2. GatewayInv /\ [GatewayNext]_gatewayVars => GatewayInv'
    BY GatewayInvIsInductive
  <1> QED
    BY <1>1, <1>2, PTL DEF GatewaySpec

\* Every variable of the gateway keeps its type.
THEOREM GatewayTypeCorrect == GatewaySpec => []GatewayTypeOK
  <1>1. GatewayInv => GatewayTypeOK
    BY DEF GatewayInv
  <1> QED
    BY <1>1, GatewayInvHolds, PTL

\* AnswerTellsEffect: what ToolGateway.execute answers of a booking, a follow-up or an outcome
\* is so: done when it says "ok", and not done, then or ever, when it answers with the error of
\* the handler's contract.  It says nothing of timeout and internal_error: the effect may stand.
THEOREM AnswerTellsEffectHolds == GatewaySpec => []AnswerTellsEffect
  <1>1. GatewayInv => AnswerTellsEffect
    BY DEF GatewayInv, EffectInv, Told, AnswerTells, AnswerTellsEffect
  <1> QED
    BY <1>1, GatewayInvHolds, PTL

\* DoubleBookingIsExcused: create_event refuses an interval it sees taken, so of two
\* appointments in it one was decided before the other was committed.
THEOREM DoubleBookingIsExcusedHolds == GatewaySpec => []DoubleBookingIsExcused
  <1>1. GatewayInv => DoubleBookingIsExcused
    BY DEF GatewayInv, BookInv, DoubleBookingIsExcused
  <1> QED
    BY <1>1, GatewayInvHolds, PTL

\* StepRunsOnce: the unique row of a call gives its workflow one executor for good, and
\* run_workflow only goes forward.
THEOREM StepRunsOnceHolds == GatewaySpec => []StepRunsOnce
  <1>1. GatewayInv => StepRunsOnce
    BY DEF GatewayInv, ClaimInv, StepRunsOnce
  <1> QED
    BY <1>1, GatewayInvHolds, PTL

\* AbandonedFlowIsExcused: run_workflow ends the row it claimed, or leaves it running because
\* it was stopped or got no answer while it claimed it, because an exception left it, its own
\* or that of a nested execute(), or because recording its cancellation did not succeed.
THEOREM AbandonedFlowIsExcusedHolds == GatewaySpec => []AbandonedFlowIsExcused
  <1>1. ASSUME GatewayInv PROVE AbandonedFlowIsExcused
    <2>1. ASSUME NEW e \in Executions, Owns(e)
          PROVE  /\ e \in Requests /\ exec[e].at \in {"handle", "unwind"}
                 /\ exec[e].tool = "workflow"
                 /\ exec[e].step # 0 \/ db[e].call = "begin"
      BY <1>1, <2>1 DEF GatewayInv, Shaped, Owns
    <2> QED
      BY <1>1, <2>1 DEF GatewayInv, OwnerInv, AbandonedFlowIsExcused
  <1> QED
    BY <1>1, GatewayInvHolds, PTL
===============================================================================
