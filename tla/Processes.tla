------------------------------ MODULE Processes -------------------------------
(***************************************************************************)
(* What runs in the processes of the product, one activity at a time: the   *)
(* task of a call, the conversation the task awaits, the streamed responses *)
(* of the model in it, and the process of a background worker.  CallTask    *)
(* has the conversation as one await, and Conversation a response as one    *)
(* step; so a behaviour is one of one of them, and the others rest.         *)
(***************************************************************************)
EXTENDS CallTask, ConversationMC, ModelStream, WorkerProcess

VARIABLE activity

Activities == {"task", "conversation", "stream", "worker"}

processesVars == <<activity, vars, conversationVars, streamVars, workerVars>>

ProcessesTypeOK ==
  /\ activity \in Activities
  /\ TypeOK /\ ConversationTypeOK /\ StreamTypeOK /\ WorkerTypeOK

\* One adapter, one script and one call may rest.
ProcessesInit ==
  /\ activity \in Activities
  /\ Init /\ ConversationInit /\ StreamInit /\ WorkerInit
  /\ activity # "stream" => vendor = "openai"
  /\ activity # "worker" => script = "followups"
  /\ activity # "task" => process = "running" /\ ~ overwritten

Runs(a) == activity = a

ProcessesNext ==
  /\ UNCHANGED activity
  /\ \/ Runs("task") /\ Next /\ UNCHANGED <<conversationVars, streamVars, workerVars>>
     \/ Runs("conversation") /\ ConversationNext /\ UNCHANGED <<vars, streamVars, workerVars>>
     \/ Runs("stream") /\ StreamNext /\ UNCHANGED <<vars, conversationVars, workerVars>>
     \/ Runs("worker") /\ WorkerNext /\ UNCHANGED <<vars, conversationVars, streamVars>>

\* The fairness of each module, asked of the activity that goes on; a worker at rest has
\* no step that its own fairness could ask for.
TaskIsFair ==
  /\ WF_vars(Runs("task") /\ TaskStep) /\ WF_vars(Runs("task") /\ OrphanStep)
  /\ WF_vars(Runs("task") /\ ProcessEnds)

\* The tasks of the call's event loop run, providers answer within their idle timeouts,
\* media takes a frame, executions time out, and the call task runs its teardown.  Nobody
\* has to speak, to hang up or to delete anything.
ConversationIsFair ==
  /\ WF_conversationVars(Runs("conversation") /\ SttProceeds)
  /\ WF_conversationVars(Runs("conversation") /\ TurnStep)
  /\ WF_conversationVars(Runs("conversation") /\ (StartPumps \/ PumpStep))
  /\ \A n \in 1..MaxTools : WF_conversationVars(Runs("conversation") /\ ToolDone(n))
  /\ WF_conversationVars(Runs("conversation") /\ FinishTurns)
  /\ WF_conversationVars(Runs("conversation") /\ CloseSession)
  /\ WF_conversationVars(Runs("conversation") /\ LogProceeds)
  /\ WF_conversationVars(Runs("conversation") /\ ThreadProceeds)

ProcessesSpec ==
  /\ ProcessesInit /\ [][ProcessesNext]_processesVars
  /\ TaskIsFair /\ ConversationIsFair /\ WorkerFairness
===============================================================================
