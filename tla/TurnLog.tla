------------------------------- MODULE TurnLog --------------------------------
(***************************************************************************)
(* The durable conversation of one call: ConversationPersistence, its      *)
(* _CallWorker with a bounded queue, and persist_conversation_turn, which  *)
(* runs in a thread and appends to conversation_turns.                     *)
(*                                                                         *)
(* A turn the queue took is known by its place in `accepted`, and stored    *)
(* under its (event_id, role), which an earlier turn may have had: the     *)
(* turns of a tool have the call_id the model's provider gave it.  The     *)
(* transaction holds the lock of the call's row from its first read to its *)
(* commit; deletion takes no lock.  A call that raises may have committed  *)
(* all the same.                                                           *)
(***************************************************************************)
EXTENDS Integers, Sequences, FiniteSets

CONSTANTS
  Turns,          \* what a turn may be stored under: (event_id, role)
  QueueSize,      \* queue_maxsize
  MaxRetries,     \* max_retries
  MaxFailures,    \* bound: calls of persist_conversation_turn that raise
  MaxDeletions    \* bound: deletions of the conversation

ASSUME TurnLogAssumption ==
  /\ QueueSize \in Nat \ {0}
  /\ MaxRetries \in Nat /\ MaxFailures \in Nat /\ MaxDeletions \in Nat

VARIABLES
  queue,       \* _CallWorker._queue, of places in `accepted`
  worker,      \* where _run is, with which turn, after how many failures
  thread,      \* the call of persist_conversation_turn, and the sequence it chose
  log,         \* the rows of conversation_turns, in the order of their sequence
  finishing,   \* finish(): not called, waiting, or returned
  failures, deletions,
  failed,      \* the turns WorkerStats.failed counts
  accepted,    \* history: the (event_id, role) of each turn the queue took, in order
  stored       \* history: turns that were stored, deleted since or not

turnLogVars ==
  <<queue, worker, thread, log, finishing, failures, deletions, failed, accepted, stored>>

\* The None that shutdown() adds to the queue; places count from 1.
End == 0

Row == [turn : Nat, sequence : Nat]
Queued == {queue[i] : i \in DOMAIN queue}

Worker == [at    : {"none", "get", "persist", "backoff", "ended", "cancelled"},
           turn  : Nat,
           fails : Nat]
Thread == [at : {"none", "queued", "locked", "returned", "raised"},
           turn : Nat, sequence : Nat]

NoThread == [at |-> "none", turn |-> End, sequence |-> 0]

TurnLogTypeOK ==
  /\ queue \in Seq(Nat) /\ Len(queue) <= QueueSize
  /\ worker \in Worker
  /\ thread \in Thread
  /\ log \in Seq(Row)
  /\ finishing \in {"no", "waiting", "returned"}
  /\ failures \in 0..MaxFailures /\ deletions \in 0..MaxDeletions
  /\ accepted \in Seq(Turns)
  /\ failed \subseteq Nat
  /\ stored \subseteq Nat

TurnLogInit ==
  /\ queue = <<>>
  /\ worker = [at |-> "none", turn |-> End, fails |-> 0]
  /\ thread = NoThread
  /\ log = <<>>
  /\ finishing = "no"
  /\ failures = 0 /\ deletions = 0
  /\ accepted = <<>>
  /\ failed = {}
  /\ stored = {}

-----------------------------------------------------------------------------
(* ConversationPersistence                                                 *)

\* start() of a call that has a worker already changes nothing.
StartWorker ==
  /\ worker.at = "none" /\ finishing = "no"
  /\ worker' = [worker EXCEPT !.at = "get"]
  /\ UNCHANGED <<queue, thread, log, finishing, failures, deletions, failed, accepted, stored>>

\* A worker takes turns from start() until finish() has removed it.
Registered == worker.at # "none" /\ finishing = "no"

\* enqueue(): dropped without a worker, or when the queue is full.
EnqueueTurn(t) ==
  IF Registered /\ Len(queue) < QueueSize
    THEN /\ accepted' = Append(accepted, t)
         /\ queue' = Append(queue, Len(accepted) + 1)
    ELSE UNCHANGED <<queue, accepted>>

\* finish(): the worker is removed; the sentinel is dropped when the queue is full.
FinishLog ==
  /\ Registered
  /\ finishing' = "waiting"
  /\ queue' = IF Len(queue) < QueueSize THEN Append(queue, End) ELSE queue
  /\ UNCHANGED <<worker, thread, log, failures, deletions, failed, accepted, stored>>

FinishReturns ==
  /\ finishing = "waiting" /\ worker.at = "ended"
  /\ finishing' = "returned"
  /\ UNCHANGED <<queue, worker, thread, log, failures, deletions, failed, accepted, stored>>

\* Mutation: finish() waits for the worker without a timeout.
NeverTimesOut == FALSE
\* The worker has not ended within drain_timeout_seconds.  A call of the database that
\* runs goes on in its thread; one that has not begun may be dropped.
DrainTimesOut ==
  /\ finishing = "waiting" /\ worker.at # "ended"
  /\ finishing' = "returned"
  /\ worker' = [worker EXCEPT !.at = "cancelled"]
  /\ \/ UNCHANGED thread
     \/ thread.at = "queued" /\ thread' = NoThread
  /\ UNCHANGED <<queue, log, failures, deletions, failed, accepted, stored>>

-----------------------------------------------------------------------------
(* _CallWorker._run and _persist_with_retry                                *)

CallPersist(t) == thread' = [at |-> "queued", turn |-> t, sequence |-> 0]

TakeTurn ==
  /\ worker.at = "get" /\ queue # <<>>
  /\ queue' = Tail(queue)
  /\ IF Head(queue) = End
       THEN worker' = [worker EXCEPT !.at = "ended"] /\ UNCHANGED thread
       ELSE /\ worker' = [at |-> "persist", turn |-> Head(queue), fails |-> 0]
            /\ CallPersist(Head(queue))
  /\ UNCHANGED <<log, finishing, failures, deletions, failed, accepted, stored>>

LetGo == [worker EXCEPT !.at = "get", !.turn = End]

TurnPersisted ==
  /\ worker.at = "persist" /\ thread.at = "returned"
  /\ worker' = LetGo
  /\ thread' = NoThread
  /\ UNCHANGED <<queue, log, finishing, failures, deletions, failed, accepted, stored>>

\* Mutation: a turn that failed is put behind those that wait.
RequeueTurn ==
  /\ worker' = LetGo
  /\ queue' = Append(queue, worker.turn)
  /\ UNCHANGED failed
\* Mutation: a turn that failed is let go without a word.
ForgetTurn == worker' = LetGo /\ UNCHANGED <<queue, failed>>
\* Count it as failed after max_retries, or wait and try again.
RetryTurn ==
  /\ IF worker.fails + 1 > MaxRetries
       THEN worker' = LetGo /\ failed' = failed \cup {worker.turn}
       ELSE /\ worker' = [worker EXCEPT !.at = "backoff", !.fails = @ + 1]
            /\ UNCHANGED failed
  /\ UNCHANGED queue

PersistFails ==
  /\ worker.at = "persist" /\ thread.at = "raised"
  /\ RetryTurn
  /\ thread' = NoThread
  /\ UNCHANGED <<log, finishing, failures, deletions, accepted, stored>>

BackoffElapses ==
  /\ worker.at = "backoff"
  /\ worker' = [worker EXCEPT !.at = "persist"]
  /\ CallPersist(worker.turn)
  /\ UNCHANGED <<queue, log, finishing, failures, deletions, failed, accepted, stored>>

-----------------------------------------------------------------------------
(* persist_conversation_turn and delete_conversation_turns                 *)

NextSequence == IF log = <<>> THEN 0 ELSE log[Len(log)].sequence + 1

\* Mutation: a turn is stored as often as it is asked for.
NeverStored(t) == FALSE
IsStored(t) == \E i \in DOMAIN log : accepted[log[i].turn] = accepted[t]

\* Lock the call; return the row that exists, or choose the next sequence number.
LockAndRead ==
  /\ thread.at = "queued"
  /\ thread' = IF IsStored(thread.turn)
                 THEN [thread EXCEPT !.at = "returned"]
                 ELSE [thread EXCEPT !.at = "locked", !.sequence = NextSequence]
  /\ UNCHANGED <<queue, worker, log, finishing, failures, deletions, failed, accepted, stored>>

InsertRow ==
  /\ log' = Append(log, [turn |-> thread.turn, sequence |-> thread.sequence])
  /\ stored' = stored \cup {thread.turn}

CommitTurn ==
  /\ thread.at = "locked"
  /\ InsertRow
  /\ thread' = [thread EXCEPT !.at = "returned"]
  /\ UNCHANGED <<queue, worker, finishing, failures, deletions, failed, accepted>>

\* Rolled back, or committed with the answer lost.
PersistRaises ==
  /\ thread.at \in {"queued", "locked"} /\ failures < MaxFailures
  /\ failures' = failures + 1
  /\ thread' = [thread EXCEPT !.at = "raised"]
  /\ \/ UNCHANGED <<log, stored>>
     \/ thread.at = "locked" /\ InsertRow
  /\ UNCHANGED <<queue, worker, finishing, deletions, failed, accepted>>

DeleteTurns ==
  /\ log # <<>> /\ deletions < MaxDeletions
  /\ deletions' = deletions + 1
  /\ log' = <<>>
  /\ UNCHANGED <<queue, worker, thread, finishing, failures, failed, accepted, stored>>

-----------------------------------------------------------------------------
WorkerStep == TakeTurn \/ TurnPersisted \/ PersistFails \/ BackoffElapses
ThreadStep == LockAndRead \/ CommitTurn \/ PersistRaises
LogStep == WorkerStep \/ ThreadStep \/ FinishReturns \/ DrainTimesOut \/ DeleteTurns

\* The pumps of the call, seen from here.
OfferTurn(t) ==
  /\ EnqueueTurn(t)
  /\ UNCHANGED <<worker, thread, log, finishing, failures, deletions, failed, stored>>

TurnLogNext == StartWorker \/ (\E t \in Turns : OfferTurn(t)) \/ FinishLog \/ LogStep

TurnLogSpec == TurnLogInit /\ [][TurnLogNext]_turnLogVars

\* The worker's task and the threads of the executor run, and finish() is awaited.
TurnLogFairness == /\ WF_turnLogVars(WorkerStep) /\ WF_turnLogVars(ThreadStep)
                   /\ WF_turnLogVars(FinishReturns \/ DrainTimesOut)

-----------------------------------------------------------------------------
(* Properties                                                              *)

\* conversation_persistence.py, _CallWorker: "FIFO processing of a single queue is itself
\* what keeps a tool call's own turn ordered ahead of its tool result".  Through retries,
\* lost answers and deletions, the rows stand in the order in which the turns were
\* accepted, with sequence numbers that grow, and one row for an (event_id, role).
LogKeepsOrder ==
  \A i, j \in DOMAIN log :
    i < j =>
      /\ log[i].sequence < log[j].sequence
      /\ log[i].turn < log[j].turn
      /\ accepted[log[i].turn] # accepted[log[j].turn]

\* The turn is stored, counted as failed, or still with the worker.
IsKept(k) == k \in stored \cup failed \cup {worker.turn} \cup Queued

\* A turn the queue took is kept, or it was taken for one that had its (event_id, role)
\* before it and is stored; only the drain timeout, which cancels the worker, loses others.
EveryTurnIsAccountedFor ==
  worker.at # "cancelled" =>
    \A k \in DOMAIN accepted :
      IsKept(k) \/ \E j \in stored : j < k /\ accepted[j] = accepted[k]
===============================================================================
