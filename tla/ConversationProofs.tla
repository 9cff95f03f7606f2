-------------------------- MODULE ConversationProofs ---------------------------
(***************************************************************************)
(* What TurnLog, Conversation and ModelStream keep, for every bound of     *)
(* their constants.                                                        *)
(***************************************************************************)
EXTENDS Conversation, ModelStream, FiniteSetTheorems, TLAPS

-----------------------------------------------------------------------------
(* TurnLog: the inductive invariants                                       *)

\* t was accepted, and before every turn that waits in q.
Ahead(a, q, t) ==
  /\ t \in DOMAIN a
  /\ \A i \in DOMAIN q : q[i] # End => t < q[i]

\* The queue holds turns that were accepted, in their order; End comes with finish(), and is
\* the last there is.
QueueInv ==
  /\ \A i \in DOMAIN queue :
       IF queue[i] = End THEN finishing # "no" ELSE queue[i] \in DOMAIN accepted
  /\ \A i, j \in DOMAIN queue :
       i < j => queue[i] # End /\ (queue[j] # End => queue[i] < queue[j])

\* A call of the thread is for the worker's turn: a worker waits for the call it made, or
\* was cancelled and left it behind.
HandInv ==
  /\ thread.at # "none" => thread.turn = worker.turn /\ worker.turn # End
  /\ worker.at \in {"none", "get", "backoff", "ended"} => thread.at = "none"
  /\ worker.at = "persist" => thread.at # "none"
  /\ worker.at = "backoff" => worker.turn # End
  /\ worker.at \in {"none", "get", "ended"} => worker.turn = End
  /\ worker.at = "none" => finishing = "no"

HeldInv == worker.turn # End => Ahead(accepted, queue, worker.turn)

\* What was stored was accepted before all that waits and not after what the worker holds;
\* while a call holds the lock, what it read stays true.
LogInv ==
  /\ \A i \in DOMAIN log :
       /\ Ahead(accepted, queue, log[i].turn)
       /\ worker.turn # End => log[i].turn <= worker.turn
       /\ thread.at = "locked" =>
            /\ accepted[log[i].turn] # accepted[thread.turn]
            /\ log[i].sequence < thread.sequence
  /\ LogKeepsOrder

OrderInv == TurnLogTypeOK /\ QueueInv /\ HandInv /\ HeldInv /\ LogInv

\* k is stored or counted as failed, or a turn before it is stored under its (event_id, role).
Settled(k, s, f, a) == k \in s \cup f \/ \E j \in s : j < k /\ a[j] = a[k]

\* A call that returned has stored its turn, or found a turn stored before in its place.
StoredInv ==
  /\ stored \subseteq DOMAIN accepted
  /\ \A i \in DOMAIN log : log[i].turn \in stored
  /\ thread.at = "returned" => Settled(thread.turn, stored, {}, accepted)

AccountInv == OrderInv /\ StoredInv /\ EveryTurnIsAccountedFor

-----------------------------------------------------------------------------
(* Sequences                                                               *)

LEMMA AppendFacts ==
  ASSUME NEW S, NEW s \in Seq(S), NEW x \in S
  PROVE  /\ Append(s, x) \in Seq(S)
         /\ Len(Append(s, x)) = Len(s) + 1
         /\ DOMAIN Append(s, x) = DOMAIN s \cup {Len(s) + 1}
         /\ \A i \in DOMAIN s : i < Len(s) + 1 /\ Append(s, x)[i] = s[i]
         /\ Append(s, x)[Len(s) + 1] = x
         /\ Len(s) \in Nat /\ DOMAIN s = 1..Len(s)
  OBVIOUS

LEMMA TailFacts ==
  ASSUME NEW S, NEW s \in Seq(S), s # <<>>
  PROVE  /\ Tail(s) \in Seq(S)
         /\ Len(Tail(s)) = Len(s) - 1
         /\ Len(s) \in Nat \ {0} /\ DOMAIN s = 1..Len(s)
         /\ 1 \in DOMAIN s /\ Head(s) = s[1] /\ Head(s) \in S
         /\ \A i \in DOMAIN Tail(s) :
              i + 1 \in DOMAIN s /\ 1 < i + 1 /\ Tail(s)[i] = s[i + 1]
  OBVIOUS

-----------------------------------------------------------------------------
(* TurnLog: types                                                          *)

LEMMA TurnLogInitType ==
  TurnLogInit => TurnLogTypeOK
  BY TurnLogAssumption DEF TurnLogInit, TurnLogTypeOK, Worker, Thread, NoThread, End

LEMMA RowType ==
  ASSUME TurnLogTypeOK, thread.turn \in Nat
  PROVE  [turn |-> thread.turn, sequence |-> thread.sequence] \in Row
  BY DEF TurnLogTypeOK, Thread, Row

LEMMA NextSequenceType ==
  ASSUME TurnLogTypeOK
  PROVE  NextSequence \in Nat
  <1>1. CASE log # <<>>
    <2>1. log[Len(log)] \in Row
      BY <1>1 DEF TurnLogTypeOK
    <2> QED
      BY <1>1, <2>1 DEF NextSequence, Row
  <1> QED
    BY <1>1 DEF NextSequence

LEMMA RecordTypes ==
  /\ NoThread \in Thread
  /\ \A t \in Nat :
       /\ [at |-> "persist", turn |-> t, fails |-> 0] \in Worker
       /\ [at |-> "queued", turn |-> t, sequence |-> 0] \in Thread
  /\ \A w \in Worker :
       /\ w.turn \in Nat
       /\ [w EXCEPT !.at = "get", !.turn = End] \in Worker
       /\ \A s \in {"ended", "cancelled", "persist", "get"} : [w EXCEPT !.at = s] \in Worker
       /\ [w EXCEPT !.at = "backoff", !.fails = @ + 1] \in Worker
  /\ \A h \in Thread :
       /\ \A s \in {"returned", "raised"} : [h EXCEPT !.at = s] \in Thread
       /\ \A n \in Nat : [h EXCEPT !.at = "locked", !.sequence = n] \in Thread
  <1>1. /\ NoThread \in Thread
        /\ \A t \in Nat :
             /\ [at |-> "persist", turn |-> t, fails |-> 0] \in Worker
             /\ [at |-> "queued", turn |-> t, sequence |-> 0] \in Thread
    BY DEF Worker, Thread, NoThread, End
  <1>2. ASSUME NEW w \in Worker
        PROVE  /\ w.turn \in Nat
               /\ [w EXCEPT !.at = "get", !.turn = End] \in Worker
    BY DEF Worker, End
  <1>6. ASSUME NEW w \in Worker
        PROVE  [w EXCEPT !.at = "backoff", !.fails = @ + 1] \in Worker
    <2>1. w.fails + 1 \in Nat
      BY DEF Worker
    <2> QED
      BY <2>1 DEF Worker
  <1>3. ASSUME NEW w \in Worker, NEW s \in {"ended", "cancelled", "persist", "get"}
        PROVE  [w EXCEPT !.at = s] \in Worker
    BY DEF Worker
  <1>4. ASSUME NEW h \in Thread, NEW s \in {"returned", "raised"}
        PROVE  [h EXCEPT !.at = s] \in Thread
    BY DEF Thread
  <1>5. ASSUME NEW h \in Thread, NEW n \in Nat
        PROVE  [h EXCEPT !.at = "locked", !.sequence = n] \in Thread
    BY DEF Thread
  <1> QED
    BY <1>1, <1>2, <1>3, <1>4, <1>5, <1>6

LEMMA WorkerTypes ==
  ASSUME TurnLogTypeOK, HandInv, WorkerStep
  PROVE  TurnLogTypeOK'
  <1> USE DEF TurnLogTypeOK
  <1>1. CASE TakeTurn
    <2>1. /\ Head(queue) \in Nat
          /\ Tail(queue) \in Seq(Nat) /\ Len(Tail(queue)) <= QueueSize
      BY <1>1, TailFacts, TurnLogAssumption DEF TakeTurn
    <2>2. worker' \in Worker
      BY <1>1, <2>1, RecordTypes DEF TakeTurn
    <2>3. thread' \in Thread
      BY <1>1, <2>1, RecordTypes DEF TakeTurn, CallPersist
    <2> QED
      BY <1>1, <2>1, <2>2, <2>3 DEF TakeTurn
  <1>3. CASE TurnPersisted
    BY <1>3, RecordTypes DEF TurnPersisted, LetGo
  <1>4. CASE PersistFails
    <2>1. worker.turn \in Nat
      BY <1>4 DEF PersistFails, HandInv, Worker
    <2>2. worker' \in Worker
      BY <1>4, RecordTypes DEF PersistFails, RetryTurn, LetGo
    <2>3. failed' \subseteq Nat
      BY <1>4, <2>1 DEF PersistFails, RetryTurn, LetGo
    <2> QED
      BY <1>4, <2>2, <2>3, RecordTypes DEF PersistFails, RetryTurn, LetGo
  <1>5. CASE BackoffElapses
    <2>1. worker' \in Worker /\ thread' \in Thread
      BY <1>5, RecordTypes DEF BackoffElapses, CallPersist, HandInv
    <2> QED
      BY <1>5, <2>1 DEF BackoffElapses
  <1> QED
    BY <1>1, <1>3, <1>4, <1>5 DEF WorkerStep

LEMMA ThreadTypes ==
  ASSUME TurnLogTypeOK, HandInv, ThreadStep
  PROVE  TurnLogTypeOK'
  <1> USE DEF TurnLogTypeOK
  <1>1. thread.at \in {"queued", "locked"} /\ thread.turn \in Nat
    BY DEF ThreadStep, LockAndRead, CommitTurn, PersistRaises, HandInv, Thread
  <1>2. ASSUME InsertRow
        PROVE  log' \in Seq(Row) /\ stored' \subseteq Nat
    BY <1>1, <1>2, RowType, AppendFacts DEF InsertRow
  <1>3. CASE LockAndRead
    <2>1. thread' \in Thread
      BY <1>3, NextSequenceType, RecordTypes DEF LockAndRead
    <2> QED
      BY <1>3, <2>1 DEF LockAndRead
  <1>4. CASE CommitTurn
    <2>1. thread' \in Thread
      BY <1>4, RecordTypes DEF CommitTurn
    <2> QED
      BY <1>2, <1>4, <2>1 DEF CommitTurn
  <1>5. CASE PersistRaises
    <2>1. failures' \in 0..MaxFailures
      BY <1>5, TurnLogAssumption DEF PersistRaises
    <2>2. thread' \in Thread
      BY <1>5, RecordTypes DEF PersistRaises
    <2> QED
      BY <1>2, <1>5, <2>1, <2>2 DEF PersistRaises
  <1> QED
    BY <1>3, <1>4, <1>5 DEF ThreadStep

LEMMA EnqueueTypes ==
  ASSUME TurnLogTypeOK, NEW t \in Turns, EnqueueTurn(t)
  PROVE  /\ queue' \in Seq(Nat) /\ Len(queue') <= QueueSize
         /\ accepted' \in Seq(Turns)
  <1>1. queue \in Seq(Nat) /\ accepted \in Seq(Turns) /\ Len(queue) <= QueueSize
    BY DEF TurnLogTypeOK
  <1>2. /\ Append(queue, Len(accepted) + 1) \in Seq(Nat) /\ Append(accepted, t) \in Seq(Turns)
        /\ Len(Append(queue, Len(accepted) + 1)) = Len(queue) + 1
    BY <1>1, AppendFacts
  <1>3. CASE Registered /\ Len(queue) < QueueSize
    <2>1. queue' = Append(queue, Len(accepted) + 1) /\ accepted' = Append(accepted, t)
      BY <1>3 DEF EnqueueTurn
    <2>2. Len(queue) + 1 <= QueueSize
      BY <1>1, <1>3, TurnLogAssumption
    <2> QED
      BY <1>2, <2>1, <2>2
  <1> QED
    BY <1>1, <1>3 DEF EnqueueTurn

LEMMA OtherLogTypes ==
  ASSUME TurnLogTypeOK,
         \/ StartWorker \/ FinishLog \/ FinishReturns \/ DrainTimesOut \/ DeleteTurns
         \/ \E t \in Turns : OfferTurn(t)
  PROVE  TurnLogTypeOK'
  <1> USE DEF TurnLogTypeOK
  <1>1. CASE StartWorker
    BY <1>1 DEF StartWorker, Worker
  <1>2. CASE FinishLog
    <2>1. queue' \in Seq(Nat) /\ Len(queue') <= QueueSize
      BY <1>2, AppendFacts, TurnLogAssumption DEF FinishLog, End
    <2> QED
      BY <1>2, <2>1 DEF FinishLog
  <1>3. CASE FinishReturns
    BY <1>3 DEF FinishReturns
  <1>4. CASE DrainTimesOut
    <2>1. worker' \in Worker /\ thread' \in Thread
      BY <1>4 DEF DrainTimesOut, NoThread, Worker, Thread, End
    <2> QED
      BY <1>4, <2>1 DEF DrainTimesOut
  <1>5. CASE DeleteTurns
    <2>1. log' \in Seq(Row) /\ deletions' \in 0..MaxDeletions
      BY <1>5, TurnLogAssumption DEF DeleteTurns
    <2> QED
      BY <1>5, <2>1 DEF DeleteTurns
  <1>6. ASSUME NEW t \in Turns, OfferTurn(t)
        PROVE  TurnLogTypeOK'
    BY <1>6, EnqueueTypes DEF OfferTurn
  <1> QED
    BY <1>1, <1>2, <1>3, <1>4, <1>5, <1>6

\* Where the steps of the worker leave it, and its call.
LEMMA WorkerEffects ==
  ASSUME TurnLogTypeOK
  PROVE  /\ TakeTurn =>
              \/ /\ Head(queue) = End /\ UNCHANGED thread
                 /\ worker'.at = "ended" /\ worker'.turn = worker.turn
              \/ /\ Head(queue) # End
                 /\ worker'.at = "persist" /\ worker'.turn = Head(queue)
                 /\ thread'.at = "queued" /\ thread'.turn = Head(queue)
         /\ TurnPersisted => worker'.at = "get" /\ worker'.turn = End /\ thread'.at = "none"
         /\ PersistFails =>
              /\ thread'.at = "none"
              /\ \/ worker'.at = "get" /\ worker'.turn = End
                 \/ worker'.at = "backoff" /\ worker'.turn = worker.turn
         /\ BackoffElapses =>
              /\ worker'.at = "persist" /\ worker'.turn = worker.turn
              /\ thread'.at = "queued" /\ thread'.turn = worker.turn
  <1>1. worker \in Worker
    BY DEF TurnLogTypeOK
  <1>2. \A s : [worker EXCEPT !.at = s].at = s /\ [worker EXCEPT !.at = s].turn = worker.turn
    BY <1>1 DEF Worker
  <1>3. LetGo.at = "get" /\ LetGo.turn = End
    BY <1>1 DEF LetGo, Worker
  <1>4. /\ [worker EXCEPT !.at = "backoff", !.fails = @ + 1].at = "backoff"
        /\ [worker EXCEPT !.at = "backoff", !.fails = @ + 1].turn = worker.turn
    BY <1>1 DEF Worker
  <1>5. NoThread.at = "none"
    BY DEF NoThread
  <1>6. ASSUME TakeTurn
        PROVE  \/ /\ Head(queue) = End /\ UNCHANGED thread
                  /\ worker'.at = "ended" /\ worker'.turn = worker.turn
               \/ /\ Head(queue) # End
                  /\ worker'.at = "persist" /\ worker'.turn = Head(queue)
                  /\ thread'.at = "queued" /\ thread'.turn = Head(queue)
    <2>1. CASE Head(queue) = End
      <3>1. worker' = [worker EXCEPT !.at = "ended"] /\ UNCHANGED thread
        BY <1>6, <2>1 DEF TakeTurn
      <3> QED
        BY <1>2, <2>1, <3>1
    <2>2. CASE Head(queue) # End
      BY <1>6, <2>2 DEF TakeTurn, CallPersist
    <2> QED
      BY <2>1, <2>2
  <1>7. TurnPersisted => worker'.at = "get" /\ worker'.turn = End /\ thread'.at = "none"
    BY <1>3, <1>5 DEF TurnPersisted
  <1>8. ASSUME PersistFails
        PROVE  /\ thread'.at = "none"
               /\ \/ worker'.at = "get" /\ worker'.turn = End
                  \/ worker'.at = "backoff" /\ worker'.turn = worker.turn
    <2>1. thread' = NoThread
      BY <1>8 DEF PersistFails
    <2>2. worker' \in {LetGo, [worker EXCEPT !.at = "backoff", !.fails = @ + 1]}
      BY <1>8 DEF PersistFails, RetryTurn
    <2> QED
      BY <1>3, <1>4, <1>5, <2>1, <2>2
  <1>9. ASSUME BackoffElapses
        PROVE  /\ worker'.at = "persist" /\ worker'.turn = worker.turn
               /\ thread'.at = "queued" /\ thread'.turn = worker.turn
    BY <1>2, <1>9 DEF BackoffElapses, CallPersist
  <1> QED
    BY <1>6, <1>7, <1>8, <1>9

LEMMA LogStepKeepsTypes ==
  ASSUME TurnLogTypeOK, HandInv, [TurnLogNext]_turnLogVars
  PROVE  TurnLogTypeOK' /\ HandInv'
  <1>1. TurnLogTypeOK'
    <2>1. CASE UNCHANGED turnLogVars
      BY <2>1 DEF turnLogVars, TurnLogTypeOK
    <2> QED
      BY <2>1, WorkerTypes, ThreadTypes, OtherLogTypes DEF TurnLogNext, LogStep
  <1> USE DEF HandInv
  <1>2. CASE WorkerStep
    <2>1. TakeTurn => worker.at = "get" /\ UNCHANGED finishing
      BY DEF TakeTurn
    <2>2. UNCHANGED finishing
      BY <1>2 DEF WorkerStep, TakeTurn, TurnPersisted, PersistFails, BackoffElapses
    <2>3. BackoffElapses => worker.turn # End
      BY DEF BackoffElapses
    <2>4. PersistFails => worker.turn # End
      BY DEF PersistFails
    <2> QED
      BY <1>1, <1>2, <2>1, <2>2, <2>3, <2>4, WorkerEffects DEF WorkerStep
  <1>3. CASE ThreadStep
    BY <1>1, <1>3
       DEF ThreadStep, LockAndRead, CommitTurn, PersistRaises, TurnLogTypeOK, Thread
  <1>4. CASE StartWorker \/ FinishReturns \/ DrainTimesOut \/ FinishLog
    BY <1>1, <1>4 DEF StartWorker, FinishReturns, DrainTimesOut, FinishLog, Registered,
                      NoThread, TurnLogTypeOK, Worker
  <1>5. CASE DeleteTurns \/ UNCHANGED turnLogVars \/ \E t \in Turns : OfferTurn(t)
    BY <1>1, <1>5 DEF DeleteTurns, turnLogVars, OfferTurn
  <1> QED
    BY <1>2, <1>3, <1>4, <1>5 DEF TurnLogNext, LogStep

\* Every variable of the log keeps its type, and what _CallWorker or the thread of
\* persist_conversation_turn holds is a turn.
THEOREM TurnLogTypeCorrect ==
  TurnLogSpec => [](TurnLogTypeOK /\ HandInv)
  <1>1. TurnLogInit => TurnLogTypeOK /\ HandInv
    BY TurnLogInitType DEF TurnLogInit, HandInv, NoThread
  <1>2. TurnLogTypeOK /\ HandInv /\ [TurnLogNext]_turnLogVars => (TurnLogTypeOK /\ HandInv)'
    BY LogStepKeepsTypes
  <1> QED
    BY <1>1, <1>2, PTL DEF TurnLogSpec

-----------------------------------------------------------------------------
(* TurnLog: the order of the rows                                          *)

LEMMA AheadFacts ==
  ASSUME NEW a, NEW q \in Seq(Nat), NEW t, Ahead(a, q, t)
  PROVE  /\ q # <<>> => Ahead(a, Tail(q), t)
         /\ q # <<>> /\ Head(q) # End => t < Head(q)
         /\ Ahead(a, Append(q, End), t)
  <1>1. ASSUME q # <<>>
        PROVE  Ahead(a, Tail(q), t) /\ (Head(q) # End => t < Head(q))
    BY <1>1, TailFacts DEF Ahead
  <1>2. Ahead(a, Append(q, End), t)
    BY AppendFacts DEF Ahead, End
  <1> QED
    BY <1>1, <1>2

\* EnqueueTurn keeps the order: a new turn gets the next place.
LEMMA EnqueueKeepsOrder ==
  ASSUME TurnLogTypeOK, QueueInv, HandInv, HeldInv, LogInv, NEW t \in Turns, EnqueueTurn(t),
         UNCHANGED <<worker, thread, log, finishing>>
  PROVE  QueueInv' /\ HeldInv' /\ LogInv'
  <1> DEFINE n == Len(accepted) + 1
  <1>1. CASE UNCHANGED <<queue, accepted>>
    BY <1>1 DEF QueueInv, HeldInv, LogInv, LogKeepsOrder
  <1>2. CASE /\ Registered
             /\ queue' = Append(queue, n) /\ accepted' = Append(accepted, t)
    <2>1. /\ queue \in Seq(Nat) /\ accepted \in Seq(Turns)
          /\ n \in Nat \ {End} /\ DOMAIN accepted = 1..Len(accepted) /\ Len(accepted) \in Nat
      BY DEF TurnLogTypeOK, End
    <2>2. /\ finishing = "no"
          /\ \A i \in DOMAIN queue : queue[i] # End /\ queue[i] \in DOMAIN accepted
      BY <1>2 DEF QueueInv, Registered
    <2>3. /\ DOMAIN accepted' = DOMAIN accepted \cup {n}
          /\ \A k \in DOMAIN accepted : k < n /\ accepted'[k] = accepted[k]
      BY <1>2, <2>1, AppendFacts
    <2> HIDE DEF n
    <2>4. \A i \in DOMAIN queue' :
            \/ i \in DOMAIN queue /\ queue'[i] = queue[i] /\ i < Len(queue) + 1
            \/ i = Len(queue) + 1 /\ queue'[i] = n
      BY <1>2, <2>1, AppendFacts
    <2>5. QueueInv'
      <3>1. \A i \in DOMAIN queue' : queue'[i] # End /\ queue'[i] \in DOMAIN accepted'
        BY <2>1, <2>2, <2>3, <2>4
      <3>2. ASSUME NEW i \in DOMAIN queue', NEW j \in DOMAIN queue', i < j
            PROVE  queue'[i] < queue'[j]
        <4>1. i \in DOMAIN queue /\ queue'[i] = queue[i]
          <5>1. DOMAIN queue' = 1..(Len(queue) + 1) /\ Len(queue) \in Nat
            BY <1>2, <2>1, AppendFacts
          <5> QED
            BY <2>4, <3>2, <5>1
        <4>2. CASE j \in DOMAIN queue
          <5>1. queue'[j] = queue[j]
            BY <1>2, <2>1, <4>2, AppendFacts
          <5> QED
            BY <2>2, <3>2, <4>1, <4>2, <5>1 DEF QueueInv
        <4>3. CASE j \notin DOMAIN queue
          BY <2>2, <2>3, <2>4, <4>1, <4>3
        <4> QED
          BY <4>2, <4>3
      <3> QED
        BY <3>1, <3>2 DEF QueueInv
    <2>6. ASSUME NEW u, Ahead(accepted, queue, u)
          PROVE  Ahead(accepted', queue', u)
      BY <2>3, <2>4, <2>6 DEF Ahead
    <2>7. HeldInv'
      BY <1>2, <2>6 DEF HeldInv
    <2>8. LogInv'
      <3>1. \A i \in DOMAIN log : log[i].turn \in DOMAIN accepted
        BY DEF LogInv, Ahead
      <3>2. thread.at = "locked" => thread.turn \in DOMAIN accepted
        BY DEF HandInv, HeldInv, Ahead
      <3> QED
        BY <2>3, <2>6, <3>1, <3>2 DEF LogInv, LogKeepsOrder
    <2> QED
      BY <2>5, <2>7, <2>8
  <1> QED
    BY <1>1, <1>2 DEF EnqueueTurn

LEMMA TakeKeepsOrder ==
  ASSUME OrderInv, TakeTurn
  PROVE  QueueInv' /\ HeldInv' /\ LogInv'
  <1>1. /\ queue \in Seq(Nat) /\ queue # <<>> /\ queue' = Tail(queue)
        /\ worker.turn = End
        /\ UNCHANGED <<accepted, log, finishing>>
    BY DEF OrderInv, TurnLogTypeOK, TakeTurn, HandInv
  <1>2. QueueInv'
    BY <1>1, TailFacts DEF OrderInv, QueueInv
  <1>3. \A u : Ahead(accepted, queue, u) =>
          /\ Ahead(accepted', queue', u)
          /\ Head(queue) # End => u < Head(queue)
    BY <1>1, AheadFacts
  <1>4. LogKeepsOrder'
    BY <1>1 DEF OrderInv, LogInv, LogKeepsOrder
  <1>5. CASE Head(queue) = End
    <2>1. worker'.turn = End /\ UNCHANGED thread
      BY <1>1, <1>5, WorkerEffects DEF OrderInv
    <2> QED
      BY <1>1, <1>2, <1>3, <1>4, <2>1 DEF HeldInv, LogInv, OrderInv
  <1>6. CASE Head(queue) # End
    <2>1. worker'.turn = Head(queue) /\ thread'.at = "queued"
      BY <1>6, WorkerEffects DEF OrderInv
    <2>2. Ahead(accepted', queue', Head(queue))
      BY <1>1, <1>6, TailFacts DEF OrderInv, QueueInv, Ahead
    <2>3. \A i \in DOMAIN log : log[i].turn <= Head(queue)
      <3>1. Head(queue) \in Nat /\ \A i \in DOMAIN log : log[i].turn \in Nat
        <4>1. \A i \in DOMAIN log : log[i] \in Row
          BY DEF OrderInv, TurnLogTypeOK
        <4> QED
          BY <1>1, <4>1, TailFacts DEF Row
      <3> QED
        BY <1>3, <1>6, <3>1 DEF LogInv, OrderInv
    <2>4. LogInv'
      BY <1>1, <1>3, <1>4, <2>1, <2>3 DEF LogInv, OrderInv
    <2> QED
      BY <1>2, <2>1, <2>2, <2>4 DEF HeldInv
  <1> QED
    BY <1>5, <1>6

LEMMA InsertKeepsOrder ==
  ASSUME OrderInv, thread.at = "locked", InsertRow, thread'.at # "locked",
         UNCHANGED <<queue, worker, accepted, finishing>>
  PROVE  LogInv'
  <1> DEFINE r == [turn |-> thread.turn, sequence |-> thread.sequence]
  <1>1. /\ log \in Seq(Row) /\ log' = Append(log, r)
        /\ thread.turn = worker.turn /\ worker.turn # End /\ worker.turn \in Nat
    BY DEF OrderInv, TurnLogTypeOK, InsertRow, HandInv, Worker
  <1>2. r \in Row /\ r.turn = worker.turn /\ r.sequence = thread.sequence
    BY <1>1, RowType DEF OrderInv, TurnLogTypeOK, Thread
  <1>3. Ahead(accepted, queue, worker.turn)
    BY <1>1 DEF OrderInv, HeldInv
  <1> HIDE DEF r
  <1>4. ASSUME NEW i \in DOMAIN log'
        PROVE  \/ i \in DOMAIN log /\ log'[i] = log[i] /\ i < Len(log) + 1
               \/ i = Len(log) + 1 /\ log'[i] = r
    BY <1>1, <1>2, <1>4, AppendFacts
  <1>5. ASSUME NEW i \in DOMAIN log
        PROVE  /\ Ahead(accepted, queue, log[i].turn)
               /\ log[i].turn < r.turn /\ log[i].sequence < r.sequence
               /\ accepted[log[i].turn] # accepted[r.turn]
    <2>1. log[i] \in Row
      BY <1>1, <1>5
    <2>2. /\ Ahead(accepted, queue, log[i].turn)
          /\ log[i].turn <= worker.turn /\ log[i].sequence < r.sequence
          /\ accepted[log[i].turn] # accepted[worker.turn]
      BY <1>1, <1>2, <1>5 DEF OrderInv, LogInv
    <2> QED
      BY <1>1, <1>2, <2>1, <2>2 DEF Row
  <1>6. \A i \in DOMAIN log' :
          Ahead(accepted, queue, log'[i].turn) /\ log'[i].turn <= worker.turn
    BY <1>1, <1>2, <1>3, <1>4, <1>5 DEF OrderInv, LogInv
  <1>7. ASSUME NEW i \in DOMAIN log', NEW j \in DOMAIN log', i < j
        PROVE  /\ log'[i].sequence < log'[j].sequence
               /\ log'[i].turn < log'[j].turn
               /\ accepted[log'[i].turn] # accepted[log'[j].turn]
    <2>1. i \in DOMAIN log /\ log'[i] = log[i]
      BY <1>1, <1>4, <1>7, AppendFacts, <1>2
    <2>2. CASE j \in DOMAIN log
      <3>1. log'[j] = log[j]
        BY <1>1, <1>2, <2>2, AppendFacts
      <3> QED
        BY <1>7, <2>1, <2>2, <3>1 DEF OrderInv, LogInv, LogKeepsOrder
    <2>3. CASE j \notin DOMAIN log
      BY <1>4, <1>5, <2>1, <2>3
    <2> QED
      BY <2>2, <2>3
  <1> QED
    BY <1>6, <1>7 DEF LogInv, LogKeepsOrder

LEMMA LockKeepsOrder ==
  ASSUME OrderInv, LockAndRead
  PROVE  LogInv'
  <1>1. UNCHANGED <<queue, worker, accepted, log>> /\ LogKeepsOrder'
    BY DEF LockAndRead, OrderInv, LogInv, LogKeepsOrder
  <1>2. CASE IsStored(thread.turn)
    BY <1>1, <1>2 DEF LockAndRead, OrderInv, TurnLogTypeOK, Thread, LogInv
  <1>3. CASE ~ IsStored(thread.turn)
    <2>1. thread'.turn = thread.turn /\ thread'.sequence = NextSequence
      BY <1>3 DEF LockAndRead, OrderInv, TurnLogTypeOK, Thread
    <2>2. \A i \in DOMAIN log : accepted[log[i].turn] # accepted[thread.turn]
      BY <1>3 DEF IsStored
    <2>3. ASSUME NEW i \in DOMAIN log
          PROVE  log[i].sequence < NextSequence
      <3>1. /\ log \in Seq(Row) /\ log # <<>>
            /\ Len(log) \in DOMAIN log /\ (i = Len(log) \/ i < Len(log))
        BY <2>3 DEF OrderInv, TurnLogTypeOK
      <3>2. log[i].sequence \in Nat /\ log[Len(log)].sequence \in Nat
        <4>1. log[i] \in Row /\ log[Len(log)] \in Row
          BY <2>3, <3>1
        <4> QED
          BY <4>1 DEF Row
      <3>3. i < Len(log) => log[i].sequence < log[Len(log)].sequence
        BY <2>3, <3>1 DEF OrderInv, LogInv, LogKeepsOrder
      <3> QED
        BY <3>1, <3>2, <3>3 DEF NextSequence
    <2> QED
      BY <1>1, <2>1, <2>2, <2>3 DEF LogInv, OrderInv
  <1> QED
    BY <1>2, <1>3

LEMMA OrderInvIsInductive ==
  ASSUME OrderInv, [TurnLogNext]_turnLogVars
  PROVE  OrderInv'
  <1> USE DEF OrderInv
  <1>1. TurnLogTypeOK' /\ HandInv'
    BY LogStepKeepsTypes
  <1>2. CASE TakeTurn
    BY <1>1, <1>2, TakeKeepsOrder
  <1>3. CASE TurnPersisted \/ PersistFails \/ BackoffElapses
    <2>1. UNCHANGED <<queue, accepted, log, finishing>>
      BY <1>3 DEF TurnPersisted, PersistFails, RetryTurn, BackoffElapses
    <2>2. worker'.turn \in {worker.turn, End} /\ thread'.at \in {"none", "queued"}
      BY <1>3, WorkerEffects
    <2> QED
      BY <1>1, <2>1, <2>2 DEF QueueInv, HeldInv, LogInv, LogKeepsOrder
  <1>4. CASE LockAndRead
    <2>1. QueueInv' /\ HeldInv'
      BY <1>4 DEF LockAndRead, QueueInv, HeldInv
    <2> QED
      BY <1>1, <1>4, <2>1, LockKeepsOrder
  <1>5. CASE CommitTurn \/ PersistRaises
    <2>1. thread'.at # "locked" /\ UNCHANGED <<queue, worker, accepted, finishing>>
      BY <1>5 DEF CommitTurn, PersistRaises, TurnLogTypeOK, Thread
    <2>2. QueueInv' /\ HeldInv'
      BY <2>1 DEF QueueInv, HeldInv
    <2>3. CASE thread.at = "locked" /\ InsertRow
      BY <1>1, <2>1, <2>2, <2>3, InsertKeepsOrder
    <2>4. CASE UNCHANGED log
      BY <1>1, <2>1, <2>2, <2>4 DEF LogInv, LogKeepsOrder
    <2> QED
      BY <1>5, <2>3, <2>4 DEF CommitTurn, PersistRaises
  <1>6. CASE DeleteTurns
    BY <1>1, <1>6 DEF DeleteTurns, QueueInv, HeldInv, LogInv, LogKeepsOrder
  <1>7. CASE StartWorker \/ FinishReturns \/ DrainTimesOut
    <2>1. /\ UNCHANGED <<queue, accepted, log>>
          /\ finishing # "no" => finishing' # "no"
      BY <1>7 DEF StartWorker, FinishReturns, DrainTimesOut
    <2>2. worker'.turn = worker.turn
      BY <1>7 DEF StartWorker, FinishReturns, DrainTimesOut, TurnLogTypeOK, Worker
    <2>3. UNCHANGED thread \/ thread'.at = "none"
      BY <1>7 DEF StartWorker, FinishReturns, DrainTimesOut, NoThread
    <2> QED
      BY <1>1, <2>1, <2>2, <2>3 DEF QueueInv, HeldInv, LogInv, LogKeepsOrder
  <1>8. CASE FinishLog
    <2>1. /\ queue \in Seq(Nat) /\ finishing = "no" /\ finishing' = "waiting"
          /\ UNCHANGED <<accepted, log, worker, thread>>
          /\ queue' = queue \/ queue' = Append(queue, End)
      BY <1>8 DEF FinishLog, Registered, TurnLogTypeOK
    <2>2. QueueInv'
      <3>1. End \in Nat
        BY DEF End
      <3>2. /\ DOMAIN Append(queue, End) = 1..(Len(queue) + 1) /\ Len(queue) \in Nat
            /\ \A i \in DOMAIN queue : Append(queue, End)[i] = queue[i]
            /\ Append(queue, End)[Len(queue) + 1] = End /\ DOMAIN queue = 1..Len(queue)
        BY <2>1, <3>1, AppendFacts
      <3>3. CASE queue' = Append(queue, End)
        <4>1. \A i \in DOMAIN queue : queue[i] # End /\ queue[i] \in DOMAIN accepted
          BY <2>1 DEF QueueInv
        <4>2. \A i \in DOMAIN queue' :
                \/ i \in DOMAIN queue /\ queue'[i] = queue[i]
                \/ i = Len(queue) + 1 /\ queue'[i] = End
          BY <3>2, <3>3
        <4>3. \A i, j \in DOMAIN queue' : i < j => i \in DOMAIN queue
          BY <3>2, <3>3
        <4> QED
          BY <2>1, <4>1, <4>2, <4>3 DEF QueueInv
      <3> QED
        BY <2>1, <3>3 DEF QueueInv
    <2>3. \A u : Ahead(accepted, queue, u) => Ahead(accepted', queue', u)
      BY <2>1, AheadFacts
    <2> QED
      BY <1>1, <2>1, <2>2, <2>3 DEF HeldInv, LogInv, LogKeepsOrder
  <1>9. ASSUME NEW t \in Turns, OfferTurn(t)
        PROVE  OrderInv'
    BY <1>1, <1>9, EnqueueKeepsOrder DEF OfferTurn
  <1>10. CASE UNCHANGED turnLogVars
    BY <1>1, <1>10 DEF turnLogVars, QueueInv, HeldInv, LogInv, LogKeepsOrder
  <1> QED
    BY <1>2, <1>3, <1>4, <1>5, <1>6, <1>7, <1>8, <1>9, <1>10
       DEF TurnLogNext, LogStep, WorkerStep, ThreadStep

\* LogKeepsOrder: _CallWorker's single queue, with persist_conversation_turn's own check
\* for the row and its choice of the next sequence number under the lock, keeps the rows
\* in the order in which the turns were accepted, one for an (event_id, role).
THEOREM LogKeepsOrderHolds ==
  TurnLogSpec => []LogKeepsOrder
  <1>1. TurnLogInit => OrderInv
    BY TurnLogInitType DEF TurnLogInit, OrderInv, QueueInv, HandInv, HeldInv, LogInv, LogKeepsOrder, NoThread
  <1>2. OrderInv /\ [TurnLogNext]_turnLogVars => OrderInv'
    BY OrderInvIsInductive
  <1>3. OrderInv => LogKeepsOrder
    BY DEF OrderInv, LogInv
  <1> QED
    BY <1>1, <1>2, <1>3, PTL DEF TurnLogSpec

-----------------------------------------------------------------------------
(* TurnLog: no turn is lost                                                *)

\* What holds a turn may let go of one that is settled.
LEMMA Stays ==
  ASSUME AccountInv, accepted' = accepted, stored \subseteq stored', failed \subseteq failed',
         worker'.at # "cancelled" => worker.at # "cancelled",
         worker.turn \in {worker'.turn, End} \/ Settled(worker.turn, stored', failed', accepted),
         \A i \in DOMAIN queue :
           queue[i] \in {worker'.turn, End} \cup {queue'[j] : j \in DOMAIN queue'}
  PROVE  EveryTurnIsAccountedFor'
  <1> SUFFICES ASSUME worker'.at # "cancelled", NEW k \in DOMAIN accepted
               PROVE  (k \in stored' \cup failed' \cup {worker'.turn}
                               \cup {queue'[j] : j \in DOMAIN queue'})
                      \/ Settled(k, stored', failed', accepted)
    BY DEF EveryTurnIsAccountedFor, IsKept, Queued, Settled
  <1>1. k # End
    BY DEF AccountInv, OrderInv, TurnLogTypeOK, End
  <1>2. \/ k \in stored \cup failed \cup {worker.turn}
        \/ \E i \in DOMAIN queue : k = queue[i]
        \/ \E j \in stored : j < k /\ accepted[j] = accepted[k]
    BY DEF AccountInv, EveryTurnIsAccountedFor, IsKept, Queued
  <1>3. CASE k = worker.turn
    BY <1>1, <1>3
  <1>4. CASE \E i \in DOMAIN queue : k = queue[i]
    BY <1>1, <1>4
  <1>5. CASE k \in stored \cup failed
    BY <1>5
  <1>6. CASE \E j \in stored : j < k /\ accepted[j] = accepted[k]
    BY <1>6 DEF Settled
  <1> QED
    BY <1>2, <1>3, <1>4, <1>5, <1>6

LEMMA EnqueueKeepsAccount ==
  ASSUME AccountInv, NEW t \in Turns, EnqueueTurn(t),
         UNCHANGED <<worker, thread, log, stored, failed>>
  PROVE  StoredInv' /\ EveryTurnIsAccountedFor'
  <1> DEFINE n == Len(accepted) + 1
  <1>1. CASE UNCHANGED <<queue, accepted>>
    BY <1>1 DEF AccountInv, StoredInv, EveryTurnIsAccountedFor, IsKept, Queued
  <1>2. CASE queue' = Append(queue, n) /\ accepted' = Append(accepted, t)
    <2>1. queue \in Seq(Nat) /\ accepted \in Seq(Turns) /\ n \in Nat
      BY DEF AccountInv, OrderInv, TurnLogTypeOK
    <2>2. Queued' = Queued \cup {n}
      BY <1>2, <2>1, AppendFacts DEF Queued
    <2>3. /\ DOMAIN accepted' = DOMAIN accepted \cup {n}
          /\ \A k \in DOMAIN accepted : accepted'[k] = accepted[k]
      BY <1>2, <2>1, AppendFacts
    <2> HIDE DEF n
    <2>4. stored \subseteq DOMAIN accepted
      BY DEF AccountInv, StoredInv
    <2>5. thread.at = "returned" => thread.turn \in DOMAIN accepted
      BY DEF AccountInv, OrderInv, HandInv, HeldInv, Ahead
    <2>6. StoredInv'
      BY <2>3, <2>4, <2>5 DEF AccountInv, StoredInv, Settled
    <2>7. EveryTurnIsAccountedFor'
      <3> SUFFICES ASSUME worker.at # "cancelled", NEW k \in DOMAIN accepted'
                   PROVE  \/ k \in stored \cup failed \cup {worker.turn} \cup Queued'
                          \/ \E j \in stored : j < k /\ accepted'[j] = accepted'[k]
        BY DEF EveryTurnIsAccountedFor, IsKept
      <3>1. CASE k = n
        BY <2>2, <3>1
      <3>2. CASE k \in DOMAIN accepted
        <4>1. \/ k \in stored \cup failed \cup {worker.turn} \cup Queued
              \/ \E j \in stored : j < k /\ accepted[j] = accepted[k]
          BY <3>2 DEF AccountInv, EveryTurnIsAccountedFor, IsKept
        <4> QED
          BY <2>2, <2>3, <2>4, <3>2, <4>1
      <3> QED
        BY <2>3, <3>1, <3>2
    <2> QED
      BY <2>6, <2>7
  <1> QED
    BY <1>1, <1>2 DEF EnqueueTurn

LEMMA StoredInvIsKept ==
  ASSUME AccountInv, [TurnLogNext]_turnLogVars
  PROVE  StoredInv' /\ stored \subseteq stored'
  <1> USE DEF AccountInv
  <1>1. ASSUME UNCHANGED <<accepted, log, stored>>,
               UNCHANGED thread \/ thread'.at \in {"none", "queued"}
        PROVE  StoredInv' /\ stored \subseteq stored'
    BY <1>1 DEF StoredInv
  <1>2. CASE WorkerStep
    BY <1>1, <1>2, WorkerEffects
       DEF OrderInv, WorkerStep, TakeTurn, TurnPersisted, PersistFails, BackoffElapses
  <1>3. CASE LockAndRead
    <2>1. /\ UNCHANGED <<accepted, log, stored>>
          /\ thread'.turn = thread.turn /\ thread.turn = worker.turn /\ worker.turn # End
          /\ thread'.at = "returned" => IsStored(thread.turn)
      BY <1>3 DEF LockAndRead, OrderInv, HandInv, TurnLogTypeOK, Thread
    <2>2. ASSUME IsStored(thread.turn)
          PROVE  Settled(thread.turn, stored, {}, accepted)
      <3>1. PICK i \in DOMAIN log : accepted[log[i].turn] = accepted[thread.turn]
        BY <2>2 DEF IsStored
      <3>2. log[i].turn \in stored /\ log[i].turn <= thread.turn
        BY <2>1, <3>1 DEF StoredInv, OrderInv, LogInv
      <3>3. log[i] \in Row /\ thread.turn \in Nat
        BY <3>1 DEF OrderInv, TurnLogTypeOK, Thread
      <3>4. log[i].turn = thread.turn \/ log[i].turn < thread.turn
        BY <3>2, <3>3 DEF Row
      <3> QED
        BY <3>1, <3>2, <3>4 DEF Settled
    <2> QED
      BY <2>1, <2>2 DEF StoredInv
  <1>4. ASSUME InsertRow, UNCHANGED accepted, thread.at = "locked"
        PROVE  /\ \A i \in DOMAIN log' : log'[i].turn \in stored'
               /\ stored \subseteq stored' /\ stored' \subseteq DOMAIN accepted
    <2> DEFINE r == [turn |-> thread.turn, sequence |-> thread.sequence]
    <2>1. log \in Seq(Row) /\ r \in Row /\ r.turn = thread.turn /\ log' = Append(log, r)
      BY <1>4, RowType DEF OrderInv, TurnLogTypeOK, InsertRow, Thread
    <2>2. thread.turn \in DOMAIN accepted
      BY <1>4 DEF OrderInv, HandInv, HeldInv, Ahead
    <2> HIDE DEF r
    <2> QED
      BY <1>4, <2>1, <2>2, AppendFacts DEF InsertRow, StoredInv
  <1>5. CASE CommitTurn
    <2>1. thread'.turn = thread.turn /\ thread.turn \in stored'
      BY <1>5 DEF CommitTurn, InsertRow, OrderInv, TurnLogTypeOK, Thread
    <2> QED
      BY <1>4, <1>5, <2>1 DEF CommitTurn, StoredInv, Settled
  <1>6. CASE PersistRaises
    <2>1. thread'.at = "raised" /\ UNCHANGED accepted
      BY <1>6 DEF PersistRaises, OrderInv, TurnLogTypeOK, Thread
    <2> QED
      BY <1>4, <1>6, <2>1 DEF PersistRaises, StoredInv
  <1>7. CASE DeleteTurns
    BY <1>7 DEF DeleteTurns, StoredInv
  <1>8. CASE DrainTimesOut
    BY <1>1, <1>8 DEF DrainTimesOut, NoThread
  <1>9. CASE StartWorker \/ FinishLog \/ FinishReturns \/ UNCHANGED turnLogVars
    BY <1>1, <1>9 DEF StartWorker, FinishLog, FinishReturns, turnLogVars
  <1>10. ASSUME NEW t \in Turns, OfferTurn(t)
         PROVE  StoredInv' /\ stored \subseteq stored'
    BY <1>10, EnqueueKeepsAccount DEF OfferTurn
  <1> QED
    BY <1>2, <1>3, <1>5, <1>6, <1>7, <1>8, <1>9, <1>10 DEF TurnLogNext, LogStep, ThreadStep

LEMMA AccountInvIsInductive ==
  ASSUME AccountInv, [TurnLogNext]_turnLogVars
  PROVE  AccountInv'
  <1>1. /\ TurnLogTypeOK /\ HandInv
        /\ OrderInv' /\ StoredInv' /\ stored \subseteq stored'
    BY OrderInvIsInductive, StoredInvIsKept DEF AccountInv, OrderInv
  <1>2. CASE TakeTurn
    <2>1. /\ queue \in Seq(Nat) /\ queue # <<>> /\ queue' = Tail(queue)
          /\ worker.at = "get" /\ worker.turn = End
          /\ UNCHANGED <<accepted, stored, failed>>
      BY <1>1, <1>2 DEF TurnLogTypeOK, TakeTurn, HandInv
    <2>2. worker'.turn = Head(queue) \/ (Head(queue) = End /\ worker'.turn = End)
      BY <1>1, <1>2, <2>1, WorkerEffects
    <2>3. ASSUME NEW i \in DOMAIN queue
          PROVE  queue[i] = Head(queue) \/ queue[i] \in {queue'[j] : j \in DOMAIN queue'}
      <3>1. CASE i = 1
        BY <2>1, <3>1, TailFacts
      <3>2. CASE i # 1
        <4>1. i - 1 \in DOMAIN queue' /\ (i - 1) + 1 = i
          BY <2>1, <2>3, <3>2, TailFacts
        <4> QED
          BY <2>1, <4>1, TailFacts
      <3> QED
        BY <3>1, <3>2
    <2> QED
      BY <1>1, <2>1, <2>2, <2>3, Stays DEF AccountInv
  <1>3. CASE TurnPersisted
    <2>1. /\ worker.at = "persist" /\ Settled(worker.turn, stored, {}, accepted)
          /\ UNCHANGED <<queue, accepted, stored, failed>>
      BY <1>3 DEF TurnPersisted, AccountInv, OrderInv, HandInv, StoredInv
    <2>2. Settled(worker.turn, stored', failed', accepted)
      BY <2>1 DEF Settled
    <2> QED
      BY <1>1, <2>1, <2>2, Stays DEF AccountInv
  <1>4. CASE PersistFails \/ BackoffElapses
    <2>1. /\ worker.at \in {"persist", "backoff"} /\ failed \subseteq failed'
          /\ UNCHANGED <<queue, accepted, stored>>
      BY <1>4 DEF PersistFails, RetryTurn, BackoffElapses
    <2>2. worker.turn \in failed' \/ worker'.turn = worker.turn
      BY <1>1, <1>4, WorkerEffects DEF PersistFails, RetryTurn, TurnLogTypeOK, Worker
    <2> QED
      BY <1>1, <2>1, <2>2, Stays DEF AccountInv, Settled
  <1>5. CASE ThreadStep \/ DeleteTurns \/ FinishReturns \/ UNCHANGED turnLogVars
    <2>1. UNCHANGED <<queue, worker, accepted, failed>>
      BY <1>5 DEF ThreadStep, LockAndRead, CommitTurn, PersistRaises, DeleteTurns,
                  FinishReturns, turnLogVars
    <2> QED
      BY <1>1, <2>1, Stays DEF AccountInv
  <1>6. CASE StartWorker \/ DrainTimesOut
    <2>1. UNCHANGED <<queue, accepted, stored, failed>>
      BY <1>6 DEF StartWorker, DrainTimesOut
    <2>2. /\ worker'.turn = worker.turn
          /\ worker'.at # "cancelled" => worker.at # "cancelled"
      BY <1>1, <1>6 DEF StartWorker, DrainTimesOut, TurnLogTypeOK, Worker
    <2> QED
      BY <1>1, <2>1, <2>2, Stays DEF AccountInv
  <1>7. CASE FinishLog
    <2>1. /\ queue \in Seq(Nat) /\ UNCHANGED <<worker, accepted, stored, failed>>
          /\ queue' = queue \/ queue' = Append(queue, End)
      BY <1>1, <1>7 DEF TurnLogTypeOK, FinishLog
    <2>2. \A i \in DOMAIN queue : queue[i] \in {queue'[j] : j \in DOMAIN queue'}
      BY <2>1, AppendFacts DEF End
    <2> QED
      BY <1>1, <2>1, <2>2, Stays DEF AccountInv
  <1>8. ASSUME NEW t \in Turns, OfferTurn(t)
        PROVE  AccountInv'
    BY <1>1, <1>8, EnqueueKeepsAccount DEF OfferTurn, AccountInv
  <1> QED
    BY <1>2, <1>3, <1>4, <1>5, <1>6, <1>7, <1>8 DEF TurnLogNext, LogStep, WorkerStep

LEMMA AccountInvHolds ==
  TurnLogSpec => []AccountInv
  <1>1. TurnLogInit => AccountInv
    BY TurnLogInitType
       DEF TurnLogInit, AccountInv, OrderInv, QueueInv, HandInv, HeldInv, LogInv,
           LogKeepsOrder, StoredInv, EveryTurnIsAccountedFor, NoThread
  <1>2. AccountInv /\ [TurnLogNext]_turnLogVars => AccountInv'
    BY AccountInvIsInductive
  <1> QED
    BY <1>1, <1>2, PTL DEF TurnLogSpec

\* EveryTurnIsAccountedFor: _CallWorker._run never lets go of a turn it took off the queue
\* without having stored it, counted it as failed, or found a turn accepted before it in its
\* place: the one way a turn with the call_id of another goes, and no count tells of it.
THEOREM EveryTurnIsAccountedForHolds ==
  TurnLogSpec => []EveryTurnIsAccountedFor
  <1>1. AccountInv => EveryTurnIsAccountedFor
    BY DEF AccountInv
  <1> QED
    BY <1>1, AccountInvHolds, PTL

-----------------------------------------------------------------------------
(* Conversation: the inductive invariants                                  *)

\* The STT task awaits a turn as long as there is one, and a turn answers the utterance
\* heard last.
TurnInv ==
  /\ turn # "none" <=> stt = "turn"
  /\ turn \in {"offer", "await"} => tools \in 1..MaxTools
  /\ turn # "none" =>
       \E i \in DOMAIN messages :
         /\ messages[i] = <<"user", heard>>
         /\ \A j \in DOMAIN messages : messages[j][1] = "user" => j <= i

\* What is in the queue of events, and under way behind it, has been asked for.
NumbersInv ==
  /\ \A i \in DOMAIN events :
       /\ IsEvent(i, "SpeechStarted") => events[i].n <= heard
       /\ IsEvent(i, "ToolCallRequested") => events[i].n \in 1..MaxTools
  /\ \A c \in cuts : c.by <= c.of

\* A turn that awaits a result has its request at the end of the history.
AwaitInv ==
  /\ turn = "await" => messages # <<>> /\ messages[Len(messages)] = <<"calls", tools>>
  /\ UnansweredCallIsExcused

\* An event whose turn has an event_id of its own: what was said, and the system prompt.
Spoken(e) == e.type \in DOMAIN RoleOf /\ e.type # "ToolCallRequested"
TurnOf(e) == <<RoleOf[e.type], e.n>>

Accepted(t) == \E k \in DOMAIN accepted : accepted[k] = t

\* The turns whose event was emitted, or can come no more.
Used ==
  {"system"} \X Numbers
  \cup {"user"} \X {n \in Numbers : n <= heard /\ (speaking \/ stt = "final" => n < heard)}
  \cup {"assistant"} \X {n \in Numbers : n <= replies /\ (turn = "reply" => n < replies)}

Distinct(q) == \A i, j \in DOMAIN q : Spoken(q[i]) /\ q[j] = q[i] => i = j

\* The events whose turn is not accepted yet.
FreshEvents == {e \in Events : Spoken(e) => TurnOf(e) \in Used /\ ~ Accepted(TurnOf(e))}

\* What was said is handed to the log once, as its event is in the queue once.
FreshInv ==
  /\ Distinct(events)
  /\ \A i \in DOMAIN events : events[i] \in FreshEvents
  /\ \A k \in DOMAIN accepted : accepted[k][1] \notin ToolRoles =>
       /\ accepted[k] \in Used
       /\ \A j \in DOMAIN accepted : accepted[j] = accepted[k] => j = k
  /\ stt = "final" => ~ speaking

-----------------------------------------------------------------------------
(* Conversation: the queue of events                                       *)

\* Each event of q is e or one of the queue.
Holds(q, e) == \A i \in DOMAIN q : q[i] = e \/ \E k \in DOMAIN events : q[i] = events[k]

LEMMA EventTypesOf ==
  /\ \A type \in EventTypes, n \in Numbers :
       /\ Event(type, n) \in Events
       /\ Event(type, n).type = type /\ Event(type, n).n = n
  /\ None \in Events /\ None.type = "None"
  /\ 0 \in Numbers
  /\ \A n \in 0..MaxUtterances : n \in Numbers
  /\ \A n \in 0..MaxTools : n \in Numbers
  /\ \A n \in 0..MaxReplies : n \in Numbers
  <1>1. /\ 0 \in Numbers
        /\ \A n \in 0..MaxUtterances : n \in Numbers
        /\ \A n \in 0..MaxTools : n \in Numbers
        /\ \A n \in 0..MaxReplies : n \in Numbers
    BY ConversationAssumption DEF Numbers
  <1>2. \A type \in EventTypes, n \in Numbers :
          /\ Event(type, n) \in Events
          /\ Event(type, n).type = type /\ Event(type, n).n = n
    BY DEF Event, Events
  <1>3. None \in Events /\ None.type = "None"
    BY <1>1 DEF None, Event, Events, EventTypes
  <1> QED
    BY <1>1, <1>2, <1>3

LEMMA AppendedEvents ==
  ASSUME NEW q \in Seq(Events), NEW e \in Events, Holds(q, e)
  PROVE  /\ Holds(Append(q, e), e)
         /\ \E i \in DOMAIN Append(q, e) : Append(q, e)[i] = e
         /\ Distinct(q) /\ (Spoken(e) => \A i \in DOMAIN q : q[i] # e)
              => Distinct(Append(q, e))
  <1>1. ASSUME NEW i \in DOMAIN Append(q, e)
        PROVE  Append(q, e)[i] = e \/ (i \in DOMAIN q /\ Append(q, e)[i] = q[i])
    BY <1>1, AppendFacts
  <1>2. Holds(Append(q, e), e)
    BY <1>1 DEF Holds
  <1>3. Len(q) + 1 \in DOMAIN Append(q, e) /\ Append(q, e)[Len(q) + 1] = e
    BY AppendFacts
  <1>4. ASSUME Distinct(q), Spoken(e) => \A i \in DOMAIN q : q[i] # e
        PROVE  Distinct(Append(q, e))
    BY <1>4, AppendFacts DEF Distinct
  <1> QED
    BY <1>2, <1>3, <1>4

LEMMA TailEvents ==
  ASSUME NEW q \in Seq(Events), q # <<>>, Distinct(q)
  PROVE  Distinct(Tail(q))
  <1> SUFFICES ASSUME NEW i \in DOMAIN Tail(q), NEW j \in DOMAIN Tail(q),
                      Spoken(Tail(q)[i]), Tail(q)[j] = Tail(q)[i]
               PROVE  i = j
    BY DEF Distinct
  <1>1. i + 1 = j + 1 /\ i \in Nat /\ j \in Nat
    BY TailFacts DEF Distinct
  <1> QED
    BY <1>1

LEMMA EmitFacts ==
  ASSUME events \in Seq(Events), Len(events) <= EventsSize, NEW e \in Events,
         events' = ForcePutEvent(e)
  PROVE  /\ events' \in Seq(Events) /\ Len(events') <= EventsSize
         /\ Holds(events', e)
         /\ \E i \in DOMAIN events' : events'[i] = e
         /\ Distinct(events) /\ (Spoken(e) => \A i \in DOMAIN events : events[i] # e)
              => Distinct(events')
  <1>1. Holds(events, e)
    BY DEF Holds
  <1>2. CASE HasRoom
    BY <1>1, <1>2, AppendedEvents, AppendFacts, ConversationAssumption DEF ForcePutEvent, HasRoom
  <1>3. CASE ~ HasRoom
    <2>1. events # <<>>
      BY <1>3, ConversationAssumption DEF HasRoom
    <2>2. /\ Tail(events) \in Seq(Events) /\ Len(Tail(events)) + 1 <= EventsSize
          /\ \A i \in DOMAIN Tail(events) : \E k \in DOMAIN events : Tail(events)[i] = events[k]
      BY <2>1, TailFacts, ConversationAssumption
    <2>3. Holds(Tail(events), e)
      BY <2>2 DEF Holds
    <2>4. Distinct(events) => Distinct(Tail(events))
      BY <2>1, TailEvents
    <2>5. events' = Append(Tail(events), e)
      BY <1>3 DEF ForcePutEvent
    <2>6. events' \in Seq(Events) /\ Len(events') <= EventsSize
      BY <2>2, <2>5, AppendFacts
    <2> DEFINE q == Tail(events)
    <2>7. /\ Holds(Append(q, e), e)
          /\ \E i \in DOMAIN Append(q, e) : Append(q, e)[i] = e
          /\ Distinct(q) /\ (Spoken(e) => \A i \in DOMAIN q : q[i] # e)
               => Distinct(Append(q, e))
      <3> HIDE DEF q
      <3>1. q \in Seq(Events) /\ Holds(q, e)
        BY <2>2, <2>3 DEF q
      <3> QED
        BY <3>1, AppendedEvents
    <2> HIDE DEF q
    <2>8. events' = Append(q, e) /\ (Distinct(events) => Distinct(q))
      BY <2>4, <2>5 DEF q
    <2>9. (\A i \in DOMAIN events : events[i] # e) => \A i \in DOMAIN q : q[i] # e
      BY <2>2 DEF q
    <2> QED
      BY <2>6, <2>7, <2>8, <2>9
  <1> QED
    BY <1>2, <1>3

LEMMA TakeFacts ==
  ASSUME events \in Seq(Events), Len(events) <= EventsSize, events # <<>>, events' = Tail(events)
  PROVE  /\ events' \in Seq(Events) /\ Len(events') <= EventsSize
         /\ \A i \in DOMAIN events' : \E k \in DOMAIN events : events'[i] = events[k]
         /\ Distinct(events) => Distinct(events')
         /\ \A k \in DOMAIN events :
              events[k] = Head(events) \/ \E i \in DOMAIN events' : events'[i] = events[k]
         /\ Distinct(events) /\ Spoken(Head(events)) =>
              \A i \in DOMAIN events' : events'[i] # Head(events)
         /\ 1 \in DOMAIN events /\ Head(events) = events[1] /\ Head(events) \in Events
  <1>1. ASSUME NEW k \in DOMAIN events
        PROVE  events[k] = Head(events) \/ \E i \in DOMAIN events' : events'[i] = events[k]
    <2>1. CASE k = 1
      BY <2>1, TailFacts
    <2>2. CASE k # 1
      <3>1. k - 1 \in DOMAIN events' /\ (k - 1) + 1 = k
        BY <1>1, <2>2, TailFacts
      <3> QED
        BY <3>1, TailFacts
    <2> QED
      BY <2>1, <2>2
  <1>2. /\ events' \in Seq(Events) /\ Len(events') <= EventsSize
        /\ \A i \in DOMAIN events' :
             i + 1 \in DOMAIN events /\ 1 < i + 1 /\ events'[i] = events[i + 1]
        /\ 1 \in DOMAIN events /\ Head(events) = events[1] /\ Head(events) \in Events
    BY TailFacts, ConversationAssumption
  <1>3. Distinct(events) => Distinct(events')
    BY TailEvents
  <1>4. Distinct(events) /\ Spoken(Head(events)) =>
          \A i \in DOMAIN events' : events'[i] # Head(events)
    BY <1>2 DEF Distinct
  <1> QED
    BY <1>1, <1>2, <1>3, <1>4

\* KeepEvents keeps the events it is to keep, each once.
LEMMA KeepFacts ==
  ASSUME events \in Seq(Events), Len(events) <= EventsSize,
         NEW S \in SUBSET DOMAIN events, KeepEvents(S)
  PROVE  /\ events' \in Seq(Events) /\ Len(events') <= EventsSize
         /\ \A i \in DOMAIN events' : \E k \in S : events'[i] = events[k]
         /\ \A k \in S : \E i \in DOMAIN events' : events'[i] = events[k]
         /\ Distinct(events) => Distinct(events')
  <1>1. PICK f \in [1..Cardinality(S) -> S] :
          /\ \A k \in S : \E i \in 1..Cardinality(S) : f[i] = k
          /\ \A i, j \in DOMAIN f : i < j => f[i] < f[j]
          /\ events' = [i \in DOMAIN f |-> events[f[i]]]
    BY DEF KeepEvents, Surjection
  <1>2. Cardinality(S) \in Nat /\ Cardinality(S) <= EventsSize
    <2>1. DOMAIN events = 1..Len(events) /\ Len(events) \in Nat
      OBVIOUS
    <2>2. /\ IsFiniteSet(DOMAIN events) /\ Cardinality(DOMAIN events) = Len(events)
      <3>1. /\ IsFiniteSet(1..Len(events))
            /\ Cardinality(1..Len(events)) = IF 1 > Len(events) THEN 0 ELSE Len(events) - 1 + 1
        BY <2>1, FS_Interval
      <3> QED
        BY <2>1, <3>1
    <2>3. IsFiniteSet(S) /\ Cardinality(S) <= Cardinality(DOMAIN events)
      BY <2>2, FS_Subset
    <2> QED
      BY <2>1, <2>2, <2>3, FS_CardinalityType, ConversationAssumption
  <1>3. \A i \in 1..Cardinality(S) : f[i] \in DOMAIN events /\ events'[i] = events[f[i]]
    BY <1>1
  <1>4. events' \in Seq(Events) /\ Len(events') = Cardinality(S)
    BY <1>1, <1>2, <1>3
  <1>5. ASSUME Distinct(events)
        PROVE  Distinct(events')
    <2> SUFFICES ASSUME NEW i \in DOMAIN events', NEW j \in DOMAIN events',
                        Spoken(events'[i]), events'[j] = events'[i]
                 PROVE  i = j
      BY DEF Distinct
    <2>1. i \in 1..Cardinality(S) /\ j \in 1..Cardinality(S)
      BY <1>1
    <2>2. f[i] = f[j]
      BY <1>3, <1>5, <2>1 DEF Distinct
    <2>3. ~ (i < j) /\ ~ (j < i)
      <3>1. f[i] \in Int /\ f[j] \in Int
        BY <1>3, <2>1
      <3> QED
        BY <1>1, <2>1, <2>2, <3>1
    <2> QED
      BY <1>2, <2>1, <2>3
  <1> QED
    BY <1>1, <1>2, <1>3, <1>4, <1>5

-----------------------------------------------------------------------------
(* Conversation: types, and its log                                        *)

\* The steps of the pumps and of the log leave the engine as it is, but for its queue.
OutsideEngine ==
  \/ StartPumps \/ PersistEvent \/ PlayAudio \/ AudioPlayed \/ EventsEnd
  \/ CancelPumps \/ FinishTurns \/ LogRuns \/ UNCHANGED conversationVars

LEMMA StepKinds ==
  ASSUME [ConversationNext]_conversationVars
  PROVE  \/ SttStep \/ TurnStep \/ BargeIn \/ CloseSession \/ OutsideEngine
         \/ \E n \in 1..MaxTools : ToolDone(n)
  BY DEF ConversationNext, PumpStep, OutsideEngine

LEMMA OutsideFrame ==
  ASSUME OutsideEngine
  PROVE  /\ UNCHANGED <<stt, speaking, heard, turn, messages, replies, tools, future, closed,
                         cuts>>
         /\ UNCHANGED events \/ PersistEvent \/ PlayAudio \/ EventsEnd
  BY DEF OutsideEngine, StartPumps, PersistEvent, PlayAudio, AudioPlayed, EventsEnd, CancelPumps,
         FinishTurns, LogRuns, KeepsEngine, engineVars, conversationVars

LEMMA EngineFrame ==
  ASSUME SttStep \/ TurnStep \/ BargeIn \/ CloseSession
  PROVE  UNCHANGED <<turnLogVars, pumpVars>>
  BY DEF SttStep, SpeechStarts, EmitSpeechStarted, SpeechIsFinal, EmitFinalTranscript, SttEnds,
         TurnStep, ModelReplies, ModelAsksForTool, TurnEnds, EmitToolCall, ToolResultArrives,
         EmitResponse, EmitAudio, BargeIn, CloseSession, beyondEngine, pumpVars

LEMMA RoleFacts ==
  \A type \in DOMAIN RoleOf :
    /\ type \in {"SystemPromptSet", "FinalTranscript", "AssistantResponse", "ToolCallRequested"}
    /\ RoleOf[type] \in Roles
    /\ type = "SystemPromptSet" => RoleOf[type] = "system"
    /\ type = "FinalTranscript" => RoleOf[type] = "user"
    /\ type = "AssistantResponse" => RoleOf[type] = "assistant"
    /\ type = "ToolCallRequested" => RoleOf[type] = "tool_call"
    /\ RoleOf[type] \in ToolRoles <=> type = "ToolCallRequested"
  BY DEF RoleOf, Roles, ToolRoles

\* What a turn is stored under.
LEMMA KeyTypes ==
  ASSUME NEW role \in Roles, NEW n \in Numbers, role \in ToolRoles => n \in 1..MaxTools
  PROVE  /\ <<role, EventId(role, n)>> \in Turns
         /\ role \notin ToolRoles => EventId(role, n) = n
  BY ConversationAssumption DEF EventId

\* What the pumps and the executions do to the log are steps of TurnLog.
LEMMA LogRefined ==
  ASSUME ConversationTypeOK, NumbersInv, [ConversationNext]_conversationVars
  PROVE  [TurnLogNext]_turnLogVars
  <1>1. CASE PersistEvent
    <2>1. PICK type \in DOMAIN RoleOf :
            /\ TakeEvent(type)
            /\ EnqueueTurn(<<RoleOf[type], EventId(RoleOf[type], Head(events).n)>>)
      BY <1>1 DEF PersistEvent
    <2>2. /\ 1 \in DOMAIN events /\ Head(events) = events[1] /\ events[1] \in Events
          /\ Head(events).type = type
      BY <2>1, TakeFacts DEF ConversationTypeOK, TakeEvent, NextEvent
    <2> DEFINE t == <<RoleOf[type], EventId(RoleOf[type], Head(events).n)>>
    <2>3. t \in Turns
      <3>1. /\ Head(events).n \in Numbers /\ RoleOf[type] \in Roles
            /\ RoleOf[type] \in ToolRoles => Head(events).n \in 1..MaxTools
        BY <2>2, RoleFacts DEF Events, NumbersInv, IsEvent
      <3> QED
        BY <3>1, KeyTypes
    <2>4. UNCHANGED <<worker, thread, log, finishing, failures, deletions, failed, stored>>
      BY <1>1 DEF PersistEvent, KeepsLog
    <2>5. OfferTurn(t)
      BY <2>1, <2>4 DEF OfferTurn
    <2> QED
      BY <2>3, <2>5 DEF TurnLogNext
  <1>2. ASSUME NEW n \in 1..MaxTools, ToolDone(n)
        PROVE  [TurnLogNext]_turnLogVars
    <2> DEFINE t == <<"tool_result", EventId("tool_result", n)>>
    <2>1. t \in Turns
      BY EventTypesOf, ConversationAssumption, KeyTypes DEF Roles
    <2>2. OfferTurn(t)
      BY <1>2 DEF ToolDone, KeepsLog, OfferTurn
    <2> QED
      BY <2>1, <2>2 DEF TurnLogNext
  <1>3. CASE FinishTurns \/ LogRuns
    BY <1>3 DEF FinishTurns, LogRuns, TurnLogNext
  <1>4. CASE StartPumps \/ PlayAudio \/ AudioPlayed \/ EventsEnd \/ CancelPumps
             \/ UNCHANGED conversationVars
    BY <1>4 DEF StartPumps, PlayAudio, AudioPlayed, EventsEnd, CancelPumps, conversationVars
  <1>5. CASE SttStep \/ TurnStep \/ BargeIn \/ CloseSession
    BY <1>5, EngineFrame
  <1> QED
    BY <1>1, <1>2, <1>3, <1>4, <1>5, StepKinds DEF OutsideEngine

LEMMA MessageAppended ==
  ASSUME ConversationTypeOK, NEW m \in {"user", "calls", "tool", "assistant"} \X Numbers
  PROVE  Append(messages, m) \in Seq({"user", "calls", "tool", "assistant"} \X Numbers)
  BY DEF ConversationTypeOK

LEMMA SttTypes ==
  ASSUME ConversationTypeOK, SttStep, TurnLogTypeOK'
  PROVE  ConversationTypeOK'
  <1> USE DEF ConversationTypeOK
  <1>1. UNCHANGED <<pump, running, cuts>>
    BY DEF SttStep, SpeechStarts, EmitSpeechStarted, SpeechIsFinal, EmitFinalTranscript, SttEnds,
           beyondEngine, pumpVars
  <1>2. heard \in Numbers
    BY EventTypesOf
  <1>3. ASSUME NEW type \in EventTypes, Emit(Event(type, heard))
        PROVE  events' \in Seq(Events) /\ Len(events') <= EventsSize
    BY <1>2, <1>3, EmitFacts, EventTypesOf DEF Emit
  <1>4. CASE SpeechStarts
    <2>1. heard' \in 0..MaxUtterances
      BY <1>4, ConversationAssumption DEF SpeechStarts
    <2> QED
      BY <1>1, <1>4, <2>1 DEF SpeechStarts
  <1>5. CASE EmitSpeechStarted
    BY <1>1, <1>3, <1>5 DEF EmitSpeechStarted, EventTypes
  <1>6. CASE SpeechIsFinal
    BY <1>1, <1>6 DEF SpeechIsFinal
  <1>7. CASE EmitFinalTranscript
    <2>1. events' \in Seq(Events) /\ Len(events') <= EventsSize
      BY <1>3, <1>7 DEF EmitFinalTranscript, EventTypes
    <2>2. messages' \in Seq({"user", "calls", "tool", "assistant"} \X Numbers)
      BY <1>2, <1>7, MessageAppended DEF EmitFinalTranscript
    <2> QED
      BY <1>1, <1>7, <2>1, <2>2 DEF EmitFinalTranscript
  <1>8. CASE SttEnds
    <2>1. events' \in Seq(Events) /\ Len(events') <= EventsSize
      BY <1>8, EmitFacts, EventTypesOf DEF SttEnds, PutSentinel
    <2>2. turn' = "none" /\ future' \in [1..MaxTools -> {"none", "waiting", "set", "cancelled"}]
      BY <1>8 DEF SttEnds, CancelTurn
    <2> QED
      BY <1>1, <1>8, <2>1, <2>2 DEF SttEnds
  <1> QED
    BY <1>4, <1>5, <1>6, <1>7, <1>8 DEF SttStep

LEMMA TurnTypes ==
  ASSUME ConversationTypeOK, TurnStep, TurnLogTypeOK'
  PROVE  ConversationTypeOK'
  <1> USE DEF ConversationTypeOK
  <1>1. UNCHANGED <<speaking, heard, closed, pump, running, cuts>>
    BY DEF TurnStep, ModelReplies, ModelAsksForTool, TurnEnds, EmitToolCall, ToolResultArrives,
           EmitResponse, EmitAudio, beyondEngine, pumpVars
  <1>2. tools \in Numbers /\ replies \in Numbers
    BY EventTypesOf
  <1>3. ASSUME NEW type \in EventTypes, NEW n \in Numbers, Emit(Event(type, n))
        PROVE  events' \in Seq(Events) /\ Len(events') <= EventsSize
    BY <1>3, EmitFacts, EventTypesOf DEF Emit
  <1>4. CASE ModelReplies
    <2>1. replies' \in 0..MaxReplies
      BY <1>4, ConversationAssumption DEF ModelReplies
    <2>2. replies + 1 \in Numbers
      BY <1>4, <2>1, EventTypesOf DEF ModelReplies
    <2>3. messages' \in Seq({"user", "calls", "tool", "assistant"} \X Numbers)
      BY <1>4, <2>2, MessageAppended DEF ModelReplies
    <2> QED
      BY <1>1, <1>4, <2>1, <2>3 DEF ModelReplies
  <1>5. CASE ModelAsksForTool
    <2>1. tools' \in 0..MaxTools
      BY <1>5, ConversationAssumption DEF ModelAsksForTool
    <2> QED
      BY <1>1, <1>5, <2>1 DEF ModelAsksForTool
  <1>6. CASE TurnEnds
    BY <1>1, <1>6 DEF TurnEnds
  <1>7. CASE EmitToolCall
    <2>1. events' \in Seq(Events) /\ Len(events') <= EventsSize
      BY <1>2, <1>3, <1>7 DEF EmitToolCall, EventTypes
    <2>2. messages' \in Seq({"user", "calls", "tool", "assistant"} \X Numbers)
      BY <1>2, <1>7, MessageAppended DEF EmitToolCall
    <2> QED
      BY <1>1, <1>7, <2>1, <2>2 DEF EmitToolCall
  <1>8. CASE ToolResultArrives
    <2>1. messages' \in Seq({"user", "calls", "tool", "assistant"} \X Numbers)
      BY <1>2, <1>8, MessageAppended DEF ToolResultArrives, ToolMessage
    <2> QED
      BY <1>1, <1>8, <2>1 DEF ToolResultArrives
  <1>9. CASE EmitResponse
    BY <1>1, <1>2, <1>3, <1>9 DEF EmitResponse, EventTypes
  <1>10. CASE EmitAudio
    BY <1>1, <1>2, <1>3, <1>10 DEF EmitAudio, EventTypes
  <1> QED
    BY <1>4, <1>5, <1>6, <1>7, <1>8, <1>9, <1>10 DEF TurnStep

\* The utterance that a turn answers is the one heard last.
LEMMA AnswersTheLast ==
  ASSUME ConversationTypeOK, TurnInv, turn # "none"
  PROVE  Answering = heard
  <1> DEFINE said == {i \in DOMAIN messages : messages[i][1] = "user"}
             last == CHOOSE i \in said : \A j \in said : j <= i
  <1>1. PICK i \in DOMAIN messages :
          /\ messages[i] = <<"user", heard>>
          /\ \A j \in DOMAIN messages : messages[j][1] = "user" => j <= i
    BY DEF TurnInv
  <1>2. i \in said /\ \A j \in said : j <= i
    BY <1>1
  <1>3. last \in said /\ \A j \in said : j <= last
    BY <1>2
  <1>4. last = i
    <2>1. last \in Int /\ i \in Int
      BY <1>2, <1>3 DEF ConversationTypeOK
    <2> HIDE DEF said, last
    <2> QED
      BY <1>2, <1>3, <2>1
  <1>5. messages[last][2] = heard
    <2> HIDE DEF last
    <2> QED
      BY <1>1, <1>4
  <1> QED
    BY <1>5 DEF Answering

LEMMA RestTypes ==
  ASSUME ConversationTypeOK, TurnInv, NumbersInv, TurnLogTypeOK',
         \/ BargeIn \/ CloseSession \/ OutsideEngine
         \/ \E n \in 1..MaxTools : ToolDone(n)
  PROVE  ConversationTypeOK'
  <1> USE DEF ConversationTypeOK
  <1>1. ASSUME CancelTurn, ListenAgain
        PROVE  /\ turn' = "none" /\ stt' \in {"listening", "started", "final", "turn", "done"}
               /\ future' \in [1..MaxTools -> {"none", "waiting", "set", "cancelled"}]
    BY <1>1 DEF CancelTurn, ListenAgain
  <1>2. CASE BargeIn
    <2>1. events' \in Seq(Events) /\ Len(events') <= EventsSize
      BY <1>2, KeepFacts DEF BargeIn
    <2>2. cuts' \subseteq [by : Numbers, of : Numbers, awaiting : Numbers]
      <3>1. Head(events).n \in Numbers
        <4>1. Head(events) \in Events
          BY <1>2, TailFacts DEF BargeIn, NextEvent
        <4> QED
          BY <4>1 DEF Events
      <3>2. turn # "none" => Answering \in Numbers
        BY AnswersTheLast, EventTypesOf
      <3>3. tools \in Numbers /\ 0 \in Numbers
        BY EventTypesOf
      <3> QED
        BY <1>2, <3>1, <3>2, <3>3 DEF BargeIn
    <2> QED
      BY <1>1, <1>2, <2>1, <2>2 DEF BargeIn, pumpVars
  <1>3. CASE CloseSession
    BY <1>1, <1>3 DEF CloseSession, pumpVars
  <1>4. ASSUME NEW n \in 1..MaxTools, ToolDone(n)
        PROVE  ConversationTypeOK'
    <2>1. future' \in [1..MaxTools -> {"none", "waiting", "set", "cancelled"}]
      BY <1>4 DEF ToolDone, SubmitToolResult
    <2> QED
      BY <1>4, <2>1 DEF ToolDone
  <1>5. CASE OutsideEngine
    <2>1. events' \in Seq(Events) /\ Len(events') <= EventsSize
      BY <1>5, OutsideFrame, TakeFacts
         DEF PersistEvent, PlayAudio, EventsEnd, TakeEvent, NextEvent
    <2>2. pump' \in {"wait", "get", "send", "ended", "cancelled"}
      BY <1>5 DEF OutsideEngine, StartPumps, PersistEvent, PlayAudio, AudioPlayed, EventsEnd,
                  CancelPumps, FinishTurns, LogRuns, pumpVars, conversationVars
    <2>3. running' \subseteq 1..MaxTools
      <3>1. CASE PersistEvent
        <4>1. /\ running' = IF Head(events).type = "ToolCallRequested"
                              THEN running \cup {Head(events).n} ELSE running
              /\ events # <<>>
          BY <3>1 DEF PersistEvent, TakeEvent, NextEvent
        <4>2. Head(events).type = "ToolCallRequested" => Head(events).n \in 1..MaxTools
          BY <4>1, TailFacts DEF NumbersInv, IsEvent
        <4> QED
          BY <4>1, <4>2
      <3>2. CASE ~ PersistEvent
        BY <1>5, <3>2 DEF OutsideEngine, StartPumps, PlayAudio, AudioPlayed, EventsEnd,
                          CancelPumps, FinishTurns, LogRuns, pumpVars, conversationVars
      <3> QED
        BY <3>1, <3>2
    <2> QED
      BY <1>5, <2>1, <2>2, <2>3, OutsideFrame
  <1> QED
    BY <1>2, <1>3, <1>4, <1>5

-----------------------------------------------------------------------------
(* Conversation: turns and their cuts                                      *)

\* Appending a message keeps those before it.
LEMMA LastMessage ==
  ASSUME ConversationTypeOK, NEW m \in {"user", "calls", "tool", "assistant"} \X Numbers,
         messages' = Append(messages, m)
  PROVE  /\ Len(messages') = Len(messages) + 1 /\ Len(messages) \in Nat
         /\ DOMAIN messages = 1..Len(messages) /\ DOMAIN messages' = 1..(Len(messages) + 1)
         /\ messages'[Len(messages')] = m /\ messages' # <<>>
         /\ \A i \in DOMAIN messages : messages'[i] = messages[i]
         /\ \A i \in DOMAIN messages' : i \in DOMAIN messages \/ i = Len(messages')
  <1>1. messages \in Seq({"user", "calls", "tool", "assistant"} \X Numbers)
    BY DEF ConversationTypeOK
  <1> QED
    BY <1>1, AppendFacts

LEMMA TurnInvIsKept ==
  ASSUME ConversationTypeOK, TurnInv, [ConversationNext]_conversationVars
  PROVE  TurnInv'
  <1> USE DEF TurnInv
  <1>1. tools \in Numbers /\ replies \in Numbers /\ heard \in Numbers
    BY EventTypesOf DEF ConversationTypeOK
  <1>2. ASSUME turn' = "none", stt' # "turn"
        PROVE  TurnInv'
    BY <1>2
  <1>3. CASE SpeechStarts \/ EmitSpeechStarted \/ SpeechIsFinal
    BY <1>2, <1>3 DEF SpeechStarts, Listens, EmitSpeechStarted, SpeechIsFinal
  <1>4. CASE EmitFinalTranscript
    <2>1. messages' = Append(messages, <<"user", heard>>) /\ heard' = heard
      BY <1>4 DEF EmitFinalTranscript
    <2>2. \E i \in DOMAIN messages' :
            /\ messages'[i] = <<"user", heard'>>
            /\ \A j \in DOMAIN messages' : messages'[j][1] = "user" => j <= i
      <3>1. <<"user", heard>> \in {"user", "calls", "tool", "assistant"} \X Numbers
        BY <1>1
      <3>2. /\ Len(messages') \in DOMAIN messages'
            /\ messages'[Len(messages')] = <<"user", heard>>
            /\ \A j \in DOMAIN messages' : j <= Len(messages')
        BY <2>1, <3>1, LastMessage
      <3> QED
        BY <2>1, <3>2
    <2> QED
      BY <1>4, <2>2 DEF EmitFinalTranscript
  <1>5. CASE SttEnds
    BY <1>2, <1>5 DEF SttEnds, CancelTurn
  <1>6. CASE TurnEnds \/ EmitAudio
    BY <1>2, <1>6 DEF TurnEnds, EmitAudio
  <1>7. ASSUME turn # "none", turn' # "none", UNCHANGED <<stt, heard>>,
               turn' \in {"offer", "await"} => tools' \in 1..MaxTools,
               UNCHANGED messages \/
                 \E m \in {"calls", "tool", "assistant"}, n \in Numbers :
                   messages' = Append(messages, <<m, n>>)
        PROVE  TurnInv'
    <2>1. PICK i \in DOMAIN messages :
            /\ messages[i] = <<"user", heard>>
            /\ \A j \in DOMAIN messages : messages[j][1] = "user" => j <= i
      BY <1>7
    <2>2. \/ UNCHANGED messages
          \/ /\ i \in DOMAIN messages' /\ messages'[i] = messages[i]
             /\ \A j \in DOMAIN messages' :
                  messages'[j][1] = "user" => j \in DOMAIN messages /\ messages'[j] = messages[j]
      <3>1. ASSUME NEW m \in {"calls", "tool", "assistant"}, NEW n \in Numbers,
                   messages' = Append(messages, <<m, n>>)
            PROVE  /\ i \in DOMAIN messages' /\ messages'[i] = messages[i]
                   /\ \A j \in DOMAIN messages' :
                        messages'[j][1] = "user" =>
                          j \in DOMAIN messages /\ messages'[j] = messages[j]
        <4>1. /\ <<m, n>> \in {"user", "calls", "tool", "assistant"} \X Numbers
              /\ <<m, n>>[1] # "user"
          OBVIOUS
        <4> QED
          BY <3>1, <4>1, LastMessage
      <3> QED
        BY <1>7, <3>1
    <2>3. \A j \in DOMAIN messages' : messages'[j][1] = "user" => j <= i
      BY <2>1, <2>2
    <2>4. i \in DOMAIN messages' /\ messages'[i] = <<"user", heard'>>
      BY <1>7, <2>1, <2>2
    <2> QED
      BY <1>7, <2>3, <2>4
  <1>8. CASE ModelReplies
    <2>1. replies + 1 \in Numbers
      BY <1>8, EventTypesOf, ConversationAssumption DEF ModelReplies, ConversationTypeOK
    <2> QED
      BY <1>7, <1>8, <2>1 DEF ModelReplies
  <1>9. CASE ModelAsksForTool
    <2>1. tools' \in 1..MaxTools
      BY <1>9, ConversationAssumption DEF ModelAsksForTool, ConversationTypeOK
    <2> QED
      BY <1>7, <1>9, <2>1 DEF ModelAsksForTool
  <1>10. CASE EmitToolCall
    BY <1>1, <1>7, <1>10 DEF EmitToolCall
  <1>11. CASE ToolResultArrives
    BY <1>1, <1>7, <1>11 DEF ToolResultArrives, ToolMessage
  <1>12. CASE EmitResponse
    BY <1>7, <1>12 DEF EmitResponse
  <1>13. CASE BargeIn \/ CloseSession
    BY <1>2, <1>13 DEF BargeIn, CloseSession, CancelTurn, ListenAgain
  <1>14. CASE OutsideEngine
    BY <1>14, OutsideFrame
  <1>15. ASSUME NEW n \in 1..MaxTools, ToolDone(n)
         PROVE  TurnInv'
    BY <1>15 DEF ToolDone
  <1> QED
    BY <1>3, <1>4, <1>5, <1>6, <1>8, <1>9, <1>10, <1>11, <1>12, <1>13, <1>14, <1>15, StepKinds
       DEF SttStep, TurnStep

\* What the steps that emit no event do to the queue.
LEMMA QueueShrinks ==
  ASSUME ConversationTypeOK,
         \/ SpeechStarts \/ SpeechIsFinal \/ ModelReplies \/ ModelAsksForTool \/ TurnEnds
         \/ ToolResultArrives \/ BargeIn \/ CloseSession \/ OutsideEngine
         \/ \E n \in 1..MaxTools : ToolDone(n)
  PROVE  /\ \A i \in DOMAIN events' : \E k \in DOMAIN events : events'[i] = events[k]
         /\ Distinct(events) => Distinct(events')
  <1>1. CASE UNCHANGED events
    BY <1>1 DEF Distinct
  <1>2. CASE SpeechStarts \/ SpeechIsFinal \/ ModelReplies \/ ModelAsksForTool \/ TurnEnds
             \/ ToolResultArrives \/ CloseSession \/ \E n \in 1..MaxTools : ToolDone(n)
    BY <1>1, <1>2 DEF SpeechStarts, SpeechIsFinal, ModelReplies, ModelAsksForTool, TurnEnds,
                      ToolResultArrives, CloseSession, ToolDone
  <1>3. CASE BargeIn
    <2> DEFINE S == {i \in DOMAIN events : i > 1 /\ ~ IsEvent(i, "AudioOut")}
    <2>1. S \in SUBSET DOMAIN events /\ KeepEvents(S)
      BY <1>3 DEF BargeIn
    <2> HIDE DEF S
    <2> QED
      BY <2>1, KeepFacts DEF ConversationTypeOK
  <1>4. CASE PersistEvent \/ PlayAudio \/ EventsEnd
    <2>1. events # <<>> /\ events' = Tail(events)
      BY <1>4 DEF PersistEvent, PlayAudio, EventsEnd, TakeEvent, NextEvent
    <2> QED
      BY <2>1, TakeFacts DEF ConversationTypeOK
  <1> QED
    BY <1>1, <1>2, <1>3, <1>4, OutsideFrame

LEMMA EmittedEvents ==
  ASSUME ConversationTypeOK, NEW type \in EventTypes, NEW n \in Numbers,
         Emit(Event(type, n))
  PROVE  /\ Holds(events', Event(type, n))
         /\ Distinct(events)
              /\ (Spoken(Event(type, n)) =>
                    \A i \in DOMAIN events : events[i] # Event(type, n))
            => Distinct(events')
  BY EmitFacts, EventTypesOf DEF ConversationTypeOK, Emit

LEMMA NumbersInvIsKept ==
  ASSUME ConversationTypeOK, TurnInv, NumbersInv, [ConversationNext]_conversationVars
  PROVE  NumbersInv'
  <1>1. heard \in Int /\ heard' \in Int /\ heard <= heard'
    <2>1. UNCHANGED heard \/ SpeechStarts
      BY OutsideFrame, StepKinds
         DEF SttStep, EmitSpeechStarted, SpeechIsFinal, EmitFinalTranscript, SttEnds,
             TurnStep, ModelReplies, ModelAsksForTool, TurnEnds, EmitToolCall, ToolResultArrives,
             EmitResponse, EmitAudio, BargeIn, CloseSession, ToolDone
    <2> QED
      BY <2>1 DEF SpeechStarts, ConversationTypeOK
  <1>2. \A k \in DOMAIN events : events[k].n \in Int
    <2>1. \A k \in DOMAIN events : events[k] \in Events
      BY DEF ConversationTypeOK
    <2> QED
      BY <2>1, ConversationAssumption DEF Events, Numbers
  <1> DEFINE Fits(e) == /\ e.type = "SpeechStarted" => e.n <= heard'
                        /\ e.type = "ToolCallRequested" => e.n \in 1..MaxTools
  <1>3. \A k \in DOMAIN events : Fits(events[k])
    BY <1>1, <1>2 DEF NumbersInv, IsEvent
  <1>4. UNCHANGED cuts \/ BargeIn
    BY OutsideFrame, StepKinds
       DEF SttStep, SpeechStarts, EmitSpeechStarted, SpeechIsFinal, EmitFinalTranscript, SttEnds,
           TurnStep, ModelReplies, ModelAsksForTool, TurnEnds, EmitToolCall, ToolResultArrives,
           EmitResponse, EmitAudio, CloseSession, ToolDone, beyondEngine
  <1>5. \A c \in cuts' : c.by <= c.of
    <2>1. CASE BargeIn
      <3>1. events # <<>> /\ Head(events).type = "SpeechStarted"
        BY <2>1 DEF BargeIn, NextEvent
      <3>2. 1 \in DOMAIN events /\ Head(events) = events[1]
        BY <3>1, TailFacts DEF ConversationTypeOK
      <3>3. Head(events).n <= heard /\ (turn # "none" => Answering = heard)
        BY <3>1, <3>2, AnswersTheLast DEF NumbersInv, IsEvent
      <3> QED
        BY <2>1, <3>3 DEF BargeIn, NumbersInv
    <2> QED
      BY <1>4, <2>1 DEF NumbersInv
  <1>6. ASSUME NEW e, Fits(e), Holds(events', e)
        PROVE  NumbersInv'
    <2>1. \A i \in DOMAIN events' : Fits(events'[i])
      BY <1>3, <1>6 DEF Holds
    <2> QED
      BY <1>5, <2>1 DEF NumbersInv, IsEvent
  <1>7. ASSUME NEW type \in EventTypes, NEW n \in Numbers, Emit(Event(type, n)),
               Fits(Event(type, n))
        PROVE  NumbersInv'
    <2> HIDE DEF Fits
    <2> QED
      BY <1>6, <1>7, EmittedEvents
  <1>8. ASSUME \A i \in DOMAIN events' : \E k \in DOMAIN events : events'[i] = events[k]
        PROVE  NumbersInv'
    BY <1>3, <1>5, <1>8 DEF NumbersInv, IsEvent
  <1>9. tools \in Numbers /\ replies \in Numbers /\ heard \in Numbers
    BY EventTypesOf DEF ConversationTypeOK
  <1>10. CASE EmitSpeechStarted \/ EmitFinalTranscript
    <2>1. /\ heard' = heard
          /\ Fits(Event("SpeechStarted", heard)) /\ Fits(Event("FinalTranscript", heard))
      BY <1>1, <1>9, <1>10, EventTypesOf DEF EmitSpeechStarted, EmitFinalTranscript, EventTypes
    <2> QED
      BY <1>7, <1>9, <1>10, <2>1 DEF EmitSpeechStarted, EmitFinalTranscript, EventTypes
  <1>11. CASE EmitToolCall \/ EmitResponse \/ EmitAudio
    <2>1. turn = "offer" => Fits(Event("ToolCallRequested", tools))
      BY <1>9, EventTypesOf DEF EventTypes, TurnInv
    <2>2. Fits(Event("AssistantResponse", replies)) /\ Fits(Event("AudioOut", replies))
      BY <1>9, EventTypesOf DEF EventTypes
    <2> QED
      BY <1>7, <1>9, <1>11, <2>1, <2>2 DEF EmitToolCall, EmitResponse, EmitAudio, EventTypes
  <1>12. CASE SttEnds
    <2>1. Fits(None) /\ Holds(events', None)
      BY <1>12, EmitFacts, EventTypesOf DEF ConversationTypeOK, SttEnds, PutSentinel
    <2> QED
      BY <1>6, <2>1
  <1> QED
    BY <1>8, <1>10, <1>11, <1>12, QueueShrinks, StepKinds DEF SttStep, TurnStep

-----------------------------------------------------------------------------
(* Conversation: the sentinel                                              *)

LEMMA SentinelIsKept ==
  ASSUME ConversationTypeOK, TurnInv, SentinelIsNotLost, [ConversationNext]_conversationVars
  PROVE  SentinelIsNotLost'
  <1> USE DEF SentinelIsNotLost, IsEvent
  <1>1. CASE SttEnds
    <2>1. \E i \in DOMAIN events' : events'[i] = None
      BY <1>1, EmitFacts, EventTypesOf DEF ConversationTypeOK, SttEnds, PutSentinel
    <2> QED
      BY <2>1, EventTypesOf
  <1>2. CASE SpeechStarts \/ EmitSpeechStarted \/ SpeechIsFinal \/ EmitFinalTranscript
    BY <1>2 DEF SpeechStarts, EmitSpeechStarted, SpeechIsFinal, EmitFinalTranscript
  <1>3. CASE TurnStep
    <2>1. turn # "none" /\ stt' \in {stt, "listening"}
      BY <1>3 DEF TurnStep, ModelReplies, ModelAsksForTool, TurnEnds, EmitToolCall,
                  ToolResultArrives, EmitResponse, EmitAudio
    <2> QED
      BY <2>1 DEF TurnInv
  <1>4. CASE CloseSession
    BY <1>4 DEF CloseSession, ListenAgain, pumpVars
  <1>5. CASE BargeIn
    <2> DEFINE S == {i \in DOMAIN events : i > 1 /\ ~ IsEvent(i, "AudioOut")}
    <2>1. S \in SUBSET DOMAIN events /\ KeepEvents(S)
      BY <1>5 DEF BargeIn
    <2>2. stt' = "done" => stt = "done" /\ UNCHANGED pump
      BY <1>5 DEF BargeIn, ListenAgain, pumpVars
    <2>3. ASSUME NEW k \in DOMAIN events, events[k].type = "None"
          PROVE  k \in S
      <3>1. events[1].type = "SpeechStarted" /\ k \in Nat \ {0}
        BY <1>5, TakeFacts, TailFacts DEF BargeIn, NextEvent, ConversationTypeOK
      <3> QED
        BY <2>3, <3>1
    <2> HIDE DEF S
    <2>4. \A k \in S : \E i \in DOMAIN events' : events'[i] = events[k]
      BY <2>1, KeepFacts DEF ConversationTypeOK
    <2> QED
      BY <2>2, <2>3, <2>4
  <1>6. CASE PersistEvent \/ PlayAudio
    <2>1. /\ pump = "get" /\ events # <<>> /\ events' = Tail(events) /\ UNCHANGED stt
          /\ Head(events).type # "None"
      BY <1>6, RoleFacts DEF PersistEvent, PlayAudio, TakeEvent, NextEvent, KeepsEngine
    <2> QED
      BY <2>1, TakeFacts DEF ConversationTypeOK
  <1>7. CASE EventsEnd \/ CancelPumps
    BY <1>7 DEF EventsEnd, CancelPumps
  <1>8. CASE StartPumps \/ AudioPlayed \/ FinishTurns \/ LogRuns \/ UNCHANGED conversationVars
    BY <1>8 DEF StartPumps, AudioPlayed, FinishTurns, LogRuns, engineVars, pumpVars,
                conversationVars
  <1>9. ASSUME NEW n \in 1..MaxTools, ToolDone(n)
        PROVE  SentinelIsNotLost'
    BY <1>9 DEF ToolDone
  <1> QED
    BY <1>1, <1>2, <1>3, <1>4, <1>5, <1>6, <1>7, <1>8, <1>9, StepKinds DEF SttStep, OutsideEngine

-----------------------------------------------------------------------------
(* Conversation: the history                                               *)

\* A message is appended: the request or the result of the turn's tool, or neither.
LEMMA HistoryGrows ==
  ASSUME ConversationTypeOK, AwaitInv, UNCHANGED <<cuts, closed, tools>>,
         NEW m \in {"user", "calls", "tool", "assistant"} \X Numbers,
         messages' = Append(messages, m),
         m[1] = "calls" => turn' = "await" /\ m[2] = tools,
         turn' = "await" => m = <<"calls", tools>>,
         m[1] = "tool" <=> turn = "await",
         m[1] = "tool" => m = <<"tool", tools>>
  PROVE  AwaitInv'
  <1>1. /\ Len(messages') = Len(messages) + 1 /\ Len(messages) \in Nat
        /\ DOMAIN messages = 1..Len(messages) /\ DOMAIN messages' = 1..(Len(messages) + 1)
        /\ messages'[Len(messages')] = m /\ messages' # <<>>
        /\ \A i \in DOMAIN messages : messages'[i] = messages[i]
        /\ \A i \in DOMAIN messages' : i \in DOMAIN messages \/ i = Len(messages')
    BY LastMessage
  <1>2. ASSUME NEW i \in DOMAIN messages
        PROVE  /\ messages[i][1] = "calls" =>
                    \/ i < Len(messages') /\ messages'[i + 1] = <<"tool", messages[i][2]>>
                    \/ closed \/ \E c \in cuts : c.awaiting = messages[i][2]
               /\ messages[i][1] = "tool" =>
                    i > 1 /\ messages'[i - 1] = <<"calls", messages[i][2]>>
    <2>1. CASE messages[i][1] = "calls"
      <3>1. CASE i < Len(messages) /\ messages[i + 1] = <<"tool", messages[i][2]>>
        BY <1>1, <1>2, <2>1, <3>1
      <3>2. CASE i = Len(messages) /\ turn = "await" /\ messages[i][2] = tools
        BY <1>1, <2>1, <3>2
      <3> QED
        BY <1>2, <2>1, <3>1, <3>2 DEF AwaitInv, UnansweredCallIsExcused
    <2>2. CASE messages[i][1] = "tool"
      <3>1. i > 1 /\ messages[i - 1] = <<"calls", messages[i][2]>>
        BY <1>2, <2>2 DEF AwaitInv, UnansweredCallIsExcused
      <3> QED
        BY <1>1, <1>2, <2>2, <3>1
    <2> QED
      BY <2>1, <2>2
  <1>3. m[1] = "tool" => Len(messages') > 1 /\ messages'[Len(messages') - 1] = <<"calls", m[2]>>
    <2>1. ASSUME m[1] = "tool"
          PROVE  /\ messages # <<>> /\ messages[Len(messages)] = <<"calls", tools>>
                 /\ m = <<"tool", tools>>
      BY <2>1 DEF AwaitInv
    <2>2. messages # <<>> => Len(messages) \in DOMAIN messages
      BY <1>1 DEF ConversationTypeOK
    <2> QED
      BY <1>1, <2>1, <2>2
  <1>4. UnansweredCallIsExcused'
    <2> SUFFICES ASSUME NEW i \in DOMAIN messages'
                 PROVE  LET n == messages'[i][2]
                        IN /\ messages'[i][1] = "calls" =>
                                \/ i < Len(messages') /\ messages'[i + 1] = <<"tool", n>>
                                \/ i = Len(messages') /\ turn' = "await" /\ n = tools'
                                \/ closed' \/ \E c \in cuts' : c.awaiting = n
                           /\ messages'[i][1] = "tool" =>
                                i > 1 /\ messages'[i - 1] = <<"calls", n>>
      BY DEF UnansweredCallIsExcused
    <2>1. CASE i \in DOMAIN messages
      BY <1>1, <1>2, <2>1
    <2>2. CASE i = Len(messages')
      BY <1>1, <1>3, <2>2
    <2> QED
      BY <1>1, <2>1, <2>2
  <1> QED
    BY <1>1, <1>4 DEF AwaitInv

LEMMA AwaitInvIsKept ==
  ASSUME ConversationTypeOK, TurnInv, AwaitInv, [ConversationNext]_conversationVars
  PROVE  AwaitInv'
  <1>1. tools \in Numbers /\ replies \in Numbers /\ heard \in Numbers
    BY EventTypesOf DEF ConversationTypeOK
  <1> DEFINE Excused(n) == closed \/ \E c \in cuts : c.awaiting = n
  <1>2. ASSUME UNCHANGED messages, turn' # "await", closed => closed', cuts \subseteq cuts',
               turn = "await" => closed' \/ \E c \in cuts' : c.awaiting = tools
        PROVE  AwaitInv'
    BY <1>2 DEF AwaitInv, UnansweredCallIsExcused
  <1>3. ASSUME UNCHANGED <<messages, turn, tools, closed, cuts>>
        PROVE  AwaitInv'
    BY <1>3 DEF AwaitInv, UnansweredCallIsExcused
  <1>4. CASE SpeechStarts \/ EmitSpeechStarted \/ SpeechIsFinal
    BY <1>3, <1>4 DEF SpeechStarts, EmitSpeechStarted, SpeechIsFinal, beyondEngine
  <1>5. CASE EmitFinalTranscript
    <2>1. /\ turn # "await" /\ turn' # "await" /\ UNCHANGED <<cuts, closed, tools>>
          /\ messages' = Append(messages, <<"user", heard>>)
      BY <1>5 DEF EmitFinalTranscript, TurnInv, beyondEngine
    <2> QED
      BY <1>1, <2>1, HistoryGrows
  <1>6. CASE SttEnds
    BY <1>2, <1>6 DEF SttEnds, CancelTurn, TurnInv, beyondEngine
  <1>7. CASE ModelReplies
    <2>1. /\ turn # "await" /\ turn' # "await" /\ UNCHANGED <<cuts, closed, tools>>
          /\ messages' = Append(messages, <<"assistant", replies + 1>>)
      BY <1>7 DEF ModelReplies, beyondEngine
    <2>2. replies + 1 \in Numbers
      BY <1>7, EventTypesOf, ConversationAssumption DEF ModelReplies, ConversationTypeOK
    <2> QED
      BY <2>1, <2>2, HistoryGrows
  <1>8. CASE ModelAsksForTool \/ TurnEnds \/ EmitResponse \/ EmitAudio
    BY <1>2, <1>8 DEF ModelAsksForTool, TurnEnds, EmitResponse, EmitAudio, beyondEngine
  <1>9. CASE EmitToolCall
    <2>1. /\ turn # "await" /\ turn' = "await" /\ UNCHANGED <<cuts, closed, tools>>
          /\ messages' = Append(messages, <<"calls", tools>>)
      BY <1>9 DEF EmitToolCall, beyondEngine
    <2> QED
      BY <1>1, <2>1, HistoryGrows
  <1>10. CASE ToolResultArrives
    <2>1. /\ turn = "await" /\ turn' # "await" /\ UNCHANGED <<cuts, closed, tools>>
          /\ messages' = Append(messages, <<"tool", tools>>)
      BY <1>10 DEF ToolResultArrives, ToolMessage, beyondEngine
    <2> QED
      BY <1>1, <2>1, HistoryGrows
  <1>11. CASE BargeIn
    <2>1. /\ turn' = "none" /\ UNCHANGED <<messages, closed>>
          /\ cuts' = IF turn = "none" THEN cuts
                     ELSE cuts \cup {[by |-> Head(events).n, of |-> Answering,
                                      awaiting |-> IF turn = "await" THEN tools ELSE 0]}
      BY <1>11 DEF BargeIn, CancelTurn
    <2>2. ASSUME turn = "await"
          PROVE  \E c \in cuts' : c.awaiting = tools
      <3>1. [by |-> Head(events).n, of |-> Answering, awaiting |-> tools] \in cuts'
        BY <2>1, <2>2
      <3> QED
        BY <3>1
    <2>3. cuts \subseteq cuts'
      BY <2>1
    <2> QED
      BY <1>2, <2>1, <2>2, <2>3
  <1>12. CASE CloseSession
    BY <1>2, <1>12 DEF CloseSession, CancelTurn
  <1>13. CASE OutsideEngine
    BY <1>3, <1>13, OutsideFrame
  <1>14. ASSUME NEW n \in 1..MaxTools, ToolDone(n)
         PROVE  AwaitInv'
    BY <1>3, <1>14 DEF ToolDone
  <1> QED
    BY <1>4, <1>5, <1>6, <1>7, <1>8, <1>9, <1>10, <1>11, <1>12, <1>13, <1>14, StepKinds
       DEF SttStep, TurnStep

-----------------------------------------------------------------------------
(* Conversation: no turn is handed over twice                              *)

\* What is used up stays so.
LEMMA UsedStays ==
  ASSUME ConversationTypeOK, FreshInv, [ConversationNext]_conversationVars
  PROVE  Used \subseteq Used'
  <1>1. Numbers \subseteq Int
    BY ConversationAssumption DEF Numbers
  <1>2. /\ \/ SpeechStarts
           \/ /\ UNCHANGED heard
              /\ speaking' = FALSE \/ UNCHANGED speaking
              /\ stt' = "final" => stt = "final" \/ SpeechIsFinal
    BY OutsideFrame, StepKinds
       DEF SttStep, EmitSpeechStarted, SpeechIsFinal, EmitFinalTranscript, SttEnds, TurnStep,
           ModelReplies, ModelAsksForTool, TurnEnds, EmitToolCall, ToolResultArrives,
           EmitResponse, EmitAudio, BargeIn, CloseSession, ListenAgain, ToolDone
  <1>3. ASSUME NEW n \in Numbers, n <= heard, speaking \/ stt = "final" => n < heard
        PROVE  n <= heard' /\ (speaking' \/ stt' = "final" => n < heard')
    <2>1. CASE SpeechStarts
      BY <1>1, <1>3, <2>1 DEF SpeechStarts, ConversationTypeOK
    <2>2. CASE SpeechIsFinal
      BY <1>3, <2>2 DEF SpeechIsFinal
    <2> QED
      BY <1>2, <1>3, <2>1, <2>2 DEF ConversationTypeOK
  <1>4. /\ ModelReplies \/ UNCHANGED replies
        /\ turn' = "reply" => turn = "reply" \/ ModelReplies
    BY OutsideFrame, StepKinds
       DEF SttStep, SpeechStarts, EmitSpeechStarted, SpeechIsFinal, EmitFinalTranscript, SttEnds,
           TurnStep, TurnEnds, EmitToolCall, ToolResultArrives, EmitResponse, EmitAudio, BargeIn,
           CloseSession, CancelTurn, ModelReplies, ModelAsksForTool, ToolDone
  <1>5. ASSUME NEW n \in Numbers, n <= replies, turn = "reply" => n < replies
        PROVE  n <= replies' /\ (turn' = "reply" => n < replies')
    BY <1>1, <1>4, <1>5 DEF ModelReplies, ConversationTypeOK
  <1> QED
    BY <1>3, <1>5 DEF Used

\* A step that hands nothing over, and emits e or nothing.
LEMMA FreshWithout ==
  ASSUME FreshInv, Used \subseteq Used',
         accepted' = accepted, Distinct(events'), stt' = "final" => ~ speaking',
         NEW e \in FreshEvents', Holds(events', e)
  PROVE  FreshInv'
  <1>1. FreshEvents \subseteq FreshEvents'
    BY DEF FreshEvents, Accepted
  <1> QED
    BY <1>1 DEF FreshInv, Holds

\* A step that hands over the turn t.
LEMMA HandedOver ==
  ASSUME ConversationTypeOK, FreshInv, Used \subseteq Used',
         NEW t \in Turns, EnqueueTurn(t), t[1] \notin ToolRoles => t \in Used /\ ~ Accepted(t)
  PROVE  /\ \A k \in DOMAIN accepted' : accepted'[k][1] \notin ToolRoles =>
              /\ accepted'[k] \in Used'
              /\ \A j \in DOMAIN accepted' : accepted'[j] = accepted'[k] => j = k
         /\ \A d \in FreshEvents : (Spoken(d) => TurnOf(d) # t) => d \in FreshEvents'
  <1>1. UNCHANGED accepted \/ accepted' = Append(accepted, t)
    BY DEF EnqueueTurn
  <1>2. accepted \in Seq(Turns)
    BY DEF ConversationTypeOK, TurnLogTypeOK
  <1> DEFINE n == Len(accepted) + 1
  <1>3. CASE UNCHANGED accepted
    BY <1>3 DEF FreshInv, FreshEvents, Accepted
  <1>4. CASE accepted' = Append(accepted, t)
    <2>1. /\ DOMAIN accepted' = DOMAIN accepted \cup {n} /\ accepted'[n] = t
          /\ \A k \in DOMAIN accepted : accepted'[k] = accepted[k]
      BY <1>2, <1>4, AppendFacts
    <2> HIDE DEF n
    <2>2. ASSUME NEW k \in DOMAIN accepted', accepted'[k][1] \notin ToolRoles
          PROVE  /\ accepted'[k] \in Used'
                 /\ \A j \in DOMAIN accepted' : accepted'[j] = accepted'[k] => j = k
      <3>1. CASE k = n
        BY <2>1, <2>2, <3>1 DEF Accepted
      <3>2. CASE k \in DOMAIN accepted
        BY <2>1, <2>2, <3>2 DEF Accepted, FreshInv
      <3> QED
        BY <2>1, <3>1, <3>2
    <2>3. \A u : Accepted(u)' => Accepted(u) \/ u = t
      BY <2>1 DEF Accepted
    <2>4. ASSUME NEW d \in FreshEvents, Spoken(d) => TurnOf(d) # t
          PROVE  d \in FreshEvents'
      BY <2>3, <2>4 DEF FreshEvents
    <2> QED
      BY <2>2, <2>4
  <1> QED
    BY <1>1, <1>3, <1>4

\* A step that emits the event of number n, which was not used up.
LEMMA EmitIsFresh ==
  ASSUME ConversationTypeOK, FreshInv, Used \subseteq Used',
         accepted' = accepted, stt' = "final" => ~ speaking',
         NEW type \in EventTypes, NEW n \in Numbers, Emit(Event(type, n)),
         Spoken(Event(type, n)) =>
           <<RoleOf[type], n>> \in Used' \ Used /\ RoleOf[type] \notin ToolRoles
  PROVE  FreshInv'
  <1> DEFINE e == Event(type, n)
  <1>1. e \in Events /\ e.type = type /\ e.n = n
    BY EventTypesOf
  <1>2. /\ Holds(events', e)
        /\ Distinct(events) /\ (Spoken(e) => \A i \in DOMAIN events : events[i] # e)
             => Distinct(events')
    BY EmittedEvents
  <1>3. Spoken(e) => TurnOf(e) \in Used' \ Used /\ TurnOf(e)[1] \notin ToolRoles
    BY <1>1 DEF TurnOf
  <1> HIDE DEF e
  <1>4. Spoken(e) => ~ Accepted(TurnOf(e))
    BY <1>3 DEF Accepted, FreshInv
  <1>5. e \in FreshEvents'
    BY <1>1, <1>3, <1>4 DEF FreshEvents, Accepted
  <1>6. Spoken(e) => \A i \in DOMAIN events : events[i] # e
    BY <1>3 DEF FreshInv, FreshEvents
  <1> QED
    BY <1>2, <1>5, <1>6, FreshWithout DEF FreshInv

\* Two spoken events are the same when their turns are.
LEMMA TurnsTellEvents ==
  ASSUME NEW d \in Events, NEW e \in Events, Spoken(d), Spoken(e), TurnOf(d) = TurnOf(e)
  PROVE  d = e
  <1>1. d.n = e.n /\ d.type = e.type
    BY RoleFacts DEF Spoken, TurnOf
  <1> QED
    BY <1>1 DEF Events

LEMMA PersistIsFresh ==
  ASSUME ConversationTypeOK, NumbersInv, FreshInv, Used \subseteq Used', PersistEvent
  PROVE  FreshInv'
  <1> DEFINE h == Head(events)
             t == <<RoleOf[h.type], EventId(RoleOf[h.type], h.n)>>
  <1>1. /\ events # <<>> /\ events' = Tail(events) /\ h.type \in DOMAIN RoleOf
        /\ EnqueueTurn(t)
        /\ UNCHANGED <<stt, speaking>>
    BY DEF PersistEvent, TakeEvent, NextEvent, KeepsEngine
  <1>2. /\ \A i \in DOMAIN events' : \E k \in DOMAIN events : events'[i] = events[k]
        /\ Distinct(events')
        /\ Spoken(h) => \A i \in DOMAIN events' : events'[i] # h
        /\ h \in FreshEvents /\ 1 \in DOMAIN events /\ h = events[1]
    BY <1>1, TakeFacts DEF ConversationTypeOK, FreshInv
  <1> HIDE DEF h
  <1>3. /\ h \in Events /\ h.n \in Numbers /\ RoleOf[h.type] \in Roles
        /\ RoleOf[h.type] \in ToolRoles <=> ~ Spoken(h)
        /\ RoleOf[h.type] \in ToolRoles => h.n \in 1..MaxTools
    BY <1>1, <1>2, RoleFacts DEF FreshEvents, Events, Spoken, NumbersInv, IsEvent
  <1>4. /\ t \in Turns /\ t[1] = RoleOf[h.type]
        /\ Spoken(h) => t = TurnOf(h)
    BY <1>3, KeyTypes DEF TurnOf
  <1> HIDE DEF t
  <1>5. t[1] \notin ToolRoles => t \in Used /\ ~ Accepted(t)
    BY <1>2, <1>3, <1>4 DEF FreshEvents
  <1>6. ASSUME NEW d \in FreshEvents, Spoken(h) => d # h
        PROVE  Spoken(d) => TurnOf(d) # t
    <2>1. d \in Events
      BY DEF FreshEvents
    <2>2. Spoken(d) => TurnOf(d)[1] \notin ToolRoles
      BY RoleFacts DEF Spoken, TurnOf
    <2> QED
      BY <1>3, <1>4, <1>6, <2>1, <2>2, TurnsTellEvents
  <1>7. \A i \in DOMAIN events' : events'[i] \in FreshEvents /\ (Spoken(h) => events'[i] # h)
    BY <1>2 DEF FreshInv
  <1>8. \A i \in DOMAIN events' : events'[i] \in FreshEvents'
    BY <1>1, <1>4, <1>5, <1>6, <1>7, HandedOver
  <1>9. \A k \in DOMAIN accepted' : accepted'[k][1] \notin ToolRoles =>
          /\ accepted'[k] \in Used'
          /\ \A j \in DOMAIN accepted' : accepted'[j] = accepted'[k] => j = k
    BY <1>1, <1>4, <1>5, HandedOver
  <1> QED
    BY <1>1, <1>2, <1>8, <1>9 DEF FreshInv

LEMMA ToolDoneIsFresh ==
  ASSUME ConversationTypeOK, FreshInv, Used \subseteq Used', NEW n \in 1..MaxTools, ToolDone(n)
  PROVE  FreshInv'
  <1> DEFINE t == <<"tool_result", EventId("tool_result", n)>>
  <1>1. EnqueueTurn(t) /\ UNCHANGED <<events, stt, speaking>>
    BY DEF ToolDone
  <1>2. t \in Turns /\ t[1] = "tool_result"
    BY EventTypesOf, ConversationAssumption, KeyTypes DEF Roles
  <1>3. t[1] \in ToolRoles
    BY <1>2 DEF ToolRoles
  <1> HIDE DEF t
  <1>4. ASSUME NEW d \in FreshEvents
        PROVE  Spoken(d) => TurnOf(d) # t
    BY <1>2, RoleFacts DEF Spoken, TurnOf
  <1>5. \A i \in DOMAIN events' : events'[i] \in FreshEvents'
    BY <1>1, <1>2, <1>3, <1>4, HandedOver DEF FreshInv
  <1>6. \A k \in DOMAIN accepted' : accepted'[k][1] \notin ToolRoles =>
          /\ accepted'[k] \in Used'
          /\ \A j \in DOMAIN accepted' : accepted'[j] = accepted'[k] => j = k
    BY <1>1, <1>2, <1>3, HandedOver
  <1> QED
    BY <1>1, <1>5, <1>6 DEF FreshInv

\* The role of what is emitted.
LEMMA SpokenRoles ==
  ASSUME NEW n \in Numbers
  PROVE  /\ RoleOf["FinalTranscript"] = "user" /\ "user" \notin ToolRoles
         /\ RoleOf["AssistantResponse"] = "assistant" /\ "assistant" \notin ToolRoles
         /\ ~ Spoken(Event("SpeechStarted", n)) /\ ~ Spoken(Event("AudioOut", n))
  BY EventTypesOf DEF RoleOf, ToolRoles, Spoken, EventTypes

LEMMA FreshInvIsKept ==
  ASSUME ConversationTypeOK, TurnInv, NumbersInv, FreshInv, [ConversationNext]_conversationVars
  PROVE  FreshInv'
  <1>1. Used \subseteq Used'
    BY UsedStays
  <1>2. stt' = "final" => ~ speaking'
    BY OutsideFrame, StepKinds
       DEF FreshInv, SttStep, SpeechStarts, EmitSpeechStarted, SpeechIsFinal,
           EmitFinalTranscript, SttEnds, TurnStep, ModelReplies, ModelAsksForTool, TurnEnds,
           EmitToolCall, ToolResultArrives, EmitResponse, EmitAudio, BargeIn, CloseSession,
           ListenAgain, ToolDone
  <1>3. CASE PersistEvent
    BY <1>1, <1>3, PersistIsFresh
  <1>4. ASSUME NEW n \in 1..MaxTools, ToolDone(n)
        PROVE  FreshInv'
    BY <1>1, <1>4, ToolDoneIsFresh
  <1>5. None \in FreshEvents'
    BY EventTypesOf, RoleFacts DEF FreshEvents, Spoken
  <1>6. ASSUME accepted' = accepted, Distinct(events'), Holds(events', None)
        PROVE  FreshInv'
    BY <1>1, <1>2, <1>5, <1>6, FreshWithout
  <1>7. CASE \/ SpeechStarts \/ SpeechIsFinal \/ ModelReplies \/ ModelAsksForTool \/ TurnEnds
             \/ ToolResultArrives \/ BargeIn \/ CloseSession
             \/ OutsideEngine /\ ~ PersistEvent
    <2>1. Distinct(events') /\ Holds(events', None)
      BY <1>7, QueueShrinks DEF FreshInv, Holds
    <2>2. accepted' = accepted
      BY <1>7, EngineFrame
         DEF SttStep, TurnStep, OutsideEngine, StartPumps, PlayAudio, AudioPlayed, EventsEnd,
             CancelPumps, FinishTurns, FinishLog, LogRuns, LogStep, StartWorker, WorkerStep,
             TakeTurn, TurnPersisted, PersistFails, BackoffElapses, ThreadStep, LockAndRead,
             CommitTurn, PersistRaises, FinishReturns, DrainTimesOut, DeleteTurns, turnLogVars,
             conversationVars
    <2> QED
      BY <1>6, <2>1, <2>2
  <1>8. CASE SttEnds
    <2>1. Holds(events', None) /\ Distinct(events')
      BY <1>8, EmitFacts, EventTypesOf, RoleFacts
         DEF ConversationTypeOK, SttEnds, PutSentinel, FreshInv, Spoken
    <2>2. accepted' = accepted
      BY <1>8, EngineFrame DEF SttStep, turnLogVars
    <2> QED
      BY <1>6, <2>1, <2>2
  <1>9. CASE \/ EmitSpeechStarted \/ EmitFinalTranscript \/ EmitToolCall \/ EmitResponse
             \/ EmitAudio
    <2>1. accepted' = accepted
      BY <1>9, EngineFrame DEF SttStep, TurnStep, turnLogVars
    <2>2. /\ heard \in Numbers /\ tools \in Numbers /\ replies \in Numbers
          /\ heard \in Int /\ tools \in Int /\ replies \in Int
      BY EventTypesOf DEF ConversationTypeOK
    <2>3. CASE EmitFinalTranscript
      <3>1. <<"user", heard>> \in Used' \ Used
        BY <2>2, <2>3 DEF EmitFinalTranscript, Used, FreshInv
      <3> QED
        BY <1>1, <1>2, <2>1, <2>2, <2>3, <3>1, EmitIsFresh, SpokenRoles
           DEF EmitFinalTranscript, EventTypes
    <2>4. CASE EmitToolCall
      <3>1. /\ Emit(Event("ToolCallRequested", tools)) /\ "ToolCallRequested" \in EventTypes
            /\ ~ Spoken(Event("ToolCallRequested", tools))
        BY <2>2, <2>4, EventTypesOf DEF EmitToolCall, EventTypes, Spoken
      <3> QED
        BY <1>1, <1>2, <2>1, <2>2, <3>1, EmitIsFresh
    <2>5. CASE EmitResponse
      <3>1. <<"assistant", replies>> \in Used' \ Used
        BY <2>2, <2>5 DEF EmitResponse, Used
      <3> QED
        BY <1>1, <1>2, <2>1, <2>2, <2>5, <3>1, EmitIsFresh, SpokenRoles
           DEF EmitResponse, EventTypes
    <2>6. CASE EmitSpeechStarted \/ EmitAudio
      BY <1>1, <1>2, <2>1, <2>2, <2>6, EmitIsFresh, SpokenRoles
         DEF EmitSpeechStarted, EmitAudio, EventTypes
    <2> QED
      BY <1>9, <2>3, <2>4, <2>5, <2>6
  <1> QED
    BY <1>3, <1>4, <1>7, <1>8, <1>9, StepKinds DEF SttStep, TurnStep

-----------------------------------------------------------------------------
(* Conversation: the theorems                                              *)

ConversationInv ==
  /\ ConversationTypeOK /\ HandInv /\ FreshInv
  /\ TurnInv /\ NumbersInv /\ AwaitInv /\ SentinelIsNotLost

LEMMA ConversationInvInitially ==
  ConversationInit => ConversationInv
  <1> SUFFICES ASSUME ConversationInit
               PROVE  ConversationInv
    OBVIOUS
  <1> USE DEF ConversationInit
  <1> DEFINE e == Event("SystemPromptSet", 0)
  <1>1. e \in Events /\ e.type = "SystemPromptSet" /\ e.n = 0 /\ 0 \in Numbers
    BY EventTypesOf DEF EventTypes
  <1>2. TurnLogTypeOK /\ HandInv /\ accepted = <<>>
    BY TurnLogInitType DEF TurnLogInit, HandInv, NoThread
  <1> HIDE DEF e
  <1>3. events = <<e>>
    BY DEF e
  <1>4. ConversationTypeOK
    <2>1. events \in Seq(Events) /\ Len(events) <= EventsSize
      BY <1>1, <1>3, ConversationAssumption
    <2>2. future \in [1..MaxTools -> {"none", "waiting", "set", "cancelled"}]
      OBVIOUS
    <2>3. heard \in 0..MaxUtterances /\ replies \in 0..MaxReplies /\ tools \in 0..MaxTools
      BY ConversationAssumption
    <2>4. messages \in Seq({"user", "calls", "tool", "assistant"} \X Numbers)
      OBVIOUS
    <2> QED
      BY <1>2, <2>1, <2>2, <2>3, <2>4 DEF ConversationTypeOK
  <1>5. e \in FreshEvents
    BY <1>1, <1>2, RoleFacts DEF FreshEvents, Spoken, TurnOf, Used, Accepted
  <1>6. FreshInv
    BY <1>2, <1>3, <1>5 DEF FreshInv, Distinct
  <1>7. TurnInv /\ AwaitInv /\ SentinelIsNotLost
    <2>1. DOMAIN messages = {} /\ turn = "none" /\ stt = "listening"
      OBVIOUS
    <2> QED
      BY <2>1 DEF TurnInv, AwaitInv, UnansweredCallIsExcused, SentinelIsNotLost
  <1>8. NumbersInv
    BY <1>1, <1>3 DEF NumbersInv, IsEvent
  <1> QED
    BY <1>2, <1>4, <1>6, <1>7, <1>8 DEF ConversationInv

LEMMA ConversationInvIsInductive ==
  ASSUME ConversationInv, [ConversationNext]_conversationVars
  PROVE  ConversationInv'
  <1> USE DEF ConversationInv
  <1>1. TurnLogTypeOK' /\ HandInv'
    BY LogRefined, LogStepKeepsTypes DEF ConversationTypeOK
  <1>2. ConversationTypeOK'
    BY <1>1, SttTypes, TurnTypes, RestTypes, StepKinds
  <1> QED
    BY <1>1, <1>2, FreshInvIsKept, TurnInvIsKept, NumbersInvIsKept, AwaitInvIsKept,
       SentinelIsKept

LEMMA ConversationInvHolds ==
  ConversationSpec => []ConversationInv
  <1>1. ConversationInit => ConversationInv
    BY ConversationInvInitially
  <1>2. ConversationInv /\ [ConversationNext]_conversationVars => ConversationInv'
    BY ConversationInvIsInductive
  <1> QED
    BY <1>1, <1>2, PTL DEF ConversationSpec

\* Type correctness.
THEOREM ConversationTypeCorrect ==
  ConversationSpec => []ConversationTypeOK
  <1>1. ConversationInv => ConversationTypeOK
    BY DEF ConversationInv
  <1> QED
    BY <1>1, ConversationInvHolds, PTL

\* UnansweredCallIsExcused: _turn appends the result of a tool behind its request, and only
\* an interruption or the end of the session leaves a request without one.
THEOREM UnansweredCallIsExcusedHolds ==
  ConversationSpec => []UnansweredCallIsExcused
  <1>1. ConversationInv => UnansweredCallIsExcused
    BY DEF ConversationInv, AwaitInv
  <1> QED
    BY <1>1, ConversationInvHolds, PTL

\* SentinelIsNotLost: _force_put_nowait drops an event for the None that ends events(), and
\* nothing drops the None.
THEOREM SentinelIsNotLostHolds ==
  ConversationSpec => []SentinelIsNotLost
  <1>1. ConversationInv => SentinelIsNotLost
    BY DEF ConversationInv
  <1> QED
    BY <1>1, ConversationInvHolds, PTL

\* CutIsStale: as _consume_stt does not listen while it awaits a turn, no speech that began
\* after the utterance a turn answers can interrupt the turn.
THEOREM CutIsStaleHolds ==
  ConversationSpec => []CutIsStale
  <1>1. ConversationInv => CutIsStale
    BY DEF ConversationInv, NumbersInv, CutIsStale
  <1> QED
    BY <1>1, ConversationInvHolds, PTL

\* Whatever the pumps and the executions hand over, the conversation drives its log by the
\* steps TurnLog allows: finish() comes once, and the queue is entered by enqueue() only.
THEOREM ConversationImplementsTurnLog ==
  ConversationSpec => TurnLogSpec
  <1>1. ConversationInit => TurnLogInit
    BY DEF ConversationInit
  <1>2. ConversationInv /\ [ConversationNext]_conversationVars => [TurnLogNext]_turnLogVars
    BY LogRefined DEF ConversationInv
  <1> QED
    BY <1>1, <1>2, ConversationInvHolds, PTL DEF ConversationSpec, TurnLogSpec

\* The rows of a conversation keep its order, and a turn of it that is not stored, waiting
\* or counted as failed is one that came under the (event_id, role) of an earlier one.
THEOREM ConversationLogIsSound ==
  ConversationSpec => [](LogKeepsOrder /\ EveryTurnIsAccountedFor)
  BY ConversationImplementsTurnLog, LogKeepsOrderHolds, EveryTurnIsAccountedForHolds, PTL

\* SpokenTurnIsKept: whatever call_ids a model's adapter gives, persist_conversation_turn
\* takes nothing the caller or the agent said for a turn that it has stored.
THEOREM SpokenTurnIsKeptHolds ==
  ConversationSpec => []SpokenTurnIsKept
  <1>1. FreshInv /\ AccountInv => SpokenTurnIsKept
    <2> SUFFICES ASSUME FreshInv, AccountInv, worker.at # "cancelled",
                        NEW k \in DOMAIN accepted, accepted[k][1] \notin ToolRoles
                 PROVE  IsKept(k)
      BY DEF SpokenTurnIsKept
    <2>1. IsKept(k) \/ \E j \in stored : j < k /\ accepted[j] = accepted[k]
      BY DEF AccountInv, EveryTurnIsAccountedFor
    <2>2. ASSUME NEW j \in stored, j < k, accepted[j] = accepted[k]
          PROVE  FALSE
      <3>1. j \in DOMAIN accepted /\ j # k
        BY <2>2 DEF AccountInv, OrderInv, StoredInv, TurnLogTypeOK
      <3> QED
        BY <2>2, <3>1 DEF FreshInv
    <2> QED
      BY <2>1, <2>2
  <1> QED
    BY <1>1, ConversationInvHolds, ConversationImplementsTurnLog, AccountInvHolds, PTL
       DEF ConversationInv

-----------------------------------------------------------------------------
(* ModelStream: from a streamed response to the call it asked for           *)

\* The calls of a response are begun one after the other, and what was assembled of them is
\* what was sent, as long as no line of it was garbled.
AssembledInv ==
  /\ \A n \in Calls : sent[n] # {} => Begun(n)
  /\ reply \in lossy \/ pending = sent

\* Nothing is known of the replies to come, and a reply has no fate and no call while it is
\* streamed.  When it has ended it may have been clipped.
PastRepliesInv ==
  /\ at \in {"streaming", "ended", "tool"} => reply > 0
  /\ \A r \in lossy \cup clipped \cup broken \cup left : r <= reply
  /\ \A c \in made : c.reply <= reply
  /\ at = "streaming" => reply \notin clipped
  /\ at \in {"streaming", "ended"} =>
       reply \notin broken \cup left /\ \A c \in made : c.reply # reply
  /\ at = "tool" => reply \notin broken
  /\ at = "ended" => reply \in clipped \/ \A n \in Calls : sent[n] \in {{}, Pieces}

StreamInv ==
  StreamTypeOK /\ AssembledInv /\ PastRepliesInv /\ CallIsAsAsked /\ AskedCallIsMade

\* A step that makes no call and breaks no reply that made one keeps CallIsAsAsked.
LEMMA NoCallMade ==
  ASSUME CallIsAsAsked, made' = made, lossy \subseteq lossy', clipped \subseteq clipped',
         NEW r, broken' \subseteq broken \cup {r}, \A c \in made : c.reply # r
  PROVE  CallIsAsAsked'
  BY DEF CallIsAsAsked

\* All that was sent of a response is there when it ended whole: every call in it can be
\* parsed, and is taken for what the model sent.
LEMMA WholeReply ==
  ASSUME StreamInv, at = "ended", reply \notin lossy \cup clipped, NEW n \in Calls
  PROVE  /\ pending[n] = sent[n] /\ pending[n] \in {{}, Pieces}
         /\ pending[n] # {} => Parsed(n) = {"whole"} /\ 0 \in pending[n]
  <1>1. pending[n] = sent[n] /\ pending[n] \in {{}, Pieces}
    BY DEF StreamInv, AssembledInv, PastRepliesInv
  <1>2. 0 \in Pieces /\ 1 \in Arguments /\ Arguments \subseteq Pieces
    BY ModelStreamAssumption DEF Pieces, Arguments
  <1>3. pending[n] = Pieces => pending[n] \cap Arguments = Arguments /\ Arguments # {}
    BY <1>2
  <1> QED
    BY <1>1, <1>2, <1>3 DEF Parsed

\* The requests: a turn starts, or goes on with the next reply.
LEMMA RequestKeeps ==
  ASSUME StreamInv, CallerSpeaks \/ Ask \/ ToolAnswers
  PROVE  StreamInv'
<1> USE ModelStreamAssumption DEF StreamInv
<1>1. CASE CallerSpeaks \/ ToolAnswers
  <2>1. /\ at' = "asking" /\ error' \in Errors
        /\ UNCHANGED <<vendor, reply, response, idle, fates, made>>
    BY <1>1 DEF CallerSpeaks, ToolAnswers, Errors, StreamTypeOK
  <2>2. StreamTypeOK'
    BY <2>1 DEF StreamTypeOK, response, fates
  <2>3. AssembledInv' /\ PastRepliesInv'
    BY <2>1 DEF AssembledInv, PastRepliesInv, Begun, response, fates
  <2>4. CallIsAsAsked' /\ AskedCallIsMade'
    BY <2>1 DEF CallIsAsAsked, AskedCallIsMade, fates
  <2> QED
    BY <2>2, <2>3, <2>4
<1>2. CASE Ask
  <2>1. /\ reply' = reply + 1 /\ reply' \in 1..MaxResponses /\ reply \in Nat
        /\ sent' = NoPieces /\ pending' = NoPieces /\ text' = FALSE /\ idle' = 0
        /\ UNCHANGED <<vendor, losses, lossy, clipped, left, made>>
        /\ \/ at' = "streaming" /\ UNCHANGED <<error, broken>>
           \/ at' = "over" /\ error' \in Errors /\ broken' = broken \cup {reply'}
    <3>1. \A status \in Statuses : StatusError(status) \in Errors
      BY DEF StatusError, Errors, Statuses
    <3> QED
      BY <1>2, <3>1 DEF Ask, Fails, StreamTypeOK
  <2>2. NoPieces \in [Calls -> SUBSET Pieces] /\ \A n \in Calls : NoPieces[n] = {}
    BY DEF NoPieces
  <2>3. StreamTypeOK'
    <3>1. sent' \in [Calls -> SUBSET Pieces] /\ pending' \in [Calls -> SUBSET Pieces]
      BY <2>1, <2>2
    <3>2. at' \in {"streaming", "over"} /\ error' \in Errors /\ broken' \subseteq 1..MaxResponses
      BY <2>1 DEF StreamTypeOK
    <3>3. reply' \in 0..MaxResponses
      BY <2>1
    <3>4. idle' \in 0..IdleLimit
      BY <2>1
    <3>5. text' \in BOOLEAN
      BY <2>1, Zenon
    <3> QED
      BY <2>1, <3>1, <3>2, <3>3, <3>4, <3>5 DEF StreamTypeOK
  <2>4. AssembledInv'
    BY <2>1, <2>2 DEF AssembledInv
  <2>5. /\ \A r \in lossy \cup clipped \cup broken \cup left : r \in Nat /\ r <= reply
        /\ \A c \in made : c.reply \in Nat /\ c.reply <= reply
    BY DEF PastRepliesInv, StreamTypeOK
  <2>6. PastRepliesInv'
    BY <2>1, <2>5 DEF PastRepliesInv
  <2>7. CallIsAsAsked'
    <3>1. broken' \subseteq broken \cup {reply'} /\ \A c \in made : c.reply # reply'
      BY <2>1, <2>5
    <3>2. made' = made /\ lossy' = lossy /\ clipped' = clipped
      BY <2>1
    <3> QED
      BY <3>1, <3>2 DEF CallIsAsAsked
  <2>8. AskedCallIsMade'
    BY <2>1 DEF AskedCallIsMade
  <2> QED
    BY <2>3, <2>4, <2>6, <2>7, <2>8
<1> QED
  BY <1>1, <1>2

\* The lines of the response, and what ends it.
LEMMA LineKeeps ==
  ASSUME StreamInv, \E n \in Calls : CallLine(n)
  PROVE  StreamInv'
<1> USE DEF StreamInv
<1>0. PICK n \in Calls : CallLine(n)
  OBVIOUS
<1> DEFINE next == NextPieces(n)
<1>1. /\ at = "streaming" /\ Begun(n) /\ next # {}
      /\ sent' = [sent EXCEPT ![n] = @ \cup next]
      /\ UNCHANGED <<vendor, at, reply, text, idle, error, clipped, broken, left, made>>
      /\ \/ pending' = [pending EXCEPT ![n] = @ \cup next] /\ UNCHANGED <<losses, lossy>>
         \/ /\ losses < MaxLosses /\ losses' = losses + 1
            /\ lossy' = lossy \cup {reply} /\ UNCHANGED pending
  BY <1>0 DEF CallLine, Assembled, Garbled
<1>2. next \subseteq Pieces
  BY DEF NextPieces
<1> HIDE DEF next
<1>3. reply \in 1..MaxResponses /\ sent \in [Calls -> SUBSET Pieces]
  BY <1>1 DEF PastRepliesInv, StreamTypeOK
<1>4. StreamTypeOK'
  <2>1. sent' \in [Calls -> SUBSET Pieces]
    BY <1>1, <1>2, <1>3
  <2>2. pending' \in [Calls -> SUBSET Pieces]
    BY <1>1, <1>2 DEF StreamTypeOK
  <2>3. losses' \in 0..MaxLosses
    BY <1>1, ModelStreamAssumption DEF StreamTypeOK
  <2>4. lossy' \subseteq 1..MaxResponses
    BY <1>1, <1>3 DEF StreamTypeOK
  <2> QED
    BY <1>1, <2>1, <2>2, <2>3, <2>4 DEF StreamTypeOK
<1>5. AssembledInv'
  <2>1. \A m \in Calls : sent[m] \subseteq sent'[m] /\ (m # n => sent'[m] = sent[m])
    BY <1>1, <1>3
  <2>2. \A m \in Calls : sent'[m] # {} => Begun(m)
    BY <1>1, <2>1 DEF AssembledInv
  <2>3. \A m \in Calls : sent'[m] # {} => Begun(m)'
    BY <2>1, <2>2 DEF Begun
  <2>4. reply' \in lossy' \/ pending' = sent'
    BY <1>1 DEF AssembledInv
  <2> QED
    BY <2>3, <2>4 DEF AssembledInv
<1>6. PastRepliesInv'
  BY <1>1, <1>3 DEF PastRepliesInv
<1>7. CallIsAsAsked'
  BY <1>1 DEF CallIsAsAsked
<1>8. AskedCallIsMade'
  BY <1>1 DEF AskedCallIsMade
<1> QED
  BY <1>4, <1>5, <1>6, <1>7, <1>8

LEMMA StreamingKeeps ==
  ASSUME StreamInv, Text \/ TimePasses \/ IdleTimeout \/ TransportFails \/ ResponseEnds
  PROVE  StreamInv'
<1> USE DEF StreamInv
<1>0. at = "streaming" /\ reply \in 1..MaxResponses
  BY DEF Text, TimePasses, IdleTimeout, TransportFails, ResponseEnds, PastRepliesInv,
         StreamTypeOK
<1>1. CASE Text \/ TimePasses
  <2>1. /\ text' \in BOOLEAN /\ idle' \in 0..IdleLimit
        /\ UNCHANGED <<vendor, at, reply, sent, pending, error, fates, made>>
    <3>1. CASE Text
      BY <3>1, ModelStreamAssumption DEF Text, StreamTypeOK
    <3>2. CASE TimePasses
      <4>1. text' = text /\ idle' = idle + 1 /\ idle < IdleLimit /\ idle \in 0..IdleLimit
        BY <3>2 DEF TimePasses, StreamTypeOK, response
      <4>2. idle' \in 0..IdleLimit
        BY <4>1, ModelStreamAssumption
      <4>3. text' \in BOOLEAN
        BY <4>1 DEF StreamTypeOK
      <4> QED
        BY <3>2, <4>2, <4>3 DEF TimePasses, response
    <3> QED
      BY <1>1, <3>1, <3>2
  <2>2. StreamTypeOK'
    BY <2>1 DEF StreamTypeOK, fates
  <2>3. AssembledInv' /\ PastRepliesInv'
    BY <2>1 DEF AssembledInv, PastRepliesInv, Begun, fates
  <2>4. CallIsAsAsked' /\ AskedCallIsMade'
    BY <2>1 DEF CallIsAsAsked, AskedCallIsMade, fates
  <2> QED
    BY <2>2, <2>3, <2>4
<1>2. CASE IdleTimeout \/ TransportFails
  <2>1. /\ at' = "over" /\ error' = "transient" /\ broken' = broken \cup {reply}
        /\ UNCHANGED <<vendor, reply, response, idle, losses, lossy, clipped, left, made>>
    BY <1>2 DEF IdleTimeout, TransportFails, Fails
  <2>2. StreamTypeOK'
    BY <1>0, <2>1 DEF StreamTypeOK, response, Errors
  <2>3. AssembledInv'
    BY <2>1 DEF AssembledInv, Begun, response
  <2>4. PastRepliesInv'
    BY <1>0, <2>1 DEF PastRepliesInv
  <2>5. CallIsAsAsked'
    BY <1>0, <2>1, NoCallMade DEF PastRepliesInv
  <2>6. AskedCallIsMade'
    BY <2>1 DEF AskedCallIsMade
  <2> QED
    BY <2>2, <2>3, <2>4, <2>5, <2>6
<1>3. CASE ResponseEnds
  <2>1. /\ at' = "ended" /\ clipped \subseteq clipped' /\ clipped' \subseteq clipped \cup {reply}
        /\ reply \in clipped' \/ \A n \in Calls : sent[n] \in {{}, Pieces}
        /\ UNCHANGED <<vendor, reply, response, idle, error, losses, lossy, broken, left, made>>
    BY <1>3 DEF ResponseEnds
  <2>2. StreamTypeOK'
    BY <1>0, <2>1 DEF StreamTypeOK, response
  <2>3. AssembledInv'
    BY <2>1 DEF AssembledInv, Begun, response
  <2>4. PastRepliesInv'
    BY <1>0, <2>1 DEF PastRepliesInv, response
  <2>5. CallIsAsAsked'
    BY <2>1 DEF CallIsAsAsked
  <2>6. AskedCallIsMade'
    BY <2>1 DEF AskedCallIsMade
  <2> QED
    BY <2>2, <2>3, <2>4, <2>5, <2>6
<1> QED
  BY <1>1, <1>2, <1>3

\* The turn takes the first call it can parse, which is the first of the response if that
\* came whole.
LEMMA TakeCallKeeps ==
  ASSUME StreamInv, NEW n \in Calls, TakeCall(n)
  PROVE  StreamInv'
<1> USE DEF StreamInv
<1>1. PICK parsed \in Parsed(n) \ {"malformed"} :
        made' = made \cup {[reply |-> reply, call |-> n, named |-> 0 \in pending[n],
                            arguments |-> parsed]}
  BY DEF TakeCall
<1> DEFINE new == [reply |-> reply, call |-> n, named |-> 0 \in pending[n],
                   arguments |-> parsed]
<1>2. /\ at = "ended" /\ at' = "tool" /\ pending[n] # {} /\ NoneBefore(n)
      /\ UNCHANGED <<vendor, reply, response, idle, error, fates>>
  BY DEF TakeCall
<1>3. reply \in 1..MaxResponses
  BY <1>2 DEF PastRepliesInv, StreamTypeOK
<1>4. parsed \in {"whole", "empty", "other"}
  BY DEF Parsed
<1>5. StreamTypeOK'
  <2>1. (0 \in pending[n]) \in BOOLEAN
    OBVIOUS
  <2>2. new \in [reply : 1..MaxResponses, call : Calls, named : BOOLEAN,
                arguments : {"whole", "empty", "other"}]
    BY <1>3, <1>4, <2>1
  <2>3. made' = made \cup {new}
    BY <1>1
  <2> HIDE DEF new
  <2>4. made' \subseteq [reply : 1..MaxResponses, call : Calls, named : BOOLEAN,
                        arguments : {"whole", "empty", "other"}]
    BY <2>2, <2>3 DEF StreamTypeOK
  <2> QED
    BY <1>2, <2>4 DEF StreamTypeOK, response, fates
<1>6. AssembledInv'
  BY <1>2 DEF AssembledInv, Begun, response, fates
<1>7. PastRepliesInv'
  BY <1>1, <1>2, <1>3 DEF PastRepliesInv, fates
<1>8. reply \notin lossy \cup clipped => new.named /\ new.arguments = "whole"
  BY <1>2, WholeReply
<1>9. CallIsAsAsked'
  <2>1. new.reply \notin broken
    BY <1>2 DEF PastRepliesInv
  <2>2. \/ new.named /\ new.arguments = "whole"
        \/ new.reply \in lossy \cup clipped
    BY <1>8
  <2>3. made' = made \cup {new}
    BY <1>1
  <2> HIDE DEF new
  <2> QED
    BY <1>2, <2>1, <2>2, <2>3 DEF CallIsAsAsked, fates
<1>10. reply \notin lossy \cup clipped => n = 1
  <2> SUFFICES ASSUME reply \notin lossy \cup clipped, n # 1 PROVE FALSE
    OBVIOUS
  <2>1. 1 \in Calls /\ 1 < n
    BY ModelStreamAssumption DEF Calls
  <2>2. sent[n] # {}
    BY <1>2, WholeReply
  <2>3. sent[1] # {}
    BY <2>1, <2>2 DEF AssembledInv, Begun
  <2>4. Parsed(1) = {"whole"} /\ pending[1] # {}
    BY <1>2, <2>1, <2>3, WholeReply
  <2> QED
    BY <1>2, <2>1, <2>4 DEF NoneBefore
<1>11. AskedCallIsMade'
  <2>1. new \in made' /\ new.reply = reply /\ new.call = n
    BY <1>1
  <2> HIDE DEF new
  <2> QED
    BY <1>2, <1>10, <2>1 DEF AskedCallIsMade, fates
<1> QED
  BY <1>5, <1>6, <1>7, <1>9, <1>11

\* It takes a response for an answer if it holds no such call, and may be cut off anywhere.
LEMMA AnswerKeeps ==
  ASSUME StreamInv, Answer \/ Interrupt
  PROVE  StreamInv'
<1> USE DEF StreamInv
<1>1. CASE Answer
  <2>1. /\ at = "ended" /\ NoCall /\ at' = "over"
        /\ UNCHANGED <<vendor, reply, response, idle, error, fates, made>>
    BY <1>1 DEF Answer
  <2>2. StreamTypeOK'
    BY <2>1 DEF StreamTypeOK, response, fates
  <2>3. AssembledInv' /\ PastRepliesInv'
    BY <2>1 DEF AssembledInv, PastRepliesInv, Begun, response, fates
  <2>4. CallIsAsAsked'
    BY <2>1 DEF CallIsAsAsked, fates
  <2>5. reply \notin lossy \cup clipped => \A n \in Calls : sent[n] = {}
    <3> SUFFICES ASSUME reply \notin lossy \cup clipped, NEW n \in Calls, sent[n] # {}
                 PROVE  FALSE
      OBVIOUS
    <3>1. pending[n] # {} /\ Parsed(n) = {"whole"}
      BY <2>1, WholeReply
    <3> QED
      BY <2>1, <3>1 DEF NoCall
  <2>6. AskedCallIsMade'
    BY <2>1, <2>5 DEF AskedCallIsMade, response, fates
  <2> QED
    BY <2>2, <2>3, <2>4, <2>6
<1>2. CASE Interrupt
  <2>1. /\ at' = "over" /\ left' = left \cup {reply'} /\ reply' \in 1..MaxResponses
        /\ reply <= reply' /\ reply \in Nat
        /\ UNCHANGED <<vendor, idle, error, losses, lossy, clipped, broken, made>>
    BY <1>2, ModelStreamAssumption DEF Interrupt, PastRepliesInv, StreamTypeOK
  <2>2. \/ reply' = reply + 1 /\ sent' = NoPieces /\ pending' = NoPieces /\ text' = FALSE
        \/ UNCHANGED <<reply, response>>
    BY <1>2 DEF Interrupt
  <2>3. NoPieces \in [Calls -> SUBSET Pieces] /\ \A n \in Calls : NoPieces[n] = {}
    BY DEF NoPieces
  <2>4. StreamTypeOK'
    <3>1. /\ sent' \in [Calls -> SUBSET Pieces] /\ pending' \in [Calls -> SUBSET Pieces]
          /\ text' \in BOOLEAN
      BY <2>2, <2>3 DEF StreamTypeOK, response
    <3>2. left' \subseteq 1..MaxResponses
      BY <2>1 DEF StreamTypeOK
    <3>3. reply' \in 0..MaxResponses
      BY <2>1, ModelStreamAssumption
    <3> QED
      BY <2>1, <3>1, <3>2, <3>3 DEF StreamTypeOK
  <2>5. AssembledInv'
    BY <2>1, <2>2, <2>3 DEF AssembledInv, Begun, response
  <2>6. /\ \A r \in lossy \cup clipped \cup broken \cup left : r \in Nat /\ r <= reply
        /\ \A c \in made : c.reply \in Nat /\ c.reply <= reply
    BY DEF PastRepliesInv, StreamTypeOK
  <2>7. PastRepliesInv'
    BY <2>1, <2>6 DEF PastRepliesInv
  <2>8. CallIsAsAsked' /\ AskedCallIsMade'
    BY <2>1 DEF CallIsAsAsked, AskedCallIsMade
  <2> QED
    BY <2>4, <2>5, <2>7, <2>8
<1> QED
  BY <1>1, <1>2

LEMMA StreamInvInitially == StreamInit => StreamInv
<1> SUFFICES ASSUME StreamInit PROVE StreamInv
  OBVIOUS
<1> USE DEF StreamInit
<1>1. NoPieces \in [Calls -> SUBSET Pieces] /\ \A n \in Calls : NoPieces[n] = {}
  BY DEF NoPieces
<1>2. StreamTypeOK
  <2>1. sent \in [Calls -> SUBSET Pieces] /\ pending \in [Calls -> SUBSET Pieces]
    BY <1>1
  <2>2. text \in BOOLEAN
    BY Zenon
  <2>3. reply \in 0..MaxResponses /\ idle \in 0..IdleLimit /\ losses \in 0..MaxLosses
    BY ModelStreamAssumption
  <2>4. error \in Errors
    BY DEF Errors
  <2> QED
    BY <2>1, <2>2, <2>3, <2>4 DEF StreamTypeOK
<1>3. AssembledInv
  BY <1>1 DEF AssembledInv
<1>4. PastRepliesInv
  BY DEF PastRepliesInv
<1>5. CallIsAsAsked /\ AskedCallIsMade
  BY <1>1 DEF CallIsAsAsked, AskedCallIsMade
<1> QED
  BY <1>2, <1>3, <1>4, <1>5 DEF StreamInv

THEOREM StreamInvHolds == StreamSpec => []StreamInv
<1>1. StreamInv /\ [StreamNext]_streamVars => StreamInv'
  <2>1. StreamInv /\ UNCHANGED streamVars => StreamInv'
    BY DEF streamVars, StreamInv, StreamTypeOK, AssembledInv, Begun, PastRepliesInv,
           CallIsAsAsked, AskedCallIsMade
  <2> QED
    BY <2>1, RequestKeeps, LineKeeps, StreamingKeeps, TakeCallKeeps, AnswerKeeps
       DEF StreamNext
<1> QED
  BY <1>1, StreamInvInitially, PTL DEF StreamSpec

\* The adapters keep the types of what they assemble, whatever a model sends.
THEOREM StreamTypeCorrect == StreamSpec => []StreamTypeOK
<1>1. StreamInv => StreamTypeOK
  BY DEF StreamInv
<1> QED
  BY <1>1, StreamInvHolds, PTL

\* _openai_compatible.py and gemini.py, stream_turn: for any number of calls, fragments and
\* lost lines, a call is what the model asked for, or its reply was garbled or clipped.
THEOREM CallIsAsAskedHolds == StreamSpec => []CallIsAsAsked
<1>1. StreamInv => CallIsAsAsked
  BY DEF StreamInv
<1> QED
  BY <1>1, StreamInvHolds, PTL

\* pipelined.py, _turn: the first call of a reply that came whole is made.
THEOREM AskedCallIsMadeHolds == StreamSpec => []AskedCallIsMade
<1>1. StreamInv => AskedCallIsMade
  BY DEF StreamInv
<1> QED
  BY <1>1, StreamInvHolds, PTL
===============================================================================
